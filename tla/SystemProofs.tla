---------------------------- MODULE SystemProofs ----------------------------
(***************************************************************************)
(* The whole system implements Moderator, Anchor and Client, and what no   *)
(* role promises alone: what a Client holds is good, and how often a user  *)
(* is served is bounded by the grants.                                     *)
(*                                                                         *)
(* A step of the Moderator in Mole takes a request that some Client sent;  *)
(* Moderator allows the requests of holders only: redemptions of granted   *)
(* endorsements, presentations of released credentials.  So the invariant  *)
(* (IndInv) is about what is sent, and follows it back to where it comes   *)
(* from: the Clients' wallets hold released credentials only, their stores *)
(* granted endorsements only, and a fetch knows challenges and keys that   *)
(* some Moderator process had.  The generation of a credential is bounded  *)
(* by the fetches its Client has begun, each of which presents once.       *)
(*                                                                         *)
(* From there the argument goes round the triangle once.  Grants           *)
(* (GrantInv): what Clients send the Anchor is what Anchor allows, so its  *)
(* signatures are for first exchanges of its users, and an endorsement     *)
(* stored or redeemed was signed for its Client's user.  Clients           *)
(* (ClientNext): the answers they get are ones Client allows, so nothing   *)
(* is shown twice.  Spends (SpendInv): what the Moderator has seen was     *)
(* sent, and what it released goes back, presentation by presentation, to  *)
(* a signed endorsement.  The theorems combine the three with the          *)
(* invariants that AnchorProofs, ClientProofs and ModeratorProofs give,    *)
(* taken over through instances.  OnceInv adds what one grant needs: a     *)
(* first exchange may be answered twice, but only one of the sessions can  *)
(* still be completed.                                                     *)
(*                                                                         *)
(* The last part is about the first process of either server only, on a    *)
(* network that loses nothing (TimelyInv): whatever a Client sends is      *)
(* answered, and it understands the answer, so it fails only for want of   *)
(* credits, and then has none of them left.                                *)
(***************************************************************************)
EXTENDS Mole, NaturalLemmas, TLAPS

\* What an Anchor grants and what a Moderator releases.

Endorsement == [nf : Roots, key : 1 .. MaxAnchorRuns, epoch : Contexts]

Token ==
    [key : Runs, ctx : {RequestContext(cfg.policy, cfg.epoch) : cfg \in Configs},
     root : Roots, pre : {C!PreIssuance}, gen : Nat, bal : Int]

ChallengeSet == {ChallengeOf(cfg) : cfg \in Configs}

----------------------------------------------------------------------------
(* The servers' part of the invariant.                                     *)

\* What a process releases carries the context of its configuration.
ReleasedOK ==
    /\ released \subseteq Token
    /\ \A t \in released : t.key <= run
    /\ \A t \in released :
           t.key = run => t.ctx = RequestContext(config.policy, config.epoch)
    /\ \A t, u \in released : t.key = u.key => t.ctx = u.ctx

\* A handler between its check and its lock has checked against the process
\* that is still up.
TaskOK(w) ==
    /\ task[w].op = "redeem" => task[w].e \in Endorsement /\ task[w].pre = C!PreIssuance
    /\ task[w].op = "present" =>
           /\ task[w].spend.token \in released
           /\ task[w].spend.token.key = run
           /\ task[w].spend.charge = config.charge /\ task[w].spend.topup = 0

ServersOK ==
    /\ run \in Runs /\ config \in Configs
    /\ anchorKey \in 1 .. MaxAnchorRuns /\ context \in Contexts
    /\ task = [w \in Workers |-> task[w]]
    /\ \A w \in Workers : TaskOK(w)
    /\ ReleasedOK

----------------------------------------------------------------------------
(* The Clients' part.                                                      *)

\* Phases from which this fetch may still present for the first time.
Early == {"challenge", "policy", "anchor", "signing", "proving", "redeeming"}

\* The wallet w of c, at a point where c may present from it.
WalletOK(c, w) == \A p \in DOMAIN w : w[p] \in released /\ w[p].gen < fetches[c]

\* A fetch in progress that has not presented yet leaves room for one more
\* generation than the stored credentials have.
StoreOK(c) ==
    /\ endorsements[c] \in Seq(Endorsement)
    /\ \A p \in DOMAIN credentials[c] :
           credentials[c][p] \in released /\ credentials[c][p].gen <= fetches[c]
    /\ fetch[c].phase \in Early => WalletOK(c, credentials[c])

\* A fetch draws at most one nullifier, and has begun if it is in progress.
CountsOK(c) ==
    /\ drawn[c] \in Nat /\ fetches[c] \in Nat
    /\ drawn[c] <= fetches[c] /\ fetches[c] <= MaxFetches
    /\ fetch[c].phase # "idle" => fetches[c] > 0
    /\ fetch[c].phase \in {"challenge", "policy", "anchor"} => drawn[c] < fetches[c]

\* What a fetch remembers came from some process of a server.
FetchOK(c) ==
    LET f == fetch[c] IN
    /\ f.phase \in {"policy", "anchor", "signing", "proving", "redeeming", "presenting"} =>
           f.chal \in ChallengeSet
    /\ f.phase \in {"anchor", "signing", "proving"} => f.dir.key \in 1 .. run
    /\ f.phase \in {"signing", "proving"} =>
           /\ f.adir.key \in 1 .. MaxAnchorRuns /\ f.adir.epoch \in Contexts
           /\ drawn[c] > 0
    /\ f.phase = "presenting" =>
           /\ f.request.spend.token \in released
           /\ f.request.spend.token.gen < fetches[c]
           /\ f.request.spend.charge \in Nat /\ f.request.spend.topup = 0

ClientOK(c) == CountsOK(c) /\ StoreOK(c) /\ FetchOK(c)

\* The Clients' variables are functions of the Clients.
MapsOK ==
    /\ endorsements = [c \in Clients |-> endorsements[c]]
    /\ credentials = [c \in Clients |-> credentials[c]]
    /\ fetch = [c \in Clients |-> fetch[c]]
    /\ drawn = [c \in Clients |-> drawn[c]]
    /\ fetches = [c \in Clients |-> fetches[c]]

----------------------------------------------------------------------------
(* What is on the network.                                                 *)

RedeemOK(m) ==
    \E e \in Endorsement, cfg \in Configs, r \in 1 .. run :
        m = RedeemRequest(e, Digest(ModeratorChallenge(cfg)), TruncatedKeyId(r),
                          C!PreIssuance, "plain")

PresentOK(m) ==
    \E t \in released, cfg \in Configs :
        /\ t.gen < MaxFetches /\ CanSpend(t, cfg.charge, 0)
        /\ m = PresentRequest(t, Digest(CredentialChallenge(cfg, 0)), cfg.charge, 0, "plain")

SentOK == \A m \in ToModerator : RedeemOK(m) \/ PresentOK(m)

IndInv == ServersOK /\ SentOK /\ MapsOK /\ \A c \in Clients : ClientOK(c)

\* The three components mean the same by what MoleTypes defines.
LEMMA SameTypes ==
    /\ M!Runs = Runs /\ C!Runs = Runs /\ M!Forms = Forms
    /\ \A r : M!TruncatedKeyId(r) = TruncatedKeyId(r) /\ C!TruncatedKeyId(r) = TruncatedKeyId(r)
    /\ \A x : M!Digest(x) = Digest(x) /\ C!Digest(x) = Digest(x)
    /\ \A x : /\ M!ModeratorChallenge(x) = ModeratorChallenge(x)
              /\ C!ModeratorChallenge(x) = ModeratorChallenge(x)
    /\ \A x, n : /\ M!CredentialChallenge(x, n) = CredentialChallenge(x, n)
                 /\ C!CredentialChallenge(x, n) = CredentialChallenge(x, n)
    /\ \A p, e : M!RequestContext(p, e) = RequestContext(p, e)
    /\ \A t, x, y : M!CanSpend(t, x, y) = CanSpend(t, x, y)
    /\ \A t, x, y : C!CanSpend(t, x, y) = CanSpend(t, x, y)
    /\ \A e, x, k, p, f : /\ M!RedeemRequest(e, x, k, p, f) = RedeemRequest(e, x, k, p, f)
                          /\ C!RedeemRequest(e, x, k, p, f) = RedeemRequest(e, x, k, p, f)
    /\ \A t, d, x, y, f : /\ M!PresentRequest(t, d, x, y, f) = PresentRequest(t, d, x, y, f)
                          /\ C!PresentRequest(t, d, x, y, f) = PresentRequest(t, d, x, y, f)
<1>1. M!Runs = Runs /\ C!Runs = Runs /\ M!Forms = Forms
  BY DEF M!Runs, C!Runs, Runs, M!Forms, Forms
<1>2. \A r : M!TruncatedKeyId(r) = TruncatedKeyId(r) /\ C!TruncatedKeyId(r) = TruncatedKeyId(r)
  BY DEF M!TruncatedKeyId, C!TruncatedKeyId, TruncatedKeyId
<1>3. \A x : M!Digest(x) = Digest(x) /\ C!Digest(x) = Digest(x)
  BY DEF M!Digest, C!Digest, Digest
<1>4. /\ \A x : /\ M!ModeratorChallenge(x) = ModeratorChallenge(x)
                /\ C!ModeratorChallenge(x) = ModeratorChallenge(x)
      /\ \A x, n : /\ M!CredentialChallenge(x, n) = CredentialChallenge(x, n)
                   /\ C!CredentialChallenge(x, n) = CredentialChallenge(x, n)
  BY DEF M!ModeratorChallenge, C!ModeratorChallenge, ModeratorChallenge,
         M!CredentialChallenge, C!CredentialChallenge, CredentialChallenge,
         M!IHAT, C!IHAT, IHAT, M!ACT, C!ACT, ACT
<1>5. \A p, e : M!RequestContext(p, e) = RequestContext(p, e)
  BY DEF M!RequestContext, RequestContext
<1>6. \A t, x, y : M!CanSpend(t, x, y) = CanSpend(t, x, y)
  BY DEF M!CanSpend, CanSpend
<1>7. \A t, x, y : C!CanSpend(t, x, y) = CanSpend(t, x, y)
  BY DEF C!CanSpend, CanSpend
<1>8. \A e, x, k, p, f : /\ M!RedeemRequest(e, x, k, p, f) = RedeemRequest(e, x, k, p, f)
                         /\ C!RedeemRequest(e, x, k, p, f) = RedeemRequest(e, x, k, p, f)
  BY DEF M!RedeemRequest, C!RedeemRequest, RedeemRequest
<1>9. \A t, d, x, y, f : /\ M!PresentRequest(t, d, x, y, f) = PresentRequest(t, d, x, y, f)
                         /\ C!PresentRequest(t, d, x, y, f) = PresentRequest(t, d, x, y, f)
  BY DEF M!PresentRequest, C!PresentRequest, PresentRequest
<1> QED
  BY <1>1, <1>2, <1>3, <1>4, <1>5, <1>6, <1>7, <1>8, <1>9

\* A request of a Client is one that Moderator expects of a holder.
LEMMA SentExpected == ASSUME SentOK, NEW m \in ToModerator PROVE m \in M!Requests
<1>1. ASSUME RedeemOK(m) PROVE m \in M!RedeemRequests
  <2>1. PICK e \in Endorsement, cfg \in Configs, r \in 1 .. run :
            m = RedeemRequest(e, Digest(ModeratorChallenge(cfg)), TruncatedKeyId(r),
                              C!PreIssuance, "plain")
    BY <1>1 DEF RedeemOK
  <2>2. m = M!RedeemRequest(e, M!Digest(M!ModeratorChallenge(cfg)), M!TruncatedKeyId(r),
                            C!PreIssuance, "plain")
    BY <2>1, SameTypes
  <2>3. "plain" \in M!Forms /\ e \in [nf : Roots, key : 1 .. MaxAnchorRuns, epoch : Contexts]
    BY DEF M!Forms, Endorsement
  <2> QED
    BY <2>2, <2>3 DEF M!RedeemRequests
<1>2. ASSUME PresentOK(m)
      PROVE  \E t \in released : t.gen < MaxFetches /\ m \in M!PresentRequests(t)
  <2>1. PICK t \in released, cfg \in Configs :
            /\ t.gen < MaxFetches /\ CanSpend(t, cfg.charge, 0)
            /\ m = PresentRequest(t, Digest(CredentialChallenge(cfg, 0)), cfg.charge, 0, "plain")
    BY <1>2 DEF PresentOK
  <2>2. /\ M!CanSpend(t, cfg.charge, 0)
        /\ m = M!PresentRequest(t, M!Digest(M!CredentialChallenge(cfg, 0)), cfg.charge, 0, "plain")
    BY <2>1, SameTypes
  <2>3. "plain" \in M!Forms
    BY DEF M!Forms
  <2>4. m \in M!PresentRequests(t)
    BY <2>2, <2>3 DEF M!PresentRequests
  <2> QED
    BY <2>1, <2>4
<1> QED
  BY <1>1, <1>2 DEF SentOK, M!Requests

----------------------------------------------------------------------------
(* Steps of the Moderator.                                                 *)

\* What every configuration has.
LEMMA ConfigFacts ==
    ASSUME NEW cfg \in Configs
    PROVE  /\ cfg.policy = Policy /\ cfg.epoch \in Contexts
           /\ cfg.initial \in Nat /\ cfg.charge \in Nat /\ cfg.refund \in Nat
BY MoleAssumption DEF Configs, StartedWith

\* A request that passes verification is of the key and amounts of now.
LEMMA VerifyKeeps ==
    ASSUME ServersOK, SentOK, NEW m \in ToModerator, NEW w \in Workers, M!Verify(w, m),
           UNCHANGED anchorVars
    PROVE  ServersOK'
<1>1. /\ task' = [task EXCEPT ![w] = m]
      /\ M!Valid(m)
      /\ UNCHANGED <<run, config, released, anchorKey, context>>
  BY DEF M!Verify, anchorVars
<1>2. ASSUME RedeemOK(m)
      PROVE  m.op = "redeem" /\ m.e \in Endorsement /\ m.pre = C!PreIssuance
  BY <1>2 DEF RedeemOK, RedeemRequest
<1>3. ASSUME PresentOK(m)
      PROVE  /\ m.op = "present" /\ m.spend.token \in released
             /\ m.spend.token.key = run
             /\ m.spend.charge = config.charge /\ m.spend.topup = 0
  BY <1>1, <1>3 DEF PresentOK, PresentRequest, M!Valid, M!PresentValid
<1>4. TaskOK(w)'
  BY <1>1, <1>2, <1>3 DEF SentOK, ServersOK, TaskOK
<1>5. \A v \in Workers \ {w} : TaskOK(v)'
  BY <1>1 DEF ServersOK, TaskOK
<1>6. ReleasedOK'
  BY <1>1 DEF ServersOK, ReleasedOK
<1> QED
  BY <1>1, <1>4, <1>5, <1>6 DEF ServersOK

\* What is issued and what replaces a spent credential carry the context of
\* the configuration.
LEMMA IssueKeeps ==
    ASSUME ServersOK, NEW w \in Workers, M!Issue(w), UNCHANGED anchorVars
    PROVE  ServersOK'
<1> DEFINE m == task[w]
<1>0. PICK t : t = M!Issued(m)
  OBVIOUS
<1>1. /\ m.op = "redeem"
      /\ released' = released \union {t}
      /\ task' = [task EXCEPT ![w] = M!NoTask]
      /\ UNCHANGED <<run, config, anchorKey, context>>
  BY <1>0 DEF M!Issue, anchorVars
<1>2. t \in Token /\ t.key = run /\ t.ctx = RequestContext(config.policy, config.epoch)
  <2>1. m.e.nf \in Roots /\ m.pre = C!PreIssuance /\ config.initial \in Nat
    BY <1>1, ConfigFacts DEF ServersOK, TaskOK, Endorsement
  <2> QED
    BY <1>0, <2>1 DEF M!Issued, M!Credential, M!RequestContext, RequestContext, Token, ServersOK
<1>3. \A v \in Workers : TaskOK(v)'
  BY <1>1 DEF ServersOK, TaskOK, M!NoTask
<1>4. ReleasedOK'
  BY <1>1, <1>2 DEF ServersOK, ReleasedOK, Runs
<1> QED
  BY <1>1, <1>3, <1>4 DEF ServersOK

\* A replacement keeps the key and the context of what was spent.
LEMMA ServeKeeps ==
    ASSUME ServersOK, NEW w \in Workers, M!Serve(w), UNCHANGED anchorVars
    PROVE  ServersOK'
<1> DEFINE m == task[w]
<1>0. PICK t, k : t = M!Refunded(m) /\ k = m.spend.token
  OBVIOUS
<1>1. /\ m.op = "present"
      /\ released' = released \union {t}
      /\ task' = [task EXCEPT ![w] = M!NoTask]
      /\ UNCHANGED <<run, config, anchorKey, context>>
  BY <1>0 DEF M!Serve, anchorVars
<1>2. /\ k \in released /\ k.key = run
      /\ m.spend.charge = config.charge /\ m.spend.topup = 0
      /\ config.charge \in Nat /\ config.refund \in Nat
  BY <1>0, <1>1, ConfigFacts DEF ServersOK, TaskOK
<1>3. k \in Token
  BY <1>2 DEF ServersOK, ReleasedOK
<1> DEFINE d == [k EXCEPT !.gen = k.gen + 1,
                          !.bal = k.bal - config.charge + 0 + config.refund]
<1>4. t = d
  BY <1>0, <1>2 DEF M!Refunded, M!Replacement
<1>5. k.gen + 1 \in Nat /\ k.bal - config.charge + 0 + config.refund \in Int
  BY <1>2, <1>3 DEF Token
<1>6. d \in Token
  BY <1>3, <1>5 DEF Token
<1>7. d.key = k.key /\ d.ctx = k.ctx
  BY <1>3 DEF Token
<1> HIDE DEF d
<1>8. t \in Token /\ t.key = run /\ t.ctx = RequestContext(config.policy, config.epoch)
  BY <1>2, <1>4, <1>6, <1>7 DEF ServersOK, ReleasedOK
<1>9. \A v \in Workers : TaskOK(v)'
  BY <1>1 DEF ServersOK, TaskOK, M!NoTask
<1>10. ReleasedOK'
  BY <1>1, <1>8 DEF ServersOK, ReleasedOK, Runs
<1> QED
  BY <1>1, <1>9, <1>10 DEF ServersOK

\* Losing the insert releases nothing.
LEMMA LoseKeeps ==
    ASSUME ServersOK, NEW w \in Workers, M!Lose(w), UNCHANGED anchorVars
    PROVE  ServersOK'
<1>1. /\ task' = [task EXCEPT ![w] = M!NoTask]
      /\ UNCHANGED <<run, config, released, anchorKey, context>>
  BY DEF M!Lose, anchorVars
<1>2. \A v \in Workers : TaskOK(v)'
  BY <1>1 DEF ServersOK, TaskOK, M!NoTask
<1> QED
  BY <1>1, <1>2 DEF ServersOK, ReleasedOK

\* A new process has a key under which nothing was released.
LEMMA RestartKeeps ==
    ASSUME ServersOK, NEW cfg \in Configs, M!Restart(cfg), UNCHANGED anchorVars
    PROVE  ServersOK'
<1>1. /\ run' = run + 1 /\ run < MaxRuns
      /\ config' = cfg
      /\ task' = [w \in Workers |-> M!NoTask]
      /\ UNCHANGED <<released, anchorKey, context>>
  BY DEF M!Restart, anchorVars
<1>2. \A v \in Workers : TaskOK(v)'
  BY <1>1 DEF TaskOK, M!NoTask
<1>3. run' \in Runs
  BY <1>1, KeyAssumption DEF ServersOK, Runs
<1>4. \A t \in released : t.key \in Nat /\ t.key <= run
  BY DEF ServersOK, ReleasedOK, Token, Runs
<1>5. ReleasedOK'
  BY <1>1, <1>4 DEF ServersOK, ReleasedOK, Runs
<1> QED
  BY <1>1, <1>2, <1>3, <1>5 DEF ServersOK

----------------------------------------------------------------------------
(* Frames.                                                                 *)

\* What was released stays released and keys only grow.
Newer == released \subseteq released' /\ run <= run' /\ run \in Int /\ run' \in Int

\* Then a Client whose entries stay is as good as it was, and so is what was
\* sent.
LEMMA ClientKept ==
    ASSUME NEW c \in Clients, ClientOK(c), Newer,
           endorsements'[c] = endorsements[c], credentials'[c] = credentials[c],
           fetch'[c] = fetch[c], drawn'[c] = drawn[c], fetches'[c] = fetches[c]
    PROVE  ClientOK(c)'
<1>1. CountsOK(c)'
  BY DEF ClientOK, CountsOK
<1>2. StoreOK(c)'
  BY DEF ClientOK, StoreOK, WalletOK, Newer
<1>3. FetchOK(c)'
  BY DEF ClientOK, FetchOK, Newer
<1> QED
  BY <1>1, <1>2, <1>3 DEF ClientOK

\* What was sent for released credentials and past keys stays as good.
LEMMA SentKept ==
    ASSUME SentOK, Newer,
           \A n \in ToModerator' : n \in ToModerator \/ RedeemOK(n)' \/ PresentOK(n)'
    PROVE  SentOK'
<1>1. ASSUME NEW n \in ToModerator, RedeemOK(n) PROVE RedeemOK(n)'
  BY <1>1 DEF RedeemOK, Newer
<1>2. ASSUME NEW n \in ToModerator, PresentOK(n) PROVE PresentOK(n)'
  BY <1>2 DEF PresentOK, Newer
<1> QED
  BY <1>1, <1>2 DEF SentOK

\* A step of a server.
LEMMA ServerStep ==
    ASSUME IndInv, ServersOK', Newer, UNCHANGED clientVars
    PROVE  IndInv'
<1>1. UNCHANGED <<endorsements, credentials, fetch, sent, drawn, fetches>>
  BY DEF clientVars
<1>2. \A c \in Clients : ClientOK(c)'
  BY <1>1, ClientKept DEF IndInv
<1>3. SentOK'
  BY <1>1, SentKept DEF IndInv, ToModerator
<1> QED
  BY <1>1, <1>2, <1>3 DEF IndInv, MapsOK

\* Nothing but the entries of c changes.
OnlyOf(c) ==
    /\ MapsOK'
    /\ \A d \in Clients \ {c} :
           /\ endorsements'[d] = endorsements[d] /\ credentials'[d] = credentials[d]
           /\ fetch'[d] = fetch[d] /\ drawn'[d] = drawn[d] /\ fetches'[d] = fetches[d]

Servers == UNCHANGED <<moderatorVars, anchorVars>>

\* A step of a Client leaves the servers' part alone.
LEMMA ServersStay ==
    ASSUME IndInv, Servers
    PROVE  /\ Newer /\ ServersOK'
           /\ UNCHANGED <<run, config, released, anchorKey, context>>
<1>1. UNCHANGED <<run, config, task, released, anchorKey, context>>
  BY DEF Servers, moderatorVars, anchorVars
<1>2. Newer
  BY <1>1 DEF IndInv, ServersOK, Newer, Runs
<1>3. ServersOK'
  BY <1>1 DEF IndInv, ServersOK, TaskOK, ReleasedOK
<1> QED
  BY <1>1, <1>2, <1>3

\* So it is enough to look at that Client and at what it sends.
LEMMA ClientStep ==
    ASSUME IndInv, NEW c \in Clients, Servers, OnlyOf(c), ClientOK(c)', SentOK'
    PROVE  IndInv'
<1>1. \A d \in Clients \ {c} : ClientOK(d)'
  BY ServersStay, ClientKept DEF IndInv, OnlyOf
<1> QED
  BY <1>1, ServersStay DEF IndInv, OnlyOf

\* Nothing new for the Moderator.
LEMMA SentSame == ASSUME IndInv, Servers, ToModerator' = ToModerator PROVE SentOK'
BY ServersStay, SentKept DEF IndInv

----------------------------------------------------------------------------
(* Steps of the Clients.                                                   *)

\* A fetch begins: there is room for one more generation.
LEMMA BeginStep == ASSUME IndInv, NEW c \in Clients, C!Begin(c), Servers PROVE IndInv'
<1>1. /\ fetch[c].phase = "idle" /\ fetches[c] < MaxFetches
      /\ fetches' = [fetches EXCEPT ![c] = @ + 1]
      /\ fetch' = [fetch EXCEPT ![c] = [phase |-> "challenge"]]
      /\ UNCHANGED <<endorsements, credentials, sent, drawn>>
  BY DEF C!Begin, C!Await
<1>2. OnlyOf(c)
  BY <1>1 DEF IndInv, MapsOK, OnlyOf
<1>3. CountsOK(c) /\ StoreOK(c)
  BY DEF IndInv, ClientOK
<1>4. fetch'[c].phase = "challenge" /\ fetches'[c] = fetches[c] + 1
  BY <1>1 DEF IndInv, MapsOK
<1>5. CountsOK(c)'
  BY <1>1, <1>3, <1>4, MoleAssumption DEF CountsOK
<1>6. StoreOK(c)'
  <2>1. \A p \in DOMAIN credentials[c] : credentials[c][p].gen \in Nat
    BY <1>3 DEF StoreOK, IndInv, ServersOK, ReleasedOK, Token
  <2> QED
    BY <1>1, <1>3, <1>4, <2>1, ServersStay DEF StoreOK, WalletOK, CountsOK
<1>7. FetchOK(c)'
  BY <1>4 DEF FetchOK
<1>8. SentOK'
  BY <1>1, SentSame DEF ToModerator
<1> QED
  BY <1>2, <1>5, <1>6, <1>7, <1>8, ClientStep DEF ClientOK

\* Fetches that end, well or not, or that wait for the body.
LEMMA RestStep ==
    ASSUME IndInv, NEW c \in Clients, Servers,
           C!GotBody(c) \/ C!GotNoUpdate(c) \/ C!NotChallenged(c) \/ C!Fail(c) \/ C!Quit(c)
    PROVE  IndInv'
<1> USE DEF C!GotBody, C!GotNoUpdate, C!NotChallenged, C!Fail, C!Quit, C!Abandon, C!Await,
            C!NotFetching
<1>1. /\ fetch' \in {[fetch EXCEPT ![c] = [phase |-> "idle"]],
                     [fetch EXCEPT ![c] = [phase |-> "body"]]}
      /\ fetch'[c].phase = "body" => fetch[c].phase # "idle"
      /\ UNCHANGED <<sent, drawn, fetches>>
      /\ \/ UNCHANGED <<endorsements, credentials>>
         \/ /\ endorsements' = [endorsements EXCEPT ![c] = <<>>]
            /\ credentials' = [credentials EXCEPT ![c] = <<>>]
  BY DEF IndInv, MapsOK
<1>2. OnlyOf(c)
  BY <1>1 DEF IndInv, MapsOK, OnlyOf
<1>3. CountsOK(c) /\ StoreOK(c) /\ fetch'[c].phase \in {"idle", "body"}
  BY <1>1 DEF IndInv, MapsOK, ClientOK
<1>4. CountsOK(c)'
  BY <1>1, <1>3 DEF CountsOK
<1>5. StoreOK(c)'
  <2>1. CASE UNCHANGED <<endorsements, credentials>>
    BY <1>1, <1>3, <2>1, ServersStay DEF StoreOK, Early
  <2>2. CASE /\ endorsements' = [endorsements EXCEPT ![c] = <<>>]
             /\ credentials' = [credentials EXCEPT ![c] = <<>>]
    <3>1. endorsements'[c] = <<>> /\ credentials'[c] = <<>>
      BY <2>2 DEF IndInv, MapsOK
    <3> QED
      BY <1>3, <3>1 DEF StoreOK, Early
  <2> QED
    BY <1>1, <2>1, <2>2
<1>6. FetchOK(c)'
  BY <1>3 DEF FetchOK
<1>7. SentOK'
  BY <1>1, SentSame DEF ToModerator
<1> QED
  BY <1>2, <1>4, <1>5, <1>6, <1>7, ClientStep DEF ClientOK

\* A presentation leaves c: it is of a released credential, for a challenge of
\* some configuration, and affordable.
LEMMA PresentStep ==
    ASSUME IndInv, NEW c \in Clients, Servers, NEW w, WalletOK(c, w),
           NEW chal \in ChallengeSet, chal.policy \in DOMAIN w, fetch[c].phase # "idle",
           C!StartPresent(c, w, chal), UNCHANGED <<endorsements, drawn, fetches>>
    PROVE  IndInv'
<1> DEFINE t == w[chal.policy]
           m == PresentRequest(t, Digest(CredentialChallenge(chal, 0)), chal.charge, 0, "plain")
           pays == CanSpend(t, chal.charge, 0)
<1>0. chal.topup = 0
  BY DEF ChallengeSet, ChallengeOf
<1>1. /\ credentials' = [credentials EXCEPT ![c] = C!Take(w, chal.policy)]
      /\ \/ /\ pays
            /\ fetch' = [fetch EXCEPT ![c] = [phase |-> "presenting", chal |-> chal,
                                              request |-> m]]
            /\ sent' = sent \union {m}
         \/ /\ fetch' = [fetch EXCEPT ![c] = [phase |-> "idle"]]
            /\ UNCHANGED sent
  BY <1>0, SameTypes DEF C!StartPresent, C!Await, C!Abandon, C!NotFetching
<1>2. t \in released /\ t.gen < fetches[c] /\ t.gen \in Nat
  BY DEF WalletOK, IndInv, ServersOK, ReleasedOK, Token
<1>3. PICK cfg \in Configs : chal = ChallengeOf(cfg)
  BY DEF ChallengeSet
<1>4. chal.charge = cfg.charge /\ chal.charge \in Nat
      /\ CredentialChallenge(chal, 0) = CredentialChallenge(cfg, 0)
  BY <1>3, ConfigFacts DEF ChallengeOf, CredentialChallenge
<1>5. m.spend.token = t /\ m.spend.charge = chal.charge /\ m.spend.topup = 0
  BY DEF PresentRequest
<1>6. CountsOK(c) /\ StoreOK(c)
  BY DEF IndInv, ClientOK
<1>7. pays => PresentOK(m)
  <2>1. t.gen < MaxFetches
    BY <1>2, <1>6, MoleAssumption DEF CountsOK
  <2> QED
    BY <1>2, <1>3, <1>4, <2>1 DEF PresentOK
<1> HIDE DEF m, pays
<1>8. SentOK'
  <2>1. Newer /\ UNCHANGED released
    BY ServersStay
  <2>2. PresentOK(m) => (\A n : n = m => PresentOK(n)')
    BY <2>1 DEF PresentOK
  <2>3. \A n \in ToModerator' : n \in ToModerator \/ (n = m /\ pays)
    BY <1>1 DEF ToModerator
  <2> QED
    BY <1>7, <2>1, <2>2, <2>3, SentKept DEF IndInv
<1>9. OnlyOf(c)
  BY <1>1 DEF IndInv, MapsOK, OnlyOf
<1>10. /\ credentials'[c] = C!Take(w, chal.policy)
       /\ \/ fetch'[c] = [phase |-> "presenting", chal |-> chal, request |-> m]
          \/ fetch'[c] = [phase |-> "idle"]
  BY <1>1 DEF IndInv, MapsOK
<1>11. CountsOK(c)'
  BY <1>6, <1>10 DEF CountsOK
<1>12. StoreOK(c)'
  <2>1. \A p \in DOMAIN credentials'[c] :
            credentials'[c][p] \in released /\ credentials'[c][p].gen < fetches[c]
    BY <1>10 DEF C!Take, WalletOK
  <2>2. \A k \in released : k.gen \in Nat
    BY DEF IndInv, ServersOK, ReleasedOK, Token
  <2>3. \A p \in DOMAIN credentials'[c] : credentials'[c][p].gen <= fetches[c]
    BY <1>6, <2>1, <2>2 DEF CountsOK
  <2> QED
    BY <1>6, <1>10, <2>1, <2>3, ServersStay DEF StoreOK, Early
<1>13. FetchOK(c)'
  BY <1>2, <1>4, <1>5, <1>10, ServersStay DEF FetchOK
<1> QED
  BY <1>8, <1>9, <1>11, <1>12, <1>13, ClientStep DEF ClientOK

\* A redemption leaves c: it is of a granted endorsement, for a challenge of
\* some configuration and the key of some process up to now.
LEMMA RedeemStep ==
    ASSUME IndInv, NEW c \in Clients, Servers, NEW es \in Seq(Endorsement),
           NEW chal \in ChallengeSet, NEW dir, dir.key \in 1 .. run,
           fetch[c].phase \in Early,
           C!UsableAt(es, chal.keys, dir.epoch) # {},
           C!StartRedeem(c, es, chal, dir), UNCHANGED <<credentials, drawn, fetches>>
    PROVE  IndInv'
<1> DEFINE i == C!First(C!UsableAt(es, chal.keys, dir.epoch))
           m == RedeemRequest(es[i], Digest(ModeratorChallenge(chal)),
                              TruncatedKeyId(dir.key), C!PreIssuance, "plain")
           rest == C!SwapRemove(es, i)
<1>1. /\ endorsements' = [endorsements EXCEPT ![c] = rest]
      /\ \/ /\ fetch' = [fetch EXCEPT ![c] = [phase |-> "redeeming", chal |-> chal,
                                              dir |-> dir, request |-> m]]
            /\ sent' = sent \union {m}
         \/ /\ fetch' = [fetch EXCEPT ![c] = [phase |-> "idle"]]
            /\ UNCHANGED sent
  BY SameTypes DEF C!StartRedeem, C!Await, C!Abandon, C!NotFetching
<1>2. i \in DOMAIN es
  <2>1. C!UsableAt(es, chal.keys, dir.epoch) \subseteq DOMAIN es /\ DOMAIN es \subseteq Nat
    BY DEF C!UsableAt
  <2>2. \E j \in C!UsableAt(es, chal.keys, dir.epoch) :
            \A k \in C!UsableAt(es, chal.keys, dir.epoch) : j <= k
    BY <2>1, LeastExists
  <2> QED
    BY <2>1, <2>2 DEF C!First
<1>3. es[i] \in Endorsement /\ rest \in Seq(Endorsement)
  <2>1. es[i] \in Endorsement /\ Len(es) \in Nat /\ Len(es) \in DOMAIN es
    BY <1>2
  <2>2. [es EXCEPT ![i] = es[Len(es)]] \in Seq(Endorsement)
    BY <1>2, <2>1
  <2> DEFINE fs == [es EXCEPT ![i] = es[Len(es)]]
  <2>3. rest = SubSeq(fs, 1, Len(fs) - 1)
    BY DEF C!SwapRemove, C!Front, C!Last
  <2> HIDE DEF fs
  <2>4. fs \in Seq(Endorsement) => SubSeq(fs, 1, Len(fs) - 1) \in Seq(Endorsement)
    OBVIOUS
  <2> QED
    BY <2>1, <2>2, <2>3, <2>4 DEF fs
<1>4. PICK cfg \in Configs : chal = ChallengeOf(cfg)
  BY DEF ChallengeSet
<1>5. ModeratorChallenge(chal) = ModeratorChallenge(cfg)
  BY <1>4 DEF ChallengeOf, ModeratorChallenge
<1>6. RedeemOK(m)
  BY <1>3, <1>5 DEF RedeemOK
<1> HIDE DEF i, m, rest
<1>7. SentOK'
  <2>1. Newer /\ UNCHANGED run
    BY ServersStay
  <2>2. RedeemOK(m) => (\A n : n = m => RedeemOK(n)')
    BY <2>1 DEF RedeemOK
  <2>3. \A n \in ToModerator' : n \in ToModerator \/ n = m
    BY <1>1 DEF ToModerator
  <2> QED
    BY <1>6, <2>1, <2>2, <2>3, SentKept DEF IndInv
<1>8. OnlyOf(c)
  BY <1>1 DEF IndInv, MapsOK, OnlyOf
<1>9. /\ endorsements'[c] = rest
      /\ \/ fetch'[c] = [phase |-> "redeeming", chal |-> chal, dir |-> dir, request |-> m]
         \/ fetch'[c] = [phase |-> "idle"]
  BY <1>1 DEF IndInv, MapsOK
<1>10. CountsOK(c) /\ StoreOK(c)
  BY DEF IndInv, ClientOK
<1>11. CountsOK(c)'
  BY <1>9, <1>10 DEF CountsOK, Early
<1>12. StoreOK(c)'
  BY <1>3, <1>9, <1>10, ServersStay DEF StoreOK, WalletOK, Early
<1>13. FetchOK(c)'
  BY <1>9 DEF FetchOK
<1> QED
  BY <1>7, <1>8, <1>11, <1>12, <1>13, ClientStep DEF ClientOK

\* The challenge is of the configuration of now.
LEMMA ResourceStep == ASSUME IndInv, NEW c \in Clients, GetResource(c) PROVE IndInv'
<1>0. PICK chal : chal = ChallengeOf(config)
  OBVIOUS
<1>1. /\ C!Challenged(c, chal) /\ Servers /\ fetch[c].phase = "challenge"
      /\ UNCHANGED <<endorsements, drawn, fetches>>
  BY <1>0 DEF GetResource, Servers, C!Challenged
<1>2. chal \in ChallengeSet
  BY <1>0 DEF IndInv, ServersOK, ChallengeSet
<1>3. CountsOK(c) /\ StoreOK(c) /\ WalletOK(c, credentials[c])
  BY <1>1 DEF IndInv, ClientOK, StoreOK, Early
<1>4. CASE chal.policy \in DOMAIN credentials[c]
  <2>1. C!StartPresent(c, credentials[c], chal)
    BY <1>1, <1>4 DEF C!Challenged
  <2> QED
    BY <1>1, <1>2, <1>3, <1>4, <2>1, PresentStep
<1>5. CASE chal.policy \notin DOMAIN credentials[c]
  <2>1. /\ fetch' = [fetch EXCEPT ![c] = [phase |-> "policy", chal |-> chal]]
        /\ UNCHANGED <<credentials, sent>>
    BY <1>1, <1>5 DEF C!Challenged, C!Await
  <2>2. OnlyOf(c)
    BY <1>1, <2>1 DEF IndInv, MapsOK, OnlyOf
  <2>3. fetch'[c] = [phase |-> "policy", chal |-> chal]
    BY <2>1 DEF IndInv, MapsOK
  <2>4. CountsOK(c)' /\ StoreOK(c)' /\ FetchOK(c)'
    BY <1>1, <1>2, <1>3, <2>1, <2>3, ServersStay
    DEF CountsOK, StoreOK, WalletOK, FetchOK, Early
  <2>5. SentOK'
    BY <1>1, <2>1, SentSame DEF ToModerator
  <2> QED
    BY <1>1, <2>2, <2>4, <2>5, ClientStep DEF ClientOK
<1> QED
  BY <1>4, <1>5

\* The directory names the key of now.
LEMMA PolicyStep == ASSUME IndInv, NEW c \in Clients, GetPolicy(c) PROVE IndInv'
<1>0. PICK dir, chal : dir = ModeratorDirectory(config, run) /\ chal = fetch[c].chal
  OBVIOUS
<1>1. /\ C!GotPolicy(c, dir) /\ Servers /\ fetch[c].phase = "policy"
      /\ UNCHANGED <<credentials, drawn, fetches>>
  BY <1>0 DEF GetPolicy, Servers, C!GotPolicy
<1>2. chal \in ChallengeSet /\ dir.key \in 1 .. run
  BY <1>0, <1>1 DEF IndInv, ClientOK, FetchOK, ServersOK, Runs, ModeratorDirectory
<1>3. CountsOK(c) /\ StoreOK(c) /\ endorsements[c] \in Seq(Endorsement)
  BY DEF IndInv, ClientOK, StoreOK
<1>4. CASE dir.policy # chal.policy
  <2>1. C!Fail(c)
    BY <1>0, <1>1, <1>4 DEF C!GotPolicy, C!Fail
  <2> QED
    BY <1>1, <2>1, RestStep
<1>5. CASE /\ dir.policy = chal.policy
           /\ C!UsableAt(endorsements[c], chal.keys, dir.epoch) # {}
  <2>1. C!StartRedeem(c, endorsements[c], chal, dir)
    BY <1>0, <1>1, <1>5 DEF C!GotPolicy
  <2>2. fetch[c].phase \in Early
    BY <1>1 DEF Early
  <2> QED
    BY <1>1, <1>2, <1>3, <1>5, <2>1, <2>2, RedeemStep
<1>6. CASE /\ dir.policy = chal.policy
           /\ C!UsableAt(endorsements[c], chal.keys, dir.epoch) = {}
  <2>1. /\ fetch' = [fetch EXCEPT ![c] = [phase |-> "anchor", chal |-> chal, dir |-> dir]]
        /\ UNCHANGED <<endorsements, sent>>
    BY <1>0, <1>1, <1>6 DEF C!GotPolicy, C!Await
  <2>2. OnlyOf(c)
    BY <1>1, <2>1 DEF IndInv, MapsOK, OnlyOf
  <2>3. fetch'[c] = [phase |-> "anchor", chal |-> chal, dir |-> dir]
    BY <2>1 DEF IndInv, MapsOK
  <2>4. CountsOK(c)' /\ StoreOK(c)' /\ FetchOK(c)'
    BY <1>1, <1>2, <1>3, <2>1, <2>3, ServersStay
    DEF CountsOK, StoreOK, WalletOK, FetchOK, Early
  <2>5. SentOK'
    BY <1>1, <2>1, SentSame DEF ToModerator
  <2> QED
    BY <1>1, <2>2, <2>4, <2>5, ClientStep DEF ClientOK
<1> QED
  BY <1>4, <1>5, <1>6

\* Requests of the grant exchange are not for the Moderator.
LEMMA GrantRequests ==
    /\ \A u, ctx, b, f : "op" \notin DOMAIN C!Step1(u, ctx, b, f)
    /\ \A sid, f : "op" \notin DOMAIN C!Step2(sid, f)
BY DEF C!Step1, C!Step2

\* One nullifier is drawn.
LEMMA AnchorStep == ASSUME IndInv, NEW c \in Clients, GetAnchor(c) PROVE IndInv'
<1>0. PICK adir : adir = AnchorDirectory(anchorKey, context)
  OBVIOUS
<1>1. PICK m : /\ "op" \notin DOMAIN m
               /\ sent' = sent \union {m}
               /\ fetch' = [fetch EXCEPT ![c] = [phase |-> "signing", chal |-> fetch[c].chal,
                               dir |-> fetch[c].dir, adir |-> adir, request |-> m]]
               /\ drawn' = [drawn EXCEPT ![c] = @ + 1]
               /\ UNCHANGED <<endorsements, credentials, fetches>>
               /\ Servers /\ fetch[c].phase = "anchor"
  BY <1>0, GrantRequests DEF GetAnchor, Servers, C!GotAnchor, C!Await
<1>2. adir.key \in 1 .. MaxAnchorRuns /\ adir.epoch \in Contexts
  BY <1>0 DEF IndInv, ServersOK, AnchorDirectory
<1>3. CountsOK(c) /\ StoreOK(c) /\ FetchOK(c)
  BY DEF IndInv, ClientOK
<1>4. OnlyOf(c)
  BY <1>1 DEF IndInv, MapsOK, OnlyOf
<1>5. /\ drawn'[c] = drawn[c] + 1
      /\ fetch'[c] = [phase |-> "signing", chal |-> fetch[c].chal,
                      dir |-> fetch[c].dir, adir |-> adir, request |-> m]
  BY <1>1 DEF IndInv, MapsOK
<1>6. CountsOK(c)'
  BY <1>1, <1>3, <1>5 DEF CountsOK
<1>7. StoreOK(c)'
  BY <1>1, <1>3, <1>5, ServersStay DEF StoreOK, WalletOK, Early
<1>8. FetchOK(c)'
  <2>1. drawn'[c] > 0
    BY <1>3, <1>5 DEF CountsOK
  <2> QED
    BY <1>1, <1>2, <1>3, <1>5, <2>1, ServersStay DEF FetchOK
<1>9. SentOK'
  BY <1>1, SentSame DEF ToModerator
<1> QED
  BY <1>1, <1>4, <1>6, <1>7, <1>8, <1>9, ClientStep DEF ClientOK

\* The second exchange follows.
LEMMA SignatureStep ==
    ASSUME IndInv, NEW c \in Clients, Servers, NEW sid, C!GotSignature(c, sid)
    PROVE  IndInv'
<1>1. PICK m : /\ "op" \notin DOMAIN m
               /\ sent' = sent \union {m}
               /\ fetch' = [fetch EXCEPT ![c] = [phase |-> "proving", chal |-> fetch[c].chal,
                               dir |-> fetch[c].dir, adir |-> fetch[c].adir, request |-> m]]
               /\ UNCHANGED <<endorsements, credentials, drawn, fetches>>
               /\ fetch[c].phase = "signing"
  BY GrantRequests DEF C!GotSignature, C!Await
<1>2. CountsOK(c) /\ StoreOK(c) /\ FetchOK(c)
  BY DEF IndInv, ClientOK
<1>3. OnlyOf(c)
  BY <1>1 DEF IndInv, MapsOK, OnlyOf
<1>4. fetch'[c] = [phase |-> "proving", chal |-> fetch[c].chal,
                   dir |-> fetch[c].dir, adir |-> fetch[c].adir, request |-> m]
  BY <1>1 DEF IndInv, MapsOK
<1>5. CountsOK(c)' /\ StoreOK(c)'
  BY <1>1, <1>2, <1>4, ServersStay DEF CountsOK, StoreOK, WalletOK, Early
<1>6. FetchOK(c)'
  BY <1>1, <1>2, <1>4, ServersStay DEF FetchOK
<1>7. SentOK'
  BY <1>1, SentSame DEF ToModerator
<1> QED
  BY <1>3, <1>5, <1>6, <1>7, ClientStep DEF ClientOK

\* What the exchanges made is a granted endorsement.
LEMMA ProofStep ==
    ASSUME IndInv, NEW c \in Clients, Servers, NEW signer, C!GotProof(c, signer)
    PROVE  IndInv'
<1> DEFINE f == fetch[c]
           e == [nf |-> C!Drawn(c, drawn[c]), key |-> f.adir.key, epoch |-> f.adir.epoch]
<1>0. PICK es : es = Append(endorsements[c], e)
  OBVIOUS
<1>1. f.phase = "proving" /\ UNCHANGED <<credentials, drawn, fetches>>
  BY DEF C!GotProof
<1>2. CountsOK(c) /\ StoreOK(c) /\ FetchOK(c)
  BY DEF IndInv, ClientOK
<1>3. es \in Seq(Endorsement)
  <2>1. drawn[c] \in 1 .. MaxFetches
    BY <1>1, <1>2, MoleAssumption DEF CountsOK, FetchOK
  <2>2. e \in Endorsement
    BY <1>1, <1>2, <2>1 DEF FetchOK, Endorsement, Roots, C!Drawn
  <2> QED
    BY <1>0, <1>2, <2>2 DEF StoreOK
<1>4. CASE signer # f.adir.key
  <2>1. C!Fail(c)
    BY <1>1, <1>4 DEF C!GotProof, C!Fail
  <2> QED
    BY <2>1, RestStep
<1>5. CASE signer = f.adir.key /\ C!UsableAt(es, f.chal.keys, f.dir.epoch) # {}
  <2>1. C!StartRedeem(c, es, f.chal, f.dir)
    BY <1>0, <1>5 DEF C!GotProof
  <2>2. f.chal \in ChallengeSet /\ f.dir.key \in 1 .. run /\ f.phase \in Early
    BY <1>1, <1>2 DEF FetchOK, Early
  <2> QED
    BY <1>1, <1>3, <1>5, <2>1, <2>2, RedeemStep
<1>6. CASE signer = f.adir.key /\ C!UsableAt(es, f.chal.keys, f.dir.epoch) = {}
  <2>1. /\ endorsements' = [endorsements EXCEPT ![c] = es]
        /\ fetch' = [fetch EXCEPT ![c] = [phase |-> "idle"]]
        /\ UNCHANGED sent
    BY <1>0, <1>6 DEF C!GotProof, C!Abandon, C!NotFetching
  <2>2. OnlyOf(c)
    BY <1>1, <2>1 DEF IndInv, MapsOK, OnlyOf
  <2>3. endorsements'[c] = es /\ fetch'[c] = [phase |-> "idle"]
    BY <2>1 DEF IndInv, MapsOK
  <2>4. CountsOK(c)' /\ StoreOK(c)' /\ FetchOK(c)'
    BY <1>1, <1>2, <1>3, <2>3, ServersStay DEF CountsOK, StoreOK, FetchOK, Early
  <2>5. SentOK'
    BY <2>1, SentSame DEF ToModerator
  <2> QED
    BY <2>2, <2>4, <2>5, ClientStep DEF ClientOK
<1> QED
  BY <1>4, <1>5, <1>6

\* An issued credential is of generation 0, so there is room for its replacement.
LEMMA CredentialStep == ASSUME IndInv, NEW c \in Clients, GetCredential(c) PROVE IndInv'
<1>0. PICK chal : chal = fetch[c].chal
  OBVIOUS
<1>1. PICK t \in IssuedTo(c) : C!GotCredential(c, t)
  BY DEF GetCredential
<1>2. /\ Servers /\ fetch[c].phase = "redeeming"
      /\ UNCHANGED <<endorsements, drawn, fetches>>
  BY <1>1 DEF GetCredential, Servers, C!GotCredential
<1>3. t \in released /\ t.gen = 0
  BY DEF IssuedTo
<1>4. chal \in ChallengeSet /\ WalletOK(c, credentials[c]) /\ fetches[c] \in Nat /\ fetches[c] > 0
  BY <1>0, <1>2 DEF IndInv, ClientOK, FetchOK, StoreOK, CountsOK, Early
<1> DEFINE w == C!Put(credentials[c], chal.policy, t)
<1>5. WalletOK(c, w) /\ chal.policy \in DOMAIN w
  BY <1>3, <1>4 DEF WalletOK, C!Put
<1> HIDE DEF w
<1>6. CASE C!StartPresent(c, w, chal)
  BY <1>2, <1>4, <1>5, <1>6, PresentStep
<1>7. CASE C!Fail(c)
  BY <1>2, <1>7, RestStep
<1>8. C!StartPresent(c, w, chal) \/ C!Fail(c)
  BY <1>0, <1>1 DEF C!GotCredential, C!Fail, w
<1> QED
  BY <1>6, <1>7, <1>8

\* What c puts together from the update is the credential the Moderator
\* released for it.
LEMMA UpdateStep == ASSUME IndInv, NEW c \in Clients, GetUpdate(c) PROVE IndInv'
<1>0. PICK k, x, p : /\ k = fetch[c].request.spend.token
                     /\ x = fetch[c].request.spend.charge
                     /\ p = fetch[c].chal.policy
  OBVIOUS
<1>1. PICK t \in ReplacedFor(c) : C!GotUpdate(c, t.bal - (k.bal - x))
  BY <1>0 DEF GetUpdate
<1>2. fetch[c].phase = "presenting" /\ Servers
  BY DEF GetUpdate, Servers
<1>3. /\ k \in released /\ k.gen < fetches[c] /\ x \in Nat
      /\ fetch[c].request.spend.topup = 0
  BY <1>0, <1>2 DEF IndInv, ClientOK, FetchOK
<1>4. t \in released /\ t.root = k.root /\ t.key = k.key /\ t.gen = k.gen + 1
  BY <1>0 DEF ReplacedFor
<1>5. t \in Token /\ k \in Token /\ t.ctx = k.ctx
  BY <1>3, <1>4 DEF IndInv, ServersOK, ReleasedOK
<1> DEFINE d == [k EXCEPT !.gen = k.gen + 1,
                          !.bal = k.bal - x + 0 + (t.bal - (k.bal - x))]
<1>6. d = t
  <2>1. k.bal - x + 0 + (t.bal - (k.bal - x)) = t.bal
    BY <1>3, <1>5 DEF Token
  <2>2. t.pre = k.pre
    BY <1>5 DEF Token
  <2> QED
    BY <1>4, <1>5, <2>1, <2>2 DEF Token
<1>7. C!Replacement(k, x, 0, t.bal - (k.bal - x)) = d
  BY DEF C!Replacement
<1> HIDE DEF d
<1>8. /\ credentials' = [credentials EXCEPT ![c] = C!Put(credentials[c], p, t)]
      /\ fetch' = [fetch EXCEPT ![c] = [phase |-> "body"]]
      /\ UNCHANGED <<endorsements, sent, drawn, fetches>>
  BY <1>0, <1>1, <1>3, <1>6, <1>7 DEF C!GotUpdate, C!Await
<1>9. OnlyOf(c)
  BY <1>8 DEF IndInv, MapsOK, OnlyOf
<1>10. credentials'[c] = C!Put(credentials[c], p, t) /\ fetch'[c] = [phase |-> "body"]
  BY <1>8 DEF IndInv, MapsOK
<1>11. CountsOK(c) /\ StoreOK(c)
  BY DEF IndInv, ClientOK
<1>12. CountsOK(c)'
  BY <1>2, <1>8, <1>10, <1>11 DEF CountsOK
<1>13. StoreOK(c)'
  <2>1. t.gen <= fetches[c]
    BY <1>3, <1>4, <1>5, <1>11 DEF Token, CountsOK
  <2>2. \A q \in DOMAIN credentials'[c] :
            credentials'[c][q] \in released /\ credentials'[c][q].gen <= fetches[c]
    BY <1>4, <1>10, <1>11, <2>1 DEF StoreOK, C!Put
  <2> QED
    BY <1>2, <1>8, <1>10, <1>11, <2>2, ServersStay DEF StoreOK, Early
<1>14. FetchOK(c)'
  BY <1>10 DEF FetchOK
<1>15. SentOK'
  BY <1>2, <1>8, SentSame DEF ToModerator
<1> QED
  BY <1>2, <1>9, <1>12, <1>13, <1>14, <1>15, ClientStep DEF ClientOK

----------------------------------------------------------------------------
(* The invariant.                                                          *)

\* Nothing is sent, stored or released yet.
LEMMA InitInd == Init => IndInv
<1> SUFFICES ASSUME Init PROVE IndInv
  OBVIOUS
<1>1. /\ run = 1 /\ config \in Configs /\ released = {}
      /\ task = [w \in Workers |-> M!NoTask]
  BY DEF Init, M!Init
<1>2. anchorKey \in 1 .. MaxAnchorRuns /\ context \in Contexts
  BY MoleAssumption DEF Init, A!Init
<1>3. /\ endorsements = [c \in Clients |-> <<>>]
      /\ credentials = [c \in Clients |-> <<>>]
      /\ fetch = [c \in Clients |-> [phase |-> "idle"]]
      /\ sent = {}
      /\ drawn = [c \in Clients |-> 0]
      /\ fetches = [c \in Clients |-> 0]
  BY DEF Init, C!Init, C!NotFetching
<1>4. ServersOK
  BY <1>1, <1>2, KeyAssumption DEF ServersOK, Runs, TaskOK, ReleasedOK, M!NoTask
<1>5. SentOK
  BY <1>3 DEF SentOK, ToModerator
<1>6. MapsOK
  BY <1>3 DEF MapsOK
<1>7. ASSUME NEW c \in Clients PROVE ClientOK(c)
  <2>1. CountsOK(c)
    BY <1>3, MoleAssumption DEF CountsOK
  <2>2. StoreOK(c)
    BY <1>3 DEF StoreOK, Early
  <2>3. FetchOK(c)
    BY <1>3 DEF FetchOK
  <2> QED
    BY <2>1, <2>2, <2>3 DEF ClientOK
<1> QED
  BY <1>4, <1>5, <1>6, <1>7 DEF IndInv

\* The Moderator takes a request that it expects.
LEMMA TakesStep ==
    ASSUME IndInv, NEW m \in ToModerator, ModeratorTakes(m)
    PROVE  IndInv' /\ [M!Next]_M!vars
<1>1. UNCHANGED <<clientVars, anchorVars>> /\ ServersOK /\ SentOK /\ run \in Int
  BY DEF ModeratorTakes, IndInv, ServersOK, Runs
<1>2. m \in M!Requests
  BY <1>1, SentExpected
<1>3. CASE M!Refuse(m)
  <2>1. UNCHANGED moderatorVars
    BY <1>3 DEF M!Refuse, M!vars, moderatorVars
  <2>2. Servers
    BY <1>1, <2>1 DEF Servers
  <2>3. ServersOK' /\ Newer
    BY <2>2, ServersStay
  <2> QED
    BY <1>1, <1>2, <1>3, <2>3, ServerStep DEF M!Next
<1>4. ASSUME NEW w \in Workers, M!Verify(w, m) PROVE IndInv' /\ [M!Next]_M!vars
  <2>1. ServersOK'
    BY <1>1, <1>4, VerifyKeeps
  <2>2. Newer
    BY <1>1, <1>4 DEF M!Verify, Newer
  <2> QED
    BY <1>1, <1>2, <1>4, <2>1, <2>2, ServerStep DEF M!Next
<1> QED
  BY <1>3, <1>4 DEF ModeratorTakes

\* A critical section does not look at who sent.
LEMMA CommitsStep ==
    ASSUME IndInv, NEW w \in Workers, ModeratorCommits(w)
    PROVE  IndInv' /\ [M!Next]_M!vars
<1>1. UNCHANGED <<clientVars, anchorVars>> /\ ServersOK /\ run \in Int
  BY DEF ModeratorCommits, IndInv, ServersOK, Runs
<1>2. M!Issue(w) \/ M!Serve(w) \/ M!Lose(w)
  BY DEF ModeratorCommits
<1>3. ServersOK'
  BY <1>1, <1>2, IssueKeeps, ServeKeeps, LoseKeeps
<1>4. Newer
  BY <1>1, <1>2 DEF M!Issue, M!Serve, M!Lose, Newer
<1> QED
  BY <1>1, <1>2, <1>3, <1>4, ServerStep DEF M!Next

\* The directory of the Anchor gives one of the configurations.
LEMMA ModeratorRestartsStep ==
    ASSUME IndInv, ModeratorRestarts
    PROVE  IndInv' /\ [M!Next]_M!vars
<1>1. UNCHANGED <<clientVars, anchorVars>> /\ ServersOK /\ run \in Int
  BY DEF ModeratorRestarts, IndInv, ServersOK, Runs
<1>2. PICK amounts \in Terms : M!Restart(StartedWith(amounts, anchorKey, context))
  BY DEF ModeratorRestarts
<1>3. StartedWith(amounts, anchorKey, context) \in Configs
  BY <1>1 DEF Configs, ServersOK
<1>4. ServersOK' /\ Newer
  BY <1>1, <1>2, <1>3, RestartKeeps DEF M!Restart, Newer
<1> QED
  BY <1>1, <1>2, <1>3, <1>4, ServerStep DEF M!Next

\* The Anchor's steps touch nothing of the Moderator's.
LEMMA AnchorServes ==
    ASSUME IndInv, UNCHANGED <<clientVars, moderatorVars>>,
           anchorKey' \in 1 .. MaxAnchorRuns, context' \in Contexts
    PROVE  IndInv' /\ UNCHANGED M!vars
<1>1. UNCHANGED <<run, config, task, released>>
  BY DEF moderatorVars
<1>2. ServersOK'
  BY <1>1 DEF IndInv, ServersOK, TaskOK, ReleasedOK
<1>3. Newer
  BY <1>1 DEF IndInv, ServersOK, Newer, Runs
<1> QED
  BY <1>2, <1>3, ServerStep DEF M!vars, moderatorVars

\* An answer changes only its Client.
LEMMA GetStep == ASSUME IndInv, NEW c \in Clients, Get(c) PROVE IndInv' /\ Servers
<1>1. Servers
  BY DEF Get, GetResource, GetPolicy, GetAnchor, GetGrant, GetCredential, GetUpdate,
         GetBody, GetRefusal, Servers
<1>2. CASE GetGrant(c)
  BY <1>1, <1>2, SignatureStep, ProofStep DEF GetGrant
<1>3. CASE GetBody(c) \/ GetRefusal(c)
  BY <1>1, <1>3, RestStep DEF GetBody, GetRefusal
<1> QED
  BY <1>1, <1>2, <1>3, ResourceStep, PolicyStep, AnchorStep, CredentialStep, UpdateStep DEF Get

\* Every step keeps the invariant and is a step of Moderator or none.
LEMMA NextInd == IndInv /\ [Next]_vars => IndInv' /\ [M!Next]_M!vars
<1> SUFFICES ASSUME IndInv, [Next]_vars PROVE IndInv' /\ [M!Next]_M!vars
  OBVIOUS
<1>1. ASSUME IndInv', Servers PROVE IndInv' /\ [M!Next]_M!vars
  BY <1>1 DEF Servers, moderatorVars, M!vars
<1>2. ASSUME NEW c \in Clients, Begin(c) \/ Get(c) \/ GetNothing(c) \/ Quit(c)
      PROVE  IndInv' /\ [M!Next]_M!vars
  <2>1. CASE Begin(c)
    BY <1>1, <2>1, BeginStep DEF Begin, Servers
  <2>2. CASE Get(c)
    BY <1>1, <2>2, GetStep
  <2>3. CASE GetNothing(c) \/ Quit(c)
    BY <1>1, <2>3, RestStep DEF GetNothing, Quit, Servers
  <2> QED
    BY <1>2, <2>1, <2>2, <2>3
<1>3. CASE ModeratorRestarts
  BY <1>3, ModeratorRestartsStep
<1>4. CASE AnchorRestarts
  <2>1. anchorKey' = anchorKey + 1 /\ anchorKey < MaxAnchorRuns /\ context' \in Contexts
    BY <1>4 DEF AnchorRestarts, A!Restart
  <2>2. anchorKey' \in 1 .. MaxAnchorRuns
    BY <2>1, MoleAssumption DEF IndInv, ServersOK
  <2> QED
    BY <1>4, <2>1, <2>2, AnchorServes DEF AnchorRestarts
<1>5. CASE Serving
  <2>1. ASSUME \/ \E m \in ToAnchor : AnchorTakes(m)
               \/ \E h \in Handlers : AnchorCommits(h)
        PROVE  IndInv' /\ [M!Next]_M!vars
    <3>1. UNCHANGED <<clientVars, moderatorVars, anchorKey, context>>
      BY <2>1 DEF AnchorTakes, AnchorCommits, A!Refuse, A!vars, A!Prove, A!Count,
                  A!Sign, A!GiveUp
    <3> QED
      BY <3>1, AnchorServes DEF IndInv, ServersOK
  <2> QED
    BY <1>5, <2>1, TakesStep, CommitsStep DEF Serving
<1>6. CASE UNCHANGED vars
  <2>1. UNCHANGED <<clientVars, moderatorVars, anchorVars>>
    BY <1>6 DEF vars
  <2> QED
    BY <2>1, AnchorServes DEF anchorVars, IndInv, ServersOK
<1> QED
  BY <1>2, <1>3, <1>4, <1>5, <1>6 DEF Next

\* The invariant holds in every reachable state of the whole system.
THEOREM Invariance == Spec => []IndInv
BY InitInd, NextInd, PTL DEF Spec

\* In the whole system the Clients are holders as Moderator assumes them: of
\* all they send, late, twice or after a restart, redemptions are of granted
\* endorsements and presentations are of credentials some process released,
\* for amounts they cover. So every behaviour of the composition is one of
\* Moderator, and what is proved of Moderator holds in it.
THEOREM ModeratorImplemented == Spec => ImplementsModerator
<1>1. Init => M!Init
  BY DEF Init
<1> QED
  BY <1>1, Invariance, NextInd, PTL DEF Spec, ImplementsModerator, M!Spec

----------------------------------------------------------------------------
(* The three components, with what is proved of them.                      *)

AP == INSTANCE AnchorProofs WITH
    Users <- {UserOf[c] : c \in Clients},
    Blinds <- Roots

CU == INSTANCE ClientProofs WITH
    Challenges <- {ChallengeOf(cfg) : cfg \in Configs},
    Directories <- [policy : {Policy}, key : Runs, epoch : Contexts],
    AnchorDirectories <- [key : 1 .. MaxAnchorRuns, epoch : Contexts],
    SessionIds <- Nat,
    Issuances <- [key : Runs, policy : {Policy}, epoch : Contexts, bal : Int],
    Refunds <- Int

MP == INSTANCE ModeratorProofs WITH
    Endorsements <- [nf : Roots, key : 1 .. MaxAnchorRuns, epoch : Contexts],
    Pres <- {C!PreIssuance},
    MaxGen <- MaxFetches

----------------------------------------------------------------------------
(* The instances speak of the same things as Mole's.                       *)

LEMMA SameSets ==
    /\ \A S : AP!IsFiniteSet(S) = IsFiniteSet(S)
    /\ \A S : AP!Cardinality(S) = Cardinality(S)
    /\ \A S : MP!IsFiniteSet(S) = IsFiniteSet(S)
    /\ \A S : MP!Cardinality(S) = Cardinality(S)
BY DEF AP!IsFiniteSet, AP!Cardinality, MP!IsFiniteSet, MP!Cardinality, IsFiniteSet, Cardinality

\* What each instance assumes of its constants.
LEMMA AnchorAssumed ==
    /\ GrantsPerEpoch \in Nat
    /\ MaxAnchorRuns \in Nat \ {0}
    /\ AP!IsFiniteSet(Handlers)
BY MoleAssumption, SameSets

LEMMA ClientAssumed ==
    /\ MaxFetches \in Nat
    /\ \A chal \in {ChallengeOf(cfg) : cfg \in Configs} :
           chal.charge \in Nat /\ chal.topup \in Nat
    /\ \A i \in [key : Runs, policy : {Policy}, epoch : Contexts, bal : Int] : i.bal \in Int
    /\ Int \subseteq Int
    /\ MaxRuns \in Nat \ {0}
    /\ KeyIds \in [CU!Runs -> Nat]
    /\ \A r, s \in CU!Runs : KeyIds[r] = KeyIds[s] => r = s
    /\ BalanceLimit \in Nat
<1>1. ASSUME NEW cfg \in Configs PROVE ChallengeOf(cfg).charge \in Nat /\ ChallengeOf(cfg).topup \in Nat
  BY ConfigFacts DEF ChallengeOf
<1>2. CU!Runs = Runs
  BY DEF CU!Runs, Runs
<1> QED
  BY <1>1, <1>2, MoleAssumption, KeyAssumption

LEMMA ModeratorAssumed ==
    /\ \A cfg \in Configs :
           cfg.initial \in Nat /\ cfg.charge \in Nat /\ cfg.refund \in Nat
    /\ \A e \in [nf : Roots, key : 1 .. MaxAnchorRuns, epoch : Contexts] : e.nf \in Roots
    /\ MaxFetches \in Nat
    /\ MaxRuns \in Nat \ {0}
    /\ KeyIds \in [MP!Runs -> Nat]
    /\ \A r, s \in MP!Runs : KeyIds[r] = KeyIds[s] => r = s
    /\ BalanceLimit \in Nat
<1>1. MP!Runs = Runs
  BY DEF MP!Runs, Runs
<1> QED
  BY <1>1, ConfigFacts, MoleAssumption, KeyAssumption

\* What AnchorProofs shows, for the Anchor of the system.
LEMMA AnchorInstance ==
    /\ AP!Init => AP!IndInv
    /\ AP!IndInv /\ [AP!Next]_AP!vars => AP!IndInv'
    /\ AP!IndInv /\ [AP!Next]_AP!vars => AP!SignaturesGrow
BY AnchorAssumed, AP!InitInd, AP!StepInd, AP!SignaturesStep

\* The limit per key is kept by a step that keeps that of the current key.
LEMMA AnchorLimit ==
    /\ AP!IndInv => AP!CurrentLimited
    /\ AP!IndInv /\ AP!KeysLimited /\ [AP!Next]_AP!vars /\ AP!CurrentLimited' => AP!KeysLimited'
BY AnchorAssumed, AP!CurrentLimit, AP!KeysLimitedInd

\* What ClientProofs shows, for the Clients of the system.
LEMMA ClientInstance ==
    /\ CU!Init => CU!IndInv
    /\ CU!IndInv /\ [CU!Next]_CU!vars => CU!IndInv'
BY ClientAssumed, CU!InitInd, CU!NextInd

\* What ModeratorProofs shows, for the Moderator of the system.
LEMMA ModeratorInstance ==
    /\ MP!Init => MP!IndInv
    /\ MP!IndInv /\ [MP!Next]_MP!vars => MP!IndInv'
    /\ MP!IndInv /\ MP!IndInv' /\ MP!PricePaid /\ [MP!Next]_MP!vars => MP!PricePaid'
BY ModeratorAssumed, MP!InitInd, MP!StepInd, MP!PricePaidInd

\* Mole's instance of Anchor and that of its proofs are one specification.
LEMMA SameAnchor ==
    /\ A!Init <=> AP!Init
    /\ A!Next <=> AP!Next
    /\ A!vars = AP!vars
    /\ A!Step1Requests = AP!Step1Requests
<1>1. A!vars = AP!vars
  BY DEF A!vars, AP!vars
<1>2. A!Step1Requests = AP!Step1Requests /\ A!Step2Requests = AP!Step2Requests
  BY DEF A!Step1Requests, AP!Step1Requests, A!Step2Requests, AP!Step2Requests,
         A!Step1, AP!Step1, A!Step2, AP!Step2, A!NoUser, AP!NoUser
<1>3. A!Requests = AP!Requests
  BY <1>2 DEF A!Requests, AP!Requests
<1>4. \A h, m : A!Count(h, m) <=> AP!Count(h, m)
  BY DEF A!Count, AP!Count, A!Idle, AP!Idle, A!NoUser, AP!NoUser
<1>5. \A h : (A!Sign(h) <=> AP!Sign(h)) /\ (A!GiveUp(h) <=> AP!GiveUp(h))
  BY DEF A!Sign, AP!Sign, A!GiveUp, AP!GiveUp, A!Signable, AP!Signable, A!Idle, AP!Idle
<1>6. \A m : A!Prove(m) <=> AP!Prove(m)
  BY DEF A!Prove, AP!Prove
<1>7. \A m : A!Refuse(m) <=> AP!Refuse(m)
  BY DEF A!Refuse, AP!Refuse, A!Refusable, AP!Refusable, A!NoUser, AP!NoUser, A!vars, AP!vars
<1>8. \A ctx : A!Restart(ctx) <=> AP!Restart(ctx)
  BY DEF A!Restart, AP!Restart, A!Idle, AP!Idle
<1>9. A!Init <=> AP!Init
  BY DEF A!Init, AP!Init, A!Idle, AP!Idle
<1> QED
  BY <1>1, <1>2, <1>3, <1>4, <1>5, <1>6, <1>7, <1>8, <1>9 DEF A!Next, AP!Next

\* Likewise for the Moderator.
LEMMA SameModerator ==
    /\ M!Init <=> MP!Init
    /\ M!Next <=> MP!Next
    /\ M!vars = MP!vars
<1> USE DEF M!NoTask, MP!NoTask, M!Nullifier, MP!Nullifier, M!Digest, MP!Digest,
            M!CredentialChallenge, MP!CredentialChallenge, M!ACT, MP!ACT
<1>1. M!vars = MP!vars
  BY DEF M!vars, MP!vars
<1>2. \A cfg : M!ValidConfig(cfg) <=> MP!ValidConfig(cfg)
  BY DEF M!ValidConfig, MP!ValidConfig, M!MalformedKey, MP!MalformedKey
<1>3. M!RedeemRequests = MP!RedeemRequests
  BY DEF M!RedeemRequests, MP!RedeemRequests, M!RedeemRequest, MP!RedeemRequest,
         M!TruncatedKeyId, MP!TruncatedKeyId, M!Forms, MP!Forms,
         M!ModeratorChallenge, MP!ModeratorChallenge, M!IHAT, MP!IHAT
<1>4. \A t : M!PresentRequests(t) = MP!PresentRequests(t)
  BY DEF M!PresentRequests, MP!PresentRequests, M!PresentRequest, MP!PresentRequest,
         M!CanSpend, MP!CanSpend, M!Forms, MP!Forms
<1>5. M!Requests = MP!Requests
  BY <1>3, <1>4 DEF M!Requests, MP!Requests
<1>6. \A m : M!Valid(m) <=> MP!Valid(m)
  BY DEF M!Valid, MP!Valid, M!RedeemValid, MP!RedeemValid, M!PresentValid, MP!PresentValid,
         M!ProofVerifies, MP!ProofVerifies, M!TruncatedKeyId, MP!TruncatedKeyId,
         M!CanIssue, MP!CanIssue, M!RequestContext, MP!RequestContext,
         M!ModeratorChallenge, MP!ModeratorChallenge, M!IHAT, MP!IHAT
<1>7. \A m : M!Refuse(m) <=> MP!Refuse(m)
  BY <1>6 DEF M!Refuse, MP!Refuse, M!vars, MP!vars
<1>8. \A w, m : M!Verify(w, m) <=> MP!Verify(w, m)
  BY <1>6 DEF M!Verify, MP!Verify
<1>9. \A w : M!Issue(w) <=> MP!Issue(w)
  BY DEF M!Issue, MP!Issue, M!Issued, MP!Issued, M!Credential, MP!Credential,
         M!RequestContext, MP!RequestContext
<1>10. \A w : M!Serve(w) <=> MP!Serve(w)
  BY DEF M!Serve, MP!Serve, M!Refunded, MP!Refunded, M!Replacement, MP!Replacement
<1>11. \A w : M!Lose(w) <=> MP!Lose(w)
  BY DEF M!Lose, MP!Lose
<1>12. \A cfg : M!Restart(cfg) <=> MP!Restart(cfg)
  BY <1>2 DEF M!Restart, MP!Restart
<1>13. M!Init <=> MP!Init
  BY <1>2 DEF M!Init, MP!Init
<1> QED
  BY <1>1, <1>5, <1>7, <1>8, <1>9, <1>10, <1>11, <1>12, <1>13 DEF M!Next, MP!Next

\* Likewise for a Client's actions; what servers may answer differs.
LEMMA SameClient ==
    /\ C!Init <=> CU!Init
    /\ C!vars = CU!vars
    /\ \A c : /\ C!Begin(c) <=> CU!Begin(c)
              /\ C!Fail(c) <=> CU!Fail(c)
              /\ C!Quit(c) <=> CU!Quit(c)
              /\ C!GotBody(c) <=> CU!GotBody(c)
    /\ \A c, chal : C!Challenged(c, chal) <=> CU!Challenged(c, chal)
    /\ \A c, dir : C!GotPolicy(c, dir) <=> CU!GotPolicy(c, dir)
    /\ \A c, adir : C!GotAnchor(c, adir) <=> CU!GotAnchor(c, adir)
    /\ \A c, sid : C!GotSignature(c, sid) <=> CU!GotSignature(c, sid)
    /\ \A c, signer : C!GotProof(c, signer) <=> CU!GotProof(c, signer)
    /\ \A c, t : C!GotCredential(c, t) <=> CU!GotCredential(c, t)
    /\ \A c, t : C!GotUpdate(c, t) <=> CU!GotUpdate(c, t)
    /\ \A c, i : C!Issuable(c, i) = CU!Issuable(c, i)
<1> USE DEF C!NotFetching, CU!NotFetching, C!Await, CU!Await, C!Abandon, CU!Abandon,
            C!Put, CU!Put, C!Drawn, CU!Drawn, C!PreIssuance, CU!PreIssuance
<1>1. \A c, store, chal : C!StartPresent(c, store, chal) <=> CU!StartPresent(c, store, chal)
  BY DEF C!StartPresent, CU!StartPresent, C!Take, CU!Take, C!CanSpend, CU!CanSpend,
         C!PresentRequest, CU!PresentRequest, C!Digest, CU!Digest,
         C!CredentialChallenge, CU!CredentialChallenge, C!ACT, CU!ACT
<1>2. \A es, keys, epoch : C!UsableAt(es, keys, epoch) = CU!UsableAt(es, keys, epoch)
  BY DEF C!UsableAt, CU!UsableAt
<1>3. /\ \A S : C!First(S) = CU!First(S)
      /\ \A es, i : C!SwapRemove(es, i) = CU!SwapRemove(es, i)
  BY DEF C!First, CU!First, C!SwapRemove, CU!SwapRemove, C!Front, CU!Front, C!Last, CU!Last
<1>4. \A c, es, chal, dir : C!StartRedeem(c, es, chal, dir) <=> CU!StartRedeem(c, es, chal, dir)
  BY <1>2, <1>3
  DEF C!StartRedeem, CU!StartRedeem, C!MalformedKey, CU!MalformedKey,
      C!RedeemRequest, CU!RedeemRequest, C!Digest, CU!Digest,
      C!ModeratorChallenge, CU!ModeratorChallenge, C!IHAT, CU!IHAT,
      C!TruncatedKeyId, CU!TruncatedKeyId
<1>5. C!vars = CU!vars
  BY DEF C!vars, CU!vars
<1>6. C!Init <=> CU!Init
  BY DEF C!Init, CU!Init
<1>7. \A c : /\ C!Begin(c) <=> CU!Begin(c)
             /\ C!Fail(c) <=> CU!Fail(c)
             /\ C!Quit(c) <=> CU!Quit(c)
             /\ C!GotBody(c) <=> CU!GotBody(c)
  BY DEF C!Begin, CU!Begin, C!Fail, CU!Fail, C!Quit, CU!Quit, C!GotBody, CU!GotBody
<1>8. \A c, chal : C!Challenged(c, chal) <=> CU!Challenged(c, chal)
  BY <1>1 DEF C!Challenged, CU!Challenged
<1>9. \A c, dir : C!GotPolicy(c, dir) <=> CU!GotPolicy(c, dir)
  BY <1>2, <1>4 DEF C!GotPolicy, CU!GotPolicy
<1>10. \A c, adir : C!GotAnchor(c, adir) <=> CU!GotAnchor(c, adir)
  BY DEF C!GotAnchor, CU!GotAnchor, C!Step1, CU!Step1
<1>11. \A c, sid : C!GotSignature(c, sid) <=> CU!GotSignature(c, sid)
  BY DEF C!GotSignature, CU!GotSignature, C!Step2, CU!Step2
<1>12. \A c, signer : C!GotProof(c, signer) <=> CU!GotProof(c, signer)
  BY <1>2, <1>4 DEF C!GotProof, CU!GotProof
<1>13. \A c, t : C!GotCredential(c, t) <=> CU!GotCredential(c, t)
  BY <1>1 DEF C!GotCredential, CU!GotCredential, C!RequestContext, CU!RequestContext
<1>14. \A c, t : C!GotUpdate(c, t) <=> CU!GotUpdate(c, t)
  BY DEF C!GotUpdate, CU!GotUpdate, C!Replacement, CU!Replacement
<1>15. \A c, i : C!Issuable(c, i) = CU!Issuable(c, i)
  BY DEF C!Issuable, CU!Issuable, C!Credential, CU!Credential, C!RequestContext, CU!RequestContext
<1> QED
  BY <1>5, <1>6, <1>7, <1>8, <1>9, <1>10, <1>11, <1>12, <1>13, <1>14, <1>15

----------------------------------------------------------------------------
(* Grants: what the Anchor is asked, what it signs, what Clients keep.     *)

\* The two exchanges of a grant as a Client sends them.
FirstExchange(c, n, ctx) ==
    [step |-> 1, user |-> UserOf[c], ctx |-> ctx, blind |-> <<c, n>>, form |-> "plain"]
SecondExchange(sid) == [step |-> 2, sid |-> sid, form |-> "plain"]

FirstOK(m) ==
    \E c \in Clients, ctx \in Contexts : \E n \in 1 .. drawn[c] : m = FirstExchange(c, n, ctx)
SecondOK(m) == \E sid \in DOMAIN signatures : m = SecondExchange(sid)

\* A nullifier is in one first exchange.
AskedOnce ==
    \A m, n \in ToAnchor : m.step = 1 /\ n.step = 1 /\ m.blind = n.blind => m = n

\* The Anchor has been asked to sign what it signed.
Asked(s) ==
    \E m \in ToAnchor :
        m.step = 1 /\ m.user = s.user /\ m.ctx = s.ctx /\ m.blind = s.blind

HandlerAsked(h) == handler[h] # A!Idle => handler[h] \in ToAnchor /\ handler[h].step = 1

\* Some session of the user of e's Client signed e and was answered.
Granted(e) ==
    \E j \in DOMAIN signatures :
        /\ signatures[j].blind = e.nf /\ signatures[j].user = UserOf[e.nf[1]]
        /\ signatures[j].key = e.key /\ signatures[j].ctx = e.epoch
        /\ signatures[j].proofs = 1

StoreGranted(c, es) ==
    \A i \in DOMAIN es : es[i].nf[1] = c /\ Granted(es[i])

FetchGranted(c) ==
    LET f == fetch[c] IN
    /\ f.phase = "signing" =>
           f.request \in sent /\ f.request = FirstExchange(c, drawn[c], f.adir.epoch)
    /\ f.phase = "proving" =>
           \E sid \in DOMAIN signatures :
               /\ f.request = SecondExchange(sid)
               /\ signatures[sid].blind = <<c, drawn[c]>>
               /\ signatures[sid].user = UserOf[c]
               /\ signatures[sid].ctx = f.adir.epoch

ClientGranted(c) == StoreGranted(c, endorsements[c]) /\ FetchGranted(c)

RedemptionsGranted == \A m \in C!Redemptions : Granted(m.e)

GrantInv ==
    /\ AP!IndInv
    /\ \A m \in ToAnchor : FirstOK(m) \/ SecondOK(m)
    /\ AskedOnce
    /\ \A i \in DOMAIN signatures : Asked(signatures[i])
    /\ \A h \in Handlers : HandlerAsked(h)
    /\ RedemptionsGranted
    /\ \A c \in Clients : ClientGranted(c)

\* A step of the Anchor, or none.
AnchorStepped == [AP!Next]_AP!vars /\ AP!IndInv' /\ AP!SignaturesGrow

\* A step of the Anchor keeps its invariant and adds to its signatures.
LEMMA AnchorSteps ==
    ASSUME AP!IndInv, [A!Next]_A!vars
    PROVE  AnchorStepped
BY SameAnchor, AnchorInstance DEF AnchorStepped, A!vars, AP!vars

\* So does a step of a Client, in which the Anchor stutters.
LEMMA AnchorStays ==
    ASSUME AP!IndInv, Servers
    PROVE  AnchorStepped /\ UNCHANGED <<signatures, handler>>
BY AnchorInstance DEF AnchorStepped, AP!vars, Servers, anchorVars

\* What a signature says of a session stays true of it.
LEMMA GrantedKept == ASSUME AnchorStepped, NEW e, Granted(e) PROVE Granted(e)'
<1>1. PICK j \in DOMAIN signatures :
          /\ signatures[j].blind = e.nf /\ signatures[j].user = UserOf[e.nf[1]]
          /\ signatures[j].key = e.key /\ signatures[j].ctx = e.epoch
          /\ signatures[j].proofs = 1
  BY DEF Granted
<1>2. /\ j \in DOMAIN signatures'
      /\ signatures'[j].blind = signatures[j].blind /\ signatures'[j].user = signatures[j].user
      /\ signatures'[j].key = signatures[j].key /\ signatures'[j].ctx = signatures[j].ctx
      /\ 1 <= signatures'[j].proofs
  BY <1>1 DEF AnchorStepped, AP!SignaturesGrow
<1>3. signatures'[j].proofs \in Nat /\ signatures'[j].proofs <= 1
  <2>1. signatures' \in Seq(AP!SignatureRecords) /\ AP!ProvedOnce'
    BY DEF AnchorStepped, AP!IndInv, AP!TypeOK
  <2>2. signatures'[j] \in AP!SignatureRecords
    BY <1>2, <2>1
  <2> QED
    BY <1>2, <2>1, <2>2 DEF AP!SignatureRecords, AP!ProvedOnce
<1> QED
  BY <1>1, <1>2, <1>3 DEF Granted

\* More is sent and drawn, more is signed.
More == /\ sent \subseteq sent'
        /\ \A c \in Clients : drawn[c] \in Nat /\ drawn'[c] \in Nat /\ drawn[c] <= drawn'[c]

\* A request that was expected stays so, whatever is sent or signed.
LEMMA RequestKept ==
    ASSUME AnchorStepped, More, NEW m, FirstOK(m) \/ SecondOK(m)
    PROVE  (FirstOK(m) \/ SecondOK(m))'
<1>1. CASE FirstOK(m)
  <2>1. PICK c \in Clients, ctx \in Contexts : \E n \in 1 .. drawn[c] : m = FirstExchange(c, n, ctx)
    BY <1>1 DEF FirstOK
  <2>2. PICK n \in 1 .. drawn[c] : m = FirstExchange(c, n, ctx)
    BY <2>1
  <2>3. n \in 1 .. drawn'[c]
    BY <2>2 DEF More
  <2>4. m = FirstExchange(c, n, ctx)'
    BY <2>2 DEF FirstExchange
  <2> QED
    BY <2>3, <2>4 DEF FirstOK
<1>2. CASE SecondOK(m)
  BY <1>2 DEF SecondOK, SecondExchange, AnchorStepped, AP!SignaturesGrow
<1> QED
  BY <1>1, <1>2

\* A signature that was asked for stays so: nothing sent is forgotten.
LEMMA AskedKept ==
    ASSUME AnchorStepped, More, NEW i \in DOMAIN signatures, Asked(signatures[i])
    PROVE  Asked(signatures[i])'
<1>1. PICK m \in ToAnchor :
          /\ m.step = 1 /\ m.user = signatures[i].user
          /\ m.ctx = signatures[i].ctx /\ m.blind = signatures[i].blind
  BY DEF Asked
<1>2. m \in ToAnchor'
  BY DEF ToAnchor, More
<1> QED
  BY <1>1, <1>2 DEF Asked, AnchorStepped, AP!SignaturesGrow

\* A Client that does not move keeps what it was granted.
LEMMA ClientGrantedKept ==
    ASSUME AnchorStepped, More, NEW c \in Clients, ClientGranted(c),
           endorsements'[c] = endorsements[c], fetch'[c] = fetch[c], drawn'[c] = drawn[c]
    PROVE  ClientGranted(c)'
<1>1. StoreGranted(c, endorsements[c])'
  BY GrantedKept DEF ClientGranted, StoreGranted
<1>2. FetchGranted(c)'
  <2>1. fetch[c].phase = "signing" =>
            fetch[c].request \in sent' /\ fetch[c].request = FirstExchange(c, drawn[c], fetch[c].adir.epoch)
    BY DEF ClientGranted, FetchGranted, More
  <2>2. ASSUME fetch[c].phase = "proving"
        PROVE  \E sid \in DOMAIN signatures' :
                   /\ fetch[c].request = SecondExchange(sid)
                   /\ signatures'[sid].blind = <<c, drawn[c]>>
                   /\ signatures'[sid].user = UserOf[c]
                   /\ signatures'[sid].ctx = fetch[c].adir.epoch
    BY <2>2 DEF ClientGranted, FetchGranted, AnchorStepped, AP!SignaturesGrow
  <2> QED
    BY <2>1, <2>2 DEF FetchGranted, FirstExchange, SecondExchange
<1> QED
  BY <1>1, <1>2 DEF ClientGranted

\* A step of Client c.
LEMMA ClientGrants ==
    ASSUME GrantInv, More, Servers, NEW c \in Clients, OnlyOf(c), ClientGranted(c)',
           \A m \in ToAnchor' \ ToAnchor :
               /\ (FirstOK(m) \/ SecondOK(m))'
               /\ m.step = 1 => \A n \in ToAnchor : n.step = 1 => n.blind # m.blind,
           \A m, n \in ToAnchor' \ ToAnchor : m = n,
           \A m \in C!Redemptions' \ C!Redemptions : Granted(m.e)
    PROVE  GrantInv'
<1>1. AnchorStepped /\ UNCHANGED <<signatures, handler>>
  BY AnchorStays DEF GrantInv
<1>2. ToAnchor \subseteq ToAnchor'
  BY DEF More, ToAnchor
<1>3. \A m \in ToAnchor' : (FirstOK(m) \/ SecondOK(m))'
  BY <1>1, RequestKept DEF GrantInv
<1>4. AskedOnce'
  BY <1>2 DEF GrantInv, AskedOnce
<1>5. \A i \in DOMAIN signatures' : Asked(signatures[i])'
  BY <1>1, AskedKept DEF GrantInv
<1>6. \A h \in Handlers : HandlerAsked(h)'
  BY <1>1, <1>2 DEF GrantInv, HandlerAsked
<1>7. RedemptionsGranted'
  BY <1>1, GrantedKept DEF GrantInv, RedemptionsGranted
<1>8. \A d \in Clients \ {c} : ClientGranted(d)'
  BY <1>1, ClientGrantedKept DEF GrantInv, OnlyOf
<1> QED
  BY <1>1, <1>3, <1>4, <1>5, <1>6, <1>7, <1>8 DEF GrantInv, AnchorStepped

\* What every step of a Client does to the network: it sends more, and what
\* is being presented has been sent.
Sends(c) ==
    /\ OnlyOf(c)
    /\ sent \subseteq sent'
    /\ fetch'[c].phase = "presenting" => fetch'[c].request \in C!Presentations'

\* Most leave grants alone.
Quiet(c) ==
    /\ Sends(c)
    /\ UNCHANGED drawn
    /\ fetch'[c].phase \notin {"signing", "proving"}
    /\ endorsements'[c] \in {endorsements[c], <<>>}
    /\ \A m \in sent' \ sent : "step" \notin DOMAIN m /\ m.op = "present"

\* A step that stores, redeems and asks for no endorsement keeps what was granted.
LEMMA QuietGrants ==
    ASSUME IndInv, GrantInv, Servers, NEW c \in Clients, Quiet(c)
    PROVE  GrantInv'
<1>1. AnchorStepped /\ UNCHANGED <<signatures, handler>>
  BY AnchorStays DEF GrantInv
<1>2. More
  BY DEF More, Quiet, Sends, IndInv, ClientOK, CountsOK
<1>3. ToAnchor' = ToAnchor /\ C!Redemptions' = C!Redemptions
  BY DEF Quiet, Sends, ToAnchor, C!Redemptions
<1>4. ClientGranted(c)'
  <2>1. StoreGranted(c, endorsements[c])'
    BY <1>1, GrantedKept DEF Quiet, GrantInv, ClientGranted, StoreGranted
  <2> QED
    BY <2>1 DEF ClientGranted, FetchGranted, Quiet
<1>5. OnlyOf(c)
  BY DEF Quiet, Sends
<1> QED
  BY <1>2, <1>3, <1>4, <1>5, ClientGrants

\* Fetches that begin, end, or wait for the body.
LEMMA RestQuiet ==
    ASSUME IndInv, NEW c \in Clients,
           C!Begin(c) \/ C!GotBody(c) \/ C!Fail(c) \/ C!Quit(c)
    PROVE  Quiet(c)
<1>1. \E f \in {[phase |-> "challenge"], [phase |-> "idle"]} : fetch' = [fetch EXCEPT ![c] = f]
  BY DEF C!Begin, C!GotBody, C!Fail, C!Quit, C!Abandon, C!Await, C!NotFetching
<1>2. PICK f \in {[phase |-> "challenge"], [phase |-> "idle"]} : fetch' = [fetch EXCEPT ![c] = f]
  BY <1>1
<1>3. /\ UNCHANGED <<sent, drawn>>
      /\ fetches' \in {fetches, [fetches EXCEPT ![c] = @ + 1]}
      /\ \/ UNCHANGED <<endorsements, credentials>>
         \/ /\ endorsements' = [endorsements EXCEPT ![c] = <<>>]
            /\ credentials' = [credentials EXCEPT ![c] = <<>>]
  BY DEF C!Begin, C!GotBody, C!Fail, C!Quit, C!Abandon
<1>4. fetch'[c] = f /\ OnlyOf(c)
  BY <1>2, <1>3 DEF IndInv, MapsOK, OnlyOf
<1>5. endorsements'[c] \in {endorsements[c], <<>>}
  BY <1>3 DEF IndInv, MapsOK
<1>6. f.phase \notin {"signing", "proving", "presenting"}
  OBVIOUS
<1> QED
  BY <1>3, <1>4, <1>5, <1>6 DEF Quiet, Sends

\* A presentation.
LEMMA PresentQuiet ==
    ASSUME IndInv, NEW c \in Clients, NEW w, NEW chal, C!StartPresent(c, w, chal),
           UNCHANGED <<endorsements, drawn, fetches>>
    PROVE  Quiet(c)
<1> DEFINE m == PresentRequest(w[chal.policy], Digest(CredentialChallenge(chal, chal.topup)),
                               chal.charge, chal.topup, "plain")
           f == [phase |-> "presenting", chal |-> chal, request |-> m]
<1>1. /\ credentials' = [credentials EXCEPT ![c] = C!Take(w, chal.policy)]
      /\ \/ /\ fetch' = [fetch EXCEPT ![c] = f]
            /\ sent' = sent \union {m}
         \/ /\ fetch' = [fetch EXCEPT ![c] = [phase |-> "idle"]]
            /\ UNCHANGED sent
  BY SameTypes DEF C!StartPresent, C!Await, C!Abandon, C!NotFetching
<1>2. "step" \notin DOMAIN m /\ "op" \in DOMAIN m /\ m.op = "present"
  BY DEF PresentRequest
<1>3. f.phase = "presenting" /\ f.request = m
  OBVIOUS
<1> HIDE DEF m, f
<1>4. OnlyOf(c)
  BY <1>1 DEF IndInv, MapsOK, OnlyOf
<1>5. \/ fetch'[c] = f /\ sent' = sent \union {m}
      \/ fetch'[c] = [phase |-> "idle"] /\ UNCHANGED sent
  BY <1>1 DEF IndInv, MapsOK
<1> QED
  BY <1>2, <1>3, <1>4, <1>5 DEF Quiet, Sends, C!Presentations

\* A redemption, from a store of granted endorsements.
LEMMA RedeemGrants ==
    ASSUME IndInv, GrantInv, Servers, NEW c \in Clients, NEW es \in Seq(Endorsement),
           StoreGranted(c, es), NEW chal, NEW dir,
           C!UsableAt(es, chal.keys, dir.epoch) # {},
           C!StartRedeem(c, es, chal, dir), UNCHANGED <<credentials, drawn, fetches>>
    PROVE  GrantInv' /\ Sends(c)
<1> DEFINE i == C!First(C!UsableAt(es, chal.keys, dir.epoch))
           m == RedeemRequest(es[i], Digest(ModeratorChallenge(chal)),
                              TruncatedKeyId(dir.key), C!PreIssuance, "plain")
           f == [phase |-> "redeeming", chal |-> chal, dir |-> dir, request |-> m]
           rest == C!SwapRemove(es, i)
<1>1. /\ endorsements' = [endorsements EXCEPT ![c] = rest]
      /\ \/ /\ fetch' = [fetch EXCEPT ![c] = f]
            /\ sent' = sent \union {m}
         \/ /\ fetch' = [fetch EXCEPT ![c] = [phase |-> "idle"]]
            /\ UNCHANGED sent
  BY SameTypes DEF C!StartRedeem, C!Await, C!Abandon, C!NotFetching
<1>2. i \in DOMAIN es
  <2>1. C!UsableAt(es, chal.keys, dir.epoch) \subseteq DOMAIN es /\ DOMAIN es \subseteq Nat
    BY DEF C!UsableAt
  <2>2. \E j \in C!UsableAt(es, chal.keys, dir.epoch) :
            \A k \in C!UsableAt(es, chal.keys, dir.epoch) : j <= k
    BY <2>1, LeastExists
  <2> QED
    BY <2>1, <2>2 DEF C!First
<1>3. \A j \in DOMAIN rest : \E k \in DOMAIN es : rest[j] = es[k]
  <2> HIDE DEF i
  <2>1. /\ CU!SwapRemove(es, i) \in Seq(Endorsement)
        /\ Len(CU!SwapRemove(es, i)) = Len(es) - 1
        /\ \A j \in 1 .. Len(es) - 1 :
               CU!SwapRemove(es, i)[j] = es[IF j = i THEN Len(es) ELSE j]
    BY <1>2, CU!SwapRemoved, ClientAssumed, SMTT(30)
  <2>2. rest = CU!SwapRemove(es, i)
    BY DEF C!SwapRemove, CU!SwapRemove, C!Front, CU!Front, C!Last, CU!Last
  <2> HIDE DEF rest
  <2> QED
    BY <1>2, <2>1, <2>2
<1>4. /\ "step" \notin DOMAIN m /\ m.op = "redeem" /\ m.e = es[i]
      /\ f.phase = "redeeming"
  BY DEF RedeemRequest
<1> HIDE DEF i, m, f, rest
<1>5. OnlyOf(c)
  BY <1>1 DEF IndInv, MapsOK, OnlyOf
<1>6. /\ endorsements'[c] = rest
      /\ fetch'[c].phase \in {"redeeming", "idle"}
      /\ sent' \in {sent, sent \union {m}}
  BY <1>1, <1>4 DEF IndInv, MapsOK
<1>7. More
  BY <1>6 DEF More, IndInv, ClientOK, CountsOK
<1>8. AnchorStepped
  BY AnchorStays DEF GrantInv
<1>9. ClientGranted(c)'
  <2>1. \A j \in DOMAIN rest : rest[j].nf[1] = c /\ Granted(rest[j])'
    BY <1>3, <1>8, GrantedKept DEF StoreGranted
  <2>2. StoreGranted(c, endorsements[c])'
    BY <1>6, <2>1 DEF StoreGranted
  <2> QED
    BY <1>6, <2>2 DEF ClientGranted, FetchGranted
<1>10. ToAnchor' = ToAnchor /\ C!Redemptions' \subseteq C!Redemptions \union {m}
  BY <1>4, <1>6 DEF ToAnchor, C!Redemptions
<1>11. Granted(m.e)
  BY <1>2, <1>4 DEF StoreGranted
<1>12. GrantInv'
  BY <1>5, <1>7, <1>9, <1>10, <1>11, ClientGrants
<1> QED
  BY <1>5, <1>6, <1>12 DEF Sends

\* The first exchange: its nullifier is new.
LEMMA FirstGrants ==
    ASSUME IndInv, IndInv', GrantInv, Servers, NEW c \in Clients,
           C!GotAnchor(c, AnchorDirectory(anchorKey, context))
    PROVE  GrantInv' /\ Sends(c)
<1>0. PICK m, adir : /\ m = FirstExchange(c, drawn[c] + 1, context)
                     /\ adir = AnchorDirectory(anchorKey, context)
  OBVIOUS
<1> DEFINE f == [phase |-> "signing", chal |-> fetch[c].chal, dir |-> fetch[c].dir,
                 adir |-> adir, request |-> m]
<1>1. /\ sent' = sent \union {m}
      /\ fetch' = [fetch EXCEPT ![c] = f]
      /\ drawn' = [drawn EXCEPT ![c] = @ + 1]
      /\ UNCHANGED <<endorsements, credentials, fetches>>
  BY <1>0 DEF C!GotAnchor, C!Await, C!Drawn, C!Step1, FirstExchange, AnchorDirectory
<1>2. drawn[c] \in Nat /\ context \in Contexts
  BY DEF IndInv, ClientOK, CountsOK, ServersOK
<1>3. OnlyOf(c)
  BY <1>1 DEF IndInv, MapsOK, OnlyOf
<1>4. fetch'[c] = f /\ drawn'[c] = drawn[c] + 1 /\ endorsements'[c] = endorsements[c]
  BY <1>1 DEF IndInv, MapsOK
<1>5. /\ f.phase = "signing" /\ f.adir.epoch = context /\ f.request = m
      /\ m.step = 1 /\ m.blind = <<c, drawn[c] + 1>> /\ "op" \notin DOMAIN m
  BY <1>0 DEF FirstExchange, AnchorDirectory
<1>6. More
  <2>1. \A d \in Clients : drawn[d] \in Nat
    BY DEF IndInv, ClientOK, CountsOK
  <2> QED
    BY <1>1, <1>2, <1>3, <1>4, <2>1 DEF More, OnlyOf
<1>7. AnchorStepped
  BY AnchorStays DEF GrantInv
<1>8. FirstOK(m)'
  <2>1. drawn[c] + 1 \in 1 .. drawn'[c]
    BY <1>2, <1>4
  <2> QED
    BY <1>0, <1>2, <2>1 DEF FirstOK, FirstExchange
<1>9. ASSUME NEW n \in ToAnchor, n.step = 1 PROVE n.blind # m.blind
  <2>1. ~SecondOK(n)
    BY <1>9 DEF SecondOK, SecondExchange
  <2>2. PICK d \in Clients, ctx \in Contexts :
            \E k \in 1 .. drawn[d] : n = FirstExchange(d, k, ctx)
    BY <2>1 DEF GrantInv, FirstOK
  <2>3. PICK k \in 1 .. drawn[d] : n.blind = <<d, k>>
    BY <2>2 DEF FirstExchange
  <2>4. k # drawn[c] + 1 \/ d # c
    BY <1>2
  <2> QED
    BY <1>5, <2>3, <2>4
<1>10. ClientGranted(c)'
  <2>1. StoreGranted(c, endorsements[c])'
    BY <1>4, <1>7, GrantedKept DEF GrantInv, ClientGranted, StoreGranted
  <2>2. m = FirstExchange(c, drawn'[c], context)
    BY <1>0, <1>4
  <2> HIDE DEF f
  <2>3. FetchGranted(c)'
    BY <1>1, <1>4, <1>5, <2>2 DEF FetchGranted, FirstExchange
  <2> QED
    BY <2>1, <2>3 DEF ClientGranted
<1> HIDE DEF f
<1>11. /\ ToAnchor' \subseteq ToAnchor \union {m}
       /\ C!Redemptions' = C!Redemptions
  BY <1>1, <1>5 DEF ToAnchor, C!Redemptions
<1>12. GrantInv'
  BY <1>3, <1>6, <1>8, <1>9, <1>10, <1>11, ClientGrants
<1> QED
  BY <1>1, <1>3, <1>4, <1>5, <1>12 DEF Sends

\* The second exchange: the session it names has signed for this Client's
\* user, since only the first exchange of this Client had that nullifier.
LEMMA SecondGrants ==
    ASSUME IndInv, GrantInv, Servers, NEW c \in Clients, NEW sid \in Signed(c),
           C!GotSignature(c, sid)
    PROVE  GrantInv' /\ Sends(c)
<1>0. PICK m, adir : m = SecondExchange(sid) /\ adir = fetch[c].adir
  OBVIOUS
<1> DEFINE f == [phase |-> "proving", chal |-> fetch[c].chal, dir |-> fetch[c].dir,
                 adir |-> adir, request |-> m]
<1>1. /\ fetch[c].phase = "signing"
      /\ sent' = sent \union {m}
      /\ fetch' = [fetch EXCEPT ![c] = f]
      /\ UNCHANGED <<endorsements, credentials, drawn, fetches>>
  BY <1>0 DEF C!GotSignature, C!Await, C!Step2, SecondExchange
<1>2. OnlyOf(c)
  BY <1>1 DEF IndInv, MapsOK, OnlyOf
<1>3. fetch'[c] = f
  BY <1>1 DEF IndInv, MapsOK
<1>4. /\ f.phase = "proving" /\ f.adir = adir /\ f.request = m
      /\ m.step = 2 /\ "op" \notin DOMAIN m
  BY <1>0 DEF SecondExchange
<1> HIDE DEF f
<1>5. More
  BY <1>1 DEF More, IndInv, ClientOK, CountsOK
<1>6. AnchorStepped /\ UNCHANGED signatures
  BY AnchorStays DEF GrantInv
<1>7. SecondOK(m)'
  BY <1>0, <1>6 DEF SecondOK, SecondExchange, Signed
<1>8. /\ signatures[sid].blind = <<c, drawn[c]>>
      /\ signatures[sid].user = UserOf[c]
      /\ signatures[sid].ctx = adir.epoch
  <2>1. fetch[c].request \in sent /\ fetch[c].request = FirstExchange(c, drawn[c], adir.epoch)
    BY <1>0, <1>1 DEF GrantInv, ClientGranted, FetchGranted
  <2>2. PICK n : n = fetch[c].request
    OBVIOUS
  <2>3. /\ n \in ToAnchor /\ n.step = 1 /\ n.blind = <<c, drawn[c]>>
        /\ n.user = UserOf[c] /\ n.ctx = adir.epoch
    BY <2>1, <2>2 DEF FirstExchange, ToAnchor
  <2>4. sid \in DOMAIN signatures /\ signatures[sid].blind = n.blind
    BY <2>2 DEF Signed
  <2>5. PICK k \in ToAnchor : /\ k.step = 1 /\ k.user = signatures[sid].user
                              /\ k.ctx = signatures[sid].ctx /\ k.blind = signatures[sid].blind
    BY <2>4 DEF GrantInv, Asked
  <2>6. k = n
    BY <2>3, <2>4, <2>5 DEF GrantInv, AskedOnce
  <2> QED
    BY <2>3, <2>4, <2>5, <2>6
<1>9. ClientGranted(c)'
  <2>1. StoreGranted(c, endorsements[c])'
    BY <1>1, <1>6, GrantedKept DEF GrantInv, ClientGranted, StoreGranted
  <2>2. FetchGranted(c)'
    BY <1>0, <1>1, <1>3, <1>4, <1>6, <1>8 DEF FetchGranted, SecondExchange, Signed
  <2> QED
    BY <2>1, <2>2 DEF ClientGranted
<1>10. /\ ToAnchor' \subseteq ToAnchor \union {m}
       /\ C!Redemptions' = C!Redemptions
  BY <1>1, <1>4 DEF ToAnchor, C!Redemptions
<1>11. GrantInv'
  BY <1>2, <1>4, <1>5, <1>7, <1>9, <1>10, ClientGrants
<1> QED
  BY <1>1, <1>2, <1>3, <1>4, <1>11 DEF Sends

\* What the proof completes is an endorsement that was granted.
LEMMA ProofGrants ==
    ASSUME IndInv, GrantInv, Servers, NEW c \in Clients, NEW i \in Proved(c),
           C!GotProof(c, signatures[i].key)
    PROVE  GrantInv' /\ Sends(c)
<1>0. PICK f, e, signer : /\ f = fetch[c] /\ signer = signatures[i].key
                          /\ e = [nf |-> <<c, drawn[c]>>, key |-> f.adir.key,
                                  epoch |-> f.adir.epoch]
  OBVIOUS
<1>1. PICK es : es = Append(endorsements[c], e)
  OBVIOUS
<1>2. /\ f.phase = "proving" /\ UNCHANGED <<credentials, drawn, fetches>>
      /\ IF signer # f.adir.key
         THEN C!Abandon(c) /\ UNCHANGED <<endorsements, sent>>
         ELSE IF C!UsableAt(es, f.chal.keys, f.dir.epoch) # {}
         THEN C!StartRedeem(c, es, f.chal, f.dir)
         ELSE /\ endorsements' = [endorsements EXCEPT ![c] = es]
              /\ C!Abandon(c)
              /\ UNCHANGED sent
  BY <1>0, <1>1 DEF C!GotProof, C!Drawn
<1>3. CASE signer # f.adir.key
  <2>1. C!Fail(c)
    BY <1>0, <1>2, <1>3 DEF C!Fail
  <2> QED
    BY <2>1, RestQuiet, QuietGrants DEF Quiet
<1>4. CASE signer = f.adir.key
  <2>1. /\ i \in DOMAIN signatures
        /\ signatures[i].blind = <<c, drawn[c]>>
        /\ signatures[i].user = UserOf[c]
        /\ signatures[i].ctx = f.adir.epoch
        /\ signatures[i].proofs > 0
    <3>1. \E sid \in DOMAIN signatures :
              /\ f.request = SecondExchange(sid)
              /\ signatures[sid].blind = <<c, drawn[c]>>
              /\ signatures[sid].user = UserOf[c]
              /\ signatures[sid].ctx = f.adir.epoch
      BY <1>0, <1>2 DEF GrantInv, ClientGranted, FetchGranted
    <3> QED
      BY <1>0, <3>1 DEF Proved, SecondExchange
  <2>2. signatures[i].proofs = 1
    <3>1. signatures \in Seq(AP!SignatureRecords) /\ AP!ProvedOnce
      BY DEF GrantInv, AP!IndInv, AP!TypeOK
    <3>2. signatures[i] \in AP!SignatureRecords
      BY <2>1, <3>1
    <3> QED
      BY <2>1, <3>1, <3>2 DEF AP!SignatureRecords, AP!ProvedOnce
  <2>3. Granted(e)
    <3>1. e.nf = <<c, drawn[c]>> /\ e.nf[1] = c /\ e.key = signer /\ e.epoch = f.adir.epoch
      BY <1>0, <1>4
    <3> QED
      BY <1>0, <2>1, <2>2, <3>1 DEF Granted
  <2>4. endorsements[c] \in Seq(Endorsement) /\ StoreGranted(c, endorsements[c])
    BY DEF IndInv, ClientOK, StoreOK, GrantInv, ClientGranted
  <2>5. e \in Endorsement /\ e.nf[1] = c
    <3>1. drawn[c] \in 1 .. MaxFetches
      BY <1>0, <1>2, MoleAssumption DEF IndInv, ClientOK, CountsOK, FetchOK
    <3>2. f.adir.key \in 1 .. MaxAnchorRuns /\ f.adir.epoch \in Contexts
      BY <1>0, <1>2 DEF IndInv, ClientOK, FetchOK
    <3> QED
      BY <1>0, <3>1, <3>2 DEF Endorsement, Roots
  <2>6. es \in Seq(Endorsement) /\ StoreGranted(c, es)
    <3>1. /\ es \in Seq(Endorsement)
          /\ \A j \in DOMAIN es :
                 (j \in DOMAIN endorsements[c] /\ es[j] = endorsements[c][j]) \/ es[j] = e
      BY <1>1, <2>4, <2>5
    <3> QED
      BY <2>3, <2>4, <2>5, <3>1 DEF StoreGranted
  <2>7. CASE C!UsableAt(es, f.chal.keys, f.dir.epoch) # {}
    BY <1>2, <1>4, <2>6, <2>7, RedeemGrants
  <2>8. CASE C!UsableAt(es, f.chal.keys, f.dir.epoch) = {}
    <3>1. /\ endorsements' = [endorsements EXCEPT ![c] = es]
          /\ fetch' = [fetch EXCEPT ![c] = [phase |-> "idle"]]
          /\ UNCHANGED sent
      BY <1>2, <1>4, <2>8 DEF C!Abandon, C!NotFetching
    <3>2. OnlyOf(c)
      BY <1>2, <3>1 DEF IndInv, MapsOK, OnlyOf
    <3>3. endorsements'[c] = es /\ fetch'[c].phase = "idle"
      BY <3>1 DEF IndInv, MapsOK
    <3>4. More
      BY <1>2, <3>1 DEF More, IndInv, ClientOK, CountsOK
    <3>5. AnchorStepped
      BY AnchorStays DEF GrantInv
    <3>6. ClientGranted(c)'
      BY <2>6, <3>3, <3>5, GrantedKept DEF ClientGranted, StoreGranted, FetchGranted
    <3>7. ToAnchor' = ToAnchor /\ C!Redemptions' = C!Redemptions
      BY <3>1 DEF ToAnchor, C!Redemptions
    <3>8. GrantInv'
      BY <3>2, <3>4, <3>6, <3>7, ClientGrants
    <3> QED
      BY <3>1, <3>2, <3>3, <3>8 DEF Sends
  <2> QED
    BY <2>7, <2>8
<1> QED
  BY <1>3, <1>4

\* No step of a Client asks the Anchor for what it was not granted.
LEMMA ClientsGrant ==
    ASSUME IndInv, IndInv', GrantInv, NEW c \in Clients,
           Begin(c) \/ Get(c) \/ GetNothing(c) \/ Quit(c)
    PROVE  GrantInv' /\ Sends(c) /\ Servers
<1>1. Servers
  BY DEF Begin, Get, GetResource, GetPolicy, GetAnchor, GetGrant, GetCredential, GetUpdate,
         GetBody, GetRefusal, GetNothing, Quit, Servers
<1>2. Quiet(c) => GrantInv' /\ Sends(c) /\ Servers
  BY <1>1, QuietGrants DEF Quiet
<1>3. CASE Begin(c) \/ GetBody(c) \/ GetRefusal(c) \/ GetNothing(c) \/ Quit(c)
  BY <1>2, <1>3, RestQuiet DEF Begin, GetBody, GetRefusal, GetNothing, Quit
<1>4. CASE GetResource(c)
  <2>0. PICK chal : chal = ChallengeOf(config)
    OBVIOUS
  <2>1. /\ UNCHANGED <<endorsements, drawn, fetches>>
        /\ IF chal.policy \in DOMAIN credentials[c]
           THEN C!StartPresent(c, credentials[c], chal)
           ELSE /\ fetch' = [fetch EXCEPT ![c] = [phase |-> "policy", chal |-> chal]]
                /\ UNCHANGED <<credentials, sent>>
    BY <1>4, <2>0 DEF GetResource, C!Challenged, C!Await
  <2>2. CASE chal.policy \in DOMAIN credentials[c]
    BY <1>2, <2>1, <2>2, PresentQuiet
  <2>3. CASE chal.policy \notin DOMAIN credentials[c]
    BY <1>2, <2>1, <2>3 DEF Quiet, Sends, IndInv, MapsOK, OnlyOf
  <2> QED
    BY <2>2, <2>3
<1>5. CASE GetPolicy(c)
  <2>0. PICK dir, f : dir = ModeratorDirectory(config, run) /\ f = fetch[c]
    OBVIOUS
  <2>1. /\ f.phase = "policy" /\ UNCHANGED <<credentials, drawn, fetches>>
        /\ IF dir.policy # f.chal.policy
           THEN C!Abandon(c) /\ UNCHANGED <<endorsements, sent>>
           ELSE IF C!UsableAt(endorsements[c], f.chal.keys, dir.epoch) # {}
           THEN C!StartRedeem(c, endorsements[c], f.chal, dir)
           ELSE /\ fetch' = [fetch EXCEPT ![c] = [phase |-> "anchor", chal |-> f.chal, dir |-> dir]]
                /\ UNCHANGED <<endorsements, sent>>
    BY <1>5, <2>0 DEF GetPolicy, C!GotPolicy, C!Await
  <2>2. CASE dir.policy # f.chal.policy
    <3>1. C!Fail(c)
      BY <1>5, <2>0, <2>2 DEF GetPolicy, C!GotPolicy, C!Fail
    <3> QED
      BY <1>2, <3>1, RestQuiet
  <2>3. CASE dir.policy = f.chal.policy
             /\ C!UsableAt(endorsements[c], f.chal.keys, dir.epoch) # {}
    <3>1. endorsements[c] \in Seq(Endorsement) /\ StoreGranted(c, endorsements[c])
      BY DEF IndInv, ClientOK, StoreOK, GrantInv, ClientGranted
    <3> QED
      BY <1>1, <2>1, <2>3, <3>1, RedeemGrants
  <2>4. CASE dir.policy = f.chal.policy
             /\ C!UsableAt(endorsements[c], f.chal.keys, dir.epoch) = {}
    BY <1>2, <2>1, <2>4 DEF Quiet, Sends, IndInv, MapsOK, OnlyOf
  <2> QED
    BY <2>2, <2>3, <2>4
<1>6. CASE GetAnchor(c)
  BY <1>1, <1>6, FirstGrants DEF GetAnchor
<1>7. CASE GetGrant(c)
  BY <1>1, <1>7, SecondGrants, ProofGrants DEF GetGrant
<1>8. CASE GetCredential(c)
  <2>1. PICK t : C!GotCredential(c, t)
    BY <1>8 DEF GetCredential
  <2>2. UNCHANGED <<endorsements, drawn, fetches>>
    BY <2>1 DEF C!GotCredential
  <2>3. \/ C!Fail(c)
        \/ \E w, chal : C!StartPresent(c, w, chal)
    BY <2>1 DEF C!GotCredential, C!Fail
  <2> QED
    BY <1>2, <2>2, <2>3, RestQuiet, PresentQuiet
<1>9. CASE GetUpdate(c)
  <2>1. PICK w : /\ credentials' = [credentials EXCEPT ![c] = w]
                 /\ fetch' = [fetch EXCEPT ![c] = [phase |-> "body"]]
                 /\ UNCHANGED <<endorsements, sent, drawn, fetches>>
    BY <1>9 DEF GetUpdate, C!GotUpdate, C!Await
  <2> QED
    BY <1>2, <2>1 DEF Quiet, Sends, IndInv, MapsOK, OnlyOf
<1> QED
  BY <1>3, <1>4, <1>5, <1>6, <1>7, <1>8, <1>9 DEF Get

----------------------------------------------------------------------------
(* The Anchor's side of a grant.                                           *)

\* The Anchor signs what was asked, whatever handler does so.
LEMMA AnchorGrants ==
    ASSUME IndInv, GrantInv, [A!Next]_A!vars, UNCHANGED clientVars,
           \A h \in Handlers : HandlerAsked(h)'
    PROVE  GrantInv'
<1>1. AnchorStepped
  BY AnchorSteps DEF GrantInv
<1>2. UNCHANGED <<endorsements, fetch, sent, drawn>>
  BY DEF clientVars
<1>3. More
  BY <1>2 DEF More, IndInv, ClientOK, CountsOK
<1>4. ToAnchor' = ToAnchor /\ C!Redemptions' = C!Redemptions
  BY <1>2 DEF ToAnchor, C!Redemptions
<1>5. \A m \in ToAnchor' : (FirstOK(m) \/ SecondOK(m))'
  BY <1>1, <1>3, <1>4, RequestKept DEF GrantInv
<1>6. AskedOnce'
  BY <1>4 DEF GrantInv, AskedOnce
<1>7. ASSUME NEW i \in DOMAIN signatures' PROVE Asked(signatures[i])'
  <2>1. CASE i \in DOMAIN signatures
    BY <1>1, <1>3, <2>1, AskedKept DEF GrantInv
  <2>2. CASE i \notin DOMAIN signatures
    <3>1. PICK h \in Handlers : /\ handler[h] # AP!Idle
                                /\ signatures'[i].user = handler[h].user
                                /\ signatures'[i].ctx = handler[h].ctx
                                /\ signatures'[i].blind = handler[h].blind
      BY <1>1, <2>2 DEF AnchorStepped, AP!SignaturesGrow
    <3>2. handler[h] \in ToAnchor /\ handler[h].step = 1
      BY <3>1 DEF GrantInv, HandlerAsked, A!Idle, AP!Idle
    <3> QED
      BY <1>4, <3>1, <3>2 DEF Asked
  <2> QED
    BY <2>1, <2>2
<1>8. RedemptionsGranted'
  BY <1>1, <1>4, GrantedKept DEF GrantInv, RedemptionsGranted
<1>9. \A c \in Clients : ClientGranted(c)'
  BY <1>1, <1>2, <1>3, ClientGrantedKept DEF GrantInv
<1> QED
  BY <1>1, <1>5, <1>6, <1>7, <1>8, <1>9 DEF GrantInv, AnchorStepped

\* What Clients send, Anchor expects.
LEMMA RequestExpected ==
    ASSUME IndInv, GrantInv, NEW m \in ToAnchor
    PROVE  /\ m \in A!Requests
           /\ m.step = 1 => m \in A!Step1Requests
           /\ m.step = 2 => m \in A!Step2Requests
<1>1. ASSUME FirstOK(m) PROVE m.step = 1 /\ m \in A!Step1Requests
  <2>1. PICK c \in Clients, ctx \in Contexts :
            \E n \in 1 .. drawn[c] : m = FirstExchange(c, n, ctx)
    BY <1>1 DEF FirstOK
  <2>2. PICK n \in 1 .. drawn[c] : m = FirstExchange(c, n, ctx)
    BY <2>1
  <2>3. n \in 1 .. MaxFetches
    BY <2>2, MoleAssumption DEF IndInv, ClientOK, CountsOK
  <2>4. m = A!Step1(UserOf[c], ctx, <<c, n>>, "plain")
    BY <2>2 DEF FirstExchange, A!Step1
  <2>5. <<c, n>> \in Roots /\ UserOf[c] \in {UserOf[d] : d \in Clients}
    BY <2>3 DEF Roots
  <2>6. UserOf[c] \in {UserOf[d] : d \in Clients} \union {AP!NoUser}
    BY <2>5
  <2>7. AP!Step1(UserOf[c], ctx, <<c, n>>, "plain") \in AP!Step1Requests
    <3> HIDE DEF AP!Step1, AP!Step1Requests
    <3> QED
      BY <2>5, <2>6, AnchorAssumed, AP!ExpectedRequest
  <2>8. m = AP!Step1(UserOf[c], ctx, <<c, n>>, "plain")
    BY <2>4 DEF A!Step1, AP!Step1
  <2>9. m \in A!Step1Requests
    BY <2>7, <2>8, SameAnchor
  <2> QED
    BY <2>2, <2>9 DEF FirstExchange
<1>2. ASSUME SecondOK(m) PROVE m.step = 2 /\ m \in A!Step2Requests
  BY <1>2 DEF SecondOK, SecondExchange, A!Step2Requests, A!Step2
<1> QED
  BY <1>1, <1>2 DEF GrantInv, A!Requests

\* A request of a Client reaches the Anchor as one that Anchor allows.
LEMMA AnchorTakesStep ==
    ASSUME IndInv, GrantInv, NEW m \in ToAnchor, AnchorTakes(m)
    PROVE  GrantInv' /\ [A!Next]_A!vars
<1>1. UNCHANGED clientVars /\ (A!Refuse(m) \/ A!Prove(m) \/ \E h \in Handlers : A!Count(h, m))
  BY DEF AnchorTakes
<1>2. ToAnchor' = ToAnchor
  BY <1>1 DEF ToAnchor, clientVars
<1>3. CASE A!Refuse(m) \/ A!Prove(m)
  <2>1. [A!Next]_A!vars
    BY <1>3, RequestExpected DEF A!Refuse, A!Prove, A!Next
  <2>2. UNCHANGED handler
    BY <1>3 DEF A!Refuse, A!Prove, A!vars
  <2> QED
    BY <1>1, <1>2, <2>1, <2>2, AnchorGrants DEF GrantInv, HandlerAsked
<1>4. ASSUME NEW h \in Handlers, A!Count(h, m) PROVE GrantInv' /\ [A!Next]_A!vars
  <2>1. m.step = 1 /\ handler' = [handler EXCEPT ![h] = m]
    BY <1>4 DEF A!Count
  <2>2. [A!Next]_A!vars
    BY <1>4, <2>1, RequestExpected DEF A!Next
  <2>3. \A g \in Handlers : handler'[g] = IF g = h THEN m ELSE handler[g]
    BY <2>1 DEF GrantInv, AP!IndInv, AP!HandlersOK
  <2> QED
    BY <1>1, <1>2, <2>1, <2>2, <2>3, AnchorGrants DEF GrantInv, HandlerAsked
<1> QED
  BY <1>1, <1>3, <1>4

\* The Anchor's own steps, and its restarts, are steps of Anchor.
LEMMA AnchorRests ==
    ASSUME IndInv, GrantInv, AnchorRestarts \/ \E h \in Handlers : AnchorCommits(h)
    PROVE  GrantInv' /\ [A!Next]_A!vars
<1>1. UNCHANGED clientVars
  BY DEF AnchorRestarts, AnchorCommits
<1>2. ToAnchor' = ToAnchor
  BY <1>1 DEF ToAnchor, clientVars
<1>3. [A!Next]_A!vars
  BY DEF AnchorRestarts, AnchorCommits, A!Next
<1>4. \A h \in Handlers : handler'[h] \in {handler[h], A!Idle}
  BY DEF AnchorRestarts, AnchorCommits, A!Sign, A!GiveUp, A!Restart, GrantInv,
         AP!IndInv, AP!HandlersOK
<1>5. \A h \in Handlers : HandlerAsked(h)'
  BY <1>2, <1>4 DEF GrantInv, HandlerAsked, A!Idle
<1> QED
  BY <1>1, <1>3, <1>5, AnchorGrants

\* Every step keeps the grants accounted for, and is a step of Anchor or none.
LEMMA GrantStep == IndInv /\ IndInv' /\ GrantInv /\ [Next]_vars => GrantInv' /\ [A!Next]_A!vars
<1> SUFFICES ASSUME IndInv, IndInv', GrantInv, [Next]_vars PROVE GrantInv' /\ [A!Next]_A!vars
  OBVIOUS
<1>1. ASSUME UNCHANGED <<clientVars, anchorVars>> PROVE GrantInv' /\ [A!Next]_A!vars
  <2>1. UNCHANGED A!vars /\ ToAnchor' = ToAnchor /\ UNCHANGED handler
    BY <1>1 DEF A!vars, anchorVars, ToAnchor, clientVars
  <2> QED
    BY <1>1, <2>1, AnchorGrants DEF GrantInv, HandlerAsked
<1>2. ASSUME NEW c \in Clients, Begin(c) \/ Get(c) \/ GetNothing(c) \/ Quit(c)
      PROVE  GrantInv' /\ [A!Next]_A!vars
  BY <1>2, ClientsGrant DEF Servers, anchorVars, A!vars
<1>3. CASE ModeratorRestarts
  BY <1>1, <1>3 DEF ModeratorRestarts
<1>4. CASE AnchorRestarts
  BY <1>4, AnchorRests
<1>5. CASE Serving
  BY <1>1, <1>5, AnchorTakesStep, AnchorRests DEF Serving, ModeratorTakes, ModeratorCommits
<1>6. CASE UNCHANGED vars
  BY <1>1, <1>6 DEF vars
<1> QED
  BY <1>2, <1>3, <1>4, <1>5, <1>6 DEF Next

\* At first nothing is asked, signed or stored.
LEMMA GrantInit == Init => GrantInv
<1> SUFFICES ASSUME Init PROVE GrantInv
  OBVIOUS
<1>1. AP!IndInv
  BY SameAnchor, AnchorInstance DEF Init
<1>2. sent = {} /\ fetch = [c \in Clients |-> [phase |-> "idle"]]
      /\ endorsements = [c \in Clients |-> <<>>]
  BY DEF Init, C!Init, C!NotFetching
<1>3. signatures = <<>> /\ handler = [h \in Handlers |-> A!Idle]
  BY DEF Init, A!Init
<1>4. \A c \in Clients : ClientGranted(c)
  BY <1>2 DEF ClientGranted, StoreGranted, FetchGranted
<1> QED
  BY <1>1, <1>2, <1>3, <1>4 DEF GrantInv, ToAnchor, AskedOnce, HandlerAsked,
     RedemptionsGranted, C!Redemptions

LEMMA GrantInvariance == Spec => []GrantInv
BY GrantInit, GrantStep, Invariance, PTL DEF Spec

\* Of the Clients, late, repeated and lost as their requests may be, the Anchor
\* gets first exchanges of its users, for nullifiers that a Client has drawn,
\* and second exchanges of sessions it opened, and nothing else.
THEOREM AnchorImplemented == Spec => ImplementsAnchor
<1>1. Init => A!Init
  BY DEF Init
<1> QED
  BY <1>1, GrantStep, GrantInvariance, Invariance, PTL DEF Spec, ImplementsAnchor, A!Spec

----------------------------------------------------------------------------
(* Of the sessions that signed one nullifier, one is ever proved.          *)

\* What is proved was asked for. Of the sessions with one nullifier a Client
\* has asked for one, and while it waits for a signature for none of those
\* that could answer it.
OnceInv ==
    /\ \A i \in DOMAIN signatures : signatures[i].proofs > 0 => SecondExchange(i) \in sent
    /\ \A i, j \in DOMAIN signatures :
           signatures[i].blind = signatures[j].blind
               /\ SecondExchange(i) \in sent /\ SecondExchange(j) \in sent => i = j
    /\ \A c \in Clients : \A i \in DOMAIN signatures :
           fetch[c].phase = "signing" /\ signatures[i].blind = <<c, drawn[c]>>
               => SecondExchange(i) \notin sent

\* A step of c after which no further session is asked for, and which does
\* not wait for a signature.
AsksNone(c) ==
    /\ \A i : SecondExchange(i) \in sent' => SecondExchange(i) \in sent
    /\ fetch'[c].phase # "signing"

\* Most steps of a Client are such.
LEMMA MostAskNone ==
    ASSUME IndInv, NEW c \in Clients, Begin(c) \/ Get(c) \/ GetNothing(c) \/ Quit(c),
           ~GetAnchor(c), ~\E sid \in Signed(c) : C!GotSignature(c, sid)
    PROVE  AsksNone(c)
<1>1. ASSUME NEW m, "step" \notin DOMAIN m, sent' = sent \union {m}
      PROVE  \A i : SecondExchange(i) \in sent' => SecondExchange(i) \in sent
  BY <1>1 DEF SecondExchange
<1>2. ASSUME NEW f, f.phase # "signing", fetch' = [fetch EXCEPT ![c] = f]
      PROVE  fetch'[c].phase # "signing"
  BY <1>2 DEF IndInv, MapsOK
<1>3. ASSUME C!Begin(c) \/ C!GotBody(c) \/ C!Fail(c) \/ C!Quit(c) PROVE AsksNone(c)
  BY <1>3, RestQuiet DEF Quiet, Sends, AsksNone, SecondExchange
<1>4. ASSUME NEW w, NEW chal, C!StartPresent(c, w, chal) PROVE AsksNone(c)
  <2>1. PICK m : m = C!PresentRequest(w[chal.policy],
                         C!Digest(C!CredentialChallenge(chal, chal.topup)),
                         chal.charge, chal.topup, "plain")
    OBVIOUS
  <2>2. "step" \notin DOMAIN m
    BY <2>1 DEF C!PresentRequest
  <2>3. \/ /\ fetch' = [fetch EXCEPT ![c] =
                           [phase |-> "presenting", chal |-> chal, request |-> m]]
           /\ sent' = sent \union {m}
        \/ fetch' = [fetch EXCEPT ![c] = [phase |-> "idle"]] /\ UNCHANGED sent
    BY <1>4, <2>1 DEF C!StartPresent, C!Await, C!Abandon, C!NotFetching
  <2> QED
    BY <1>1, <1>2, <2>2, <2>3 DEF AsksNone
<1>5. ASSUME NEW es, NEW chal, NEW dir, C!StartRedeem(c, es, chal, dir) PROVE AsksNone(c)
  <2>1. PICK m : m = C!RedeemRequest(es[C!First(C!UsableAt(es, chal.keys, dir.epoch))],
                         C!Digest(C!ModeratorChallenge(chal)), C!TruncatedKeyId(dir.key),
                         C!PreIssuance, "plain")
    OBVIOUS
  <2>2. "step" \notin DOMAIN m
    BY <2>1 DEF C!RedeemRequest
  <2>3. \/ /\ fetch' = [fetch EXCEPT ![c] =
                           [phase |-> "redeeming", chal |-> chal, dir |-> dir, request |-> m]]
           /\ sent' = sent \union {m}
        \/ fetch' = [fetch EXCEPT ![c] = [phase |-> "idle"]] /\ UNCHANGED sent
    BY <1>5, <2>1 DEF C!StartRedeem, C!Await, C!Abandon, C!NotFetching
  <2> QED
    BY <1>1, <1>2, <2>2, <2>3 DEF AsksNone
<1>6. ASSUME NEW f, f.phase # "signing", fetch' = [fetch EXCEPT ![c] = f], UNCHANGED sent
      PROVE  AsksNone(c)
  BY <1>2, <1>6 DEF AsksNone
<1>7. CASE Begin(c) \/ GetBody(c) \/ GetRefusal(c) \/ GetNothing(c) \/ Quit(c)
  BY <1>3, <1>7 DEF Begin, GetBody, GetRefusal, GetNothing, Quit
<1>8. CASE GetResource(c)
  <2>1. PICK chal : C!Challenged(c, chal)
    BY <1>8 DEF GetResource
  <2>2. \/ C!StartPresent(c, credentials[c], chal)
        \/ fetch' = [fetch EXCEPT ![c] = [phase |-> "policy", chal |-> chal]] /\ UNCHANGED sent
    BY <2>1 DEF C!Challenged, C!Await
  <2> QED
    BY <1>4, <1>6, <2>2
<1>9. CASE GetPolicy(c)
  <2>1. PICK dir, chal : C!GotPolicy(c, dir) /\ chal = fetch[c].chal
    BY <1>9 DEF GetPolicy
  <2>2. \/ fetch' = [fetch EXCEPT ![c] = [phase |-> "idle"]] /\ UNCHANGED sent
        \/ C!StartRedeem(c, endorsements[c], chal, dir)
        \/ /\ fetch' = [fetch EXCEPT ![c] = [phase |-> "anchor", chal |-> chal, dir |-> dir]]
           /\ UNCHANGED sent
    BY <2>1 DEF C!GotPolicy, C!Abandon, C!Await, C!NotFetching
  <2> QED
    BY <1>5, <1>6, <2>2
<1>10. CASE GetGrant(c)
  <2>1. PICK signer : C!GotProof(c, signer)
    BY <1>10 DEF GetGrant
  <2>2. \/ fetch' = [fetch EXCEPT ![c] = [phase |-> "idle"]] /\ UNCHANGED sent
        \/ \E es, chal, dir : C!StartRedeem(c, es, chal, dir)
    BY <2>1 DEF C!GotProof, C!Abandon, C!NotFetching
  <2> QED
    BY <1>5, <1>6, <2>2
<1>11. CASE GetCredential(c)
  <2>1. PICK t : C!GotCredential(c, t)
    BY <1>11 DEF GetCredential
  <2>2. C!Fail(c) \/ \E w, chal : C!StartPresent(c, w, chal)
    BY <2>1 DEF C!GotCredential, C!Fail
  <2> QED
    BY <1>3, <1>4, <2>2
<1>12. CASE GetUpdate(c)
  <2>1. fetch' = [fetch EXCEPT ![c] = [phase |-> "body"]] /\ UNCHANGED sent
    BY <1>12 DEF GetUpdate, C!GotUpdate, C!Await
  <2> QED
    BY <1>6, <2>1
<1> QED
  BY <1>7, <1>8, <1>9, <1>10, <1>11, <1>12 DEF Get

\* Nothing that was signed is for a nullifier yet to be drawn.
LEMMA SignedIsDrawn ==
    ASSUME IndInv, GrantInv, NEW c \in Clients, NEW i \in DOMAIN signatures
    PROVE  signatures[i].blind # <<c, drawn[c] + 1>>
<1>1. PICK m \in ToAnchor : m.step = 1 /\ m.blind = signatures[i].blind
  BY DEF GrantInv, Asked
<1>2. ~SecondOK(m)
  BY <1>1 DEF SecondOK, SecondExchange
<1>3. PICK d \in Clients, ctx \in Contexts : \E k \in 1 .. drawn[d] : m = FirstExchange(d, k, ctx)
  BY <1>2 DEF GrantInv, FirstOK
<1>4. PICK k \in 1 .. drawn[d] : m.blind = <<d, k>>
  BY <1>3 DEF FirstExchange
<1>5. drawn[c] \in Nat
  BY DEF IndInv, ClientOK, CountsOK
<1> QED
  BY <1>1, <1>4, <1>5

\* A session is asked for by the Client that waits for its signature.
LEMMA SignedIsOurs ==
    ASSUME GrantInv, NEW c \in Clients, fetch[c].phase = "signing", NEW sid \in Signed(c)
    PROVE  sid \in DOMAIN signatures /\ signatures[sid].blind = <<c, drawn[c]>>
<1>1. fetch[c].request = FirstExchange(c, drawn[c], fetch[c].adir.epoch)
  BY DEF GrantInv, ClientGranted, FetchGranted
<1>2. fetch[c].request.blind = <<c, drawn[c]>>
  <2>1. PICK m : m = fetch[c].request /\ m.blind = <<c, drawn[c]>>
    BY <1>1 DEF FirstExchange
  <2> QED
    BY <2>1
<1> QED
  BY <1>2 DEF Signed

\* A step of a Client.
LEMMA ClientAsksOnce ==
    ASSUME IndInv, GrantInv, OnceInv, NEW c \in Clients, OnlyOf(c), Servers, sent \subseteq sent',
           Begin(c) \/ Get(c) \/ GetNothing(c) \/ Quit(c)
    PROVE  OnceInv'
<1>1. UNCHANGED signatures
  BY DEF Servers, anchorVars
<1>2. \A i \in DOMAIN signatures' :
          signatures'[i].proofs > 0 => SecondExchange(i)' \in sent'
  BY <1>1 DEF OnceInv, SecondExchange
<1>3. \A d \in Clients \ {c} : fetch'[d] = fetch[d] /\ drawn'[d] = drawn[d]
  BY DEF OnlyOf
<1>4. CASE GetAnchor(c)
  <2>1. PICK m : /\ m.step = 1 /\ sent' = sent \union {m}
                 /\ drawn' = [drawn EXCEPT ![c] = @ + 1]
    <3>1. PICK m : m = C!Step1(UserOf[c], context, C!Drawn(c, drawn[c] + 1), "plain")
      OBVIOUS
    <3>2. sent' = sent \union {m} /\ drawn' = [drawn EXCEPT ![c] = @ + 1]
      BY <1>4, <3>1 DEF GetAnchor, C!GotAnchor, AnchorDirectory
    <3>3. m.step = 1
      BY <3>1 DEF C!Step1
    <3> QED
      BY <3>2, <3>3
  <2>2. \A i : SecondExchange(i) # m
    BY <2>1 DEF SecondExchange
  <2>3. \A i : SecondExchange(i)' \in sent' => SecondExchange(i) \in sent
    BY <2>1, <2>2 DEF SecondExchange
  <2>4. drawn'[c] = drawn[c] + 1
    BY <2>1 DEF IndInv, MapsOK
  <2> QED
    BY <1>1, <1>2, <1>3, <2>3, <2>4, SignedIsDrawn DEF OnceInv
<1>5. ASSUME NEW sid \in Signed(c), C!GotSignature(c, sid) PROVE OnceInv'
  <2>1. /\ fetch[c].phase = "signing" /\ fetch'[c].phase = "proving"
        /\ sent' = sent \union {SecondExchange(sid)}
    BY <1>5 DEF C!GotSignature, C!Await, C!Step2, SecondExchange, IndInv, MapsOK
  <2>2. sid \in DOMAIN signatures /\ signatures[sid].blind = <<c, drawn[c]>>
    BY <1>5, <2>1, SignedIsOurs
  <2>3. \A i : SecondExchange(i)' \in sent' => i = sid \/ SecondExchange(i) \in sent
    BY <2>1 DEF SecondExchange
  <2>4. \A i \in DOMAIN signatures :
            signatures[i].blind = <<c, drawn[c]>> => SecondExchange(i) \notin sent
    BY <2>1 DEF OnceInv
  <2> QED
    BY <1>1, <1>2, <1>3, <2>1, <2>2, <2>3, <2>4 DEF OnceInv
<1>6. CASE ~GetAnchor(c) /\ ~\E sid \in Signed(c) : C!GotSignature(c, sid)
  <2>1. AsksNone(c)
    BY <1>6, MostAskNone
  <2>2. \A i : SecondExchange(i)' \in sent' => SecondExchange(i) \in sent
    BY <2>1 DEF AsksNone, SecondExchange
  <2>3. fetch'[c].phase # "signing"
    BY <2>1 DEF AsksNone
  <2> QED
    BY <1>1, <1>2, <1>3, <2>2, <2>3 DEF OnceInv
<1> QED
  BY <1>4, <1>5, <1>6

\* The Anchor proves for a session what the Client of that session asked.
LEMMA AnchorAnswersOnce ==
    ASSUME GrantInv, OnceInv, AnchorStepped, UNCHANGED clientVars,
           \A i \in DOMAIN signatures' : signatures'[i].proofs > 0 =>
               i \in DOMAIN signatures
                   /\ (signatures[i].proofs > 0 \/ SecondExchange(i) \in sent)
    PROVE  OnceInv'
<1>1. UNCHANGED <<fetch, sent, drawn>> /\ \A i : SecondExchange(i)' = SecondExchange(i)
  BY DEF clientVars, SecondExchange
<1>2. \A i \in DOMAIN signatures : signatures'[i].blind = signatures[i].blind
  BY DEF AnchorStepped, AP!SignaturesGrow
<1>3. \A i : SecondExchange(i) \in sent => i \in DOMAIN signatures
  <2>1. \A i : SecondExchange(i) \in sent => SecondExchange(i) \in ToAnchor
    BY DEF ToAnchor, SecondExchange
  <2>2. \A i : ~FirstOK(SecondExchange(i))
    BY DEF FirstOK, FirstExchange, SecondExchange
  <2>3. \A i : SecondOK(SecondExchange(i)) => i \in DOMAIN signatures
    BY DEF SecondOK, SecondExchange
  <2> QED
    BY <2>1, <2>2, <2>3 DEF GrantInv
<1> QED
  BY <1>1, <1>2, <1>3 DEF OnceInv

\* The Anchor's steps.
LEMMA AnchorOnce ==
    ASSUME IndInv, GrantInv, OnceInv, AnchorStepped,
           AnchorRestarts \/ (\E h \in Handlers : AnchorCommits(h))
               \/ \E m \in ToAnchor : AnchorTakes(m)
    PROVE  OnceInv'
<1>1. UNCHANGED clientVars
  BY DEF AnchorRestarts, AnchorCommits, AnchorTakes
<1>2. ASSUME UNCHANGED signatures PROVE OnceInv'
  BY <1>1, <1>2, AnchorAnswersOnce
<1>3. signatures \in Seq(AP!SignatureRecords)
  BY DEF GrantInv, AP!IndInv, AP!TypeOK
<1>4. ASSUME NEW h \in Handlers, A!Sign(h) PROVE OnceInv'
  <2>1. PICK s : s.proofs = 0 /\ signatures' = Append(signatures, s)
    BY <1>4 DEF A!Sign
  <2>2. \A i \in DOMAIN signatures' :
            (i \in DOMAIN signatures /\ signatures'[i] = signatures[i]) \/ signatures'[i] = s
    BY <1>3, <2>1
  <2> QED
    BY <1>1, <2>1, <2>2, AnchorAnswersOnce
<1>5. ASSUME NEW m \in ToAnchor, A!Prove(m) PROVE OnceInv'
  <2>1. m.step = 2 /\ \A i \in DOMAIN signatures' :
            i \in DOMAIN signatures /\ (i # m.sid => signatures'[i] = signatures[i])
    BY <1>3, <1>5 DEF A!Prove
  <2>2. m = SecondExchange(m.sid)
    <3>1. ~FirstOK(m)
      BY <2>1 DEF FirstOK, FirstExchange
    <3>2. PICK sid \in DOMAIN signatures : m = SecondExchange(sid)
      BY <3>1 DEF GrantInv, SecondOK
    <3> QED
      BY <3>2 DEF SecondExchange
  <2>3. m \in sent
    BY DEF ToAnchor
  <2> QED
    BY <1>1, <2>1, <2>2, <2>3, AnchorAnswersOnce
<1>6. CASE AnchorRestarts
  BY <1>2, <1>6 DEF AnchorRestarts, A!Restart
<1>7. CASE \E h \in Handlers : AnchorCommits(h)
  BY <1>2, <1>4, <1>7 DEF AnchorCommits, A!GiveUp
<1>8. CASE \E m \in ToAnchor : AnchorTakes(m)
  BY <1>2, <1>5, <1>8 DEF AnchorTakes, A!Refuse, A!Count, A!vars
<1> QED
  BY <1>6, <1>7, <1>8

LEMMA OnceStep ==
    IndInv /\ IndInv' /\ GrantInv /\ OnceInv /\ [A!Next]_A!vars /\ [Next]_vars => OnceInv'
<1> SUFFICES ASSUME IndInv, IndInv', GrantInv, OnceInv, [A!Next]_A!vars, [Next]_vars
             PROVE  OnceInv'
  OBVIOUS
<1>1. AnchorStepped
  BY AnchorSteps DEF GrantInv
<1>2. ASSUME UNCHANGED <<clientVars, anchorVars>> PROVE OnceInv'
  BY <1>2 DEF OnceInv, SecondExchange, clientVars, anchorVars
<1>3. ASSUME NEW c \in Clients, Begin(c) \/ Get(c) \/ GetNothing(c) \/ Quit(c) PROVE OnceInv'
  <2>1. Sends(c) /\ Servers
    BY <1>3, ClientsGrant
  <2> QED
    BY <1>3, <2>1, ClientAsksOnce DEF Sends
<1>4. CASE ModeratorRestarts
  BY <1>2, <1>4 DEF ModeratorRestarts
<1>5. CASE AnchorRestarts
  BY <1>1, <1>5, AnchorOnce
<1>6. CASE Serving
  BY <1>1, <1>2, <1>6, AnchorOnce DEF Serving, ModeratorTakes, ModeratorCommits
<1>7. CASE UNCHANGED vars
  BY <1>2, <1>7 DEF vars
<1> QED
  BY <1>3, <1>4, <1>5, <1>6, <1>7 DEF Next

LEMMA OnceInit == Init => OnceInv
BY DEF Init, A!Init, C!Init, C!NotFetching, OnceInv

\* The grants that the Anchor completes differ in their nullifiers, whichever
\* first exchanges arrive twice, before or after a restart: a Client asks for
\* the proof of one session, and draws afresh for the next.
THEOREM GrantsDiffer == Spec => []NullifierPerGrant
<1>1. OnceInv => NullifierPerGrant
  BY DEF OnceInv, NullifierPerGrant
<1> QED
  BY <1>1, OnceInit, OnceStep, GrantStep, GrantInvariance, Invariance, PTL DEF Spec

----------------------------------------------------------------------------
(* The Clients under these servers are Client's Clients.                   *)

\* The answers that the servers of Mole give Client c.
Answers(c) ==
    \/ \E chal \in ChallengeSet : C!Challenged(c, chal)
    \/ \E dir \in [policy : {Policy}, key : Runs, epoch : Contexts] : C!GotPolicy(c, dir)
    \/ \E adir \in [key : 1 .. MaxAnchorRuns, epoch : Contexts] : C!GotAnchor(c, adir)
    \/ \E sid \in DOMAIN signatures : C!GotSignature(c, sid)
    \/ \E adir \in [key : 1 .. MaxAnchorRuns, epoch : Contexts] : C!GotProof(c, adir.key)
    \/ \E t \in released :
           /\ t.gen = 0
           /\ \E i \in [key : Runs, policy : {Policy}, epoch : Contexts, bal : Int] :
                  i.bal = t.bal /\ C!GotCredential(c, C!Issuable(c, i))
    \/ /\ fetch[c].phase = "presenting"
       /\ \E t \in ReplacedFor(c) :
              C!GotUpdate(c, t.bal - (fetch[c].request.spend.token.bal
                                          - fetch[c].request.spend.charge))
    \/ C!GotBody(c)

\* An issuance response carries what the key and epoch it was made under say.
LEMMA ReleasedIssuable ==
    ASSUME IndInv, NEW c \in Clients, NEW t \in IssuedTo(c)
    PROVE  \E i \in [key : Runs, policy : {Policy}, epoch : Contexts, bal : Int] :
               i.bal = t.bal /\ t = C!Issuable(c, i)
<1>1. t \in Token /\ t.gen = 0 /\ t.root = fetch[c].request.e.nf
  BY DEF IssuedTo, IndInv, ServersOK, ReleasedOK
<1>2. PICK cfg \in Configs : t.ctx = RequestContext(cfg.policy, cfg.epoch)
  BY <1>1 DEF Token
<1>3. PICK i : i = [key |-> t.key, policy |-> Policy, epoch |-> cfg.epoch, bal |-> t.bal]
  OBVIOUS
<1>4. i \in [key : Runs, policy : {Policy}, epoch : Contexts, bal : Int]
  BY <1>1, <1>3, ConfigFacts DEF Token
<1>5. t = [key |-> t.key, ctx |-> t.ctx, root |-> t.root, pre |-> C!PreIssuance, gen |-> 0,
           bal |-> t.bal]
  BY <1>1 DEF Token
<1>6. t = C!Issuable(c, i)
  BY <1>1, <1>2, <1>3, <1>5, ConfigFacts
  DEF C!Issuable, C!Credential, C!RequestContext, RequestContext
<1> QED
  BY <1>3, <1>4, <1>6

\* Every answer on its way to a Client is one of Answers, or an error.
LEMMA ClientTakes ==
    ASSUME IndInv, GrantInv, NEW c \in Clients, Get(c)
    PROVE  C!Fail(c) \/ Answers(c)
<1>1. /\ run \in Runs /\ config \in Configs
      /\ anchorKey \in 1 .. MaxAnchorRuns /\ context \in Contexts
  BY DEF IndInv, ServersOK
<1>2. CASE GetResource(c)
  BY <1>1, <1>2 DEF GetResource, Answers, ChallengeSet
<1>3. CASE GetPolicy(c)
  <2>1. ModeratorDirectory(config, run) \in [policy : {Policy}, key : Runs, epoch : Contexts]
    BY <1>1, ConfigFacts DEF ModeratorDirectory
  <2> QED
    BY <1>3, <2>1 DEF GetPolicy, Answers
<1>4. CASE GetAnchor(c)
  <2>1. AnchorDirectory(anchorKey, context) \in [key : 1 .. MaxAnchorRuns, epoch : Contexts]
    BY <1>1 DEF AnchorDirectory
  <2> QED
    BY <1>4, <2>1 DEF GetAnchor, Answers
<1>5. CASE fetch[c].phase = "signing" /\ \E i \in Signed(c) : C!GotSignature(c, i)
  BY <1>5 DEF Signed, Answers
<1>6. ASSUME fetch[c].phase = "proving", NEW i \in Proved(c), C!GotProof(c, signatures[i].key)
      PROVE  Answers(c)
  <2>1. i \in DOMAIN signatures
    <3>1. PICK sid \in DOMAIN signatures : fetch[c].request = SecondExchange(sid)
      BY <1>6 DEF GrantInv, ClientGranted, FetchGranted
    <3> QED
      BY <1>6, <3>1 DEF Proved, SecondExchange
  <2>2. signatures \in Seq(AP!SignatureRecords)
    BY DEF GrantInv, AP!IndInv, AP!TypeOK
  <2>3. signatures[i] \in AP!SignatureRecords
    BY <2>1, <2>2
  <2>4. PICK adir : adir = [key |-> signatures[i].key, epoch |-> context]
    OBVIOUS
  <2>5. adir \in [key : 1 .. MaxAnchorRuns, epoch : Contexts] /\ adir.key = signatures[i].key
    BY <1>1, <2>3, <2>4 DEF AP!SignatureRecords, AP!AnchorRuns
  <2> QED
    BY <1>6, <2>5 DEF Answers
<1>7. CASE GetCredential(c)
  <2>1. PICK t \in IssuedTo(c) : C!GotCredential(c, t)
    BY <1>7 DEF GetCredential
  <2>2. t \in released /\ t.gen = 0
    BY <2>1 DEF IssuedTo
  <2> QED
    BY <2>1, <2>2, ReleasedIssuable DEF Answers
<1>8. CASE GetUpdate(c)
  BY <1>8 DEF GetUpdate, Answers
<1> QED
  BY <1>2, <1>3, <1>4, <1>5, <1>6, <1>7, <1>8
  DEF Get, GetGrant, GetBody, GetRefusal, Answers

\* What servers give back is at least an amount.
LEMMA UpdateIsAmount ==
    ASSUME IndInv, NEW c \in Clients, fetch[c].phase = "presenting", NEW t \in ReplacedFor(c)
    PROVE  t.bal - (fetch[c].request.spend.token.bal - fetch[c].request.spend.charge) \in Int
<1>1. t \in Token /\ fetch[c].request.spend.token \in Token /\ fetch[c].request.spend.charge \in Nat
  BY DEF ReplacedFor, IndInv, ServersOK, ReleasedOK, ClientOK, FetchOK
<1> QED
  BY <1>1 DEF Token

\* Every step of the system is a step of the Clients, or none of theirs.
LEMMA ClientNext == IndInv /\ GrantInv /\ [Next]_vars => [CU!Next]_CU!vars
<1> SUFFICES ASSUME IndInv, GrantInv, [Next]_vars PROVE [CU!Next]_CU!vars
  OBVIOUS
<1>1. ASSUME UNCHANGED clientVars PROVE [CU!Next]_CU!vars
  BY <1>1 DEF clientVars, CU!vars
<1>2. ASSUME NEW c \in Clients, C!Begin(c) \/ C!Fail(c) \/ C!Quit(c) PROVE CU!Next
  BY <1>2, SameClient DEF CU!Next
<1>3. ASSUME NEW c \in Clients, Answers(c) PROVE CU!Next
  <2>1. DOMAIN signatures \subseteq Nat
    BY DEF GrantInv, AP!IndInv, AP!TypeOK
  <2>2. CU!Answered(c)
    <3>1. ASSUME fetch[c].phase = "presenting",
                 NEW t \in ReplacedFor(c),
                 C!GotUpdate(c, t.bal - (fetch[c].request.spend.token.bal
                                          - fetch[c].request.spend.charge))
          PROVE  \E r \in Int : CU!GotUpdate(c, r)
      BY <3>1, UpdateIsAmount, SameClient
    <3>2. ASSUME \E t \in released :
                     /\ t.gen = 0
                     /\ \E i \in [key : Runs, policy : {Policy}, epoch : Contexts, bal : Int] :
                            i.bal = t.bal /\ C!GotCredential(c, C!Issuable(c, i))
          PROVE  \E i \in [key : Runs, policy : {Policy}, epoch : Contexts, bal : Int] :
                     CU!GotCredential(c, CU!Issuable(c, i))
      BY <3>2, SameClient
    <3> QED
      BY <1>3, <2>1, <3>1, <3>2, SameClient DEF Answers, CU!Answered, ChallengeSet
  <2> QED
    BY <2>2 DEF CU!Next
<1>4. ASSUME NEW c \in Clients, Begin(c) \/ Get(c) \/ GetNothing(c) \/ Quit(c)
      PROVE  CU!Next
  BY <1>2, <1>3, <1>4, ClientTakes DEF Begin, GetNothing, Quit
<1>5. CASE ModeratorRestarts \/ AnchorRestarts \/ Serving \/ UNCHANGED vars
  BY <1>1, <1>5
  DEF ModeratorRestarts, AnchorRestarts, Serving, ModeratorTakes, ModeratorCommits,
      AnchorTakes, AnchorCommits, vars
<1> QED
  BY <1>4, <1>5 DEF Next

\* So what Client promises of its stores and of what is sent holds here.
LEMMA ClientHolds == Spec => []CU!IndInv
<1>1. Init => CU!IndInv
  BY SameClient, ClientInstance DEF Init
<1> QED
  BY <1>1, ClientInstance, ClientNext, Invariance, GrantInvariance, PTL DEF Spec

\* What ClientProofs says of nullifiers, in the terms of the system.
LEMMA BurnedHere ==
    CU!IndInv =>
        /\ \A c \in Clients : \A p \in DOMAIN credentials[c], m \in C!Presentations :
               Nullifier(m.spend.token) # Nullifier(credentials[c][p])
        /\ \A m, n \in C!Presentations :
               Nullifier(m.spend.token) = Nullifier(n.spend.token) => m = n
        /\ \A c \in Clients : \A i \in DOMAIN endorsements[c], m \in C!Redemptions :
               m.e.nf # endorsements[c][i].nf
        /\ \A c \in Clients : \A i, j \in DOMAIN endorsements[c] :
               endorsements[c][i].nf = endorsements[c][j].nf => i = j
BY ClientAssumed, CU!Burned, CU!ShownOnce
DEF CU!BurnedOnUse, CU!EndorsementShownOnce, CU!Held, CU!Nullifier, Nullifier,
    CU!Presentations, C!Presentations, CU!Redemptions, C!Redemptions

----------------------------------------------------------------------------
(* Spends: what was released was asked for, and of whom it came.           *)

\* A handler between its check and its lock has its request from a Client.
TaskSent(w) == task[w].op \in {"redeem", "present"} => task[w] \in ToModerator

\* Nullifiers are seen in requests only.
SeenSent ==
    /\ \A nf \in seenEndorsementNullifiers : \E m \in C!Redemptions : m.e.nf = nf
    /\ \A nf \in seenSpendNullifiers : \E m \in C!Presentations : Nullifier(m.spend.token) = nf

\* A released credential is an initial one or replaces one that was presented.
Lineage(t) ==
    /\ t.gen = 0 => t.bal \in {amounts.initial : amounts \in Terms}
    /\ t.gen # 0 =>
           \E m \in C!Presentations, amounts \in Terms :
               /\ m.spend.token.root = t.root /\ m.spend.token.pre = t.pre
               /\ m.spend.token.key = t.key /\ m.spend.token.gen = t.gen - 1
               /\ t.bal = m.spend.token.bal - m.spend.charge + amounts.refund

\* Its endorsement was signed for the user of the Client that drew it.
RootGranted(t) ==
    \E j \in DOMAIN signatures :
        signatures[j].blind = t.root /\ signatures[j].user = UserOf[t.root[1]]

PresentingSent(c) == fetch[c].phase = "presenting" => fetch[c].request \in C!Presentations

SpendInv ==
    /\ \A w \in Workers : TaskSent(w)
    /\ SeenSent
    /\ \A t \in released : Lineage(t) /\ RootGranted(t)
    /\ \A c \in Clients : PresentingSent(c)

\* Sending more and signing more keeps what the Moderator has asked for.
LEMMA SpendKept ==
    ASSUME SpendInv, UNCHANGED <<task, seenEndorsementNullifiers, seenSpendNullifiers, released>>,
           sent \subseteq sent', AnchorStepped, \A c \in Clients : PresentingSent(c)'
    PROVE  SpendInv'
<1>1. /\ ToModerator \subseteq ToModerator' /\ C!Redemptions \subseteq C!Redemptions'
      /\ C!Presentations \subseteq C!Presentations'
  BY DEF ToModerator, C!Redemptions, C!Presentations
<1>2. \A w \in Workers : TaskSent(w)'
  BY <1>1 DEF SpendInv, TaskSent
<1>3. SeenSent'
  BY <1>1 DEF SpendInv, SeenSent
<1>4. ASSUME NEW t \in released PROVE Lineage(t)'
  BY <1>1 DEF SpendInv, Lineage
<1>5. ASSUME NEW t \in released PROVE RootGranted(t)'
  BY DEF SpendInv, RootGranted, AnchorStepped, AP!SignaturesGrow
<1> QED
  BY <1>2, <1>3, <1>4, <1>5 DEF SpendInv

\* A step of the Moderator.
LEMMA SpendServed ==
    ASSUME SpendInv, UNCHANGED <<clientVars, anchorVars>>, SeenSent',
           \A w \in Workers : TaskSent(w)',
           \A t \in released' : t \in released \/ (Lineage(t) /\ RootGranted(t))
    PROVE  SpendInv'
<1>1. UNCHANGED <<fetch, sent, signatures>>
  BY DEF clientVars, anchorVars
<1>2. C!Presentations' = C!Presentations
  BY <1>1 DEF C!Presentations
<1>3. \A t \in released' : Lineage(t) /\ RootGranted(t)
  BY DEF SpendInv
<1>4. \A t \in released' : Lineage(t)' /\ RootGranted(t)'
  BY <1>1, <1>2, <1>3 DEF Lineage, RootGranted
<1>5. \A c \in Clients : PresentingSent(c)'
  BY <1>1, <1>2 DEF SpendInv, PresentingSent
<1> QED
  BY <1>4, <1>5 DEF SpendInv

\* A handler verifies only what was sent.
LEMMA SpendVerify ==
    ASSUME IndInv, SpendInv, NEW w \in Workers, NEW m \in ToModerator, M!Verify(w, m),
           UNCHANGED <<clientVars, anchorVars>>
    PROVE  SpendInv'
<1>1. /\ task' = [task EXCEPT ![w] = m]
      /\ UNCHANGED <<seenEndorsementNullifiers, seenSpendNullifiers, released>>
  BY DEF M!Verify
<1>2. UNCHANGED sent
  BY DEF clientVars
<1>3. \A v \in Workers : TaskSent(v)'
  BY <1>1, <1>2 DEF SpendInv, TaskSent, ToModerator, IndInv, ServersOK
<1>4. SeenSent'
  BY <1>1, <1>2 DEF SpendInv, SeenSent, C!Redemptions, C!Presentations
<1> QED
  BY <1>1, <1>3, <1>4, SpendServed

\* After a critical section the handler is free.
LEMMA TaskDone ==
    ASSUME IndInv, SpendInv, NEW w \in Workers, task' = [task EXCEPT ![w] = M!NoTask],
           UNCHANGED sent
    PROVE  \A v \in Workers : TaskSent(v)'
BY DEF SpendInv, TaskSent, ToModerator, IndInv, ServersOK, M!NoTask

\* What an issuance releases goes back to an endorsement that was signed.
LEMMA SpendIssue ==
    ASSUME IndInv, GrantInv, SpendInv, NEW w \in Workers, M!Issue(w),
           UNCHANGED <<clientVars, anchorVars>>
    PROVE  SpendInv'
<1>0. PICK m, t : m = task[w] /\ t = M!Issued(m)
  OBVIOUS
<1>1. /\ m.op = "redeem"
      /\ task' = [task EXCEPT ![w] = M!NoTask]
      /\ seenEndorsementNullifiers' = seenEndorsementNullifiers \union {m.e.nf}
      /\ released' = released \union {t}
      /\ UNCHANGED seenSpendNullifiers
  BY <1>0 DEF M!Issue
<1>2. UNCHANGED <<sent, signatures>>
  BY DEF clientVars, anchorVars
<1>3. m \in C!Redemptions
  BY <1>0, <1>1 DEF SpendInv, TaskSent, ToModerator, C!Redemptions
<1>4. SeenSent'
  BY <1>1, <1>2, <1>3 DEF SpendInv, SeenSent, C!Redemptions, C!Presentations
<1>5. t.gen = 0 /\ t.bal = config.initial /\ t.root = m.e.nf
  BY <1>0 DEF M!Issued, M!Credential
<1>6. config.initial \in {amounts.initial : amounts \in Terms}
  BY DEF IndInv, ServersOK, Configs, StartedWith
<1>7. RootGranted(t)
  BY <1>3, <1>5 DEF GrantInv, RedemptionsGranted, Granted, RootGranted
<1>8. Lineage(t)
  BY <1>5, <1>6 DEF Lineage
<1> QED
  BY <1>1, <1>2, <1>4, <1>7, <1>8, TaskDone, SpendServed

\* What a presentation releases goes back to it, and so to the same grant.
LEMMA SpendServe ==
    ASSUME IndInv, SpendInv, NEW w \in Workers, M!Serve(w),
           UNCHANGED <<clientVars, anchorVars>>
    PROVE  SpendInv'
<1>0. PICK m, k, t : m = task[w] /\ k = m.spend.token /\ t = M!Refunded(m)
  OBVIOUS
<1>1. /\ m.op = "present"
      /\ task' = [task EXCEPT ![w] = M!NoTask]
      /\ seenSpendNullifiers' = seenSpendNullifiers \union {Nullifier(k)}
      /\ released' = released \union {t}
      /\ UNCHANGED seenEndorsementNullifiers
  BY <1>0 DEF M!Serve, M!Nullifier, Nullifier
<1>2. UNCHANGED <<sent, signatures>>
  BY DEF clientVars, anchorVars
<1>3. m \in C!Presentations
  BY <1>0, <1>1 DEF SpendInv, TaskSent, ToModerator, C!Presentations
<1>4. SeenSent'
  BY <1>0, <1>1, <1>2, <1>3 DEF SpendInv, SeenSent, C!Redemptions, C!Presentations
<1>5. k \in released /\ m.spend.charge = config.charge /\ m.spend.topup = 0
  BY <1>0, <1>1 DEF IndInv, ServersOK, TaskOK
<1>6. k \in Token /\ config.charge \in Nat /\ config.refund \in Nat
  BY <1>5, ConfigFacts DEF IndInv, ServersOK, ReleasedOK
<1>7. t = [k EXCEPT !.gen = k.gen + 1, !.bal = k.bal - config.charge + 0 + config.refund]
  BY <1>0, <1>5 DEF M!Refunded, M!Replacement
<1>8. /\ t.root = k.root /\ t.pre = k.pre /\ t.key = k.key /\ t.gen = k.gen + 1
      /\ t.bal = k.bal - config.charge + 0 + config.refund
  BY <1>6, <1>7 DEF Token
<1>9. PICK amounts \in Terms : config.refund = amounts.refund
  BY DEF IndInv, ServersOK, Configs, StartedWith
<1>10. k.gen \in Nat /\ k.bal \in Int
  BY <1>6 DEF Token
<1>11. /\ t.gen # 0 /\ k.gen = t.gen - 1
       /\ t.bal = k.bal - m.spend.charge + amounts.refund
  BY <1>5, <1>6, <1>8, <1>9, <1>10
<1>12. Lineage(t)
  BY <1>0, <1>3, <1>8, <1>11 DEF Lineage
<1>13. RootGranted(t)
  BY <1>5, <1>8 DEF SpendInv, RootGranted
<1> QED
  BY <1>1, <1>2, <1>4, <1>12, <1>13, TaskDone, SpendServed

\* A handler that loses the race releases nothing.
LEMMA SpendLose ==
    ASSUME IndInv, SpendInv, NEW w \in Workers, M!Lose(w), UNCHANGED <<clientVars, anchorVars>>
    PROVE  SpendInv'
<1>1. /\ task' = [task EXCEPT ![w] = M!NoTask]
      /\ UNCHANGED <<seenEndorsementNullifiers, seenSpendNullifiers, released>>
  BY DEF M!Lose
<1>2. UNCHANGED sent
  BY DEF clientVars
<1>3. SeenSent'
  BY <1>1, <1>2 DEF SpendInv, SeenSent, C!Redemptions, C!Presentations
<1> QED
  BY <1>1, <1>2, <1>3, TaskDone, SpendServed

\* A restart forgets what was seen, and what was released stays.
LEMMA SpendRestart ==
    ASSUME SpendInv, NEW cfg, M!Restart(cfg), UNCHANGED <<clientVars, anchorVars>>
    PROVE  SpendInv'
<1>1. /\ task' = [w \in Workers |-> M!NoTask]
      /\ seenEndorsementNullifiers' = {} /\ seenSpendNullifiers' = {} /\ UNCHANGED released
  BY DEF M!Restart
<1> QED
  BY <1>1, SpendServed DEF SeenSent, TaskSent, M!NoTask

\* Every step keeps SpendInv.
LEMMA SpendStep ==
    IndInv /\ IndInv' /\ GrantInv /\ SpendInv /\ [A!Next]_A!vars /\ [Next]_vars => SpendInv'
<1> SUFFICES ASSUME IndInv, IndInv', GrantInv, SpendInv, [A!Next]_A!vars, [Next]_vars
             PROVE  SpendInv'
  OBVIOUS
<1>1. AnchorStepped
  BY AnchorSteps DEF GrantInv
<1>2. ASSUME UNCHANGED <<clientVars, moderatorVars>> PROVE SpendInv'
  <2>1. UNCHANGED <<fetch, sent, task, seenEndorsementNullifiers, seenSpendNullifiers, released>>
    BY <1>2 DEF clientVars, moderatorVars
  <2>2. \A c \in Clients : PresentingSent(c)'
    BY <2>1 DEF SpendInv, PresentingSent, C!Presentations
  <2> QED
    BY <1>1, <2>1, <2>2, SpendKept
<1>3. ASSUME NEW c \in Clients, Begin(c) \/ Get(c) \/ GetNothing(c) \/ Quit(c)
      PROVE  SpendInv'
  <2>1. Sends(c) /\ Servers
    BY <1>3, ClientsGrant
  <2>2. UNCHANGED <<task, seenEndorsementNullifiers, seenSpendNullifiers, released>>
    BY <2>1 DEF Servers, moderatorVars
  <2>3. C!Presentations \subseteq C!Presentations'
    BY <2>1 DEF Sends, C!Presentations
  <2>4. \A d \in Clients : PresentingSent(d)'
    BY <2>1, <2>3 DEF Sends, OnlyOf, SpendInv, PresentingSent
  <2> QED
    BY <1>1, <2>1, <2>2, <2>4, SpendKept DEF Sends
<1>4. CASE ModeratorRestarts
  BY <1>4, SpendRestart DEF ModeratorRestarts
<1>5. CASE AnchorRestarts \/ UNCHANGED vars
  BY <1>2, <1>5 DEF AnchorRestarts, vars
<1>6. CASE Serving
  <2>1. ASSUME NEW m \in ToModerator, ModeratorTakes(m) PROVE SpendInv'
    <3>1. CASE M!Refuse(m)
      BY <1>2, <2>1, <3>1 DEF ModeratorTakes, M!Refuse, M!vars, moderatorVars
    <3> QED
      BY <2>1, <3>1, SpendVerify DEF ModeratorTakes
  <2>2. ASSUME NEW w \in Workers, ModeratorCommits(w) PROVE SpendInv'
    BY <2>2, SpendIssue, SpendServe, SpendLose DEF ModeratorCommits
  <2> QED
    BY <1>2, <1>6, <2>1, <2>2 DEF Serving, AnchorTakes, AnchorCommits
<1> QED
  BY <1>3, <1>4, <1>5, <1>6 DEF Next

\* At first nothing is seen or released.
LEMMA SpendInit == Init => SpendInv
BY DEF Init, C!Init, C!NotFetching, M!Init, M!NoTask, SpendInv, TaskSent, SeenSent, PresentingSent

LEMMA SpendInvariance == Spec => []SpendInv
BY SpendInit, SpendStep, GrantStep, GrantInvariance, Invariance, PTL DEF Spec

----------------------------------------------------------------------------
(* What the components promise holds of the system's Moderator and Anchor. *)

\* The Moderator's invariant, and what a grant pays for.
LEMMA ModeratorHolds == Spec => []MP!IndInv /\ []MP!PricePaid
<1>1. Init => MP!IndInv /\ MP!PricePaid
  BY SameModerator, ModeratorInstance DEF Init, MP!Init, MP!PricePaid
<1>2. IndInv /\ [Next]_vars => [MP!Next]_MP!vars
  BY NextInd, SameModerator DEF M!vars, MP!vars
<1> QED
  BY <1>1, <1>2, ModeratorInstance, Invariance, PTL DEF Spec

\* The limit under each of the Anchor's keys.
LEMMA AnchorHolds == Spec => []AP!KeysLimited
<1>1. Init => AP!KeysLimited
  BY SameAnchor, AnchorAssumed, AP!KeysLimitedInit DEF Init
<1>2. AP!IndInv /\ [A!Next]_A!vars => [AP!Next]_AP!vars
  BY SameAnchor DEF A!vars, AP!vars
<1>3. GrantInv => AP!IndInv
  BY DEF GrantInv
<1> QED
  BY <1>1, <1>2, <1>3, AnchorLimit, GrantStep, GrantInvariance, Invariance, PTL DEF Spec

----------------------------------------------------------------------------
(* What Clients hold.                                                      *)

\* A credential that a Client holds under the current key is as good as it
\* believes: what it would reveal was never sent, so no process has seen it
\* and no handler has it, and the balance is the Moderator's account of it.
LEMMA HeldGood ==
    IndInv /\ SpendInv /\ CU!IndInv /\ MP!IndInv => HeldCredentialGood
<1> SUFFICES ASSUME IndInv, SpendInv, CU!IndInv, MP!IndInv,
                    NEW c \in Clients, NEW p \in DOMAIN credentials[c],
                    credentials[c][p].key = run
             PROVE  /\ credentials[c][p] \in M!Live
                    /\ credentials[c][p].bal = outstanding[credentials[c][p].root]
                    /\ \A w \in Workers : task[w].op = "present" =>
                           Nullifier(task[w].spend.token) # Nullifier(credentials[c][p])
  BY DEF HeldCredentialGood, Held, C!Held
<1>1. PICK t : t = credentials[c][p]
  OBVIOUS
<1>2. \A m \in C!Presentations : Nullifier(m.spend.token) # Nullifier(t)
  BY <1>1, BurnedHere
<1>3. t \in released
  BY <1>1 DEF IndInv, ClientOK, StoreOK
<1>4. Nullifier(t) \notin seenSpendNullifiers
  BY <1>2 DEF SpendInv, SeenSent
<1>5. t \in M!Live /\ t \in MP!Live
  BY <1>1, <1>3, <1>4 DEF M!Live, MP!Live, M!Nullifier, MP!Nullifier, Nullifier
<1>6. t.bal = outstanding[t.root]
  BY <1>5 DEF MP!IndInv, MP!BudgetKept
<1>7. ASSUME NEW w \in Workers, task[w].op = "present"
      PROVE  Nullifier(task[w].spend.token) # Nullifier(t)
  BY <1>2, <1>7 DEF SpendInv, TaskSent, ToModerator, C!Presentations
<1> QED
  BY <1>1, <1>5, <1>6, <1>7

\* What a Client holds is good: nullifiers recorded, credentials released and
\* wallets agree in every interleaving, so an honest Client is never refused for
\* a nullifier that somebody else has used up.
THEOREM CredentialsGood == Spec => []HeldCredentialGood
BY HeldGood, Invariance, SpendInvariance, ClientHolds, ModeratorHolds, PTL

\* A stored endorsement was signed and proved once for its Client's user,
\* under the key and epoch it is stored with, and never redeemed: the fetch
\* that asked for it is the fetch that stored it.
LEMMA StoredGood ==
    GrantInv /\ SpendInv /\ CU!IndInv => HeldEndorsementGood
<1> SUFFICES ASSUME GrantInv, SpendInv, CU!IndInv,
                    NEW c \in Clients, NEW i \in DOMAIN endorsements[c]
             PROVE  LET e == endorsements[c][i] IN
                    /\ \E j \in DOMAIN signatures :
                           /\ signatures[j].blind = e.nf /\ signatures[j].user = UserOf[c]
                           /\ signatures[j].key = e.key /\ signatures[j].ctx = e.epoch
                           /\ signatures[j].proofs = 1
                    /\ e.nf \notin seenEndorsementNullifiers
  BY DEF HeldEndorsementGood
<1>1. PICK e : e = endorsements[c][i]
  OBVIOUS
<1>2. e.nf[1] = c /\ Granted(e)
  BY <1>1 DEF GrantInv, ClientGranted, StoreGranted
<1>3. e.nf \notin seenEndorsementNullifiers
  BY <1>1, BurnedHere DEF SpendInv, SeenSent
<1> QED
  BY <1>1, <1>2, <1>3 DEF Granted

\* Every endorsement in a store can still be redeemed, at whatever point the
\* Client, another of the same user, or a server has stopped.
THEOREM EndorsementsGood == Spec => []HeldEndorsementGood
BY StoredGood, GrantInvariance, SpendInvariance, ClientHolds, PTL

----------------------------------------------------------------------------
(* The servers are servers as Client assumes them.                         *)

\* The Anchor's sessions: so many for each user that some Client has.
LEMMA SessionsHere ==
    ASSUME GrantInv, AP!KeysLimited, NEW sid \in DOMAIN signatures
    PROVE  sid \in 1 .. GrantsPerEpoch * Cardinality(Clients) * MaxAnchorRuns
<1> DEFINE U == {UserOf[c] : c \in Clients}
           userOf == [c \in Clients |-> UserOf[c]]
<1>1. IsFiniteSet(U) /\ Cardinality(U) <= Cardinality(Clients)
  <2>1. userOf \in Surjection(Clients, U)
    BY Fun_IsSurj
  <2> QED
    BY <2>1, MoleAssumption, FS_Surjection
<1>2. PICK u, n \in Nat : u = Cardinality(U) /\ n = Cardinality(Clients)
  BY <1>1, MoleAssumption, FS_CardinalityType
<1>3. u <= n
  BY <1>1, <1>2
<1>4. Len(signatures) <= (u * MaxAnchorRuns) * GrantsPerEpoch
  BY <1>1, <1>2, SameSets, AnchorAssumed, AP!SessionsBounded DEF GrantInv
<1>5. sid \in 1 .. Len(signatures) /\ Len(signatures) \in Nat
  BY DEF GrantInv, AP!IndInv, AP!TypeOK
<1>6. MaxAnchorRuns \in Nat /\ GrantsPerEpoch \in Nat
  BY MoleAssumption
<1>7. (u * MaxAnchorRuns) * GrantsPerEpoch <= GrantsPerEpoch * n * MaxAnchorRuns
  BY <1>2, <1>3, <1>6, FewerTimes
<1>8. GrantsPerEpoch * n * MaxAnchorRuns \in Int /\ (u * MaxAnchorRuns) * GrantsPerEpoch \in Int
  <2>1. u * MaxAnchorRuns \in Int /\ GrantsPerEpoch * n \in Int
    BY <1>2, <1>6
  <2> QED
    BY <1>6, <2>1
<1> QED
  BY <1>2, <1>4, <1>5, <1>7, <1>8

\* The refund a Client gets is one of its presentation's, since it presents a
\* credential in one request.
LEMMA RefundHere ==
    ASSUME IndInv, SpendInv, CU!IndInv, NEW c \in Clients, fetch[c].phase = "presenting",
           NEW t \in ReplacedFor(c)
    PROVE  \E amounts \in Terms :
               t.bal - (fetch[c].request.spend.token.bal - fetch[c].request.spend.charge)
                   = amounts.refund
<1>1. PICK q, old : q = fetch[c].request /\ old = q.spend.token
  OBVIOUS
<1>2. /\ t \in Token /\ old \in Token /\ q.spend.charge \in Nat
      /\ t.root = old.root /\ t.key = old.key /\ t.gen = old.gen + 1
      /\ q \in C!Presentations
  BY <1>1 DEF ReplacedFor, IndInv, ServersOK, ReleasedOK, ClientOK, FetchOK, SpendInv,
              PresentingSent
<1>3. t.gen # 0 /\ old.gen = t.gen - 1 /\ t.pre = old.pre
  BY <1>2 DEF Token
<1>4. t \in released
  BY DEF ReplacedFor
<1>5. PICK m \in C!Presentations, amounts \in Terms :
          /\ m.spend.token.root = t.root /\ m.spend.token.pre = t.pre
          /\ m.spend.token.key = t.key /\ m.spend.token.gen = t.gen - 1
          /\ t.bal = m.spend.token.bal - m.spend.charge + amounts.refund
  BY <1>3, <1>4 DEF SpendInv, Lineage
<1>6. Nullifier(m.spend.token) = Nullifier(q.spend.token)
  BY <1>1, <1>2, <1>3, <1>5 DEF Nullifier
<1>7. m = q
  BY <1>2, <1>6, BurnedHere
<1>8. amounts.refund \in Nat /\ old.bal \in Int
  BY <1>2, MoleAssumption DEF Token
<1> QED
  BY <1>1, <1>2, <1>5, <1>7, <1>8

\* Every answer of the system's servers is one that Client allows.
LEMMA ClientAnswered ==
    ASSUME IndInv, GrantInv, SpendInv, CU!IndInv, AP!KeysLimited, NEW c \in Clients, Answers(c)
    PROVE  C!Answered(c)
<1>1. ASSUME NEW sid \in DOMAIN signatures, C!GotSignature(c, sid) PROVE C!Answered(c)
  BY <1>1, SessionsHere DEF C!Answered
<1>2. ASSUME NEW t \in released, t.gen = 0,
             NEW i \in [key : Runs, policy : {Policy}, epoch : Contexts, bal : Int],
             i.bal = t.bal, C!GotCredential(c, C!Issuable(c, i))
      PROVE  C!Answered(c)
  <2>1. t.bal \in {amounts.initial : amounts \in Terms}
    BY <1>2 DEF SpendInv, Lineage
  <2>2. i \in [key : Runs, policy : {Policy}, epoch : Contexts,
               bal : {amounts.initial : amounts \in Terms}]
    BY <1>2, <2>1
  <2> QED
    BY <1>2, <2>2 DEF C!Answered
<1>3. ASSUME fetch[c].phase = "presenting", NEW t \in ReplacedFor(c),
             C!GotUpdate(c, t.bal - (fetch[c].request.spend.token.bal
                                          - fetch[c].request.spend.charge))
      PROVE  C!Answered(c)
  BY <1>3, RefundHere DEF C!Answered
<1> QED
  BY <1>1, <1>2, <1>3 DEF Answers, C!Answered, ChallengeSet

\* Every step of the system is a step of Client, or none of a Client's.
LEMMA ClientSteps ==
    IndInv /\ GrantInv /\ SpendInv /\ CU!IndInv /\ AP!KeysLimited /\ [Next]_vars
        => [C!Next]_C!vars
<1> SUFFICES ASSUME IndInv, GrantInv, SpendInv, CU!IndInv, AP!KeysLimited, [Next]_vars
             PROVE  [C!Next]_C!vars
  OBVIOUS
<1>1. ASSUME NEW c \in Clients, Begin(c) \/ Get(c) \/ GetNothing(c) \/ Quit(c)
      PROVE  C!Next
  BY <1>1, ClientTakes, ClientAnswered DEF Begin, GetNothing, Quit, C!Next
<1>2. CASE ModeratorRestarts \/ AnchorRestarts \/ Serving \/ UNCHANGED vars
  BY <1>2
  DEF ModeratorRestarts, AnchorRestarts, Serving, ModeratorTakes, ModeratorCommits,
      AnchorTakes, AnchorCommits, vars, clientVars, C!vars
<1> QED
  BY <1>1, <1>2 DEF Next

\* Whatever order Clients, Anchor and Moderator take their steps in, each
\* Client sees a server that Client allows: no session id, issuance or refund
\* that no server gives.
THEOREM ClientImplemented == Spec => ImplementsClient
<1>1. Init => C!Init
  BY DEF Init
<1> QED
  BY <1>1, ClientSteps, Invariance, GrantInvariance, SpendInvariance, ClientHolds, AnchorHolds,
     PTL DEF Spec, ImplementsClient, C!Spec

----------------------------------------------------------------------------
(* What Anchor and Moderator promise together.                             *)

\* Two credentials of the current key that replace presentations of the same
\* endorsement after as many presentations are one.
LEMMA SameGeneration ==
    ASSUME IndInv, MP!PricePaid, NEW s \in released, NEW t \in released,
           s.key = run, t.key = run, s.root = t.root, s.gen = t.gen
    PROVE  s = t
<1>1. s \in Token /\ t \in Token
  BY DEF IndInv, ServersOK, ReleasedOK
<1>2. s.ctx = t.ctx
  BY DEF IndInv, ServersOK, ReleasedOK
<1>3. s.bal = t.bal
  BY DEF MP!PricePaid
<1> QED
  BY <1>1, <1>2, <1>3 DEF Token

\* The sessions in which the Anchor signed for user u.
SessionsOf(u) == {j \in DOMAIN signatures : signatures[j].user = u}

\* The current process serves a user, for each of the user's sessions, as
\* often as one grant pays for: a credential's root names the session.
LEMMA ServedBySession ==
    ASSUME IndInv, GrantInv, SpendInv, MP!IndInv, MP!PricePaid, config.refund < config.charge,
           NEW u, NEW P \in Nat, P = MP!PresentationsPerGrant(config)
    PROVE  /\ IsFiniteSet(SessionsOf(u)) /\ Cardinality(SessionsOf(u)) \in Nat
           /\ Cardinality(ServedTo(u)) \in Nat
           /\ Cardinality(ServedTo(u)) <= Cardinality(SessionsOf(u)) * P
<1> DEFINE session == [t \in ServedTo(u) |->
               CHOOSE j \in DOMAIN signatures :
                   signatures[j].blind = t.root /\ signatures[j].user = UserOf[t.root[1]]]
<1>1. ASSUME NEW t \in ServedTo(u)
      PROVE  session[t] \in SessionsOf(u) /\ signatures[session[t]].blind = t.root
  <2>1. t \in released /\ UserOf[t.root[1]] = u
    BY DEF ServedTo
  <2>2. \E j \in DOMAIN signatures :
            signatures[j].blind = t.root /\ signatures[j].user = UserOf[t.root[1]]
    BY <2>1 DEF SpendInv, RootGranted
  <2> QED
    BY <2>1, <2>2 DEF SessionsOf
<1>2. session \in [ServedTo(u) -> SessionsOf(u)]
  BY <1>1
<1>3. IsFiniteSet(ServedTo(u)) /\ IsFiniteSet(SessionsOf(u))
  <2>1. IsFiniteSet(released)
    BY SameSets DEF MP!IndInv
  <2>2. Len(signatures) \in Nat /\ DOMAIN signatures = 1 .. Len(signatures)
    BY DEF GrantInv, AP!IndInv, AP!TypeOK
  <2>3. IsFiniteSet(DOMAIN signatures)
    BY <2>2, FS_Interval
  <2> QED
    BY <2>1, <2>3, FS_Subset DEF ServedTo, SessionsOf
<1> DEFINE Served(j) == {t \in ServedTo(u) : session[t] = j}
<1>4. ASSUME NEW j \in SessionsOf(u) PROVE Cardinality(Served(j)) <= P
  <2> DEFINE gen == [t \in Served(j) |-> t.gen]
  <2>1. ASSUME NEW t \in Served(j)
        PROVE  t \in released /\ t.key = run /\ t.gen \in 1 .. P /\ t.root = signatures[j].blind
    <3>1. t \in ServedTo(u) /\ t.root = signatures[j].blind
      BY <1>1
    <3>2. t \in released /\ t.key = run /\ t.gen > 0
      BY <3>1 DEF ServedTo
    <3>3. t.gen \in Nat
      BY <3>2 DEF IndInv, ServersOK, ReleasedOK, Token
    <3>4. t.gen <= P
      BY <3>2, ModeratorAssumed, MP!PriceBounds DEF MP!PresentedWithinGrant
    <3> QED
      BY <3>1, <3>2, <3>3, <3>4
  <2> HIDE DEF Served
  <2>2. gen \in [Served(j) -> 1 .. P]
    BY <2>1
  <2>3. \A s, t \in Served(j) : gen[s] = gen[t] => s = t
    BY <2>1, SameGeneration
  <2>4. gen \in Injection(Served(j), 1 .. P)
    BY <2>2, <2>3, Fun_IsInj
  <2>5. IsFiniteSet(1 .. P) /\ Cardinality(1 .. P) = P
    BY InitialSegment
  <2> QED
    BY <2>4, <2>5, FS_Injection
<1> HIDE DEF session
<1> QED
  BY <1>2, <1>3, <1>4, CountByClass, FS_CardinalityType

\* A user has the limit of sessions for each key there has been.
LEMMA SessionsByKey ==
    ASSUME GrantInv, AP!KeysLimited, NEW u \in {UserOf[c] : c \in Clients}
    PROVE  /\ anchorKey \in Nat
           /\ Cardinality(SessionsOf(u)) <= anchorKey * GrantsPerEpoch
<1> DEFINE key == [j \in SessionsOf(u) |-> signatures[j].key]
<1>1. /\ anchorKey \in 1 .. MaxAnchorRuns /\ MaxAnchorRuns \in Nat
      /\ signatures \in Seq(AP!SignatureRecords) /\ AP!SignedHere
  BY MoleAssumption DEF GrantInv, AP!IndInv, AP!TypeOK, AP!AnchorRuns
<1>2. ASSUME NEW j \in SessionsOf(u) PROVE signatures[j].key \in 1 .. anchorKey
  <2>1. j \in DOMAIN signatures
    BY DEF SessionsOf
  <2>2. signatures[j] \in AP!SignatureRecords /\ signatures[j].key <= anchorKey
    BY <1>1, <2>1 DEF AP!SignedHere
  <2> QED
    BY <1>1, <2>2 DEF AP!SignatureRecords, AP!AnchorRuns
<1>3. key \in [SessionsOf(u) -> 1 .. anchorKey]
  BY <1>2
<1>4. /\ IsFiniteSet(SessionsOf(u))
      /\ IsFiniteSet(1 .. anchorKey) /\ Cardinality(1 .. anchorKey) = anchorKey
  <2>1. Len(signatures) \in Nat /\ DOMAIN signatures = 1 .. Len(signatures)
    BY <1>1
  <2>2. IsFiniteSet(DOMAIN signatures)
    BY <2>1, FS_Interval
  <2>3. IsFiniteSet(1 .. anchorKey) /\ Cardinality(1 .. anchorKey) = anchorKey
    BY <1>1, InitialSegment
  <2> QED
    BY <1>1, <2>2, <2>3, FS_Subset DEF SessionsOf
<1>5. ASSUME NEW k \in 1 .. anchorKey
      PROVE  Cardinality({j \in SessionsOf(u) : key[j] = k}) <= GrantsPerEpoch
  <2>1. {j \in SessionsOf(u) : key[j] = k} = AP!SignedBy(u, k)
    BY DEF SessionsOf, AP!SignedBy
  <2>2. k \in AP!AnchorRuns
    BY <1>1 DEF AP!AnchorRuns
  <2> QED
    BY <2>1, <2>2, SameSets DEF AP!KeysLimited
<1> HIDE DEF key
<1>6. Cardinality(SessionsOf(u)) <= Cardinality(1 .. anchorKey) * GrantsPerEpoch
  BY <1>3, <1>4, <1>5, MoleAssumption, CountByClass
<1> QED
  BY <1>1, <1>4, <1>6

\* The count: a user's served presentations, by the grant they lead back to.
LEMMA GrantsBound ==
    ASSUME IndInv, GrantInv, SpendInv, MP!IndInv, MP!PricePaid, AP!KeysLimited
    PROVE  ServedWithinGrants
<1> SUFFICES ASSUME config.refund < config.charge, NEW u \in {UserOf[c] : c \in Clients}
             PROVE  Cardinality(ServedTo(u))
                        <= GrantsPerEpoch * anchorKey * M!PresentationsPerGrant(config)
  BY DEF ServedWithinGrants
<1>1. PICK P : P = MP!PresentationsPerGrant(config)
  OBVIOUS
<1>2. P = M!PresentationsPerGrant(config)
  BY <1>1 DEF MP!PresentationsPerGrant, M!PresentationsPerGrant
<1>3. P \in Nat
  <2>1. config.initial \in Nat /\ config.charge \in Nat /\ config.refund \in Nat
    BY ConfigFacts DEF IndInv, ServersOK
  <2>2. PICK p \in Nat \ {0} : p = config.charge - config.refund
    BY <2>1
  <2>3. CASE config.initial < config.charge
    BY <1>1, <2>3 DEF MP!PresentationsPerGrant
  <2>4. CASE config.initial >= config.charge
    <3>1. PICK a \in Nat : a = config.initial - config.charge
      BY <2>1, <2>4
    <3>2. a \div p \in Nat
      BY <2>2
    <3>3. P = (a \div p) + 1
      BY <1>1, <2>1, <2>2, <2>4, <3>1 DEF MP!PresentationsPerGrant
    <3> QED
      BY <3>2, <3>3
  <2> QED
    BY <2>1, <2>3, <2>4
<1>4. PICK served, n \in Nat : /\ served = Cardinality(ServedTo(u))
                               /\ n = Cardinality(SessionsOf(u)) /\ served <= n * P
  BY <1>1, <1>3, ServedBySession
<1>5. anchorKey \in Nat /\ GrantsPerEpoch \in Nat /\ n <= anchorKey * GrantsPerEpoch
  BY <1>4, SessionsByKey, MoleAssumption
<1>6. n * P <= GrantsPerEpoch * anchorKey * P
  BY <1>3, <1>4, <1>5, NoMoreTimes
<1> QED
  BY <1>2, <1>3, <1>4, <1>5, <1>6

\* The point of the architecture, for any number of users and Clients and
\* whatever is lost, late, repeated, raced or restarted: the Anchor bounds the
\* grants of a user under each of its keys, the Moderator what a grant pays
\* for, and neither knows what the other knows.
THEOREM ServiceLimited == Spec => []ServedWithinGrants
BY GrantsBound, Invariance, GrantInvariance, SpendInvariance, ModeratorHolds, AnchorHolds, PTL

\* An endorsement that is kept leads back to a session of its own.
LEMMA StoredBySession ==
    ASSUME GrantInv, CU!IndInv, AP!KeysLimited
    PROVE  StoredWithinGrants
<1> SUFFICES ASSUME NEW u \in {UserOf[c] : c \in Clients}, NEW k \in 1 .. MaxAnchorRuns
             PROVE  Cardinality(StoredFor(u, k)) <= GrantsPerEpoch
  BY DEF StoredWithinGrants
<1> DEFINE S == StoredFor(u, k)
           T == AP!SignedBy(u, k)
           nf(s) == endorsements[s[1]][s[2]].nf
           session == [s \in S |-> CHOOSE j \in T : signatures[j].blind = nf(s)]
<1>1. ASSUME NEW s \in S
      PROVE  /\ s[1] \in Clients /\ s[2] \in DOMAIN endorsements[s[1]]
             /\ s = <<s[1], s[2]>> /\ nf(s)[1] = s[1]
             /\ \E j \in T : signatures[j].blind = nf(s)
  <2>1. PICK c \in Clients : s \in {c} \X DOMAIN endorsements[c]
    BY DEF StoredFor
  <2>2. PICK i \in DOMAIN endorsements[c] : s = <<c, i>>
    BY <2>1
  <2>3. UserOf[c] = u /\ endorsements[c][i].key = k
    BY <2>2 DEF StoredFor
  <2>4. PICK e : e = endorsements[c][i]
    OBVIOUS
  <2>5. e.nf[1] = c /\ Granted(e)
    BY <2>4 DEF GrantInv, ClientGranted, StoreGranted
  <2>6. \E j \in T : signatures[j].blind = e.nf
    BY <2>3, <2>4, <2>5 DEF Granted, AP!SignedBy
  <2> QED
    BY <2>2, <2>4, <2>5, <2>6
<1>2. \A s \in S : session[s] \in T /\ signatures[session[s]].blind = nf(s)
  BY <1>1
<1>3. \A s, t \in S : nf(s) = nf(t) => s = t
  BY <1>1, BurnedHere
<1>4. session \in Injection(S, T)
  <2>1. session \in [S -> T]
    BY <1>2
  <2>2. ASSUME NEW s \in S, NEW t \in S, session[s] = session[t]
        PROVE  s = t
    <3>1. nf(s) = nf(t)
      BY <1>2, <2>2
    <3> QED
      BY <1>3, <3>1
  <2> HIDE DEF S, T, session
  <2> QED
    BY <2>1, <2>2, Fun_IsInj
<1>5. IsFiniteSet(T)
  <2>1. Len(signatures) \in Nat /\ DOMAIN signatures = 1 .. Len(signatures)
    BY DEF GrantInv, AP!IndInv, AP!TypeOK
  <2>2. IsFiniteSet(DOMAIN signatures)
    BY <2>1, FS_Interval
  <2> QED
    BY <2>2, FS_Subset DEF AP!SignedBy
<1>6. Cardinality(T) <= GrantsPerEpoch /\ Cardinality(T) \in Nat
  BY <1>5, SameSets, FS_CardinalityType DEF AP!KeysLimited, AP!AnchorRuns
<1> HIDE DEF S, T, session
<1>7. Cardinality(S) <= Cardinality(T) /\ IsFiniteSet(S)
  BY <1>4, <1>5, FS_Injection
<1>8. Cardinality(S) \in Nat
  BY <1>7, FS_CardinalityType
<1> QED
  BY <1>6, <1>7, <1>8, MoleAssumption DEF S

\* Whatever fails, the endorsements that a user's Clients keep were paid for by
\* the Anchor's count: for each key no more than the limit.
THEOREM StoresLimited == Spec => []StoredWithinGrants
BY StoredBySession, GrantInvariance, ClientHolds, AnchorHolds, PTL

----------------------------------------------------------------------------
(* Recovery, in the first process of either server.                        *)

\* The fetches of a user's Clients may need that many grants.
RootsOf(u) == {root \in Roots : UserOf[root[1]] = u}

\* What recovery needs besides: a network that loses nothing, users with a
\* name and a grant for each of their fetches, and a grant that pays for a
\* presentation.
Enough ==
    /\ ~Faulty
    /\ \A c \in Clients :
           UserOf[c] # A!NoUser /\ Cardinality(RootsOf(UserOf[c])) <= GrantsPerEpoch
    /\ \A amounts \in Terms :
           amounts.charge <= amounts.initial /\ amounts.initial < BalanceLimit

FirstUp == run = 1 /\ anchorKey = 1

\* The two processes agree,
Agreed == config.keys = <<Decoy, 1>> /\ config.epoch = context

\* what was sent is what they ask for,
RequestTimely(m) ==
    /\ "op" \in DOMAIN m /\ m.op = "redeem" =>
           m.binding = Digest(ModeratorChallenge(config)) /\ m.keyByte = TruncatedKeyId(1)
    /\ "op" \in DOMAIN m /\ m.op = "present" =>
           m.digest = Digest(CredentialChallenge(config, 0)) /\ m.spend.charge = config.charge
    /\ "step" \in DOMAIN m /\ m.step = 1 => m.ctx = context

\* and what a fetch remembers is what they say.
FetchTimely(c) ==
    LET f == fetch[c] IN
    /\ f.phase \in {"policy", "anchor", "signing", "proving", "redeeming", "presenting"} =>
           f.chal = ChallengeOf(config)
    /\ f.phase \in {"anchor", "signing", "proving", "redeeming"} =>
           f.dir = ModeratorDirectory(config, 1)
    /\ f.phase \in {"signing", "proving"} => f.adir = AnchorDirectory(1, context)
    /\ f.phase = "redeeming" => f.request \in C!Redemptions

\* What has answered a request.
IssuedFor(nf) == \E t \in released : t.root = nf /\ t.gen = 0
ReplacedAfter(root, gen) == \E t \in released : t.root = root /\ t.gen = gen + 1
SignedOn(blind) == \E i \in DOMAIN signatures : signatures[i].blind = blind

Handled(m) == \E w \in Workers : task[w] = m
Signing(m) == \E h \in Handlers : handler[h] = m

\* A request that was delivered is being handled or has been answered.
RedeemServed(m) == Handled(m) \/ IssuedFor(m.e.nf)
PresentServed(m) == Handled(m) \/ ReplacedAfter(m.spend.token.root, m.spend.token.gen)
GrantServed(m) ==
    /\ m.step = 1 => Signing(m) \/ SignedOn(m.blind)
    /\ m.step = 2 => signatures[m.sid].proofs > 0

ModeratorServed ==
    /\ \A m \in delivered \intersect C!Redemptions : RedeemServed(m)
    /\ \A m \in delivered \intersect C!Presentations : PresentServed(m)
    /\ \A nf \in seenEndorsementNullifiers : IssuedFor(nf)
    /\ \A nf \in seenSpendNullifiers : ReplacedAfter(nf[1], nf[3])

\* Only answered sessions are gone, and a user is counted for what was
\* delivered.
Blinded(u) ==
    {m.blind : m \in {n \in delivered : "step" \in DOMAIN n /\ n.step = 1 /\ n.user = u}}

AnchorServed ==
    /\ \A m \in delivered \intersect ToAnchor : GrantServed(m)
    /\ \A i \in DOMAIN signatures : i \in sessions \/ signatures[i].proofs > 0
    /\ \A c \in Clients : grants[UserOf[c]] <= Cardinality(Blinded(UserOf[c]))

\* A Client that has failed has nothing left that could fail it again.
Cleared(c) ==
    /\ failures[c] \in {0, 1}
    /\ failures[c] = 1 /\ fetch[c].phase # "body" => DOMAIN credentials[c] = {}

Timely ==
    /\ Agreed
    /\ delivered \subseteq sent
    /\ \A m \in sent : RequestTimely(m)
    /\ ModeratorServed /\ AnchorServed
    /\ \A c \in Clients : FetchTimely(c) /\ Cleared(c)

TimelyInv == FirstUp => Timely

\* What has been proved above.
Known == IndInv /\ GrantInv /\ SpendInv /\ CU!IndInv /\ MP!IndInv /\ MP!PricePaid

\* It is known at all times.
LEMMA KnownAlways == Spec => []Known
BY Invariance, GrantInvariance, SpendInvariance, ClientHolds, ModeratorHolds, PTL DEF Known

\* In the first processes there is one key of each kind and one context, and a
\* new credential carries the whole grant.
LEMMA FirstFacts ==
    ASSUME Known, Enough, FirstUp, Agreed
    PROVE  /\ config \in Configs /\ config.policy = Policy
           /\ config.charge \in Nat /\ config.initial \in Nat
           /\ config.charge <= config.initial /\ config.initial < BalanceLimit
           /\ \A t \in released :
                  /\ t.key = 1 /\ t.ctx = RequestContext(Policy, context)
                  /\ t.gen \in Nat /\ t.bal \in Int
                  /\ t.gen = 0 => t.bal = config.initial
           /\ \A i \in DOMAIN signatures :
                  /\ signatures[i].key = 1 /\ signatures[i].ctx = context
                  /\ signatures[i].proofs \in Nat
           /\ \A c \in Clients : DOMAIN credentials[c] \subseteq {Policy}
           /\ failures = [c \in Clients |-> failures[c]]
<1>1. config \in Configs /\ config.policy = Policy /\ config.charge \in Nat
      /\ config.initial \in Nat /\ config.refund \in Nat
  BY ConfigFacts DEF Known, IndInv, ServersOK
<1>2. config.charge <= config.initial /\ config.initial < BalanceLimit
  <2>1. PICK amounts \in Terms, key \in 1 .. MaxAnchorRuns, epoch \in Contexts :
            config = StartedWith(amounts, key, epoch)
    BY <1>1 DEF Configs
  <2>2. config.charge = amounts.charge /\ config.initial = amounts.initial
    BY <2>1 DEF StartedWith
  <2> QED
    BY <2>2 DEF Enough
<1>3. ASSUME NEW t \in released
      PROVE  /\ t.key = 1 /\ t.ctx = RequestContext(Policy, context)
             /\ t.gen \in Nat /\ t.bal \in Int
             /\ t.gen = 0 => t.bal = config.initial
  <2>1. t \in Token /\ t.key <= run
    BY DEF Known, IndInv, ServersOK, ReleasedOK
  <2>2. t.key \in Runs /\ t.gen \in Nat /\ t.bal \in Int
    BY <2>1 DEF Token
  <2>3. t.key = 1
    BY <2>1, <2>2, KeyAssumption DEF FirstUp, Runs
  <2>4. t.ctx = RequestContext(Policy, context)
    BY <1>1, <2>3 DEF Known, IndInv, ServersOK, ReleasedOK, FirstUp, Agreed
  <2>5. ASSUME t.gen = 0 PROVE t.bal = config.initial
    <3>1. t.bal = config.initial - t.gen * (config.charge - config.refund)
      BY <2>3 DEF Known, MP!PricePaid, FirstUp
    <3>2. PICK price \in Int : price = config.charge - config.refund
      BY <1>1
    <3> QED
      BY <1>1, <2>5, <3>1, <3>2
  <2> QED
    BY <2>2, <2>3, <2>4, <2>5
<1>4. ASSUME NEW i \in DOMAIN signatures
      PROVE  signatures[i].key = 1 /\ signatures[i].ctx = context /\ signatures[i].proofs \in Nat
  <2>1. signatures \in Seq(AP!SignatureRecords) /\ AP!SignedHere
    BY DEF Known, GrantInv, AP!IndInv, AP!TypeOK
  <2>2. signatures[i] \in AP!SignatureRecords
    BY <2>1
  <2>3. signatures[i].key \in AP!AnchorRuns /\ signatures[i].proofs \in Nat
    BY <2>2 DEF AP!SignatureRecords
  <2>4. signatures[i].key = 1
    BY <2>1, <2>3, MoleAssumption DEF AP!SignedHere, AP!AnchorRuns, FirstUp
  <2> QED
    BY <2>1, <2>3, <2>4 DEF AP!SignedHere, FirstUp
<1>5. ASSUME NEW c \in Clients PROVE DOMAIN credentials[c] \subseteq {Policy}
  <2>1. CU!WalletOK(c, credentials[c])
    BY DEF Known, CU!IndInv, CU!LocalOK
  <2>2. \A p \in DOMAIN credentials[c] : CU!TokenOK(c, p, credentials[c][p])
    BY <2>1 DEF CU!WalletOK
  <2> QED
    BY <2>2 DEF CU!TokenOK
<1>6. failures = [c \in Clients |-> failures[c]]
  BY DEF Known, CU!IndInv, CU!MapsOK
<1> QED
  BY <1>1, <1>2, <1>3, <1>4, <1>5, <1>6

----------------------------------------------------------------------------
(* The Moderator answers whatever reaches it.                              *)

\* A step of a server leaves the Clients as they are.
LEMMA ServerTimely ==
    ASSUME Timely, UNCHANGED <<clientVars, config, context>>, delivered' \subseteq sent,
           ModeratorServed', AnchorServed'
    PROVE  Timely'
<1>1. UNCHANGED <<sent, fetch, credentials, failures>>
  BY DEF clientVars
<1>2. Agreed'
  BY DEF Timely, Agreed
<1>3. \A m \in sent' : RequestTimely(m)'
  BY <1>1 DEF Timely, RequestTimely
<1>4. ASSUME NEW c \in Clients PROVE FetchTimely(c)' /\ Cleared(c)'
  <2>1. FetchTimely(c) /\ Cleared(c)
    BY DEF Timely
  <2> QED
    BY <1>1, <2>1 DEF FetchTimely, Cleared, C!Redemptions
<1> QED
  BY <1>1, <1>2, <1>3, <1>4 DEF Timely

\* Nothing that the Clients send the Moderator is refused: every handler
\* verifies against the configuration and the key that the challenge and the
\* directory named.
LEMMA AllValid ==
    ASSUME Known, Enough, FirstUp, Timely, NEW m \in ToModerator
    PROVE  M!Valid(m) /\ m.op \in {"redeem", "present"} /\ "step" \notin DOMAIN m
<1>1. RequestTimely(m) /\ "op" \in DOMAIN m /\ m \in sent
  BY DEF Timely, ToModerator
<1>2. Agreed
  BY DEF Timely
<1>3. CASE RedeemOK(m)
  <2>1. PICK e \in Endorsement, cfg \in Configs, r \in 1 .. run :
            m = RedeemRequest(e, Digest(ModeratorChallenge(cfg)), TruncatedKeyId(r),
                              C!PreIssuance, "plain")
    BY <1>3 DEF RedeemOK
  <2>2. m.op = "redeem" /\ m.form = "plain" /\ m.e = e /\ "step" \notin DOMAIN m
    BY <2>1 DEF RedeemRequest
  <2>3. m \in C!Redemptions
    BY <1>1, <2>2 DEF C!Redemptions
  <2>4. \E j \in DOMAIN signatures : signatures[j].key = e.key /\ signatures[j].ctx = e.epoch
    BY <2>2, <2>3 DEF Known, GrantInv, RedemptionsGranted, Granted
  <2>5. e.key = 1 /\ e.epoch = config.epoch
    BY <1>2, <2>4, FirstFacts DEF Agreed
  <2>6. \E i \in DOMAIN config.keys : config.keys[i] = e.key
    <3>1. config.keys = <<Decoy, 1>> /\ 2 \in DOMAIN <<Decoy, 1>> /\ <<Decoy, 1>>[2] = 1
      BY <1>2 DEF Agreed
    <3> QED
      BY <2>5, <3>1
  <2>7. m.binding = M!Digest(M!ModeratorChallenge(config)) /\ m.keyByte = M!TruncatedKeyId(run)
    BY <1>1, <2>2, SameTypes DEF RequestTimely, FirstUp
  <2>8. M!CanIssue(config)
    BY <1>2, FirstFacts DEF M!CanIssue
  <2> QED
    BY <2>2, <2>5, <2>6, <2>7, <2>8 DEF M!Valid, M!RedeemValid, M!ProofVerifies
<1>4. CASE PresentOK(m)
  <2>1. PICK t \in released, cfg \in Configs :
            m = PresentRequest(t, Digest(CredentialChallenge(cfg, 0)), cfg.charge, 0, "plain")
    BY <1>4 DEF PresentOK
  <2>2. /\ m.op = "present" /\ m.form = "plain" /\ m.keyId = KeyIds[t.key]
        /\ m.spend.token = t /\ m.spend.topup = 0 /\ "step" \notin DOMAIN m
    BY <2>1 DEF PresentRequest
  <2>3. m.digest = M!Digest(M!CredentialChallenge(config, 0)) /\ m.spend.charge = config.charge
    BY <1>1, <2>2, SameTypes DEF RequestTimely
  <2>4. t.key = run /\ t.ctx = M!RequestContext(config.policy, config.epoch)
    BY <1>2, FirstFacts, SameTypes DEF FirstUp, Agreed
  <2> QED
    BY <2>2, <2>3, <2>4 DEF M!Valid, M!PresentValid
<1> QED
  BY <1>3, <1>4 DEF Known, IndInv, SentOK

\* What is answered stays answered.
LEMMA AnsweredKept ==
    ASSUME released \subseteq released'
    PROVE  /\ \A nf : IssuedFor(nf) => IssuedFor(nf)'
           /\ \A root, gen : ReplacedAfter(root, gen) => ReplacedAfter(root, gen)'
BY DEF IssuedFor, ReplacedAfter

\* The Moderator takes a request: a handler has it.
LEMMA TakesTimely ==
    ASSUME Known, Enough, FirstUp, Timely, NEW m \in ToModerator, ModeratorTakes(m)
    PROVE  Timely'
<1>1. M!Valid(m) /\ m.op \in {"redeem", "present"} /\ "step" \notin DOMAIN m
  BY AllValid
<1>2. PICK w \in Workers : M!Verify(w, m)
  BY <1>1 DEF ModeratorTakes, M!Refuse
<1>3. /\ task[w] = M!NoTask /\ task' = [task EXCEPT ![w] = m]
      /\ UNCHANGED <<config, seenEndorsementNullifiers, seenSpendNullifiers, released>>
  BY <1>2 DEF M!Verify
<1>4. delivered' = delivered \union {m} /\ UNCHANGED <<clientVars, anchorVars>>
  BY DEF ModeratorTakes, Deliver, Enough
<1>5. UNCHANGED <<sent, context, sessions, grants, handler, signatures>>
  BY <1>4 DEF clientVars, anchorVars
<1>6. ASSUME NEW n, n = m \/ (Handled(n) /\ n.op \in {"redeem", "present"})
      PROVE  Handled(n)'
  <2>1. task = [v \in Workers |-> task[v]]
    BY DEF Known, IndInv, ServersOK
  <2> QED
    BY <1>3, <1>6, <2>1 DEF Handled, M!NoTask
<1>7. ModeratorServed'
  <2>1. ASSUME NEW n \in delivered' \intersect C!Redemptions' PROVE RedeemServed(n)'
    <3>1. n \in C!Redemptions /\ n.op = "redeem" /\ (n = m \/ n \in delivered)
      BY <1>4, <1>5 DEF C!Redemptions
    <3>2. n = m \/ RedeemServed(n)
      BY <3>1 DEF Timely, ModeratorServed
    <3> QED
      BY <1>3, <1>6, <3>1, <3>2, AnsweredKept DEF RedeemServed
  <2>2. ASSUME NEW n \in delivered' \intersect C!Presentations' PROVE PresentServed(n)'
    <3>1. n \in C!Presentations /\ n.op = "present" /\ (n = m \/ n \in delivered)
      BY <1>4, <1>5 DEF C!Presentations
    <3>2. n = m \/ PresentServed(n)
      BY <3>1 DEF Timely, ModeratorServed
    <3> QED
      BY <1>3, <1>6, <3>1, <3>2, AnsweredKept DEF PresentServed
  <2> QED
    BY <1>3, <2>1, <2>2, AnsweredKept DEF Timely, ModeratorServed
<1>8. AnchorServed'
  <2>1. \A u : Blinded(u)' = Blinded(u)
    BY <1>1, <1>4 DEF Blinded
  <2>2. delivered' \intersect ToAnchor' = delivered \intersect ToAnchor
    BY <1>1, <1>4, <1>5 DEF ToAnchor
  <2> QED
    BY <1>5, <2>1, <2>2 DEF Timely, AnchorServed, GrantServed, Signing, SignedOn
<1> QED
  BY <1>3, <1>4, <1>5, <1>7, <1>8, ServerTimely DEF Timely, ToModerator

\* A handler finishes: its request has been answered, by it or by another.
LEMMA DoneTimely ==
    ASSUME Known, Timely, NEW w \in Workers, NEW m, m = task[w],
           task' = [task EXCEPT ![w] = M!NoTask], released \subseteq released',
           UNCHANGED <<clientVars, config, anchorVars, delivered>>,
           m.op = "redeem" => IssuedFor(m.e.nf)',
           m.op = "present" => ReplacedAfter(m.spend.token.root, m.spend.token.gen)',
           \A nf \in seenEndorsementNullifiers' : IssuedFor(nf)',
           \A nf \in seenSpendNullifiers' : ReplacedAfter(nf[1], nf[3])'
    PROVE  Timely'
<1>1. UNCHANGED <<sent, context, sessions, grants, handler, signatures>>
  BY DEF clientVars, anchorVars
<1>2. ASSUME NEW n, Handled(n), n # m PROVE Handled(n)'
  BY <1>2 DEF Handled, Known, IndInv, ServersOK
<1>3. ASSUME NEW n \in delivered' \intersect C!Redemptions' PROVE RedeemServed(n)'
  <2>1. n.op = "redeem" /\ RedeemServed(n)
    BY <1>1 DEF C!Redemptions, Timely, ModeratorServed
  <2> QED
    BY <1>2, <2>1, AnsweredKept DEF RedeemServed
<1>4. ASSUME NEW n \in delivered' \intersect C!Presentations' PROVE PresentServed(n)'
  <2>1. n.op = "present" /\ PresentServed(n)
    BY <1>1 DEF C!Presentations, Timely, ModeratorServed
  <2> QED
    BY <1>2, <2>1, AnsweredKept DEF PresentServed
<1>5. ModeratorServed'
  BY <1>3, <1>4 DEF ModeratorServed
<1>6. AnchorServed'
  BY <1>1 DEF Timely, AnchorServed, Blinded, ToAnchor, GrantServed, Signing, SignedOn
<1> QED
  BY <1>1, <1>5, <1>6, ServerTimely DEF Timely

\* The handler that wins answers, and the one that loses has been anticipated.
LEMMA CommitsTimely ==
    ASSUME Known, Timely, NEW w \in Workers, ModeratorCommits(w)
    PROVE  Timely'
<1>0. PICK m : m = task[w]
  OBVIOUS
<1>1. UNCHANGED <<clientVars, anchorVars, delivered>>
  BY DEF ModeratorCommits
<1>2. CASE M!Issue(w)
  <2>1. PICK t : t = M!Issued(m)
    OBVIOUS
  <2>2. /\ m.op = "redeem" /\ task' = [task EXCEPT ![w] = M!NoTask]
        /\ released' = released \union {t} /\ UNCHANGED <<config, seenSpendNullifiers>>
        /\ seenEndorsementNullifiers' = seenEndorsementNullifiers \union {m.e.nf}
    BY <1>0, <1>2, <2>1 DEF M!Issue
  <2>3. t.root = m.e.nf /\ t.gen = 0
    BY <2>1 DEF M!Issued, M!Credential
  <2>4. IssuedFor(m.e.nf)'
    BY <2>2, <2>3 DEF IssuedFor
  <2>5. /\ \A nf \in seenEndorsementNullifiers' : IssuedFor(nf)'
        /\ \A nf \in seenSpendNullifiers' : ReplacedAfter(nf[1], nf[3])'
    BY <2>2, <2>4, AnsweredKept DEF Timely, ModeratorServed
  <2> QED
    BY <1>0, <1>1, <2>2, <2>4, <2>5, DoneTimely
<1>3. CASE M!Serve(w)
  <2>1. PICK t, k : t = M!Refunded(m) /\ k = m.spend.token
    OBVIOUS
  <2>2. /\ m.op = "present" /\ task' = [task EXCEPT ![w] = M!NoTask]
        /\ released' = released \union {t} /\ UNCHANGED <<config, seenEndorsementNullifiers>>
        /\ seenSpendNullifiers' = seenSpendNullifiers \union {<<k.root, k.pre, k.gen>>}
    BY <1>0, <1>3, <2>1 DEF M!Serve, M!Nullifier
  <2>3. k \in Token
    BY <1>0, <2>1, <2>2 DEF Known, IndInv, ServersOK, TaskOK, ReleasedOK
  <2>4. t.root = k.root /\ t.gen = k.gen + 1
    BY <2>1, <2>3 DEF M!Refunded, M!Replacement, Token
  <2>5. ReplacedAfter(k.root, k.gen)'
    BY <2>2, <2>4 DEF ReplacedAfter
  <2>6. /\ \A nf \in seenEndorsementNullifiers' : IssuedFor(nf)'
        /\ \A nf \in seenSpendNullifiers' : ReplacedAfter(nf[1], nf[3])'
    BY <2>2, <2>5, AnsweredKept DEF Timely, ModeratorServed
  <2> QED
    BY <1>0, <1>1, <2>1, <2>2, <2>5, <2>6, DoneTimely
<1>4. CASE M!Lose(w)
  <2>1. /\ task' = [task EXCEPT ![w] = M!NoTask]
        /\ UNCHANGED <<config, seenEndorsementNullifiers, seenSpendNullifiers, released>>
        /\ \/ m.op = "redeem" /\ m.e.nf \in seenEndorsementNullifiers
           \/ m.op = "present" /\ M!Nullifier(m.spend.token) \in seenSpendNullifiers
    BY <1>0, <1>4 DEF M!Lose
  <2>2. m.op = "redeem" => IssuedFor(m.e.nf)
    BY <2>1 DEF Timely, ModeratorServed
  <2>3. m.op = "present" => ReplacedAfter(m.spend.token.root, m.spend.token.gen)
    BY <2>1 DEF Timely, ModeratorServed, M!Nullifier
  <2> QED
    BY <1>0, <1>1, <2>1, <2>2, <2>3, AnsweredKept, DoneTimely DEF Timely, ModeratorServed
<1> QED
  BY <1>2, <1>3, <1>4 DEF ModeratorCommits

----------------------------------------------------------------------------
(* The Anchor answers whatever reaches it.                                 *)

\* A nullifier is drawn for a fetch, so it is one of Roots.
LEMMA BlindedRoot ==
    ASSUME Known, NEW m \in ToAnchor, m.step = 1
    PROVE  m.blind \in RootsOf(m.user)
<1>1. FirstOK(m)
  BY DEF Known, GrantInv, SecondOK, SecondExchange
<1>2. PICK c \in Clients, ctx \in Contexts : \E n \in 1 .. drawn[c] : m = FirstExchange(c, n, ctx)
  BY <1>1 DEF FirstOK
<1>3. PICK n \in 1 .. drawn[c] : m = FirstExchange(c, n, ctx)
  BY <1>2
<1>4. m.blind = <<c, n>> /\ m.user = UserOf[c]
  BY <1>3 DEF FirstExchange
<1>5. drawn[c] \in Nat /\ drawn[c] <= fetches[c] /\ fetches[c] \in Nat /\ fetches[c] <= MaxFetches
  BY DEF Known, IndInv, ClientOK, CountsOK
<1> QED
  BY <1>3, <1>4, <1>5, MoleAssumption DEF Roots, RootsOf

\* Only so many first exchanges can have been delivered, each for a nullifier
\* of its own.
LEMMA BlindedRoots ==
    ASSUME Known, delivered \subseteq sent, NEW u
    PROVE  /\ IsFiniteSet(RootsOf(u)) /\ Blinded(u) \subseteq RootsOf(u)
           /\ IsFiniteSet(Blinded(u)) /\ Cardinality(Blinded(u)) \in Nat
           /\ Cardinality(RootsOf(u)) \in Nat
<1>1. IsFiniteSet(1 .. MaxFetches)
  BY MoleAssumption, FS_Interval
<1>2. IsFiniteSet(RootsOf(u)) /\ Cardinality(RootsOf(u)) \in Nat
  <2>1. IsFiniteSet(Roots)
    BY <1>1, MoleAssumption, FS_Product DEF Roots
  <2>2. RootsOf(u) \subseteq Roots
    BY DEF RootsOf
  <2> QED
    BY <2>1, <2>2, FS_Subset, FS_CardinalityType
<1>3. ASSUME NEW m \in delivered, "step" \in DOMAIN m, m.step = 1
      PROVE  m.blind \in RootsOf(m.user)
  <2>1. m \in ToAnchor
    BY <1>3 DEF ToAnchor
  <2> QED
    BY <1>3, <2>1, BlindedRoot
<1>4. Blinded(u) \subseteq RootsOf(u)
  BY <1>3 DEF Blinded
<1> QED
  BY <1>2, <1>4, FS_Subset, FS_CardinalityType

\* A step of the Anchor leaves the Moderator as it is, and takes back nothing.
LEMMA AnchorTimely ==
    ASSUME Known, Timely, UNCHANGED <<clientVars, moderatorVars, context>>, AnchorServed',
           delivered' \subseteq sent,
           delivered' \intersect ToModerator = delivered \intersect ToModerator
    PROVE  Timely'
<1>1. UNCHANGED <<sent, config, task, released, seenEndorsementNullifiers, seenSpendNullifiers>>
  BY DEF clientVars, moderatorVars
<1>2. /\ delivered' \intersect C!Redemptions' = delivered \intersect C!Redemptions
      /\ delivered' \intersect C!Presentations' = delivered \intersect C!Presentations
  BY <1>1 DEF ToModerator, C!Redemptions, C!Presentations
<1>3. ModeratorServed'
  BY <1>1, <1>2 DEF Timely, ModeratorServed, RedeemServed, PresentServed, Handled,
                    IssuedFor, ReplacedAfter
<1> QED
  BY <1>1, <1>3, ServerTimely

\* What has been signed or proved stays so.
LEMMA SignaturesKept ==
    ASSUME Known, Enough, FirstUp, Agreed, AnchorStepped
    PROVE  /\ \A blind : SignedOn(blind) => SignedOn(blind)'
           /\ \A i \in DOMAIN signatures :
                  signatures[i].proofs > 0 => i \in DOMAIN signatures' /\ signatures'[i].proofs > 0
<1>1. AP!SignaturesGrow
  BY DEF AnchorStepped
<1>2. \A blind : SignedOn(blind) => SignedOn(blind)'
  BY <1>1 DEF SignedOn, AP!SignaturesGrow
<1>3. ASSUME NEW i \in DOMAIN signatures, signatures[i].proofs > 0
      PROVE  i \in DOMAIN signatures' /\ signatures'[i].proofs > 0
  <2>1. signatures[i].proofs \in Nat
    BY FirstFacts
  <2>2. i \in DOMAIN signatures' /\ signatures[i].proofs <= signatures'[i].proofs
    BY <1>1 DEF AP!SignaturesGrow
  <2>3. AP!IndInv'
    BY DEF AnchorStepped
  <2>4. signatures' \in Seq(AP!SignatureRecords')
    BY <2>3 DEF AP!IndInv, AP!TypeOK
  <2>5. signatures'[i] \in AP!SignatureRecords'
    BY <2>2, <2>4
  <2>6. signatures'[i].proofs \in Nat
    BY <2>5 DEF AP!SignatureRecords
  <2> QED
    BY <1>3, <2>1, <2>2, <2>6
<1> QED
  BY <1>2, <1>3

\* What the requests to the Anchor look like.
LEMMA AnchorRequest ==
    ASSUME Known, Timely, NEW m \in ToAnchor
    PROVE  /\ m.form = "plain" /\ "op" \notin DOMAIN m /\ m.step \in {1, 2} /\ m \in sent
           /\ "step" \in DOMAIN m
           /\ m.step = 1 => m.ctx = context /\ \E c \in Clients : m.user = UserOf[c]
           /\ m.step = 2 => m.sid \in DOMAIN signatures
<1>1. m \in sent /\ "step" \in DOMAIN m /\ RequestTimely(m)
  BY DEF ToAnchor, Timely
<1>2. CASE FirstOK(m)
  <2>1. PICK c \in Clients, ctx \in Contexts : \E n \in 1 .. drawn[c] : m = FirstExchange(c, n, ctx)
    BY <1>2 DEF FirstOK
  <2> QED
    BY <1>1, <2>1 DEF FirstExchange, RequestTimely
<1>3. CASE SecondOK(m)
  BY <1>1, <1>3 DEF SecondOK, SecondExchange
<1> QED
  BY <1>2, <1>3 DEF Known, GrantInv

\* The first exchange is counted: there is a grant left for it.
LEMMA CountTimely ==
    ASSUME Known, Enough, FirstUp, Timely, NEW m \in ToAnchor, m.step = 1, AnchorTakes(m),
           AnchorStepped
    PROVE  Timely'
<1>1. /\ m.form = "plain" /\ "op" \notin DOMAIN m /\ m \in sent /\ "step" \in DOMAIN m
      /\ \E c \in Clients : m.user = UserOf[c]
  BY AnchorRequest
<1>2. /\ delivered' = delivered \union {m} /\ m \notin delivered
      /\ UNCHANGED <<clientVars, moderatorVars>>
  BY DEF AnchorTakes, Deliver, Enough
<1>3. Agreed /\ delivered \subseteq sent
  BY DEF Timely
<1>4. PICK c \in Clients : m.user = UserOf[c]
  BY <1>1
<1>5. /\ Blinded(m.user)' = Blinded(m.user) \union {m.blind}
      /\ \A u : u # m.user => Blinded(u)' = Blinded(u)
  BY <1>1, <1>2 DEF Blinded
<1>6. m.blind \notin Blinded(m.user)
  <2>1. SUFFICES ASSUME NEW n \in delivered, "step" \in DOMAIN n, n.step = 1, n.blind = m.blind
                 PROVE  FALSE
    BY DEF Blinded
  <2>2. n \in ToAnchor
    BY <1>3, <2>1 DEF ToAnchor
  <2> QED
    BY <1>2, <2>1, <2>2 DEF Known, GrantInv, AskedOnce
<1>7. /\ Cardinality(Blinded(m.user)) \in Nat
      /\ Cardinality(Blinded(m.user)') = Cardinality(Blinded(m.user)) + 1
      /\ Cardinality(Blinded(m.user)) < GrantsPerEpoch
  <2>1. /\ IsFiniteSet(RootsOf(m.user)) /\ Blinded(m.user) \subseteq RootsOf(m.user)
        /\ IsFiniteSet(Blinded(m.user)) /\ Cardinality(Blinded(m.user)) \in Nat
        /\ Cardinality(RootsOf(m.user)) \in Nat
    BY <1>3, BlindedRoots
  <2>2. Cardinality(Blinded(m.user)') = Cardinality(Blinded(m.user)) + 1
    BY <1>5, <1>6, <2>1, FS_AddElement
  <2>3. Blinded(m.user)' \subseteq RootsOf(m.user)
    BY <1>5, <2>1, BlindedRoot
  <2>4. Cardinality(Blinded(m.user)') <= Cardinality(RootsOf(m.user))
    BY <2>1, <2>3, FS_Subset
  <2> QED
    BY <1>4, <2>1, <2>2, <2>4, MoleAssumption DEF Enough
<1>8. grants \in [{UserOf[d] : d \in Clients} -> 0 .. GrantsPerEpoch]
  BY DEF Known, GrantInv, AP!IndInv, AP!TypeOK
<1>9. grants[m.user] < GrantsPerEpoch /\ m.user # A!NoUser
  <2>1. grants[m.user] <= Cardinality(Blinded(m.user))
    BY <1>4 DEF Timely, AnchorServed
  <2>2. grants[m.user] \in Nat
    BY <1>4, <1>8
  <2> QED
    BY <1>4, <1>7, <2>1, <2>2, MoleAssumption DEF Enough
<1>10. PICK h \in Handlers : A!Count(h, m)
  <2>1. grants[m.user] \in Nat
    BY <1>4, <1>8
  <2>2. ~A!Refuse(m)
    BY <1>1, <1>9, <2>1, MoleAssumption DEF A!Refuse, A!Refusable
  <2>3. ~A!Prove(m)
    BY DEF A!Prove
  <2> QED
    BY <2>2, <2>3 DEF AnchorTakes
<1>11. /\ handler[h] = A!Idle /\ handler' = [handler EXCEPT ![h] = m]
       /\ grants' = [grants EXCEPT ![m.user] = @ + 1]
       /\ UNCHANGED <<context, sessions, signatures>>
  BY <1>10 DEF A!Count
<1>12. ASSUME NEW n \in delivered' \intersect ToAnchor' PROVE GrantServed(n)'
  <2>1. n = m \/ n \in delivered \intersect ToAnchor
    BY <1>2 DEF ToAnchor, clientVars
  <2>2. n = m \/ GrantServed(n)
    BY <2>1 DEF Timely, AnchorServed
  <2>3. ASSUME n = m \/ (n.step = 1 /\ Signing(n)) PROVE Signing(n)'
    BY <1>11, <2>3 DEF Signing, A!Idle, Known, GrantInv, AP!IndInv, AP!HandlersOK
  <2> QED
    BY <1>11, <2>2, <2>3 DEF GrantServed, SignedOn
<1>13. ASSUME NEW d \in Clients, NEW u, u = UserOf[d] PROVE grants'[u] <= Cardinality(Blinded(u)')
  <2>1. grants[u] <= Cardinality(Blinded(u)) /\ grants[u] \in Nat
    BY <1>8, <1>13 DEF Timely, AnchorServed
  <2>2. CASE u = m.user
    <3>1. grants'[u] = grants[u] + 1
      BY <1>8, <1>11, <1>13, <2>2
    <3> QED
      BY <1>7, <2>1, <2>2, <3>1
  <2>3. CASE u # m.user
    <3>1. grants'[u] = grants[u]
      BY <1>8, <1>11, <1>13, <2>3
    <3> QED
      BY <1>5, <2>1, <2>3, <3>1
  <2> QED
    BY <2>2, <2>3
<1>14. AnchorServed'
  BY <1>11, <1>12, <1>13 DEF Timely, AnchorServed
<1> QED
  BY <1>1, <1>2, <1>3, <1>11, <1>14, AnchorTimely DEF ToModerator

\* The second exchange is answered, or was before.
LEMMA ProveTimely ==
    ASSUME Known, Enough, FirstUp, Timely, NEW m \in ToAnchor, m.step = 2, AnchorTakes(m),
           AnchorStepped
    PROVE  Timely'
<1>1. /\ m.form = "plain" /\ "op" \notin DOMAIN m /\ m \in sent
      /\ m.sid \in DOMAIN signatures
  BY AnchorRequest
<1>2. delivered' = delivered \union {m} /\ UNCHANGED <<clientVars, moderatorVars>>
  BY DEF AnchorTakes, Deliver, Enough
<1>3. Agreed /\ delivered \subseteq sent
  BY DEF Timely
<1>4. \A u : Blinded(u)' = Blinded(u)
  BY <1>2 DEF Blinded
<1>5. A!Prove(m) \/ A!Refuse(m)
  BY DEF AnchorTakes, A!Count
<1>6. UNCHANGED <<context, grants, handler>> /\ DOMAIN signatures' = DOMAIN signatures
  BY <1>1, <1>5 DEF A!Prove, A!Refuse, A!vars
<1>7. signatures'[m.sid].proofs > 0
  <2>1. CASE A!Prove(m)
    <3>1. signatures' = [signatures EXCEPT ![m.sid].proofs = @ + 1]
      BY <1>1, <2>1 DEF A!Prove
    <3>2. signatures'[m.sid].proofs = signatures[m.sid].proofs + 1
      <4>1. signatures \in Seq(AP!SignatureRecords)
        BY DEF Known, GrantInv, AP!IndInv, AP!TypeOK
      <4>2. signatures[m.sid] \in AP!SignatureRecords
        BY <1>1, <4>1
      <4> QED
        BY <1>1, <3>1, <4>1, <4>2 DEF AP!SignatureRecords
    <3>3. signatures[m.sid].proofs \in Nat
      BY <1>1, <1>3, FirstFacts
    <3> QED
      BY <3>2, <3>3
  <2>2. CASE A!Refuse(m)
    <3>1. m.sid \notin sessions /\ UNCHANGED signatures
      BY <1>1, <2>2 DEF A!Refuse, A!Refusable, A!vars
    <3> QED
      BY <1>1, <3>1 DEF Timely, AnchorServed
  <2> QED
    BY <1>5, <2>1, <2>2
<1>8. ASSUME NEW n \in delivered' \intersect ToAnchor' PROVE GrantServed(n)'
  <2>1. n = m \/ n \in delivered \intersect ToAnchor
    BY <1>2 DEF ToAnchor, clientVars
  <2>2. n = m \/ (GrantServed(n) /\ (n.step = 2 => n.sid \in DOMAIN signatures))
    BY <2>1, AnchorRequest DEF Timely, AnchorServed
  <2>3. Signing(n) => Signing(n)'
    BY <1>6 DEF Signing
  <2> QED
    BY <1>3, <1>7, <2>2, <2>3, SignaturesKept DEF GrantServed
<1>9. \A i \in DOMAIN signatures' : i \in sessions' \/ signatures'[i].proofs > 0
  <2>1. ASSUME NEW i \in DOMAIN signatures PROVE i \in sessions \/ signatures'[i].proofs > 0
    BY <1>3, SignaturesKept DEF Timely, AnchorServed
  <2>2. sessions' = sessions \/ sessions' = sessions \ {m.sid}
    BY <1>5 DEF A!Prove, A!Refuse, A!vars
  <2> QED
    BY <1>6, <1>7, <2>1, <2>2
<1>10. AnchorServed'
  BY <1>4, <1>6, <1>8, <1>9 DEF Timely, AnchorServed
<1> QED
  BY <1>1, <1>2, <1>3, <1>6, <1>10, AnchorTimely DEF ToModerator

\* A counted exchange is signed: it was begun in this context.
LEMMA SignTimely ==
    ASSUME Known, Enough, FirstUp, Timely, NEW h \in Handlers, AnchorCommits(h), AnchorStepped
    PROVE  Timely'
<1>1. UNCHANGED <<clientVars, moderatorVars, delivered>>
  BY DEF AnchorCommits
<1>2. Agreed /\ delivered \subseteq sent
  BY DEF Timely
<1>3. A!Sign(h)
  <2>1. SUFFICES ASSUME handler[h] # A!Idle PROVE A!Signable(handler[h])
    BY DEF AnchorCommits, A!GiveUp
  <2>2. handler[h] \in ToAnchor /\ handler[h].step = 1
    BY <2>1 DEF Known, GrantInv, HandlerAsked
  <2> QED
    BY <2>2, AnchorRequest DEF A!Signable
<1>4. PICK m, s : m = handler[h] /\ s = signatures'[Len(signatures) + 1]
  OBVIOUS
<1>5. signatures \in Seq(AP!SignatureRecords)
  BY DEF Known, GrantInv, AP!IndInv, AP!TypeOK
<1>6. /\ m # A!Idle /\ handler' = [handler EXCEPT ![h] = A!Idle]
      /\ sessions' = sessions \union {Len(signatures) + 1}
      /\ UNCHANGED <<context, grants>>
  BY <1>3, <1>4 DEF A!Sign
<1>7. /\ DOMAIN signatures' = DOMAIN signatures \union {Len(signatures) + 1}
      /\ s.blind = m.blind
  BY <1>3, <1>4, <1>5 DEF A!Sign
<1>8. SignedOn(m.blind)'
  BY <1>4, <1>7 DEF SignedOn
<1>9. ASSUME NEW n \in delivered' \intersect ToAnchor' PROVE GrantServed(n)'
  <2>1. n \in delivered \intersect ToAnchor
    BY <1>1 DEF ToAnchor, clientVars
  <2>2. GrantServed(n) /\ (n.step = 2 => n.sid \in DOMAIN signatures)
    BY <2>1, AnchorRequest DEF Timely, AnchorServed
  <2>3. Signing(n) /\ n # m => Signing(n)'
    BY <1>4, <1>6 DEF Signing, Known, GrantInv, AP!IndInv, AP!HandlersOK
  <2> QED
    BY <1>2, <1>8, <2>2, <2>3, SignaturesKept DEF GrantServed
<1>10. \A i \in DOMAIN signatures' : i \in sessions' \/ signatures'[i].proofs > 0
  BY <1>2, <1>6, <1>7, SignaturesKept DEF Timely, AnchorServed
<1>11. AnchorServed'
  BY <1>1, <1>6, <1>9, <1>10 DEF Timely, AnchorServed, Blinded
<1> QED
  BY <1>1, <1>2, <1>6, <1>11, AnchorTimely

----------------------------------------------------------------------------
(* The Clients understand every answer.                                    *)

\* What is left to show of a Client's step: it, and what it sends.
ClientTimely(c) ==
    /\ FetchTimely(c)' /\ Cleared(c)'
    /\ \A d \in Clients \ {c} : failures'[d] = failures[d]
    /\ \A m \in sent' : RequestTimely(m)

\* The servers' part stays as it is.
LEMMA ClientKeeps ==
    ASSUME Timely, Servers, UNCHANGED delivered, NEW c \in Clients, Sends(c), ClientTimely(c)
    PROVE  Timely'
<1>1. /\ UNCHANGED <<config, task, released, seenEndorsementNullifiers, seenSpendNullifiers>>
      /\ UNCHANGED <<context, sessions, grants, handler, signatures>>
  BY DEF Servers, moderatorVars, anchorVars
<1>2. sent \subseteq sent' /\ delivered \subseteq sent
  BY DEF Sends, Timely
<1>3. /\ delivered \intersect ToAnchor' = delivered \intersect ToAnchor
      /\ delivered \intersect C!Redemptions' = delivered \intersect C!Redemptions
      /\ delivered \intersect C!Presentations' = delivered \intersect C!Presentations
      /\ C!Redemptions \subseteq C!Redemptions'
  BY <1>2 DEF ToAnchor, C!Redemptions, C!Presentations
<1>4. ModeratorServed'
  BY <1>1, <1>3 DEF Timely, ModeratorServed, RedeemServed, PresentServed, Handled,
                    IssuedFor, ReplacedAfter
<1>5. AnchorServed'
  BY <1>1, <1>3 DEF Timely, AnchorServed, GrantServed, Signing, SignedOn, Blinded
<1>6. \A m \in sent' : RequestTimely(m)'
  BY <1>1 DEF ClientTimely, RequestTimely
<1>7. ASSUME NEW d \in Clients PROVE FetchTimely(d)' /\ Cleared(d)'
  <2>1. CASE d = c
    BY <2>1 DEF ClientTimely
  <2>2. CASE d # c
    <3>1. /\ fetch'[d] = fetch[d] /\ credentials'[d] = credentials[d]
          /\ failures'[d] = failures[d]
      BY <2>2 DEF Sends, OnlyOf, ClientTimely
    <3>2. FetchTimely(d) /\ Cleared(d)
      BY DEF Timely
    <3> QED
      BY <1>1, <1>3, <3>1, <3>2 DEF FetchTimely, Cleared
  <2> QED
    BY <2>1, <2>2
<1> QED
  BY <1>1, <1>2, <1>4, <1>5, <1>6, <1>7 DEF Timely, Agreed

\* A presentation for the challenge: it is sent, or the Client has failed and
\* holds nothing any more.
LEMMA PresentTimely ==
    ASSUME Known, Enough, FirstUp, Timely, Servers, NEW c \in Clients,
           NEW w, DOMAIN w \subseteq {Policy},
           failures[c] = 0 \/ CanSpend(w[Policy], config.charge, 0),
           C!StartPresent(c, w, ChallengeOf(config))
    PROVE  ClientTimely(c)
<1>0. PICK chal : chal = ChallengeOf(config)
  OBVIOUS
<1>1. chal.policy = Policy /\ chal.charge = config.charge /\ chal.topup = 0
  BY <1>0, FirstFacts DEF ChallengeOf, Timely
<1>2. PICK m : m = PresentRequest(w[Policy], Digest(CredentialChallenge(chal, 0)), chal.charge, 0,
                                  "plain")
  OBVIOUS
<1>3. /\ credentials' = [credentials EXCEPT ![c] = C!Take(w, Policy)]
      /\ IF CanSpend(w[Policy], config.charge, 0)
         THEN /\ fetch' = [fetch EXCEPT ![c] =
                               [phase |-> "presenting", chal |-> chal, request |-> m]]
              /\ sent' = sent \union {m}
              /\ UNCHANGED failures
         ELSE C!Abandon(c) /\ UNCHANGED sent
  BY <1>0, <1>1, <1>2, SameTypes DEF C!StartPresent, C!Await
<1>4. /\ UNCHANGED <<config, context>>
      /\ failures = [d \in Clients |-> failures[d]] /\ failures[c] \in {0, 1}
      /\ fetch = [d \in Clients |-> fetch[d]]
      /\ credentials = [d \in Clients |-> credentials[d]]
  BY FirstFacts DEF Servers, moderatorVars, anchorVars, Timely, Cleared, Known, IndInv, MapsOK
<1>5. DOMAIN credentials'[c] = {}
  BY <1>3, <1>4 DEF C!Take
<1>6. CASE CanSpend(w[Policy], config.charge, 0)
  <2>1. /\ fetch'[c] = [phase |-> "presenting", chal |-> chal, request |-> m]
        /\ sent' = sent \union {m} /\ UNCHANGED failures
    BY <1>3, <1>4, <1>6
  <2>2. m.op = "present" /\ "step" \notin DOMAIN m /\ m.spend.charge = config.charge
    BY <1>1, <1>2 DEF PresentRequest
  <2>3. m.digest = Digest(CredentialChallenge(config, 0))
    <3>1. m.digest = Digest(CredentialChallenge(chal, 0))
      BY <1>2 DEF PresentRequest
    <3>2. CredentialChallenge(chal, 0) = CredentialChallenge(config, 0)
      BY <1>1, FirstFacts DEF CredentialChallenge, Timely
    <3> QED
      BY <3>1, <3>2
  <2>4. RequestTimely(m)
    BY <2>2, <2>3 DEF RequestTimely
  <2>5. FetchTimely(c)'
    BY <1>0, <1>4, <2>1 DEF FetchTimely
  <2>6. Cleared(c)'
    BY <1>4, <1>5, <2>1 DEF Cleared
  <2> QED
    BY <2>1, <2>4, <2>5, <2>6 DEF ClientTimely, Timely
<1>7. CASE ~CanSpend(w[Policy], config.charge, 0)
  <2>1. /\ failures[c] = 0 /\ UNCHANGED sent
        /\ fetch' = [fetch EXCEPT ![c] = [phase |-> "idle"]]
        /\ failures' = [failures EXCEPT ![c] = @ + 1]
    BY <1>3, <1>7 DEF C!Abandon, C!NotFetching
  <2>2. fetch'[c].phase = "idle" /\ failures'[c] = 1
    BY <1>4, <2>1
  <2>3. FetchTimely(c)' /\ Cleared(c)'
    BY <1>5, <2>2 DEF FetchTimely, Cleared
  <2>4. \A d \in Clients \ {c} : failures'[d] = failures[d]
    BY <1>4, <2>1
  <2> QED
    BY <2>1, <2>3, <2>4 DEF ClientTimely, Timely
<1> QED
  BY <1>6, <1>7

\* A redemption for the challenge: the directory's key is the one in the
\* challenge, and the proof is bound to that.
LEMMA RedeemTimely ==
    ASSUME Known, Enough, FirstUp, Timely, Servers, NEW c \in Clients,
           fetch[c].phase \in {"policy", "proving"}, NEW es, UNCHANGED credentials,
           C!StartRedeem(c, es, ChallengeOf(config), ModeratorDirectory(config, 1))
    PROVE  ClientTimely(c)
<1>0. PICK chal, dir : chal = ChallengeOf(config) /\ dir = ModeratorDirectory(config, 1)
  OBVIOUS
<1>1. chal.keys = config.keys /\ config.keys = <<Decoy, 1>> /\ dir.key = 1
  BY <1>0 DEF ChallengeOf, ModeratorDirectory, Timely, Agreed
<1>2. PICK e : e = es[C!First(C!UsableAt(es, chal.keys, dir.epoch))]
  OBVIOUS
<1>3. PICK m : m = RedeemRequest(e, Digest(ModeratorChallenge(chal)), TruncatedKeyId(1),
                                 C!PreIssuance, "plain")
  OBVIOUS
<1>4. \A k \in DOMAIN chal.keys : chal.keys[k] # C!MalformedKey
  BY <1>1 DEF C!MalformedKey, Decoy
<1>5. /\ fetch' = [fetch EXCEPT ![c] = [phase |-> "redeeming", chal |-> chal, dir |-> dir,
                                        request |-> m]]
      /\ sent' = sent \union {m} /\ UNCHANGED failures
  BY <1>0, <1>1, <1>2, <1>3, <1>4, SameTypes DEF C!StartRedeem, C!Await
<1>6. /\ UNCHANGED <<config, context>> /\ fetch = [d \in Clients |-> fetch[d]]
      /\ Cleared(c)
  BY DEF Servers, moderatorVars, anchorVars, Known, IndInv, MapsOK, Timely
<1>7. /\ "op" \in DOMAIN m /\ m.op = "redeem" /\ "step" \notin DOMAIN m
      /\ m.keyByte = TruncatedKeyId(1)
  BY <1>3 DEF RedeemRequest
<1>8. m.binding = Digest(ModeratorChallenge(config))
  BY <1>1, <1>3 DEF RedeemRequest, ModeratorChallenge
<1>9. RequestTimely(m)
  BY <1>7, <1>8 DEF RequestTimely
<1>10. m \in C!Redemptions'
  BY <1>5, <1>7 DEF C!Redemptions
<1>11. fetch'[c] = [phase |-> "redeeming", chal |-> chal, dir |-> dir, request |-> m]
  BY <1>5, <1>6
<1>12. FetchTimely(c)'
  BY <1>0, <1>6, <1>10, <1>11 DEF FetchTimely
<1>13. Cleared(c)'
  BY <1>5, <1>6, <1>11 DEF Cleared
<1> QED
  BY <1>5, <1>9, <1>12, <1>13 DEF ClientTimely, Timely

\* What a Client's step works on.
LEMMA ClientFacts ==
    ASSUME Known, Enough, FirstUp, Timely, Servers, NEW c \in Clients
    PROVE  /\ UNCHANGED <<config, context, run, anchorKey>>
           /\ fetch = [d \in Clients |-> fetch[d]]
           /\ credentials = [d \in Clients |-> credentials[d]]
           /\ failures = [d \in Clients |-> failures[d]]
           /\ FetchTimely(c) /\ Cleared(c) /\ Agreed
           /\ \A m \in sent : RequestTimely(m)
BY FirstFacts DEF Servers, moderatorVars, anchorVars, Known, IndInv, MapsOK, Timely

\* Steps that ask no server for anything.
LEMMA RestTimely ==
    ASSUME Known, Enough, FirstUp, Timely, Servers, NEW c \in Clients,
           C!Begin(c) \/ C!GotBody(c) \/ C!Quit(c)
    PROVE  ClientTimely(c)
<1>1. /\ fetch = [d \in Clients |-> fetch[d]]
      /\ credentials = [d \in Clients |-> credentials[d]]
      /\ failures = [d \in Clients |-> failures[d]]
      /\ Cleared(c) /\ \A m \in sent : RequestTimely(m)
  BY ClientFacts
<1>2. UNCHANGED sent
  BY DEF C!Begin, C!GotBody, C!Quit
<1>3. fetch'[c].phase \in {"idle", "challenge"}
  BY <1>1 DEF C!Begin, C!GotBody, C!Quit, C!Await, C!NotFetching
<1>4. FetchTimely(c)'
  BY <1>3 DEF FetchTimely
<1>5. \A d \in Clients \ {c} : failures'[d] = failures[d]
  BY <1>1 DEF C!Begin, C!GotBody, C!Quit
<1>6. Cleared(c)'
  <2>1. CASE C!Begin(c)
    BY <1>1, <1>3, <2>1 DEF C!Begin, Cleared
  <2>2. CASE C!GotBody(c)
    BY <1>1, <2>2 DEF C!GotBody, Cleared
  <2>3. CASE C!Quit(c)
    <3>1. credentials'[c] = <<>> /\ failures' = failures
      BY <1>1, <2>3 DEF C!Quit
    <3> QED
      BY <1>1, <3>1 DEF Cleared
  <2> QED
    BY <2>1, <2>2, <2>3
<1> QED
  BY <1>1, <1>2, <1>4, <1>5, <1>6 DEF ClientTimely

\* A step that sends at most one request, and waits for the next answer.
LEMMA AwaitTimely ==
    ASSUME Known, Enough, FirstUp, Timely, Servers, NEW c \in Clients,
           fetch[c].phase # "body", NEW f, C!Await(c, f), UNCHANGED <<credentials, failures>>,
           FetchTimely(c)', f.phase # "idle",
           \A m \in sent' \ sent : RequestTimely(m)
    PROVE  ClientTimely(c)
BY ClientFacts DEF ClientTimely, Cleared

\* The challenge: a Client that has failed before holds nothing to present.
LEMMA ResourceTimely ==
    ASSUME Known, Enough, FirstUp, Timely, NEW c \in Clients, GetResource(c), Servers
    PROVE  ClientTimely(c)
<1>0. PICK chal : chal = ChallengeOf(config)
  OBVIOUS
<1>1. C!Challenged(c, chal) /\ fetch[c].phase = "challenge"
  BY <1>0 DEF GetResource, C!Challenged
<1>2. chal.policy = Policy
  BY <1>0, FirstFacts DEF ChallengeOf, Timely
<1>3. DOMAIN credentials[c] \subseteq {Policy}
  BY FirstFacts DEF Timely
<1>4. CASE Policy \in DOMAIN credentials[c]
  <2>1. C!StartPresent(c, credentials[c], chal)
    BY <1>1, <1>2, <1>4 DEF C!Challenged
  <2>2. failures[c] = 0
    BY <1>1, <1>4 DEF Timely, Cleared
  <2> QED
    BY <1>0, <1>3, <2>1, <2>2, PresentTimely
<1>5. CASE Policy \notin DOMAIN credentials[c]
  <2>1. /\ C!Await(c, [phase |-> "policy", chal |-> chal])
        /\ UNCHANGED <<credentials, sent, failures>>
    BY <1>1, <1>2, <1>5 DEF C!Challenged
  <2>2. FetchTimely(c)'
    BY <1>0, <2>1, ClientFacts DEF C!Await, FetchTimely
  <2> QED
    BY <1>1, <2>1, <2>2, AwaitTimely
<1> QED
  BY <1>4, <1>5

\* The Moderator's directory is for the policy of the challenge.
LEMMA PolicyTimely ==
    ASSUME Known, Enough, FirstUp, Timely, NEW c \in Clients, GetPolicy(c), Servers
    PROVE  ClientTimely(c)
<1>0. PICK dir : dir = ModeratorDirectory(config, 1)
  OBVIOUS
<1>1. C!GotPolicy(c, dir) /\ fetch[c].phase = "policy"
  BY <1>0 DEF GetPolicy, C!GotPolicy, FirstUp
<1>2. PICK chal : chal = fetch[c].chal
  OBVIOUS
<1>3. chal = ChallengeOf(config)
  BY <1>1, <1>2, ClientFacts DEF FetchTimely
<1>4. chal.policy = dir.policy /\ UNCHANGED credentials
  BY <1>0, <1>1, <1>3 DEF ChallengeOf, ModeratorDirectory, C!GotPolicy
<1>5. CASE C!UsableAt(endorsements[c], chal.keys, dir.epoch) # {}
  <2>1. C!StartRedeem(c, endorsements[c], chal, dir)
    BY <1>1, <1>2, <1>4, <1>5 DEF C!GotPolicy
  <2> QED
    BY <1>0, <1>1, <1>3, <1>4, <2>1, RedeemTimely
<1>6. CASE C!UsableAt(endorsements[c], chal.keys, dir.epoch) = {}
  <2>1. /\ C!Await(c, [phase |-> "anchor", chal |-> chal, dir |-> dir])
        /\ UNCHANGED <<sent, failures>>
    BY <1>1, <1>2, <1>4, <1>6 DEF C!GotPolicy
  <2>2. FetchTimely(c)'
    BY <1>0, <1>3, <2>1, ClientFacts DEF C!Await, FetchTimely
  <2> QED
    BY <1>1, <1>4, <2>1, <2>2, AwaitTimely
<1> QED
  BY <1>5, <1>6

\* The Anchor's directory: the exchange begins in its context.
LEMMA AnchorAskedTimely ==
    ASSUME Known, Enough, FirstUp, Timely, NEW c \in Clients, GetAnchor(c), Servers
    PROVE  ClientTimely(c)
<1>0. PICK adir, m : /\ adir = AnchorDirectory(1, context)
                     /\ m = C!Step1(UserOf[c], adir.epoch, C!Drawn(c, drawn[c] + 1), "plain")
  OBVIOUS
<1>1. C!GotAnchor(c, adir) /\ fetch[c].phase = "anchor"
  BY <1>0 DEF GetAnchor, C!GotAnchor, FirstUp
<1>2. PICK f : f = [phase |-> "signing", chal |-> fetch[c].chal, dir |-> fetch[c].dir,
                    adir |-> adir, request |-> m]
  OBVIOUS
<1>3. /\ C!Await(c, f) /\ sent' = sent \union {m}
      /\ UNCHANGED <<credentials, failures>>
  BY <1>0, <1>1, <1>2 DEF C!GotAnchor
<1>4. RequestTimely(m)
  BY <1>0 DEF RequestTimely, C!Step1, AnchorDirectory
<1>5. FetchTimely(c)'
  BY <1>0, <1>1, <1>2, <1>3, ClientFacts DEF C!Await, FetchTimely
<1> QED
  BY <1>1, <1>2, <1>3, <1>4, <1>5, AwaitTimely

\* A signature opens the second exchange; the proof of the key that the
\* directory named finalizes to an endorsement that the challenge accepts.
LEMMA GrantTimely ==
    ASSUME Known, Enough, FirstUp, Timely, NEW c \in Clients, GetGrant(c), Servers
    PROVE  ClientTimely(c)
<1>1. ASSUME NEW sid, C!GotSignature(c, sid) PROVE ClientTimely(c)
  <2>1. PICK m : m = C!Step2(sid, "plain")
    OBVIOUS
  <2>2. PICK f : f = [phase |-> "proving", chal |-> fetch[c].chal, dir |-> fetch[c].dir,
                      adir |-> fetch[c].adir, request |-> m]
    OBVIOUS
  <2>3. /\ fetch[c].phase = "signing" /\ C!Await(c, f) /\ sent' = sent \union {m}
        /\ UNCHANGED <<credentials, failures>>
    BY <1>1, <2>1, <2>2 DEF C!GotSignature
  <2>4. RequestTimely(m)
    BY <2>1 DEF RequestTimely, C!Step2
  <2>5. FetchTimely(c)'
    BY <2>2, <2>3, ClientFacts DEF C!Await, FetchTimely
  <2> QED
    BY <2>2, <2>3, <2>4, <2>5, AwaitTimely
<1>2. ASSUME fetch[c].phase = "proving", NEW i \in Proved(c), C!GotProof(c, signatures[i].key)
      PROVE  ClientTimely(c)
  <2>1. PICK chal, dir, adir : /\ chal = ChallengeOf(config)
                               /\ dir = ModeratorDirectory(config, 1)
                               /\ adir = AnchorDirectory(1, context)
    OBVIOUS
  <2>2. fetch[c].chal = chal /\ fetch[c].dir = dir /\ fetch[c].adir = adir
    BY <1>2, <2>1, ClientFacts DEF FetchTimely
  <2>3. i \in DOMAIN signatures
    <3>1. PICK sid \in DOMAIN signatures : fetch[c].request = SecondExchange(sid)
      BY <1>2 DEF Known, GrantInv, ClientGranted, FetchGranted
    <3> QED
      BY <3>1 DEF Proved, SecondExchange
  <2>4. signatures[i].key = adir.key
    BY <2>1, <2>3, FirstFacts DEF AnchorDirectory, Timely
  <2>5. PICK e, es : /\ e = [nf |-> C!Drawn(c, drawn[c]), key |-> adir.key, epoch |-> adir.epoch]
                     /\ es = Append(endorsements[c], e)
    OBVIOUS
  <2>6. endorsements[c] \in Seq(Endorsement)
    BY DEF Known, IndInv, ClientOK, StoreOK
  <2>7. e \in Endorsement
    <3>1. drawn[c] \in 1 .. MaxFetches
      BY <1>2, MoleAssumption DEF Known, IndInv, ClientOK, CountsOK, FetchOK
    <3>2. adir.key \in 1 .. MaxAnchorRuns /\ adir.epoch \in Contexts
      BY <1>2, <2>2 DEF Known, IndInv, ClientOK, FetchOK
    <3> QED
      BY <2>5, <3>1, <3>2 DEF Endorsement, C!Drawn, Roots
  <2>8. C!UsableAt(es, chal.keys, dir.epoch) # {}
    <3>1. Len(endorsements[c]) + 1 \in DOMAIN es /\ es[Len(endorsements[c]) + 1] = e
      BY <2>5, <2>6, <2>7
    <3>2. e.epoch = dir.epoch
      BY <2>1, <2>5, ClientFacts DEF AnchorDirectory, ModeratorDirectory, Agreed
    <3>3. chal.keys = <<Decoy, 1>> /\ e.key = 1
      BY <2>1, <2>5, ClientFacts DEF ChallengeOf, AnchorDirectory, Agreed
    <3>4. \E k \in DOMAIN chal.keys : chal.keys[k] = e.key
      <4>1. 2 \in DOMAIN <<Decoy, 1>> /\ <<Decoy, 1>>[2] = 1
        OBVIOUS
      <4> QED
        BY <3>3, <4>1
    <3> QED
      BY <3>1, <3>2, <3>4 DEF C!UsableAt
  <2>9. C!StartRedeem(c, es, chal, dir) /\ UNCHANGED credentials
    BY <1>2, <2>2, <2>4, <2>5, <2>8 DEF C!GotProof
  <2> QED
    BY <1>2, <2>1, <2>9, RedeemTimely
<1> QED
  BY <1>1, <1>2 DEF GetGrant

\* The credential is of the key that the directory named and of the context of
\* the endorsement, and pays for a presentation.
LEMMA CredentialTimely ==
    ASSUME Known, Enough, FirstUp, Timely, NEW c \in Clients, GetCredential(c), Servers
    PROVE  ClientTimely(c)
<1>0. PICK f, chal : f = fetch[c] /\ chal = ChallengeOf(config)
  OBVIOUS
<1>1. f.phase = "redeeming" /\ \E t \in IssuedTo(c) : C!GotCredential(c, t)
  BY <1>0 DEF GetCredential
<1>2. PICK t \in IssuedTo(c) : C!GotCredential(c, t)
  BY <1>1
<1>3. /\ f.chal = chal /\ f.dir = ModeratorDirectory(config, 1)
      /\ f.request \in C!Redemptions
  BY <1>0, <1>1, ClientFacts DEF FetchTimely
<1>4. t \in released /\ t.gen = 0
  BY <1>2 DEF IssuedTo
<1>5. t.key = 1 /\ t.ctx = RequestContext(Policy, context) /\ t.bal = config.initial
  BY <1>4, FirstFacts DEF Timely
<1>6. f.request.e.epoch = context
  <2>1. Granted(f.request.e)
    BY <1>3 DEF Known, GrantInv, RedemptionsGranted
  <2> QED
    BY <2>1, FirstFacts DEF Granted, Timely
<1>7. chal.policy = Policy /\ chal.charge = config.charge
  BY <1>0, FirstFacts DEF ChallengeOf, Timely
<1>8. t.key = f.dir.key /\ t.ctx = C!RequestContext(f.chal.policy, f.request.e.epoch)
  BY <1>3, <1>5, <1>6, <1>7 DEF ModeratorDirectory, RequestContext, C!RequestContext
<1>9. PICK w : w = C!Put(credentials[c], Policy, t)
  OBVIOUS
<1>10. C!StartPresent(c, w, chal)
  BY <1>0, <1>2, <1>3, <1>7, <1>8, <1>9 DEF C!GotCredential
<1>11. DOMAIN w \subseteq {Policy} /\ w[Policy] = t
  BY <1>9, FirstFacts DEF C!Put, Timely
<1>12. CanSpend(t, config.charge, 0)
  BY <1>5, FirstFacts, KeyAssumption DEF CanSpend, Timely
<1> QED
  BY <1>0, <1>10, <1>11, <1>12, PresentTimely

\* An update: the body is waited for.
LEMMA UpdateTimely ==
    ASSUME Known, Enough, FirstUp, Timely, NEW c \in Clients, GetUpdate(c), Servers
    PROVE  ClientTimely(c)
<1>1. PICK t : C!GotUpdate(c, t)
  BY DEF GetUpdate
<1>2. C!Await(c, [phase |-> "body"]) /\ UNCHANGED <<sent, failures>>
  BY <1>1 DEF C!GotUpdate
<1>3. fetch'[c].phase = "body"
  BY <1>2, ClientFacts DEF C!Await
<1> QED
  BY <1>2, <1>3, ClientFacts DEF ClientTimely, FetchTimely, Cleared

\* Nobody is refused: what has been delivered and is not being handled has been
\* answered.
LEMMA NeverRefused ==
    ASSUME Known, Enough, FirstUp, Timely, NEW c \in Clients
    PROVE  ~GetRefusal(c)
<1> SUFFICES ASSUME GetRefusal(c) PROVE FALSE
  OBVIOUS
<1>1. PICK m : m = fetch[c].request
  OBVIOUS
<1>2. /\ fetch[c].phase \in {"signing", "proving", "redeeming", "presenting"}
      /\ m \in delivered /\ ~Handled(m) /\ ~Signing(m) /\ Answer(c) = {}
  BY <1>1 DEF GetRefusal, Handled, Signing
<1>3. m \in sent /\ FetchTimely(c) /\ FetchGranted(c)
  BY <1>2 DEF Timely, Known, GrantInv, ClientGranted
<1>4. CASE fetch[c].phase = "signing"
  <2>1. m \in ToAnchor /\ m.step = 1
    BY <1>1, <1>3, <1>4 DEF FetchGranted, FirstExchange, ToAnchor
  <2>2. SignedOn(m.blind)
    BY <1>2, <2>1 DEF Timely, AnchorServed, GrantServed
  <2> QED
    BY <1>1, <1>2, <1>4, <2>2 DEF SignedOn, Answer, Signed
<1>5. CASE fetch[c].phase = "proving"
  <2>1. m \in ToAnchor /\ m.step = 2
    <3>1. PICK sid \in DOMAIN signatures : m = SecondExchange(sid)
      BY <1>1, <1>3, <1>5 DEF FetchGranted
    <3> QED
      BY <1>3, <3>1 DEF SecondExchange, ToAnchor
  <2>2. signatures[m.sid].proofs > 0
    BY <1>2, <2>1 DEF Timely, AnchorServed, GrantServed
  <2> QED
    BY <1>1, <1>2, <1>5, <2>2 DEF Answer, Proved
<1>6. CASE fetch[c].phase = "redeeming"
  <2>1. m \in C!Redemptions
    BY <1>1, <1>3, <1>6 DEF FetchTimely
  <2>2. IssuedFor(m.e.nf)
    BY <1>2, <2>1 DEF Timely, ModeratorServed, RedeemServed
  <2> QED
    BY <1>1, <1>2, <1>6, <2>2 DEF IssuedFor, Answer, IssuedTo
<1>7. CASE fetch[c].phase = "presenting"
  <2>1. m \in C!Presentations /\ m.spend.token \in released
    BY <1>1, <1>7 DEF Known, SpendInv, PresentingSent, IndInv, ClientOK, FetchOK
  <2>2. ReplacedAfter(m.spend.token.root, m.spend.token.gen)
    BY <1>2, <2>1 DEF Timely, ModeratorServed, PresentServed
  <2>3. PICK t \in released : t.root = m.spend.token.root /\ t.gen = m.spend.token.gen + 1
    BY <2>2 DEF ReplacedAfter
  <2>4. t.key = m.spend.token.key
    BY <2>1, <2>3, FirstFacts DEF Timely
  <2> QED
    BY <1>1, <1>2, <1>7, <2>3, <2>4 DEF Answer, ReplacedFor
<1> QED
  BY <1>2, <1>4, <1>5, <1>6, <1>7

\* A step of a Client keeps all this.
LEMMA ClientsTimely ==
    ASSUME Known, Known', Enough, FirstUp, Timely, NEW c \in Clients,
           Begin(c) \/ Get(c) \/ GetNothing(c) \/ Quit(c)
    PROVE  Timely'
<1>1. Sends(c) /\ Servers
  BY ClientsGrant DEF Known
<1>2. UNCHANGED delivered
  BY DEF Begin, Get, GetNothing, Quit, GetResource, GetPolicy, GetAnchor, GetGrant,
         GetCredential, GetUpdate, GetBody, GetRefusal
<1>3. ClientTimely(c)
  <2>1. CASE Begin(c) \/ GetBody(c) \/ Quit(c)
    BY <1>1, <2>1, RestTimely DEF Begin, GetBody, Quit
  <2>2. CASE GetResource(c) \/ GetPolicy(c) \/ GetAnchor(c)
    BY <1>1, <2>2, ResourceTimely, PolicyTimely, AnchorAskedTimely
  <2>3. CASE GetGrant(c) \/ GetCredential(c) \/ GetUpdate(c)
    BY <1>1, <2>3, GrantTimely, CredentialTimely, UpdateTimely
  <2>4. ~GetRefusal(c) /\ ~GetNothing(c)
    BY NeverRefused DEF GetNothing, Enough
  <2> QED
    BY <2>1, <2>2, <2>3, <2>4 DEF Get
<1> QED
  BY <1>1, <1>2, <1>3, ClientKeeps

----------------------------------------------------------------------------

\* Every step keeps it, and a restart ends it for good.
LEMMA TimelyStep ==
    ASSUME Enough
    PROVE  Known /\ Known' /\ TimelyInv /\ [Next]_vars => TimelyInv'
<1> SUFFICES ASSUME Known, Known', TimelyInv, [Next]_vars, FirstUp' PROVE Timely'
  BY DEF TimelyInv
<1>1. [A!Next]_A!vars
  BY GrantStep DEF Known
<1>2. AnchorStepped
  BY <1>1, AnchorSteps DEF Known, GrantInv
<1>3. ASSUME UNCHANGED <<run, anchorKey>> PROVE FirstUp /\ Timely
  BY <1>3 DEF FirstUp, TimelyInv
<1>4. CASE UNCHANGED vars
  <2>1. FirstUp /\ Timely
    BY <1>3, <1>4 DEF vars, moderatorVars, anchorVars
  <2>2. /\ UNCHANGED <<clientVars, config, context, delivered, sent>>
        /\ UNCHANGED <<task, released, seenEndorsementNullifiers, seenSpendNullifiers>>
        /\ UNCHANGED <<sessions, grants, handler, signatures>>
    BY <1>4 DEF vars, clientVars, moderatorVars, anchorVars
  <2>3. ModeratorServed'
    BY <2>1, <2>2 DEF Timely, ModeratorServed, RedeemServed, PresentServed, Handled,
                      IssuedFor, ReplacedAfter, C!Redemptions, C!Presentations
  <2>4. AnchorServed'
    BY <2>1, <2>2 DEF Timely, AnchorServed, GrantServed, Signing, SignedOn, Blinded, ToAnchor
  <2> QED
    BY <2>1, <2>2, <2>3, <2>4, ServerTimely DEF Timely
<1>5. ASSUME NEW c \in Clients, Begin(c) \/ Get(c) \/ GetNothing(c) \/ Quit(c) PROVE Timely'
  <2>1. UNCHANGED <<run, anchorKey>>
    BY <1>5, ClientsGrant DEF Known, Servers, moderatorVars, anchorVars
  <2> QED
    BY <1>3, <1>5, <2>1, ClientsTimely
<1>6. ASSUME NEW m \in ToModerator, ModeratorTakes(m) PROVE Timely'
  <2>1. UNCHANGED <<run, anchorKey>>
    BY <1>6 DEF ModeratorTakes, M!Refuse, M!Verify, M!vars, anchorVars
  <2> QED
    BY <1>3, <1>6, <2>1, TakesTimely
<1>7. ASSUME NEW w \in Workers, ModeratorCommits(w) PROVE Timely'
  <2>1. UNCHANGED <<run, anchorKey>>
    BY <1>7 DEF ModeratorCommits, M!Issue, M!Serve, M!Lose, anchorVars
  <2> QED
    BY <1>3, <1>7, <2>1, CommitsTimely
<1>8. ASSUME NEW m \in ToAnchor, AnchorTakes(m) PROVE Timely'
  <2>1. UNCHANGED <<run, anchorKey>>
    BY <1>8 DEF AnchorTakes, A!Refuse, A!Prove, A!Count, A!vars, moderatorVars
  <2>2. m.step \in {1, 2}
    BY <1>3, <2>1, AnchorRequest
  <2> QED
    BY <1>2, <1>3, <1>8, <2>1, <2>2, CountTimely, ProveTimely
<1>9. ASSUME NEW h \in Handlers, AnchorCommits(h) PROVE Timely'
  <2>1. UNCHANGED <<run, anchorKey>>
    BY <1>9 DEF AnchorCommits, A!Sign, A!GiveUp, moderatorVars
  <2> QED
    BY <1>2, <1>3, <1>9, <2>1, SignTimely
<1>10. ~ModeratorRestarts /\ ~AnchorRestarts
  <2>1. run \in Runs /\ anchorKey \in 1 .. MaxAnchorRuns
    BY DEF Known, IndInv, ServersOK
  <2>2. run' # run + 1 /\ anchorKey' # anchorKey + 1
    BY <2>1, KeyAssumption, MoleAssumption DEF FirstUp, Runs
  <2> QED
    BY <2>2 DEF ModeratorRestarts, M!Restart, AnchorRestarts, A!Restart
<1> QED
  BY <1>4, <1>5, <1>6, <1>7, <1>8, <1>9, <1>10 DEF Next, Serving

\* It holds from the start: main.rs takes keys and epoch from the directories.
LEMMA TimelyInit == Init => TimelyInv
<1> SUFFICES ASSUME Init PROVE Timely
  BY DEF TimelyInv
<1>1. Agreed /\ sent = {} /\ delivered = {}
  BY DEF Init, Agreed, C!Init, A!Init
<1>2. ModeratorServed
  BY <1>1 DEF Init, M!Init, ModeratorServed
<1>3. AnchorServed
  <2>1. \A u : Blinded(u) = {}
    BY <1>1 DEF Blinded
  <2>2. \A u : Cardinality(Blinded(u)) = 0
    BY <2>1, FS_EmptySet
  <2>3. \A c \in Clients : grants[UserOf[c]] = 0
    BY DEF Init, A!Init
  <2>4. DOMAIN signatures = {}
    BY DEF Init, A!Init
  <2> QED
    BY <1>1, <2>2, <2>3, <2>4 DEF AnchorServed
<1>4. ASSUME NEW c \in Clients PROVE FetchTimely(c) /\ Cleared(c)
  BY DEF Init, C!Init, C!NotFetching, FetchTimely, Cleared
<1> QED
  BY <1>1, <1>2, <1>3, <1>4 DEF Timely

\* In a network that loses nothing, with a grant for every fetch, and as long
\* as neither server has restarted, a fetch that fails has cleared the way for
\* the next one: a credential that cannot pay is gone when that is noticed, and
\* the fetch after it gets a new one, however many Clients share the servers.
THEOREM RecoversFirst == ASSUME Enough PROVE Spec => []RecoversAtOnce
<1>1. Init => TimelyInv
  BY TimelyInit
<1>2. Known /\ Known' /\ TimelyInv /\ [Next]_vars => TimelyInv'
  BY TimelyStep
<1>3. TimelyInv => RecoversAtOnce
  BY DEF TimelyInv, Timely, Cleared, FirstUp, RecoversAtOnce
<1> QED
  BY <1>1, <1>2, <1>3, KnownAlways, PTL DEF Spec

=============================================================================
