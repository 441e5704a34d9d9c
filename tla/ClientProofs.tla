---------------------------- MODULE ClientProofs ----------------------------
(***************************************************************************)
(* Theorems about Client, for every number of Clients and fetches and      *)
(* whatever servers answer.                                                *)
(*                                                                         *)
(* What a Client has shown is in sent and stays there, so the invariant    *)
(* relates its stores and the fetch under way to sent, along the life of   *)
(* a nullifier: drawn; in the store, unredeemed; in one redemption, the    *)
(* credential not yet finalized; one credential, held or being presented,  *)
(* of a generation that has not been presented before.  Clients do not     *)
(* meet: a nullifier tells whose it is (OthersKept).                       *)
(***************************************************************************)
EXTENDS Client, NaturalLemmas, TLAPS

Policies == {chal.policy : chal \in Challenges}

Endorsement ==
    [nf : Clients \X Nat, key : {adir.key : adir \in AnchorDirectories},
     epoch : {adir.epoch : adir \in AnchorDirectories}]

Token ==
    [key : {i.key : i \in Issuances},
     ctx : {RequestContext(i.policy, i.epoch) : i \in Issuances},
     root : Clients \X Nat, pre : {PreIssuance}, gen : Nat, bal : Int]

DrawnBy(c) == {Drawn(c, n) : n \in 1 .. drawn[c]}

Unredeemed(c, nf) == nf \in DrawnBy(c) /\ \A m \in Redemptions : m.e.nf # nf
Redeemed(c, nf) == nf \in DrawnBy(c) /\ \E m \in Redemptions : m.e.nf = nf

\* No credential of root nf has been presented in generation gen or later.
Unshown(nf, gen) ==
    \A m \in Presentations : m.spend.token.root = nf => m.spend.token.gen < gen

\* The store es of c before anything of it is shown.
StoreOK(c, es) ==
    /\ es \in Seq(Endorsement)
    /\ \A i \in 1 .. Len(es) : Unredeemed(c, es[i].nf)
    /\ \A i, j \in 1 .. Len(es) : es[i].nf = es[j].nf => i = j

\* A credential of c for policy p.
TokenOK(c, p, t) ==
    /\ t \in Token
    /\ t.ctx[1] = p
    /\ \E dir \in Directories : dir.policy = p /\ dir.key = t.key
    /\ Redeemed(c, t.root)

WalletOK(c, w) ==
    /\ \A p \in DOMAIN w : /\ p \in Policies
                           /\ TokenOK(c, p, w[p])
                           /\ Unshown(w[p].root, w[p].gen)
    /\ \A p, q \in DOMAIN w : w[p].root = w[q].root => p = q

NoneHeld(c, nf) == \A p \in DOMAIN credentials[c] : credentials[c][p].root # nf

DirOK(f) == f.chal \in Challenges /\ f.dir \in Directories /\ f.dir.policy = f.chal.policy

SigningOK(c, f) ==
    /\ DirOK(f)
    /\ f.adir \in AnchorDirectories
    /\ Unredeemed(c, Drawn(c, drawn[c]))
    /\ \A i \in 1 .. Len(endorsements[c]) : endorsements[c][i].nf # Drawn(c, drawn[c])

RedeemingOK(c, f) ==
    /\ DirOK(f)
    /\ f.request.e \in Endorsement
    /\ Redeemed(c, f.request.e.nf)
    /\ Unshown(f.request.e.nf, 0)
    /\ NoneHeld(c, f.request.e.nf)

PresentingOK(c, f) ==
    LET s == f.request.spend IN
    /\ f.chal \in Challenges
    /\ TokenOK(c, f.chal.policy, s.token)
    /\ s.charge = f.chal.charge /\ s.topup = f.chal.topup
    /\ Unshown(s.token.root, s.token.gen + 1)
    /\ NoneHeld(c, s.token.root)

FetchOK(c) ==
    LET f == fetch[c] IN
    /\ f.phase \in Phases
    /\ f.phase # "idle" => failures[c] < fetches[c]
    /\ f.phase \in {"challenge", "policy", "anchor"} => drawn[c] < fetches[c]
    /\ f.phase = "policy" => f.chal \in Challenges
    /\ f.phase = "anchor" => DirOK(f)
    /\ f.phase \in {"signing", "proving"} => SigningOK(c, f)
    /\ f.phase = "redeeming" => RedeemingOK(c, f)
    /\ f.phase = "presenting" => PresentingOK(c, f)

CountsOK(c) ==
    /\ drawn[c] \in Nat /\ fetches[c] \in Nat /\ failures[c] \in Nat
    /\ drawn[c] <= fetches[c] /\ fetches[c] <= MaxFetches /\ failures[c] <= fetches[c]

LocalOK(c) ==
    CountsOK(c) /\ StoreOK(c, endorsements[c]) /\ WalletOK(c, credentials[c]) /\ FetchOK(c)

SentOK ==
    /\ \A m \in Redemptions : \E c \in Clients : m.e.nf \in DrawnBy(c)
    /\ \A m, n \in Redemptions : m.e.nf = n.e.nf => m = n
    /\ \A m \in Presentations : /\ m.spend.token \in Token
                                 /\ \E c \in Clients : Redeemed(c, m.spend.token.root)
    /\ \A m, n \in Presentations :
           Nullifier(m.spend.token) = Nullifier(n.spend.token) => m = n

MapsOK ==
    /\ endorsements = [c \in Clients |-> endorsements[c]]
    /\ credentials = [c \in Clients |-> credentials[c]]
    /\ fetch = [c \in Clients |-> fetch[c]]
    /\ drawn = [c \in Clients |-> drawn[c]]
    /\ fetches = [c \in Clients |-> fetches[c]]
    /\ failures = [c \in Clients |-> failures[c]]

IndInv == MapsOK /\ SentOK /\ \A c \in Clients : LocalOK(c)

----------------------------------------------------------------------------
(* Facts about the operators.                                              *)

\* The first usable endorsement is one.
LEMMA FirstIn ==
    ASSUME NEW S, S \subseteq Nat, S # {}
    PROVE  First(S) \in S
BY LeastExists DEF First

\* swap_remove: what is left was there, each element once.
LEMMA SwapRemoved ==
    ASSUME NEW S, NEW es \in Seq(S), NEW i \in DOMAIN es
    PROVE  /\ SwapRemove(es, i) \in Seq(S)
           /\ Len(SwapRemove(es, i)) = Len(es) - 1
           /\ \A j \in 1 .. Len(es) - 1 :
                  SwapRemove(es, i)[j] = es[IF j = i THEN Len(es) ELSE j]
<1>1. Len(es) \in Nat /\ DOMAIN es = 1 .. Len(es) /\ \A j \in 1 .. Len(es) : es[j] \in S
  OBVIOUS
<1> DEFINE fs == [es EXCEPT ![i] = es[Len(es)]]
<1>2. fs \in Seq(S) /\ Len(fs) = Len(es)
  BY <1>1
<1>3. \A j \in 1 .. Len(es) : fs[j] = es[IF j = i THEN Len(es) ELSE j]
  BY <1>1
<1>4. SwapRemove(es, i) = SubSeq(fs, 1, Len(fs) - 1)
  BY DEF SwapRemove, Front, Last
<1> HIDE DEF fs
<1>5. /\ SubSeq(fs, 1, Len(fs) - 1) \in Seq(S)
      /\ Len(SubSeq(fs, 1, Len(fs) - 1)) = Len(fs) - 1
      /\ \A j \in 1 .. Len(fs) - 1 : SubSeq(fs, 1, Len(fs) - 1)[j] = fs[j]
  BY <1>1, <1>2
<1> QED
  BY <1>1, <1>2, <1>3, <1>4, <1>5

\* A message that joins sent is a redemption, a presentation or neither.
LEMMA RedeemSent ==
    ASSUME NEW e, NEW b, NEW k, NEW pre, NEW form,
           sent' = sent \union {RedeemRequest(e, b, k, pre, form)}
    PROVE  /\ Redemptions' = Redemptions \union {RedeemRequest(e, b, k, pre, form)}
           /\ Presentations' = Presentations
BY DEF Redemptions, Presentations, RedeemRequest

LEMMA PresentSent ==
    ASSUME NEW t, NEW d, NEW charge, NEW topup, NEW form,
           sent' = sent \union {PresentRequest(t, d, charge, topup, form)}
    PROVE  /\ Presentations' = Presentations \union {PresentRequest(t, d, charge, topup, form)}
           /\ Redemptions' = Redemptions
BY DEF Redemptions, Presentations, PresentRequest

LEMMA GrantSent ==
    ASSUME NEW m, \/ \E u, ctx, blind, form : m = Step1(u, ctx, blind, form)
                  \/ \E sid, form : m = Step2(sid, form),
           sent' = sent \union {m}
    PROVE  Redemptions' = Redemptions /\ Presentations' = Presentations
BY DEF Redemptions, Presentations, Step1, Step2

----------------------------------------------------------------------------
(* Frames: what a step of one Client leaves alone.                         *)

LEMMA DrawnApart ==
    ASSUME NEW c \in Clients, NEW d \in Clients, c # d
    PROVE  DrawnBy(c) \cap DrawnBy(d) = {}
BY DEF DrawnBy, Drawn

\* What has joined sent is about nullifiers of c.
ShownBy(c) ==
    /\ Redemptions \subseteq Redemptions'
    /\ \A m \in Redemptions' \ Redemptions : m.e.nf \in DrawnBy(c)
    /\ \A m \in Presentations' \ Presentations : m.spend.token.root \in DrawnBy(c)

\* The others' part of the invariant survives a step of c.
LEMMA OthersKept ==
    ASSUME NEW c \in Clients, NEW d \in Clients, c # d, LocalOK(d), ShownBy(c),
           endorsements'[d] = endorsements[d], credentials'[d] = credentials[d],
           fetch'[d] = fetch[d], drawn'[d] = drawn[d], fetches'[d] = fetches[d],
           failures'[d] = failures[d]
    PROVE  LocalOK(d)'
<1>1. DrawnBy(d)' = DrawnBy(d)
  BY DEF DrawnBy
<1>2. ASSUME NEW nf, Unredeemed(d, nf) PROVE Unredeemed(d, nf)'
  BY <1>1, <1>2, DrawnApart DEF Unredeemed, ShownBy
<1>3. ASSUME NEW nf, Redeemed(d, nf) PROVE Redeemed(d, nf)'
  BY <1>1, <1>3 DEF Redeemed, ShownBy
<1>4. ASSUME NEW nf \in DrawnBy(d), NEW g, Unshown(nf, g) PROVE Unshown(nf, g)'
  BY <1>4, DrawnApart DEF Unshown, ShownBy
<1>5. ASSUME NEW p, NEW t, TokenOK(d, p, t) PROVE TokenOK(d, p, t)' /\ t.root \in DrawnBy(d)
  BY <1>3, <1>5 DEF TokenOK, Redeemed
<1>6. CountsOK(d)'
  BY DEF LocalOK, CountsOK
<1>7. StoreOK(d, endorsements[d])'
  BY <1>2 DEF LocalOK, StoreOK
<1>8. WalletOK(d, credentials[d])'
  BY <1>4, <1>5 DEF LocalOK, WalletOK
<1>9. FetchOK(d)'
  <2> DEFINE f == fetch[d]
  <2>1. FetchOK(d) /\ f' = f
    BY DEF LocalOK
  <2>2. ASSUME f.phase \in {"signing", "proving"} PROVE SigningOK(d, f)'
    <3>1. SigningOK(d, f)
      BY <2>1, <2>2 DEF FetchOK
    <3> QED
      BY <1>2, <2>1, <3>1 DEF SigningOK, DirOK
  <2>3. ASSUME f.phase = "redeeming" PROVE RedeemingOK(d, f)'
    <3>1. RedeemingOK(d, f)
      BY <2>1, <2>3 DEF FetchOK
    <3>2. f.request.e.nf \in DrawnBy(d)
      BY <3>1 DEF RedeemingOK, Redeemed
    <3> QED
      BY <1>3, <1>4, <2>1, <3>1, <3>2 DEF RedeemingOK, DirOK, NoneHeld
  <2>4. ASSUME f.phase = "presenting" PROVE PresentingOK(d, f)'
    <3>1. PresentingOK(d, f)
      BY <2>1, <2>4 DEF FetchOK
    <3>2. f.request.spend.token.root \in DrawnBy(d)
      BY <1>5, <3>1 DEF PresentingOK
    <3> QED
      BY <1>4, <1>5, <2>1, <3>1, <3>2 DEF PresentingOK, NoneHeld
  <2> QED
    BY <2>1, <2>2, <2>3, <2>4 DEF FetchOK, DirOK
<1> QED
  BY <1>6, <1>7, <1>8, <1>9 DEF LocalOK

\* Nothing but the entries of c changes.
OnlyOf(c) ==
    /\ MapsOK'
    /\ \A d \in Clients \ {c} :
           /\ endorsements'[d] = endorsements[d] /\ credentials'[d] = credentials[d]
           /\ fetch'[d] = fetch[d] /\ drawn'[d] = drawn[d]
           /\ fetches'[d] = fetches[d] /\ failures'[d] = failures[d]

LEMMA StepOfOne ==
    ASSUME IndInv, NEW c \in Clients, ShownBy(c), OnlyOf(c), SentOK', LocalOK(c)'
    PROVE  IndInv'
<1>1. ASSUME NEW d \in Clients, d # c PROVE LocalOK(d)'
  BY <1>1, OthersKept DEF IndInv, OnlyOf
<1> QED
  BY <1>1 DEF IndInv, OnlyOf

\* A step that draws and shows nothing.
Silent(c) == Redemptions' = Redemptions /\ Presentations' = Presentations /\ drawn' = drawn

LEMMA SilentKeeps ==
    ASSUME IndInv, NEW c \in Clients, Silent(c)
    PROVE  /\ ShownBy(c) /\ SentOK'
           /\ \A nf : Unredeemed(c, nf) => Unredeemed(c, nf)'
           /\ \A nf : Redeemed(c, nf) => Redeemed(c, nf)'
           /\ \A nf, g : Unshown(nf, g) => Unshown(nf, g)'
           /\ \A p, t : TokenOK(c, p, t) => TokenOK(c, p, t)'
           /\ \A es : StoreOK(c, es) => StoreOK(c, es)'
           /\ \A w : WalletOK(c, w) => WalletOK(c, w)'
<1>1. \A d : DrawnBy(d)' = DrawnBy(d)
  BY DEF Silent, DrawnBy
<1>2. /\ \A nf : Unredeemed(c, nf) => Unredeemed(c, nf)'
      /\ \A d, nf : Redeemed(d, nf) => Redeemed(d, nf)'
      /\ \A nf, g : Unshown(nf, g) => Unshown(nf, g)'
  BY <1>1 DEF Silent, Unredeemed, Redeemed, Unshown
<1>3. ShownBy(c) /\ SentOK'
  BY <1>1, <1>2 DEF IndInv, Silent, ShownBy, SentOK
<1>4. \A p, t : TokenOK(c, p, t) => TokenOK(c, p, t)'
  BY <1>2 DEF TokenOK
<1>5. \A es : StoreOK(c, es) => StoreOK(c, es)'
  BY <1>2 DEF StoreOK
<1>6. \A w : WalletOK(c, w) => WalletOK(c, w)'
  BY <1>2, <1>4 DEF WalletOK
<1> QED
  BY <1>2, <1>3, <1>4, <1>5, <1>6

----------------------------------------------------------------------------
(* The steps that show something.                                          *)

\* The credential is in no store when its nullifier is shown, and no other
\* credential of its root is anywhere.
LEMMA PresentKeeps ==
    ASSUME IndInv, NEW c \in Clients, NEW w, WalletOK(c, w),
           NEW chal \in Challenges, chal.policy \in DOMAIN w,
           failures[c] < fetches[c],
           StartPresent(c, w, chal), UNCHANGED <<endorsements, drawn, fetches>>
    PROVE  IndInv'
<1> DEFINE t == w[chal.policy]
           m == PresentRequest(t, Digest(CredentialChallenge(chal, chal.topup)),
                               chal.charge, chal.topup, "plain")
           pays == CanSpend(t, chal.charge, chal.topup)
<1>1. TokenOK(c, chal.policy, t) /\ Unshown(t.root, t.gen) /\ t \in Token
  BY DEF WalletOK, TokenOK
<1>2. /\ m.spend.token = t /\ m.spend.charge = chal.charge /\ m.spend.topup = chal.topup
  BY DEF PresentRequest
<1>3. /\ credentials' = [credentials EXCEPT ![c] = Take(w, chal.policy)]
      /\ IF pays
         THEN /\ Await(c, [phase |-> "presenting", chal |-> chal, request |-> m])
              /\ sent' = sent \union {m}
              /\ UNCHANGED failures
         ELSE /\ Abandon(c)
              /\ UNCHANGED sent
  BY DEF StartPresent
<1> HIDE DEF m, pays
<1>4. /\ Redemptions' = Redemptions
      /\ \/ pays /\ Presentations' = Presentations \union {m}
         \/ ~pays /\ Presentations' = Presentations
  <2>1. CASE pays
    BY <1>3, <2>1, PresentSent DEF m
  <2>2. CASE ~pays
    BY <1>3, <2>2 DEF Redemptions, Presentations
  <2> QED
    BY <2>1, <2>2
<1>5. \A d : DrawnBy(d)' = DrawnBy(d)
  BY DEF DrawnBy
<1>6. /\ \A nf : Unredeemed(c, nf) => Unredeemed(c, nf)'
      /\ \A d, nf : Redeemed(d, nf) => Redeemed(d, nf)'
  BY <1>4, <1>5 DEF Unredeemed, Redeemed
<1>7. Redeemed(c, t.root) /\ t.root \in DrawnBy(c) /\ t.gen \in Nat
  BY <1>1 DEF TokenOK, Token, Redeemed
<1>8. ShownBy(c)
  BY <1>2, <1>4, <1>7 DEF ShownBy
<1>9. OnlyOf(c)
  BY <1>3 DEF IndInv, MapsOK, OnlyOf, Await, Abandon
<1>10. SentOK'
  <2>1. \A n \in Presentations : Nullifier(n.spend.token) # Nullifier(t)
    BY <1>1, <1>7 DEF Nullifier, Unshown
  <2>2. \A n \in Presentations' : /\ n.spend.token \in Token
                                  /\ \E d \in Clients : Redeemed(d, n.spend.token.root)'
    BY <1>1, <1>2, <1>4, <1>6, <1>7 DEF IndInv, SentOK
  <2>3. \A n, o \in Presentations' :
            Nullifier(n.spend.token) = Nullifier(o.spend.token) => n = o
    BY <1>2, <1>4, <2>1 DEF IndInv, SentOK
  <2> QED
    BY <1>4, <1>5, <2>2, <2>3 DEF IndInv, SentOK
<1>11. CountsOK(c)'
  BY <1>3 DEF IndInv, MapsOK, LocalOK, CountsOK, Await, Abandon
<1>12. StoreOK(c, endorsements[c])'
  BY <1>6 DEF IndInv, LocalOK, StoreOK
<1>13. /\ credentials'[c] = Take(w, chal.policy)
       /\ DOMAIN Take(w, chal.policy) = DOMAIN w \ {chal.policy}
       /\ \A p \in DOMAIN w \ {chal.policy} :
              Take(w, chal.policy)[p] = w[p] /\ w[p].root # t.root
  BY <1>3 DEF IndInv, MapsOK, Take, WalletOK
<1>14. WalletOK(c, credentials[c])'
  <2>1. ASSUME NEW p \in DOMAIN w \ {chal.policy}
        PROVE  /\ p \in Policies
               /\ TokenOK(c, p, w[p])'
               /\ Unshown(w[p].root, w[p].gen)'
    BY <1>2, <1>4, <1>6, <1>13 DEF WalletOK, TokenOK, Unshown
  <2> QED
    BY <1>13, <2>1 DEF WalletOK
<1>15. FetchOK(c)'
  <2>1. CASE pays
    <3>1. fetch'[c] = [phase |-> "presenting", chal |-> chal, request |-> m]
      BY <1>3, <2>1 DEF IndInv, MapsOK, Await
    <3>2. TokenOK(c, chal.policy, t)'
      BY <1>1, <1>6 DEF TokenOK
    <3>3. Unshown(t.root, t.gen + 1)'
      <4>1. \A n \in Presentations : n.spend.token.gen \in Nat
        BY DEF IndInv, SentOK, Token
      <4> QED
        BY <1>1, <1>2, <1>4, <1>7, <4>1 DEF Unshown
    <3>4. NoneHeld(c, t.root)'
      BY <1>13 DEF NoneHeld
    <3>5. PresentingOK(c, fetch[c])'
      BY <1>2, <3>1, <3>2, <3>3, <3>4 DEF PresentingOK
    <3> QED
      BY <1>3, <2>1, <3>1, <3>5 DEF FetchOK, Phases
  <2>2. CASE ~pays
    BY <1>3, <2>2 DEF IndInv, MapsOK, Abandon, NotFetching, FetchOK, Phases
  <2> QED
    BY <2>1, <2>2
<1> QED
  BY <1>8, <1>9, <1>10, <1>11, <1>12, <1>14, <1>15, StepOfOne DEF LocalOK

\* The endorsement is in no store when its nullifier is shown, whether or not
\* the request leaves.
LEMMA RedeemKeeps ==
    ASSUME IndInv, NEW c \in Clients, NEW es, StoreOK(c, es),
           NEW chal \in Challenges, NEW dir \in Directories, dir.policy = chal.policy,
           UsableAt(es, chal.keys, dir.epoch) # {},
           failures[c] < fetches[c],
           StartRedeem(c, es, chal, dir), UNCHANGED <<credentials, drawn, fetches>>
    PROVE  IndInv'
<1> DEFINE i == First(UsableAt(es, chal.keys, dir.epoch))
           m == RedeemRequest(es[i], Digest(ModeratorChallenge(chal)),
                              TruncatedKeyId(dir.key), PreIssuance, "plain")
           rest == SwapRemove(es, i)
           sends == ~\E k \in DOMAIN chal.keys : chal.keys[k] = MalformedKey
<1>1. es \in Seq(Endorsement) /\ Len(es) \in Nat /\ DOMAIN es = 1 .. Len(es)
  BY DEF StoreOK
<1>2. i \in DOMAIN es /\ es[i] \in Endorsement
  <2>1. UsableAt(es, chal.keys, dir.epoch) \subseteq DOMAIN es
    BY DEF UsableAt
  <2> QED
    BY <1>1, <2>1, FirstIn
<1>3. m.e = es[i]
  BY DEF RedeemRequest
<1>4. /\ endorsements' = [endorsements EXCEPT ![c] = rest]
      /\ IF sends
         THEN /\ Await(c, [phase |-> "redeeming", chal |-> chal, dir |-> dir, request |-> m])
              /\ sent' = sent \union {m}
              /\ UNCHANGED failures
         ELSE Abandon(c) /\ UNCHANGED sent
  BY DEF StartRedeem
<1>5. /\ rest \in Seq(Endorsement)
      /\ Len(rest) = Len(es) - 1
      /\ \A j \in 1 .. Len(es) - 1 : rest[j] = es[IF j = i THEN Len(es) ELSE j]
  BY <1>1, <1>2, SwapRemoved
<1>6. \A j \in 1 .. Len(rest) : rest[j].nf # es[i].nf
  BY <1>1, <1>2, <1>5 DEF StoreOK
<1> HIDE DEF i, m, rest, sends
<1>7. /\ Presentations' = Presentations
      /\ \/ sends /\ Redemptions' = Redemptions \union {m}
         \/ ~sends /\ Redemptions' = Redemptions
  <2>1. CASE sends
    BY <1>4, <2>1, RedeemSent DEF m
  <2>2. CASE ~sends
    BY <1>4, <2>2 DEF Redemptions, Presentations
  <2> QED
    BY <2>1, <2>2
<1>8. Unredeemed(c, es[i].nf)
  BY <1>1, <1>2 DEF StoreOK
<1>9. \A d : DrawnBy(d)' = DrawnBy(d)
  BY DEF DrawnBy
<1>10. /\ \A d, nf : Redeemed(d, nf) => Redeemed(d, nf)' /\ nf # es[i].nf
       /\ \A nf, g : Unshown(nf, g) => Unshown(nf, g)'
       /\ \A p, t : TokenOK(c, p, t) => TokenOK(c, p, t)' /\ t.root # es[i].nf
  <2>1. \A d, nf : Redeemed(d, nf) => Redeemed(d, nf)' /\ nf # es[i].nf
    BY <1>7, <1>8, <1>9 DEF Redeemed, Unredeemed
  <2> QED
    BY <1>7, <2>1 DEF Unshown, TokenOK
<1>11. ShownBy(c)
  BY <1>3, <1>7, <1>8 DEF ShownBy, Unredeemed
<1>12. OnlyOf(c)
  BY <1>4 DEF IndInv, MapsOK, OnlyOf, Await, Abandon
<1>13. SentOK'
  <2>1. \A n \in Redemptions' : \E d \in Clients : (n.e.nf \in DrawnBy(d))'
    BY <1>3, <1>7, <1>8, <1>9 DEF IndInv, SentOK, Unredeemed
  <2>2. \A n, o \in Redemptions' : n.e.nf = o.e.nf => n = o
    BY <1>3, <1>7, <1>8 DEF IndInv, SentOK, Unredeemed
  <2> QED
    BY <1>7, <1>10, <2>1, <2>2 DEF IndInv, SentOK
<1>14. CountsOK(c)'
  BY <1>4 DEF IndInv, MapsOK, LocalOK, CountsOK, Await, Abandon
<1>15. StoreOK(c, endorsements[c])'
  <2>1. endorsements'[c] = rest
    BY <1>4 DEF IndInv, MapsOK
  <2>2. ASSUME NEW j \in 1 .. Len(rest) PROVE Unredeemed(c, rest[j].nf)'
    <3>1. Unredeemed(c, rest[j].nf)
      BY <1>1, <1>2, <1>5 DEF StoreOK
    <3> QED
      BY <1>3, <1>6, <1>7, <1>9, <3>1 DEF Unredeemed
  <2>3. ASSUME NEW j \in 1 .. Len(rest), NEW k \in 1 .. Len(rest), rest[j].nf = rest[k].nf
        PROVE  j = k
    BY <1>1, <1>2, <1>5, <2>3 DEF StoreOK
  <2> QED
    BY <1>5, <2>1, <2>2, <2>3 DEF StoreOK
<1>16. WalletOK(c, credentials[c])'
  BY <1>10 DEF IndInv, LocalOK, WalletOK
<1>17. FetchOK(c)'
  <2>1. CASE sends
    <3>1. fetch'[c] = [phase |-> "redeeming", chal |-> chal, dir |-> dir, request |-> m]
      BY <1>4, <2>1 DEF IndInv, MapsOK, Await
    <3>2. Redeemed(c, es[i].nf)'
      BY <1>3, <1>7, <1>8, <1>9, <2>1 DEF Redeemed, Unredeemed
    <3>3. Unshown(es[i].nf, 0)'
      BY <1>7, <1>10 DEF IndInv, SentOK, Unshown
    <3>4. NoneHeld(c, es[i].nf)'
      BY <1>10 DEF IndInv, LocalOK, WalletOK, NoneHeld
    <3>5. RedeemingOK(c, fetch[c])'
      BY <1>2, <1>3, <3>1, <3>2, <3>3, <3>4 DEF RedeemingOK, DirOK
    <3> QED
      BY <1>4, <2>1, <3>1, <3>5 DEF FetchOK, Phases
  <2>2. CASE ~sends
    BY <1>4, <2>2 DEF IndInv, MapsOK, Abandon, NotFetching, FetchOK, Phases
  <2> QED
    BY <2>1, <2>2
<1> QED
  BY <1>11, <1>12, <1>13, <1>14, <1>15, <1>16, <1>17, StepOfOne DEF LocalOK

----------------------------------------------------------------------------
(* The other steps.                                                        *)

LEMMA SilentStep ==
    ASSUME IndInv, NEW c \in Clients, Silent(c), OnlyOf(c), CountsOK(c)',
           StoreOK(c, endorsements'[c]), WalletOK(c, credentials'[c]), FetchOK(c)'
    PROVE  IndInv'
BY SilentKeeps, StepOfOne DEF LocalOK

LEMMA InitInd == Init => IndInv
<1> SUFFICES ASSUME Init PROVE IndInv
  OBVIOUS
<1>1. MapsOK /\ SentOK
  BY DEF Init, MapsOK, SentOK, Redemptions, Presentations
<1>2. ASSUME NEW c \in Clients PROVE LocalOK(c)
  <2>1. CountsOK(c)
    BY ClientAssumption DEF Init, CountsOK
  <2>2. StoreOK(c, endorsements[c])
    BY DEF Init, StoreOK
  <2>3. WalletOK(c, credentials[c])
    BY DEF Init, WalletOK
  <2>4. FetchOK(c)
    BY DEF Init, FetchOK, NotFetching, Phases
  <2> QED
    BY <2>1, <2>2, <2>3, <2>4 DEF LocalOK
<1> QED
  BY <1>1, <1>2 DEF IndInv

\* The steps that move no data between fetch, stores and network.
LEMMA BeginKeeps == ASSUME IndInv, NEW c \in Clients, Begin(c) PROVE IndInv'
<1>1. Silent(c)
  BY DEF Begin, Silent, Redemptions, Presentations
<1>2. OnlyOf(c)
  BY DEF Begin, Await, IndInv, MapsOK, OnlyOf
<1>3. CountsOK(c)' /\ FetchOK(c)'
  BY ClientAssumption
  DEF Begin, Await, IndInv, MapsOK, LocalOK, CountsOK, FetchOK, Phases
<1>4. StoreOK(c, endorsements'[c]) /\ WalletOK(c, credentials'[c])
  BY DEF Begin, IndInv, LocalOK
<1> QED
  BY <1>1, <1>2, <1>3, <1>4, SilentStep

LEMMA BodyKeeps ==
    ASSUME IndInv, NEW c \in Clients, NotChallenged(c) \/ GotNoUpdate(c) \/ GotBody(c)
    PROVE  IndInv'
<1> USE DEF NotChallenged, GotNoUpdate, GotBody
<1>1. Silent(c)
  BY DEF Silent, Redemptions, Presentations
<1>2. OnlyOf(c)
  BY DEF Await, NotFetching, IndInv, MapsOK, OnlyOf
<1>3. CountsOK(c)' /\ FetchOK(c)'
  BY DEF Await, NotFetching, IndInv, MapsOK, LocalOK, CountsOK, FetchOK, Phases
<1>4. StoreOK(c, endorsements'[c]) /\ WalletOK(c, credentials'[c])
  BY DEF IndInv, LocalOK
<1> QED
  BY <1>1, <1>2, <1>3, <1>4, SilentStep

\* A fetch ends with an error and leaves stores that are as they should be.
LEMMA AbandonKeeps ==
    ASSUME IndInv, NEW c \in Clients, fetch[c].phase # "idle", Abandon(c),
           NEW es, StoreOK(c, es), endorsements' = [endorsements EXCEPT ![c] = es],
           UNCHANGED <<credentials, sent, drawn, fetches>>
    PROVE  IndInv'
<1>1. Silent(c)
  BY DEF Silent, Redemptions, Presentations
<1>2. OnlyOf(c)
  BY DEF Abandon, NotFetching, IndInv, MapsOK, OnlyOf
<1>3. CountsOK(c)' /\ FetchOK(c)'
  BY DEF Abandon, NotFetching, IndInv, MapsOK, LocalOK, CountsOK, FetchOK, Phases
<1>4. StoreOK(c, endorsements'[c]) /\ WalletOK(c, credentials'[c])
  BY DEF IndInv, MapsOK, LocalOK
<1> QED
  BY <1>1, <1>2, <1>3, <1>4, SilentStep

LEMMA FailKeeps == ASSUME IndInv, NEW c \in Clients, Fail(c) PROVE IndInv'
<1>1. StoreOK(c, endorsements[c])
  BY DEF IndInv, LocalOK
<1>2. endorsements' = [endorsements EXCEPT ![c] = endorsements[c]]
  BY DEF Fail, IndInv, MapsOK
<1> QED
  BY <1>1, <1>2, AbandonKeeps DEF Fail

LEMMA QuitKeeps == ASSUME IndInv, NEW c \in Clients, Quit(c) PROVE IndInv'
<1>1. Silent(c)
  BY DEF Quit, Silent, Redemptions, Presentations
<1>2. OnlyOf(c)
  BY DEF Quit, NotFetching, IndInv, MapsOK, OnlyOf
<1>3. CountsOK(c)' /\ FetchOK(c)'
  BY DEF Quit, NotFetching, IndInv, MapsOK, LocalOK, CountsOK, FetchOK, Phases
<1>4. endorsements'[c] = <<>> /\ credentials'[c] = <<>>
  BY DEF Quit, IndInv, MapsOK
<1>5. StoreOK(c, endorsements'[c]) /\ WalletOK(c, credentials'[c])
  BY <1>4 DEF StoreOK, WalletOK
<1> QED
  BY <1>1, <1>2, <1>3, <1>5, SilentStep

LEMMA ChallengedKeeps ==
    ASSUME IndInv, NEW c \in Clients, NEW chal \in Challenges, Challenged(c, chal)
    PROVE  IndInv'
<1>1. fetch[c].phase = "challenge" /\ UNCHANGED <<endorsements, drawn, fetches>>
  BY DEF Challenged
<1>2. /\ failures[c] < fetches[c] /\ drawn[c] < fetches[c]
      /\ CountsOK(c) /\ StoreOK(c, endorsements[c]) /\ WalletOK(c, credentials[c])
  BY <1>1 DEF IndInv, LocalOK, FetchOK
<1>3. CASE chal.policy \in DOMAIN credentials[c]
  <2>1. StartPresent(c, credentials[c], chal)
    BY <1>3 DEF Challenged
  <2> QED
    BY <1>1, <1>2, <1>3, <2>1, PresentKeeps
<1>4. CASE chal.policy \notin DOMAIN credentials[c]
  <2>1. /\ fetch' = [fetch EXCEPT ![c] = [phase |-> "policy", chal |-> chal]]
        /\ UNCHANGED <<credentials, sent, failures>>
    BY <1>4 DEF Challenged, Await
  <2>2. Silent(c)
    BY <1>1, <2>1 DEF Silent, Redemptions, Presentations
  <2>3. OnlyOf(c)
    BY <1>1, <2>1 DEF IndInv, MapsOK, OnlyOf
  <2>4. CountsOK(c)'
    BY <1>1, <1>2, <2>1 DEF CountsOK
  <2>5. FetchOK(c)'
    BY <1>1, <1>2, <2>1 DEF IndInv, MapsOK, FetchOK, Phases
  <2> QED
    BY <1>1, <1>2, <2>1, <2>2, <2>3, <2>4, <2>5, SilentStep
<1> QED
  BY <1>3, <1>4

LEMMA PolicyKeeps ==
    ASSUME IndInv, NEW c \in Clients, NEW dir \in Directories, GotPolicy(c, dir)
    PROVE  IndInv'
<1> DEFINE chal == fetch[c].chal
<1>1. fetch[c].phase = "policy" /\ UNCHANGED <<credentials, drawn, fetches>>
  BY DEF GotPolicy
<1>2. /\ failures[c] < fetches[c] /\ drawn[c] < fetches[c] /\ chal \in Challenges
      /\ CountsOK(c) /\ StoreOK(c, endorsements[c]) /\ WalletOK(c, credentials[c])
  BY <1>1 DEF IndInv, LocalOK, FetchOK
<1>3. CASE dir.policy # chal.policy
  <2>1. Abandon(c) /\ UNCHANGED <<endorsements, sent>>
    BY <1>3 DEF GotPolicy
  <2> QED
    BY <1>1, <2>1, FailKeeps DEF Fail
<1>4. CASE dir.policy = chal.policy /\ UsableAt(endorsements[c], chal.keys, dir.epoch) # {}
  <2>1. StartRedeem(c, endorsements[c], chal, dir)
    BY <1>4 DEF GotPolicy
  <2> QED
    BY <1>1, <1>2, <1>4, <2>1, RedeemKeeps
<1>5. CASE dir.policy = chal.policy /\ UsableAt(endorsements[c], chal.keys, dir.epoch) = {}
  <2>1. /\ fetch' = [fetch EXCEPT ![c] = [phase |-> "anchor", chal |-> chal, dir |-> dir]]
        /\ UNCHANGED <<endorsements, sent, failures>>
    BY <1>5 DEF GotPolicy, Await
  <2>2. Silent(c)
    BY <1>1, <2>1 DEF Silent, Redemptions, Presentations
  <2>3. OnlyOf(c)
    BY <1>1, <2>1 DEF IndInv, MapsOK, OnlyOf
  <2>4. CountsOK(c)'
    BY <1>1, <1>2, <2>1 DEF CountsOK
  <2>5. FetchOK(c)'
    <3>1. fetch'[c] = [phase |-> "anchor", chal |-> chal, dir |-> dir]
      BY <2>1 DEF IndInv, MapsOK
    <3> HIDE DEF chal
    <3> QED
      BY <1>1, <1>2, <1>5, <2>1, <3>1 DEF FetchOK, DirOK, Phases
  <2> QED
    BY <1>1, <1>2, <2>1, <2>2, <2>3, <2>4, <2>5, SilentStep
<1> QED
  BY <1>3, <1>4, <1>5

\* A nullifier is drawn: nobody has it yet.
LEMMA AnchorKeeps ==
    ASSUME IndInv, NEW c \in Clients, NEW adir \in AnchorDirectories, GotAnchor(c, adir)
    PROVE  IndInv'
<1> DEFINE f == fetch[c]
<1>0. PICK nf : nf = Drawn(c, drawn[c] + 1)
  OBVIOUS
<1> DEFINE m == Step1(UserOf[c], adir.epoch, nf, "plain")
           g == [phase |-> "signing", chal |-> f.chal, dir |-> f.dir, adir |-> adir,
                 request |-> m]
<1>1. /\ f.phase = "anchor"
      /\ drawn' = [drawn EXCEPT ![c] = @ + 1]
      /\ fetch' = [fetch EXCEPT ![c] = g]
      /\ sent' = sent \union {m}
      /\ UNCHANGED <<endorsements, credentials, fetches, failures>>
  BY <1>0 DEF GotAnchor, Await
<1>2. Redemptions' = Redemptions /\ Presentations' = Presentations
  <2>1. \E u, ctx, blind, form : m = Step1(u, ctx, blind, form)
    OBVIOUS
  <2> QED
    BY <1>1, <2>1, GrantSent
<1>3. /\ failures[c] < fetches[c] /\ drawn[c] < fetches[c] /\ DirOK(f)
      /\ CountsOK(c) /\ StoreOK(c, endorsements[c]) /\ WalletOK(c, credentials[c])
  BY <1>1 DEF IndInv, LocalOK, FetchOK
<1>4. drawn'[c] = drawn[c] + 1 /\ drawn[c] \in Nat
  BY <1>1, <1>3 DEF IndInv, MapsOK, CountsOK
<1>5. \A d \in Clients : DrawnBy(d) \subseteq DrawnBy(d)'
  BY <1>1, <1>4 DEF IndInv, MapsOK, DrawnBy
<1>6. nf \in DrawnBy(c)' /\ nf = Drawn(c, drawn'[c]) /\ \A d \in Clients : nf \notin DrawnBy(d)
  BY <1>0, <1>4 DEF DrawnBy, Drawn
<1>7. /\ \A x : Unredeemed(c, x) => Unredeemed(c, x)' /\ x # nf
      /\ \A d \in Clients : \A x : Redeemed(d, x) => Redeemed(d, x)'
      /\ \A x, n : Unshown(x, n) => Unshown(x, n)'
      /\ Unredeemed(c, nf)'
  <2>1. \A x : Unredeemed(c, x) => Unredeemed(c, x)' /\ x # nf
    BY <1>2, <1>5, <1>6 DEF Unredeemed
  <2>2. \A d \in Clients : \A x : Redeemed(d, x) => Redeemed(d, x)'
    BY <1>2, <1>5 DEF Redeemed
  <2>3. \A x, n : Unshown(x, n) => Unshown(x, n)'
    BY <1>2 DEF Unshown
  <2>4. \A r \in Redemptions : r.e.nf # nf
    BY <1>6 DEF IndInv, SentOK
  <2>5. Unredeemed(c, nf)'
    BY <1>2, <1>6, <2>4 DEF Unredeemed
  <2> QED
    BY <2>1, <2>2, <2>3, <2>5
<1>8. ShownBy(c)
  BY <1>2 DEF ShownBy
<1> HIDE DEF m
<1>9. OnlyOf(c)
  BY <1>1 DEF IndInv, MapsOK, OnlyOf
<1>10. SentOK'
  BY <1>2, <1>5, <1>7 DEF IndInv, SentOK
<1>11. CountsOK(c)'
  BY <1>1, <1>3, <1>4 DEF CountsOK
<1>12. StoreOK(c, endorsements[c])'
  BY <1>1, <1>3, <1>7 DEF StoreOK
<1>13. WalletOK(c, credentials[c])'
  BY <1>1, <1>3, <1>7 DEF WalletOK, TokenOK
<1>14. FetchOK(c)'
  <2>1. fetch'[c] = g
    BY <1>1 DEF IndInv, MapsOK
  <2>2. \A i \in 1 .. Len(endorsements[c]) : endorsements[c][i].nf # nf
    BY <1>3, <1>7 DEF StoreOK
  <2>3. Unredeemed(c, Drawn(c, drawn[c]))'
    BY <1>6, <1>7
  <2>4. \A i \in 1 .. Len(endorsements'[c]) : endorsements'[c][i].nf # Drawn(c, drawn'[c])
    BY <1>1, <1>6, <2>2
  <2>5. DirOK(g) /\ g.adir \in AnchorDirectories
    BY <1>3 DEF DirOK
  <2>6. SigningOK(c, fetch[c])'
    BY <2>1, <2>3, <2>4, <2>5 DEF SigningOK, DirOK
  <2> QED
    BY <1>1, <1>3, <2>1, <2>6 DEF FetchOK, Phases
<1> QED
  BY <1>8, <1>9, <1>10, <1>11, <1>12, <1>13, <1>14, StepOfOne DEF LocalOK

LEMMA SignatureKeeps ==
    ASSUME IndInv, NEW c \in Clients, NEW sid, GotSignature(c, sid)
    PROVE  IndInv'
<1> DEFINE f == fetch[c]
           m == Step2(sid, "plain")
           g == [phase |-> "proving", chal |-> f.chal, dir |-> f.dir, adir |-> f.adir,
                 request |-> m]
<1>1. /\ f.phase = "signing"
      /\ fetch' = [fetch EXCEPT ![c] = g]
      /\ sent' = sent \union {m}
      /\ UNCHANGED <<endorsements, credentials, drawn, fetches, failures>>
  BY DEF GotSignature, Await
<1>2. Silent(c)
  <2>1. \E s, form : m = Step2(s, form)
    OBVIOUS
  <2> QED
    BY <1>1, <2>1, GrantSent DEF Silent
<1>3. /\ failures[c] < fetches[c] /\ SigningOK(c, f) /\ CountsOK(c)
      /\ StoreOK(c, endorsements[c]) /\ WalletOK(c, credentials[c])
  BY <1>1 DEF IndInv, LocalOK, FetchOK
<1> HIDE DEF m
<1>4. OnlyOf(c)
  BY <1>1 DEF IndInv, MapsOK, OnlyOf
<1>5. CountsOK(c)'
  BY <1>1, <1>3 DEF CountsOK
<1>6. FetchOK(c)'
  <2>1. fetch'[c] = g
    BY <1>1 DEF IndInv, MapsOK
  <2>2. Unredeemed(c, Drawn(c, drawn[c]))'
    BY <1>1, <1>2, <1>3, SilentKeeps DEF SigningOK, Silent, Unredeemed, DrawnBy
  <2>3. SigningOK(c, fetch[c])'
    BY <1>1, <1>3, <2>1, <2>2 DEF SigningOK, DirOK
  <2> QED
    BY <1>1, <1>3, <2>1, <2>3 DEF FetchOK, Phases
<1> QED
  BY <1>1, <1>2, <1>3, <1>4, <1>5, <1>6, SilentStep

\* The nullifier enters the store, and may leave it in the same step.
LEMMA ProofKeeps ==
    ASSUME IndInv, NEW c \in Clients, NEW signer, GotProof(c, signer)
    PROVE  IndInv'
<1> DEFINE f == fetch[c]
           e == [nf |-> Drawn(c, drawn[c]), key |-> f.adir.key, epoch |-> f.adir.epoch]
           es == Append(endorsements[c], e)
<1>1. f.phase = "proving" /\ UNCHANGED <<credentials, drawn, fetches>>
  BY DEF GotProof
<1>2. /\ failures[c] < fetches[c] /\ SigningOK(c, f) /\ drawn[c] \in Nat
      /\ StoreOK(c, endorsements[c])
  BY <1>1 DEF IndInv, LocalOK, FetchOK, CountsOK
<1>3. e \in Endorsement
  BY <1>2 DEF Endorsement, SigningOK, Drawn
<1>4. Unredeemed(c, e.nf) /\ \A i \in 1 .. Len(endorsements[c]) : endorsements[c][i].nf # e.nf
  BY <1>2 DEF SigningOK
<1>5. DirOK(f)
  BY <1>2 DEF SigningOK
<1>6. CASE signer # f.adir.key
  BY <1>1, <1>6, FailKeeps DEF GotProof, Fail
<1>7. CASE signer = f.adir.key
  <2>1. IF UsableAt(es, f.chal.keys, f.dir.epoch) # {}
        THEN StartRedeem(c, es, f.chal, f.dir)
        ELSE /\ endorsements' = [endorsements EXCEPT ![c] = es]
             /\ Abandon(c)
             /\ UNCHANGED sent
    BY <1>7 DEF GotProof
  <2> HIDE DEF e
  <2>2. StoreOK(c, es)
    BY <1>2, <1>3, <1>4 DEF StoreOK
  <2> HIDE DEF es
  <2>3. CASE UsableAt(es, f.chal.keys, f.dir.epoch) # {}
    <3>1. /\ f.chal \in Challenges /\ f.dir \in Directories
          /\ f.dir.policy = f.chal.policy
      BY <1>5 DEF DirOK
    <3> QED
      BY <1>1, <1>2, <2>1, <2>2, <2>3, <3>1, RedeemKeeps
  <2>4. CASE UsableAt(es, f.chal.keys, f.dir.epoch) = {}
    BY <1>1, <2>1, <2>2, <2>4, AbandonKeeps
  <2> QED
    BY <2>3, <2>4
<1> QED
  BY <1>6, <1>7

\* The credential enters the store and leaves it in the same step.
LEMMA CredentialKeeps ==
    ASSUME IndInv, NEW c \in Clients, NEW i \in Issuances, GotCredential(c, Issuable(c, i))
    PROVE  IndInv'
<1> DEFINE f == fetch[c]
           nf == f.request.e.nf
           t == Issuable(c, i)
           w == Put(credentials[c], f.chal.policy, t)
<1>1. f.phase = "redeeming" /\ UNCHANGED <<endorsements, drawn, fetches>>
  BY DEF GotCredential
<1>2. failures[c] < fetches[c] /\ RedeemingOK(c, f) /\ WalletOK(c, credentials[c])
  BY <1>1 DEF IndInv, LocalOK, FetchOK
<1>3. CASE ~(t.key = f.dir.key /\ t.ctx = RequestContext(f.chal.policy, f.request.e.epoch))
  BY <1>1, <1>3, FailKeeps DEF GotCredential, Fail
<1>4. CASE t.key = f.dir.key /\ t.ctx = RequestContext(f.chal.policy, f.request.e.epoch)
  <2>1. StartPresent(c, w, f.chal)
    BY <1>4 DEF GotCredential
  <2>2. /\ t \in Token /\ t.root = nf /\ t.gen = 0
    BY <1>2, ClientAssumption
    DEF Issuable, Credential, Token, RequestContext, RedeemingOK, Endorsement
  <2> HIDE DEF t
  <2>3. TokenOK(c, f.chal.policy, t) /\ Unshown(t.root, t.gen)
    BY <1>2, <1>4, <2>2 DEF TokenOK, RedeemingOK, DirOK, RequestContext
  <2>4. WalletOK(c, w)
    BY <1>2, <2>2, <2>3 DEF WalletOK, Put, RedeemingOK, NoneHeld, Policies, DirOK
  <2>5. f.chal.policy \in DOMAIN w /\ f.chal \in Challenges
    BY <1>2 DEF Put, RedeemingOK, DirOK
  <2> QED
    BY <1>1, <1>2, <2>1, <2>4, <2>5, PresentKeeps
<1> QED
  BY <1>3, <1>4

\* The replacement is of the next generation.
LEMMA UpdateKeeps ==
    ASSUME IndInv, NEW c \in Clients, NEW r \in Refunds, GotUpdate(c, r)
    PROVE  IndInv'
<1> DEFINE f == fetch[c]
           s == f.request.spend
           t == Replacement(s.token, s.charge, s.topup, r)
           w == Put(credentials[c], f.chal.policy, t)
<1>1. /\ f.phase = "presenting"
      /\ credentials' = [credentials EXCEPT ![c] = w]
      /\ fetch' = [fetch EXCEPT ![c] = [phase |-> "body"]]
      /\ UNCHANGED <<endorsements, sent, drawn, fetches, failures>>
  BY DEF GotUpdate, Await
<1>2. /\ failures[c] < fetches[c] /\ PresentingOK(c, f) /\ CountsOK(c)
      /\ StoreOK(c, endorsements[c]) /\ WalletOK(c, credentials[c])
  BY <1>1 DEF IndInv, LocalOK, FetchOK
<1>3. t \in Token /\ t.root = s.token.root /\ t.gen = s.token.gen + 1
      /\ t.ctx = s.token.ctx /\ t.key = s.token.key
  <2>1. s.charge \in Nat /\ s.topup \in Nat /\ r \in Int /\ s.token \in Token
    BY <1>2, ClientAssumption DEF PresentingOK, TokenOK
  <2>2. PICK k \in Token, n, u \in Nat : k = s.token /\ n = s.charge /\ u = s.topup
    BY <2>1
  <2> DEFINE d == [k EXCEPT !.gen = k.gen + 1, !.bal = k.bal - n + u + r]
  <2>3. t = d
    BY <2>1, <2>2 DEF Replacement
  <2>4. k.gen + 1 \in Nat /\ k.bal - n + u + r \in Int
    BY <2>1 DEF Token
  <2>5. d \in Token
    BY <2>4 DEF Token
  <2>6. d.root = k.root /\ d.gen = k.gen + 1 /\ d.ctx = k.ctx /\ d.key = k.key
    BY DEF Token
  <2> HIDE DEF d, t
  <2> QED
    BY <2>2, <2>3, <2>5, <2>6
<1> HIDE DEF t
<1>4. TokenOK(c, f.chal.policy, t) /\ Unshown(t.root, t.gen)
  BY <1>2, <1>3 DEF PresentingOK, TokenOK
<1>5. WalletOK(c, w)
  BY <1>2, <1>3, <1>4 DEF WalletOK, Put, PresentingOK, NoneHeld, Policies
<1> HIDE DEF w
<1>6. Silent(c)
  BY <1>1 DEF Silent, Redemptions, Presentations
<1>7. OnlyOf(c)
  BY <1>1 DEF IndInv, MapsOK, OnlyOf
<1>8. CountsOK(c)' /\ credentials'[c] = w
  BY <1>1, <1>2 DEF IndInv, MapsOK, CountsOK
<1>9. FetchOK(c)'
  BY <1>1, <1>2 DEF IndInv, MapsOK, FetchOK, Phases
<1> QED
  BY <1>1, <1>2, <1>5, <1>6, <1>7, <1>8, <1>9, SilentStep

----------------------------------------------------------------------------
(* The invariant, and what it implies.                                     *)

LEMMA NextInd == IndInv /\ [Next]_vars => IndInv'
<1> SUFFICES ASSUME IndInv, [Next]_vars PROVE IndInv'
  OBVIOUS
<1>1. CASE UNCHANGED vars
  BY <1>1
  DEF vars, IndInv, MapsOK, SentOK, LocalOK, CountsOK, StoreOK, WalletOK, FetchOK, SigningOK,
      RedeemingOK, PresentingOK, NoneHeld, TokenOK, Unshown, Redeemed, Unredeemed, DrawnBy,
      Redemptions, Presentations
<1>2. ASSUME NEW c \in Clients, Begin(c) \/ Answered(c) \/ Fail(c) \/ Quit(c)
      PROVE  IndInv'
  <2>1. CASE Begin(c)
    BY <2>1, BeginKeeps
  <2>2. CASE NotChallenged(c) \/ GotNoUpdate(c) \/ GotBody(c)
    BY <2>2, BodyKeeps
  <2>3. CASE \E chal \in Challenges : Challenged(c, chal)
    BY <2>3, ChallengedKeeps
  <2>4. CASE \E dir \in Directories : GotPolicy(c, dir)
    BY <2>4, PolicyKeeps
  <2>5. CASE \E adir \in AnchorDirectories : GotAnchor(c, adir)
    BY <2>5, AnchorKeeps
  <2>6. CASE \E sid \in SessionIds : GotSignature(c, sid)
    BY <2>6, SignatureKeeps
  <2>7. CASE \E adir \in AnchorDirectories : GotProof(c, adir.key)
    BY <2>7, ProofKeeps
  <2>8. CASE \E i \in Issuances : GotCredential(c, Issuable(c, i))
    BY <2>8, CredentialKeeps
  <2>9. CASE \E t \in Refunds : GotUpdate(c, t)
    BY <2>9, UpdateKeeps
  <2>10. CASE Fail(c)
    BY <2>10, FailKeeps
  <2>11. CASE Quit(c)
    BY <2>11, QuitKeeps
  <2> QED
    BY <1>2, <2>1, <2>2, <2>3, <2>4, <2>5, <2>6, <2>7, <2>8, <2>9, <2>10, <2>11 DEF Answered
<1> QED
  BY <1>1, <1>2 DEF Next

THEOREM Invariance == Spec => []IndInv
BY InitInd, NextInd, PTL DEF Spec

\* A Client draws at most one nullifier for a fetch, its endorsements are of
\* nullifiers it has drawn, its credentials for policies it was challenged for.
THEOREM TypeCorrect == Spec => []TypeOK
<1>1. IndInv => TypeOK
  <2> SUFFICES ASSUME IndInv, NEW c \in Clients
               PROVE  /\ fetch[c].phase \in Phases
                      /\ drawn[c] <= fetches[c] /\ fetches[c] <= MaxFetches
                      /\ failures[c] <= fetches[c]
                      /\ \A i \in DOMAIN endorsements[c] :
                             endorsements[c][i].nf \in {Drawn(c, n) : n \in 1 .. drawn[c]}
                      /\ DOMAIN credentials[c] \subseteq {chal.policy : chal \in Challenges}
    BY DEF TypeOK
  <2>1. CountsOK(c) /\ StoreOK(c, endorsements[c]) /\ WalletOK(c, credentials[c]) /\ FetchOK(c)
    BY DEF IndInv, LocalOK
  <2>2. \A i \in DOMAIN endorsements[c] : endorsements[c][i].nf \in DrawnBy(c)
    BY <2>1 DEF StoreOK, Unredeemed
  <2> QED
    BY <2>1, <2>2 DEF CountsOK, WalletOK, FetchOK, DrawnBy, Policies
<1> QED
  BY <1>1, Invariance, PTL

\* A held credential is of a generation that has not been presented.
LEMMA Burned == IndInv => BurnedOnUse
<1> SUFFICES ASSUME IndInv, NEW c \in Clients, NEW t \in Held(c), NEW m \in Presentations
             PROVE  Nullifier(m.spend.token) # Nullifier(t)
  BY DEF BurnedOnUse, IndInv, SentOK
<1>1. t \in Token /\ Unshown(t.root, t.gen)
  BY DEF IndInv, LocalOK, WalletOK, TokenOK, Held
<1>2. t.gen \in Nat
  BY <1>1 DEF Token
<1> QED
  BY <1>1, <1>2 DEF Nullifier, Unshown

\* What a Client holds it has never presented, and no credential is presented
\* in two requests (burn on use, lib.rs:12), whatever fails and whatever
\* servers answer.
THEOREM BurnsOnUse == Spec => []BurnedOnUse
BY Burned, Invariance, PTL

\* A stored endorsement is of a nullifier drawn and not redeemed.
LEMMA ShownOnce == IndInv => EndorsementShownOnce
<1> SUFFICES ASSUME IndInv, NEW c \in Clients
             PROVE  /\ \A i \in DOMAIN endorsements[c] : \A m \in Redemptions :
                           m.e.nf # endorsements[c][i].nf
                    /\ \A i, j \in DOMAIN endorsements[c] :
                           endorsements[c][i].nf = endorsements[c][j].nf => i = j
  BY DEF EndorsementShownOnce, IndInv, SentOK
<1>1. StoreOK(c, endorsements[c]) /\ DOMAIN endorsements[c] = 1 .. Len(endorsements[c])
  BY DEF IndInv, LocalOK, StoreOK
<1> QED
  BY <1>1 DEF StoreOK, Unredeemed

\* What is in an endorsement store has never been redeemed, each nullifier is
\* there once, and no endorsement is redeemed in two requests (lib.rs:13).
THEOREM RedeemsOnce == Spec => []EndorsementShownOnce
BY ShownOnce, Invariance, PTL

\* A credential is stored under the policy it was issued for, with a key that
\* a directory of that policy has named.
THEOREM StoresWhereIssued == Spec => []StoredWhereIssued
<1>1. IndInv => StoredWhereIssued
  BY DEF IndInv, LocalOK, WalletOK, TokenOK, StoredWhereIssued
<1> QED
  BY <1>1, Invariance, PTL
=============================================================================
