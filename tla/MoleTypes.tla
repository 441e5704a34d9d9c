----------------------------- MODULE MoleTypes -----------------------------
(***************************************************************************)
(* The protocol data of mole-core, shared by all roles, and what the two   *)
(* cryptographic libraries promise about it.                               *)
(*                                                                         *)
(* Hashes (challenge digests, key identifiers, request contexts) are       *)
(* injective constructors: distinct inputs give distinct values, and a     *)
(* hash is never equal to its input.  The one place where the code throws  *)
(* hash bits away, the truncated key identifier, is modelled with its      *)
(* real width, so two keys can share it.                                   *)
(***************************************************************************)
EXTENDS Integers, Sequences

CONSTANTS
    MaxRuns,       \* bound: how many Moderator processes a behaviour starts
    KeyIds,        \* KeyIds[r]: key identifier of the ACT key made by process r
    BalanceLimit   \* 3^D: ACT balances lie in 0 .. BalanceLimit - 1

Runs == 1 .. MaxRuns

\* Every process generates a fresh ACT key; SHA-256 keeps keys apart.
ASSUME KeyAssumption ==
    /\ MaxRuns \in Nat \ {0}
    /\ KeyIds \in [Runs -> Nat]
    /\ \A r, s \in Runs : KeyIds[r] = KeyIds[s] => r = s
    /\ BalanceLimit \in Nat

----------------------------------------------------------------------------
(* Configuration and challenges. A config stands for ModeratorConfig:      *)
(* policy, accepted Anchor keys in order, epoch, and the three amounts.    *)

IHAT == "IHAT"
ACT == "ACT"

\* A key that is not the encoding of a curve point.
MalformedKey == 0

\* What ModeratorState::new insists on before it serves a configuration.
ValidConfig(cfg) ==
    /\ \A k \in DOMAIN cfg.keys : cfg.keys[k] # MalformedKey
    /\ cfg.keys # <<>>
    /\ cfg.refund <= cfg.charge

ModeratorChallenge(cfg) == [type |-> IHAT, keys |-> cfg.keys]

\* cfg is a config or a challenge; topup is what the charge may go beyond the
\* balance by, 0 in every challenge of mole-moderator.
CredentialChallenge(cfg, topup) ==
    [type |-> ACT, policy |-> cfg.policy, charge |-> cfg.charge, topup |-> topup]

Digest(challenge) == [sha256 |-> challenge]

\* SHA-512 over the length-prefixed pair.
RequestContext(policy, epoch) == <<policy, epoch>>

\* The last byte of the 32-byte key identifier.
TruncatedKeyId(r) == KeyIds[r] % 256

----------------------------------------------------------------------------
(* IHAT (external). An endorsement is the nullifier its Client chose, the  *)
(* Anchor key that signed it and the epoch it was signed under.  A redeem  *)
(* proof is an OR-proof over an ordered key list, bound to a digest: it    *)
(* verifies exactly for that list and that digest.                         *)

ProofVerifies(e, binding, cfg) ==
    /\ \E i \in DOMAIN cfg.keys : cfg.keys[i] = e.key
    /\ binding = Digest(ModeratorChallenge(cfg))

----------------------------------------------------------------------------
(* ACT (external). A credential is bound to the key and context it was     *)
(* issued under.  root (the endorsement it came from), pre (the issuance   *)
(* attempt) and gen (how many presentations came before it) are hidden     *)
(* from the Moderator; their triple stands for the random nullifier.       *)

Credential(r, cfg, root, pre, gen, bal) ==
    [key |-> r, ctx |-> RequestContext(cfg.policy, cfg.epoch),
     root |-> root, pre |-> pre, gen |-> gen, bal |-> bal]

Nullifier(c) == <<c.root, c.pre, c.gen>>

\* issue() refuses an amount that the balance digits cannot carry.
CanIssue(cfg) == cfg.initial < BalanceLimit

\* prove_spend() refuses a spend that would leave a negative balance.
CanSpend(c, charge, topup) ==
    c.bal - charge + topup >= 0 /\ charge < BalanceLimit

\* The credential that finalizing refund(spend, t) yields.
Replacement(c, charge, topup, t) ==
    [c EXCEPT !.gen = @ + 1, !.bal = @ - charge + topup + t]

----------------------------------------------------------------------------
(* The two requests a Client puts in its Authorization header. form says   *)
(* what the parsers make of the bytes: "plain" decodes at every layer with *)
(* the IHAT and ACT types, "foreign" names another endorsement or          *)
(* credential type (a greased one, say), "garbled" fails at some layer.    *)

Forms == {"plain", "foreign", "garbled"}

RedeemRequest(e, binding, keyByte, pre, form) ==
    [op |-> "redeem", form |-> form,
     e |-> e, binding |-> binding, keyByte |-> keyByte, pre |-> pre]

PresentRequest(c, digest, charge, topup, form) ==
    [op |-> "present", form |-> form, digest |-> digest, keyId |-> KeyIds[c.key],
     spend |-> [token |-> c, charge |-> charge, topup |-> topup]]
=============================================================================
