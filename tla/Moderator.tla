----------------------------- MODULE Moderator -----------------------------
(***************************************************************************)
(* The Moderator (mole-moderator): concurrent request handlers over two    *)
(* in-memory nullifier sets.                                               *)
(*                                                                         *)
(* A handler verifies its request against state that never changes while   *)
(* the process lives, then takes one mutex to insert a nullifier, and      *)
(* releases its response only if the insert won.  Verification and insert  *)
(* are separate steps here, so any number of handlers can be between them. *)
(*                                                                         *)
(* The environment is every holder of endorsements and credentials, with   *)
(* no discipline at all: any credential ever released may be presented at  *)
(* any time, any number of times, against any challenge, because requests  *)
(* are retried, delayed, duplicated and reordered on their way.            *)
(***************************************************************************)
EXTENDS MoleTypes, FiniteSets

CONSTANTS
    Workers,        \* bound: requests being handled at the same time
    Roots,          \* endorsement nullifiers
    Endorsements,   \* endorsements granted by Anchors: [nf, key, epoch]
    Pres,           \* issuance attempts a holder makes with one endorsement
    Configs,        \* configurations a Moderator process may be started with
    MaxGen          \* bound: presentations of one credential lineage

ASSUME ModeratorAssumption ==
    /\ \A cfg \in Configs :
           cfg.initial \in Nat /\ cfg.charge \in Nat /\ cfg.refund \in Nat
    /\ \A e \in Endorsements : e.nf \in Roots
    /\ MaxGen \in Nat

VARIABLES
    run,                        \* which process is up; names its ACT key
    config,                     \* its ModeratorConfig
    seenEndorsementNullifiers,
    seenSpendNullifiers,
    task,                       \* task[w]: verified request not yet committed
    released,                   \* history: credentials sent to Clients
    issues,                     \* history: issuance responses per endorsement,
                                \*          by the current process
    outstanding,                \* history: credits issued and not yet spent,
                                \*          by the current process
    bodies                      \* history: resource bodies served

vars == <<run, config, seenEndorsementNullifiers, seenSpendNullifiers, task,
          released, issues, outstanding, bodies>>

NoTask == [op |-> "none"]

Init ==
    /\ run = 1
    /\ config \in {cfg \in Configs : ValidConfig(cfg)}
    /\ seenEndorsementNullifiers = {}
    /\ seenSpendNullifiers = {}
    /\ task = [w \in Workers |-> NoTask]
    /\ released = {}
    /\ issues = [e \in Roots |-> 0]
    /\ outstanding = [e \in Roots |-> 0]
    /\ bodies = 0

----------------------------------------------------------------------------
(* Verification: what each handler checks before it takes the lock.        *)

RedeemValid(m) ==
    /\ ProofVerifies(m.e, m.binding, config)
    /\ m.e.epoch = config.epoch
    /\ m.keyByte = TruncatedKeyId(run)
    /\ CanIssue(config)

\* Plausible bug: the spend's amounts are not compared with the policy's.
PresentValidAnyAmount(m) ==
    /\ m.digest = Digest(CredentialChallenge(config, 0))
    /\ m.keyId = KeyIds[run]
    /\ m.spend.token.ctx = RequestContext(config.policy, config.epoch)
    /\ m.spend.token.key = run

PresentValid(m) ==
    /\ m.digest = Digest(CredentialChallenge(config, 0))
    /\ m.keyId = KeyIds[run]
    /\ m.spend.charge = config.charge
    /\ m.spend.topup = 0
    /\ m.spend.token.ctx = RequestContext(config.policy, config.epoch)
    /\ m.spend.token.key = run      \* refund() verifies the spend proof

Valid(m) ==
    /\ m.form = "plain"
    /\ m.op = "redeem" => RedeemValid(m)
    /\ m.op = "present" => PresentValid(m)

\* Plausible bug: the spend is recorded while it is verified.
VerifyRecordingSpend(w, m) ==
    /\ task[w] = NoTask
    /\ Valid(m)
    /\ task' = [task EXCEPT ![w] = m]
    /\ seenSpendNullifiers' = seenSpendNullifiers \union
           (IF m.op = "present" THEN {Nullifier(m.spend.token)} ELSE {})
    /\ UNCHANGED <<run, config, seenEndorsementNullifiers, released, issues,
                   outstanding, bodies>>

Verify(w, m) ==
    /\ task[w] = NoTask
    /\ Valid(m)
    /\ task' = [task EXCEPT ![w] = m]
    /\ UNCHANGED <<run, config, seenEndorsementNullifiers, seenSpendNullifiers,
                   released, issues, outstanding, bodies>>

\* Foreign types get a 401 with the ordinary challenges, everything else
\* that does not verify a 403; neither leaves a trace.
Refuse(m) ==
    /\ ~Valid(m)
    /\ UNCHANGED vars

----------------------------------------------------------------------------
(* The critical sections.                                                  *)

Issued(m) == Credential(run, config, m.e.nf, m.pre, 0, config.initial)

\* Plausible bug: the result of the insert is not looked at.
IssueUnchecked(w) ==
    LET m == task[w] IN
    /\ m.op = "redeem"
    /\ seenEndorsementNullifiers' = seenEndorsementNullifiers \union {m.e.nf}
    /\ released' = released \union {Issued(m)}
    /\ issues' = [issues EXCEPT ![m.e.nf] = @ + 1]
    /\ outstanding' = [outstanding EXCEPT ![m.e.nf] = @ + config.initial]
    /\ task' = [task EXCEPT ![w] = NoTask]
    /\ UNCHANGED <<run, config, seenSpendNullifiers, bodies>>

\* The insert wins: the issuance response is released.
Issue(w) ==
    LET m == task[w] IN
    /\ m.op = "redeem"
    /\ m.e.nf \notin seenEndorsementNullifiers
    /\ seenEndorsementNullifiers' = seenEndorsementNullifiers \union {m.e.nf}
    /\ released' = released \union {Issued(m)}
    /\ issues' = [issues EXCEPT ![m.e.nf] = @ + 1]
    /\ outstanding' = [outstanding EXCEPT ![m.e.nf] = @ + config.initial]
    /\ task' = [task EXCEPT ![w] = NoTask]
    /\ UNCHANGED <<run, config, seenSpendNullifiers, bodies>>

\* Plausible bug: the whole charge comes back, whatever the policy says.
RefundedInFull(m) ==
    Replacement(m.spend.token, m.spend.charge, m.spend.topup, config.charge)

Refunded(m) ==
    Replacement(m.spend.token, m.spend.charge, m.spend.topup, config.refund)

\* Plausible bug: two handlers that both saw a fresh nullifier both answer.
ServeUnchecked(w) ==
    LET m == task[w]
        c == m.spend.token
    IN
    /\ m.op = "present"
    /\ seenSpendNullifiers' = seenSpendNullifiers \union {Nullifier(c)}
    /\ released' = released \union {Refunded(m)}
    /\ outstanding' = [outstanding EXCEPT ![c.root] =
                           @ - config.charge + config.refund]
    /\ bodies' = bodies + 1
    /\ task' = [task EXCEPT ![w] = NoTask]
    /\ UNCHANGED <<run, config, seenEndorsementNullifiers, issues>>

\* The insert wins: body and refund are released.
Serve(w) ==
    LET m == task[w]
        c == m.spend.token
    IN
    /\ m.op = "present"
    /\ Nullifier(c) \notin seenSpendNullifiers
    /\ seenSpendNullifiers' = seenSpendNullifiers \union {Nullifier(c)}
    /\ released' = released \union {Refunded(m)}
    /\ outstanding' = [outstanding EXCEPT ![c.root] =
                           @ - config.charge + config.refund]
    /\ bodies' = bodies + 1
    /\ task' = [task EXCEPT ![w] = NoTask]
    /\ UNCHANGED <<run, config, seenEndorsementNullifiers, issues>>

\* The insert loses: 403, and what was computed is dropped.
Lose(w) ==
    LET m == task[w] IN
    /\ \/ m.op = "redeem" /\ m.e.nf \in seenEndorsementNullifiers
       \/ m.op = "present" /\ Nullifier(m.spend.token) \in seenSpendNullifiers
    /\ task' = [task EXCEPT ![w] = NoTask]
    /\ UNCHANGED <<run, config, seenEndorsementNullifiers, seenSpendNullifiers,
                   released, issues, outstanding, bodies>>

\* Plausible bug: the ACT key survives a restart, the nullifier sets do not.
RestartWithOldKey(cfg) ==
    /\ run < MaxRuns
    /\ cfg = config
    /\ seenEndorsementNullifiers' = {}
    /\ seenSpendNullifiers' = {}
    /\ task' = [w \in Workers |-> NoTask]
    /\ issues' = [e \in Roots |-> 0]
    /\ outstanding' = [e \in Roots |-> 0]
    /\ UNCHANGED <<run, config, released, bodies>>

\* Plausible bug: a configuration is taken as it comes.
RestartUnvalidated(cfg) ==
    /\ run < MaxRuns
    /\ run' = run + 1
    /\ config' = cfg
    /\ seenEndorsementNullifiers' = {}
    /\ seenSpendNullifiers' = {}
    /\ task' = [w \in Workers |-> NoTask]
    /\ issues' = [e \in Roots |-> 0]
    /\ outstanding' = [e \in Roots |-> 0]
    /\ UNCHANGED <<released, bodies>>

\* The process dies, with every handler and both sets, and a new one starts.
Restart(cfg) ==
    /\ run < MaxRuns
    /\ ValidConfig(cfg)
    /\ run' = run + 1
    /\ config' = cfg
    /\ seenEndorsementNullifiers' = {}
    /\ seenSpendNullifiers' = {}
    /\ task' = [w \in Workers |-> NoTask]
    /\ issues' = [e \in Roots |-> 0]
    /\ outstanding' = [e \in Roots |-> 0]
    /\ UNCHANGED <<released, bodies>>

----------------------------------------------------------------------------
(* The holders.                                                            *)

\* Redemptions some holder could have sent by now: for the challenge of any
\* process, for the key of any process up to now, malformed, or of another
\* endorsement type.
RedeemRequests ==
    {RedeemRequest(e, Digest(ModeratorChallenge(cfg)), TruncatedKeyId(r), pre,
                   form) :
        e \in Endorsements, cfg \in Configs, r \in 1 .. run, pre \in Pres,
        form \in Forms}

\* Presentations of a released credential: answering any challenge, with the
\* amounts of any challenge.
PresentRequests(c) ==
    {PresentRequest(c, Digest(CredentialChallenge(cfg, 0)), amounts.charge, 0,
                    form) :
        cfg \in Configs,
        amounts \in {a \in Configs : CanSpend(c, a.charge, 0)},
        form \in Forms}

Requests ==
    RedeemRequests \union
    UNION {PresentRequests(c) : c \in {d \in released : d.gen < MaxGen}}

Next ==
    \/ \E m \in Requests : Refuse(m)
    \/ \E w \in Workers : \E m \in Requests : Verify(w, m)
    \/ \E w \in Workers : Issue(w) \/ Serve(w) \/ Lose(w)
    \/ \E cfg \in Configs : Restart(cfg)

Spec == Init /\ [][Next]_vars

----------------------------------------------------------------------------
(* Properties.                                                             *)

CredentialRecords ==
    [key : Runs, ctx : {RequestContext(cfg.policy, cfg.epoch) : cfg \in Configs},
     root : Roots, pre : Pres, gen : Nat, bal : Int]

TypeOK ==
    /\ run \in Runs
    /\ config \in Configs /\ ValidConfig(config)
    /\ seenEndorsementNullifiers \subseteq Roots
    /\ seenSpendNullifiers \subseteq Roots \X Pres \X Nat
    /\ released \subseteq CredentialRecords
    /\ \A w \in Workers : task[w] # NoTask => task[w].op \in {"redeem", "present"}
    /\ issues \in [Roots -> Nat]
    /\ outstanding \in [Roots -> Int]
    /\ bodies \in Nat

\* The credentials the current process would still accept.
Live == {c \in released : c.key = run /\ Nullifier(c) \notin seenSpendNullifiers}

\* An endorsement is marked redeemed exactly when one issuance response, and
\* no second one, was released for it: no double issuance whatever the
\* interleaving, and no endorsement spent for nothing.
IssuedExactlyOnce ==
    \A e \in Roots :
        issues[e] = IF e \in seenEndorsementNullifiers THEN 1 ELSE 0

\* Every body ever served, by any process, was paid for with a spend of its
\* own: a retried or duplicated presentation never gets a second body, not
\* even from a process that has forgotten the nullifiers of the one before.
EveryBodyPaidFor == bodies = Cardinality({c \in released : c.gen > 0})

\* A nullifier is recorded only together with its refund: a rejected or late
\* presentation never burns a credential.
NoChargeWithoutRefund ==
    \A s \in seenSpendNullifiers :
        \E c \in released : c.key = run /\ Nullifier(c) = <<s[1], s[2], s[3] + 1>>

\* Of all the credentials an endorsement led to, at most one is still good.
OneLiveCredential == \A c, d \in Live : c.root = d.root => c = d

\* The live credential carries what is left of the grant, and that is never
\* negative and never more than the grant: no endorsement buys more service
\* than its initial credits, whatever its holder does.
BudgetKept ==
    /\ \A c \in Live : c.bal = outstanding[c.root]
    /\ \A e \in Roots : outstanding[e] \in 0 .. config.initial

\* How many presentations one initial grant pays for.
PresentationsPerGrant(cfg) ==
    IF cfg.initial < cfg.charge THEN 0
    ELSE ((cfg.initial - cfg.charge) \div (cfg.charge - cfg.refund)) + 1

\* The Moderator implements the ledger it cannot see.
LedgerOfAccounts == INSTANCE Ledger WITH
    Accounts <- Roots, Terms <- {cfg \in Configs : ValidConfig(cfg)},
    terms <- config, open <- seenEndorsementNullifiers, balance <- outstanding

ImplementsLedger == LedgerOfAccounts!Spec

\* "Redeemed IHAT nullifiers for the current epoch" (lib.rs:84): an
\* endorsement of one epoch is redeemed once, across restarts too.
RedeemedOncePerEpoch ==
    \A c, d \in released :
        c.gen = 0 /\ d.gen = 0 /\ c.root = d.root => c.key = d.key
=============================================================================
