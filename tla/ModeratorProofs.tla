-------------------------- MODULE ModeratorProofs --------------------------
(***************************************************************************)
(* Theorems about Moderator, for every set of endorsements, configurations *)
(* and concurrent handlers and any number of processes.                    *)
(*                                                                         *)
(* The argument.  No property mentions what a handler knows between        *)
(* verification and insert, so the invariant has to: TasksValid says that  *)
(* a verified request stays valid until its insert, because what it was    *)
(* verified against cannot change before the process ends.  The rest ties  *)
(* the credentials in circulation to the two nullifier sets in both        *)
(* directions: a credential of the current key has its endorsement marked  *)
(* (KeyedReleased) and its predecessor's nullifier recorded (SpentBefore); *)
(* a recorded nullifier has its replacement released                       *)
(* (NoChargeWithoutRefund).  Hence a won insert always yields a credential *)
(* that was not in circulation, and the one it replaces was the only live  *)
(* one of its endorsement.                                                 *)
(***************************************************************************)
EXTENDS Moderator, NaturalLemmas, TLAPS

\* A verified request is one the current process may still grant.
TaskValid(m) ==
    \/ m = NoTask
    \/ /\ m.op = "redeem"
       /\ m.e \in Endorsements
       /\ m.pre \in Pres
    \/ /\ m.op = "present"
       /\ m.spend.token \in released
       /\ m.spend.token.key = run
       /\ m.spend.charge = config.charge
       /\ m.spend.topup = 0
       /\ m.spend.token.bal >= config.charge

TasksValid ==
    /\ DOMAIN task = Workers
    /\ task = [w \in Workers |-> task[w]]
    /\ \A w \in Workers : TaskValid(task[w])

KeyedReleased ==
    \A c \in released :
        /\ c.key <= run
        /\ c.key = run => c.root \in seenEndorsementNullifiers

SpentBefore ==
    \A c \in released :
        c.key = run /\ c.gen > 0 => <<c.root, c.pre, c.gen - 1>> \in seenSpendNullifiers

Unopened ==
    \A e \in Roots : e \notin seenEndorsementNullifiers => outstanding[e] = 0

IndInv ==
    /\ TypeOK
    /\ TasksValid
    /\ KeyedReleased
    /\ SpentBefore
    /\ Unopened
    /\ IsFiniteSet(released)
    /\ IssuedExactlyOnce
    /\ EveryBodyPaidFor
    /\ NoChargeWithoutRefund
    /\ OneLiveCredential
    /\ BudgetKept

----------------------------------------------------------------------------
(* Lemmas about requests and credentials.                                  *)

\* What a formable request that verifies looks like: in particular a holder
\* can only present what was released to it, and prove what it can afford.
LEMMA ValidRequest ==
    ASSUME TypeOK, NEW m \in Requests, Valid(m)
    PROVE  (TaskValid(m) /\ m # NoTask) /\ m.op \in {"redeem", "present"}
<1> USE DEF Valid
<1>1. CASE m \in RedeemRequests
  BY <1>1 DEF RedeemRequests, RedeemRequest, TaskValid, NoTask
<1>2. CASE \E c \in released : m \in PresentRequests(c)
  <2>1. PICK c \in released : m \in PresentRequests(c)
    BY <1>2
  <2>2. PICK cfg \in Configs, a \in {b \in Configs : CanSpend(c, b.charge, 0)},
             form \in Forms :
          m = PresentRequest(c, Digest(CredentialChallenge(cfg, 0)), a.charge, 0, form)
    BY <2>1 DEF PresentRequests
  <2>3. /\ m.op = "present"
        /\ m.spend.token = c
        /\ m.spend.charge = a.charge
        /\ m.spend.topup = 0
    BY <2>2 DEF PresentRequest
  <2>4. PresentValid(m)
    BY <2>3
  <2>5. c.bal \in Int /\ config.charge \in Nat
    BY ModeratorAssumption DEF TypeOK, CredentialRecords
  <2>6. a.charge = config.charge
    BY <2>3, <2>4 DEF PresentValid
  <2>7. CanSpend(c, config.charge, 0)
    BY <2>6
  <2>8. c.bal >= config.charge
    BY <2>5, <2>7 DEF CanSpend
  <2> QED
    BY <2>3, <2>4, <2>8 DEF TaskValid, NoTask, PresentValid
<1> QED
  BY <1>1, <1>2 DEF Requests

\* The credential that Issue releases.
LEMMA IssuedType ==
    ASSUME TypeOK, NEW m, m.e \in Endorsements, m.pre \in Pres
    PROVE  /\ m.e.nf \in Roots
           /\ Issued(m) \in CredentialRecords
           /\ Issued(m).key = run
           /\ Issued(m).root = m.e.nf
           /\ Issued(m).gen = 0
           /\ Issued(m).bal = config.initial
BY ModeratorAssumption DEF TypeOK, Issued, Credential, CredentialRecords

\* The credential that Serve releases in place of the one presented.
LEMMA RefundedType ==
    ASSUME TypeOK, NEW m, m.spend.token \in released,
           m.spend.charge = config.charge, m.spend.topup = 0
    PROVE  LET c == m.spend.token
               d == Refunded(m)
           IN  /\ c.root \in Roots /\ c.pre \in Pres /\ c.gen \in Nat /\ c.bal \in Int
               /\ d \in CredentialRecords
               /\ d.key = c.key /\ d.root = c.root /\ d.pre = c.pre
               /\ d.gen = c.gen + 1
               /\ d.bal = c.bal - config.charge + config.refund
<1> DEFINE c == m.spend.token
<1>1. c \in CredentialRecords
  BY DEF TypeOK
<1>2. config.charge \in Nat /\ config.refund \in Nat
  BY ModeratorAssumption DEF TypeOK
<1> DEFINE d == [c EXCEPT !.gen = c.gen + 1,
                          !.bal = c.bal - config.charge + 0 + config.refund]
<1>3. Refunded(m) = d
  BY DEF Refunded, Replacement
<1>4. c.root \in Roots /\ c.pre \in Pres /\ c.gen \in Nat /\ c.bal \in Int
  BY <1>1 DEF CredentialRecords
<1>5. /\ c.gen + 1 \in Nat
      /\ c.bal - config.charge + 0 + config.refund \in Int
      /\ c.bal - config.charge + 0 + config.refund
           = c.bal - config.charge + config.refund
  BY <1>2, <1>4
<1>6. d \in CredentialRecords
  BY <1>1, <1>5 DEF CredentialRecords
<1>7. /\ d.key = c.key /\ d.root = c.root /\ d.pre = c.pre
      /\ d.gen = c.gen + 1
      /\ d.bal = c.bal - config.charge + 0 + config.refund
  BY <1>1 DEF CredentialRecords
<1> QED
  BY <1>3, <1>4, <1>5, <1>6, <1>7

----------------------------------------------------------------------------
(* The invariant holds initially.                                          *)

LEMMA InitInd == Init => IndInv
<1> SUFFICES ASSUME Init PROVE IndInv
  OBVIOUS
<1> USE DEF Init
<1>1. TypeOK
  BY KeyAssumption, ModeratorAssumption DEF TypeOK, Runs, NoTask
<1>2. TasksValid
  BY DEF TasksValid, TaskValid
<1>3. EveryBodyPaidFor /\ IsFiniteSet(released)
  <2>1. {c \in released : c.gen > 0} = {}
    OBVIOUS
  <2> QED
    BY <2>1, FS_EmptySet DEF EveryBodyPaidFor
<1>4. BudgetKept
  BY ModeratorAssumption DEF BudgetKept, Live
<1> QED
  BY <1>1, <1>2, <1>3, <1>4 DEF IndInv, KeyedReleased, SpentBefore, Unopened,
     IssuedExactlyOnce, NoChargeWithoutRefund, OneLiveCredential, Live

----------------------------------------------------------------------------
(* Every action preserves the invariant: one lemma each.                   *)

LEMMA VerifyInd ==
    ASSUME IndInv, NEW w \in Workers, NEW m \in Requests, Verify(w, m)
    PROVE  IndInv'
<1> USE DEF Verify, IndInv
<1>1. (TaskValid(m) /\ m # NoTask) /\ m.op \in {"redeem", "present"}
  BY ValidRequest
<1>2. /\ task' \in [Workers -> {task'[v] : v \in Workers}]
      /\ \A v \in Workers : task'[v] = IF v = w THEN m ELSE task[v]
  BY DEF TasksValid
<1>3. TypeOK'
  BY <1>1, <1>2 DEF TypeOK
<1>4. TasksValid'
  BY <1>1, <1>2 DEF TasksValid, TaskValid
<1> QED
  BY <1>3, <1>4 DEF KeyedReleased, SpentBefore, Unopened, IssuedExactlyOnce,
     EveryBodyPaidFor, NoChargeWithoutRefund, OneLiveCredential, BudgetKept, Live

LEMMA LoseInd ==
    ASSUME IndInv, NEW w \in Workers, Lose(w)
    PROVE  IndInv'
<1> USE DEF Lose, IndInv
<1>1. /\ task' \in [Workers -> {task'[v] : v \in Workers}]
      /\ \A v \in Workers : task'[v] = IF v = w THEN NoTask ELSE task[v]
  BY DEF TasksValid
<1>2. TypeOK'
  BY <1>1 DEF TypeOK
<1>3. TasksValid'
  BY <1>1 DEF TasksValid, TaskValid
<1> QED
  BY <1>2, <1>3 DEF KeyedReleased, SpentBefore, Unopened, IssuedExactlyOnce,
     EveryBodyPaidFor, NoChargeWithoutRefund, OneLiveCredential, BudgetKept, Live

\* Issue: the endorsement had led to nothing under this key, so the new
\* credential is its only one.
LEMMA IssueInd ==
    ASSUME IndInv, NEW w \in Workers, Issue(w)
    PROVE  IndInv'
<1> DEFINE m == task[w]
           n == Issued(m)
<1>1. m.op = "redeem" /\ m.e \in Endorsements /\ m.pre \in Pres
  BY DEF IndInv, TasksValid, TaskValid, Issue, NoTask
<1>2. /\ m.e.nf \in Roots
      /\ n \in CredentialRecords
      /\ n.key = run
      /\ n.root = m.e.nf
      /\ n.gen = 0
      /\ n.bal = config.initial
  BY <1>1, IssuedType DEF IndInv
<1>3. /\ m.e.nf \notin seenEndorsementNullifiers
      /\ seenEndorsementNullifiers' = seenEndorsementNullifiers \union {m.e.nf}
      /\ released' = released \union {n}
      /\ issues' = [issues EXCEPT ![m.e.nf] = @ + 1]
      /\ outstanding' = [outstanding EXCEPT ![m.e.nf] = @ + config.initial]
      /\ UNCHANGED <<run, config, seenSpendNullifiers, bodies>>
  BY DEF Issue
<1>4. /\ task' \in [Workers -> {task'[v] : v \in Workers}]
      /\ \A v \in Workers : task'[v] = IF v = w THEN NoTask ELSE task[v]
  BY DEF TasksValid, Issue, IndInv
<1> HIDE DEF m, n
<1>5. run \in Nat /\ config.initial \in Nat
  BY KeyAssumption, ModeratorAssumption DEF IndInv, TypeOK, Runs
<1>6. outstanding[m.e.nf] = 0 /\ issues[m.e.nf] = 0
  BY <1>2, <1>3 DEF IndInv, Unopened, IssuedExactlyOnce
<1>7. TypeOK'
  <2>1. issues' \in [Roots -> Nat] /\ outstanding' \in [Roots -> Int]
    BY <1>2, <1>3, <1>5, <1>6 DEF IndInv, TypeOK
  <2>2. \A v \in Workers : task'[v] # NoTask => task'[v].op \in {"redeem", "present"}
    BY <1>4 DEF IndInv, TypeOK
  <2> QED
    BY <1>2, <1>3, <2>1, <2>2 DEF IndInv, TypeOK
<1>8. TasksValid'
  BY <1>3, <1>4 DEF IndInv, TasksValid, TaskValid
<1>9. KeyedReleased'
  BY <1>2, <1>3, <1>5 DEF IndInv, KeyedReleased
<1>10. SpentBefore'
  BY <1>2, <1>3 DEF IndInv, SpentBefore
<1>11. Unopened' /\ IssuedExactlyOnce'
  BY <1>2, <1>3, <1>6 DEF IndInv, TypeOK, Unopened, IssuedExactlyOnce
<1>12. IsFiniteSet(released)'
  BY <1>3, FS_AddElement DEF IndInv
<1>13. EveryBodyPaidFor'
  <2>1. {c \in released' : c.gen > 0} = {c \in released : c.gen > 0}
    BY <1>2, <1>3
  <2> QED
    BY <1>3, <2>1 DEF IndInv, EveryBodyPaidFor
<1>14. NoChargeWithoutRefund'
  BY <1>3 DEF IndInv, NoChargeWithoutRefund
<1>15. \A c \in Live : c.root # m.e.nf
  BY <1>3 DEF IndInv, KeyedReleased, Live
<1>16. Live' \subseteq Live \union {n}
  BY <1>3 DEF Live
<1>17. OneLiveCredential'
  BY <1>2, <1>15, <1>16 DEF IndInv, OneLiveCredential
<1>18. BudgetKept'
  <2>1. \A e \in Roots : outstanding'[e] = IF e = m.e.nf THEN config.initial
                                           ELSE outstanding[e]
    BY <1>2, <1>3, <1>5, <1>6 DEF IndInv, TypeOK
  <2>2. \A c \in Live : c.root \in Roots
    BY DEF IndInv, TypeOK, Live, CredentialRecords
  <2> QED
    BY <1>2, <1>3, <1>5, <1>15, <1>16, <2>1, <2>2 DEF IndInv, BudgetKept
<1> QED
  BY <1>7, <1>8, <1>9, <1>10, <1>11, <1>12, <1>13, <1>14, <1>17, <1>18 DEF IndInv

\* Serve: the credential presented was live, the only live one of its
\* endorsement, and its replacement was not in circulation before.
LEMMA ServeInd ==
    ASSUME IndInv, NEW w \in Workers, Serve(w)
    PROVE  IndInv'
<1> DEFINE m == task[w]
           c == m.spend.token
           d == Refunded(m)
<1>1. /\ c \in released
      /\ c.key = run
      /\ m.spend.charge = config.charge
      /\ m.spend.topup = 0
      /\ c.bal >= config.charge
  BY DEF IndInv, TasksValid, TaskValid, Serve, NoTask
<1>2. /\ c.root \in Roots /\ c.pre \in Pres /\ c.gen \in Nat /\ c.bal \in Int
      /\ d \in CredentialRecords
      /\ d.key = c.key /\ d.root = c.root /\ d.pre = c.pre
      /\ d.gen = c.gen + 1
      /\ d.bal = c.bal - config.charge + config.refund
  BY <1>1, RefundedType DEF IndInv
<1>3. /\ Nullifier(c) \notin seenSpendNullifiers
      /\ seenSpendNullifiers' = seenSpendNullifiers \union {Nullifier(c)}
      /\ released' = released \union {d}
      /\ outstanding' = [outstanding EXCEPT ![c.root] =
                            @ - config.charge + config.refund]
      /\ bodies' = bodies + 1
      /\ UNCHANGED <<run, config, seenEndorsementNullifiers, issues>>
  BY DEF Serve
<1>4. /\ task' \in [Workers -> {task'[v] : v \in Workers}]
      /\ \A v \in Workers : task'[v] = IF v = w THEN NoTask ELSE task[v]
  BY DEF TasksValid, Serve, IndInv
<1> HIDE DEF m, c, d
<1>5. /\ run \in Nat
      /\ config.initial \in Nat /\ config.charge \in Nat /\ config.refund \in Nat
      /\ config.refund <= config.charge
  BY KeyAssumption, ModeratorAssumption DEF IndInv, TypeOK, Runs, ValidConfig
<1>6. c \in Live
  BY <1>1, <1>3 DEF Live
<1>7. outstanding[c.root] = c.bal /\ c.bal <= config.initial
  BY <1>2, <1>5, <1>6 DEF IndInv, BudgetKept
<1>8. Nullifier(c) \in Roots \X Pres \X Nat
  BY <1>2 DEF Nullifier
<1>9. TypeOK'
  <2>1. outstanding' \in [Roots -> Int]
    BY <1>2, <1>3, <1>5 DEF IndInv, TypeOK
  <2>2. \A v \in Workers : task'[v] # NoTask => task'[v].op \in {"redeem", "present"}
    BY <1>4 DEF IndInv, TypeOK
  <2> QED
    BY <1>2, <1>3, <1>8, <2>1, <2>2 DEF IndInv, TypeOK
<1>10. TasksValid'
  BY <1>3, <1>4 DEF IndInv, TasksValid, TaskValid
<1>11. KeyedReleased'
  BY <1>1, <1>2, <1>3, <1>5 DEF IndInv, KeyedReleased
<1>12. SpentBefore'
  <2>1. <<d.root, d.pre, d.gen - 1>> = Nullifier(c)
    BY <1>2 DEF Nullifier
  <2> QED
    BY <1>3, <2>1 DEF IndInv, SpentBefore
<1>13. Unopened' /\ IssuedExactlyOnce'
  BY <1>1, <1>2, <1>3 DEF IndInv, TypeOK, KeyedReleased, Unopened, IssuedExactlyOnce
<1>14. IsFiniteSet(released)'
  BY <1>3, FS_AddElement DEF IndInv
<1>15. EveryBodyPaidFor'
  <2> DEFINE P == {b \in released : b.gen > 0}
  <2>1. d \notin released
    <3>1. <<d.root, d.pre, d.gen - 1>> = Nullifier(c)
      BY <1>2 DEF Nullifier
    <3> QED
      BY <1>1, <1>2, <1>3, <3>1 DEF IndInv, SpentBefore
  <2>2. {b \in released' : b.gen > 0} = P \union {d}
    BY <1>2, <1>3
  <2>3. IsFiniteSet(P)
    BY FS_Subset DEF IndInv
  <2>4. Cardinality(P \union {d}) = Cardinality(P) + 1
    BY <2>1, <2>3, FS_AddElement
  <2> QED
    BY <1>3, <2>2, <2>4 DEF IndInv, EveryBodyPaidFor
<1>16. NoChargeWithoutRefund'
  <2>1. SUFFICES ASSUME NEW s \in seenSpendNullifiers'
                 PROVE  \E b \in released' :
                            b.key = run' /\ Nullifier(b) = <<s[1], s[2], s[3] + 1>>
    BY DEF NoChargeWithoutRefund
  <2>2. CASE s = Nullifier(c)
    BY <1>1, <1>2, <1>3, <2>2 DEF Nullifier
  <2>3. CASE s \in seenSpendNullifiers
    BY <1>3, <2>3 DEF IndInv, NoChargeWithoutRefund
  <2> QED
    BY <1>3, <2>2, <2>3
<1>17. \A b \in Live : b.root = c.root => b = c
  BY <1>6 DEF IndInv, OneLiveCredential
<1>18. Live' \subseteq (Live \ {c}) \union {d}
  BY <1>3 DEF Live
<1>19. OneLiveCredential'
  BY <1>2, <1>17, <1>18 DEF IndInv, OneLiveCredential
<1>20. BudgetKept'
  <2>1. \A e \in Roots : outstanding'[e] = IF e = c.root THEN d.bal ELSE outstanding[e]
    BY <1>2, <1>3, <1>7 DEF IndInv, TypeOK
  <2>2. \A b \in Live : b.root \in Roots
    BY DEF IndInv, TypeOK, Live, CredentialRecords
  <2>3. d.bal \in 0 .. config.initial
    BY <1>1, <1>2, <1>5, <1>7
  <2>4. \A b \in Live' : b.bal = outstanding'[b.root]
    BY <1>2, <1>17, <1>18, <2>1, <2>2 DEF IndInv, BudgetKept
  <2>5. \A e \in Roots : outstanding'[e] \in 0 .. config.initial
    BY <2>1, <2>3 DEF IndInv, BudgetKept
  <2> QED
    BY <1>3, <2>4, <2>5 DEF BudgetKept
<1> QED
  BY <1>9, <1>10, <1>11, <1>12, <1>13, <1>14, <1>15, <1>16, <1>19, <1>20 DEF IndInv

\* Restart: every credential in circulation has become a stranger's.
LEMMA RestartInd ==
    ASSUME IndInv, NEW cfg \in Configs, Restart(cfg)
    PROVE  IndInv'
<1> USE DEF Restart
<1>1. /\ run \in Nat /\ run' = run + 1 /\ run' \in Runs
      /\ cfg.initial \in Nat
  BY KeyAssumption, ModeratorAssumption DEF IndInv, TypeOK, Runs
<1>2. TypeOK'
  BY <1>1 DEF IndInv, TypeOK
<1>3. TasksValid'
  BY DEF TasksValid, TaskValid
<1>4. \A c \in released : c.key \in Int /\ c.key < run'
  BY <1>1 DEF IndInv, TypeOK, KeyedReleased, CredentialRecords, Runs
<1>5. KeyedReleased' /\ SpentBefore'
  BY <1>1, <1>4 DEF KeyedReleased, SpentBefore
<1>6. Live' = {}
  BY <1>1, <1>4 DEF Live
<1>7. OneLiveCredential' /\ BudgetKept'
  BY <1>1, <1>6 DEF OneLiveCredential, BudgetKept
<1> QED
  BY <1>2, <1>3, <1>5, <1>7 DEF IndInv, Unopened, IssuedExactlyOnce,
     EveryBodyPaidFor, NoChargeWithoutRefund

LEMMA StepInd == IndInv /\ [Next]_vars => IndInv'
<1> SUFFICES ASSUME IndInv, [Next]_vars PROVE IndInv'
  OBVIOUS
<1>1. CASE UNCHANGED vars
  BY <1>1 DEF vars, IndInv, TypeOK, TasksValid, TaskValid, KeyedReleased,
     SpentBefore, Unopened, IssuedExactlyOnce, EveryBodyPaidFor,
     NoChargeWithoutRefund, OneLiveCredential, BudgetKept, Live
<1>2. ASSUME NEW m \in Requests, Refuse(m) PROVE IndInv'
  BY <1>1, <1>2 DEF Refuse
<1>3. ASSUME NEW w \in Workers, Issue(w) \/ Serve(w) \/ Lose(w) PROVE IndInv'
  BY <1>3, IssueInd, ServeInd, LoseInd
<1> QED
  BY <1>1, <1>2, <1>3, VerifyInd, RestartInd DEF Next

----------------------------------------------------------------------------
(* The theorems.                                                           *)

THEOREM Invariance == Spec => []IndInv
BY InitInd, StepInd, PTL DEF Spec

\* The Moderator's state always has its type: in particular it never serves
\* a configuration that ModeratorState::new refuses.
THEOREM TypeCorrect == Spec => []TypeOK
BY Invariance, PTL DEF IndInv

\* Concurrent and repeated redemptions of one endorsement release exactly one
\* issuance response, and a marked endorsement has released it.
THEOREM SingleIssuance == Spec => []IssuedExactlyOnce
BY Invariance, PTL DEF IndInv

\* However presentations are repeated, raced and carried over a restart, the
\* bodies served are as many as the spends that paid for them.
THEOREM NoFreeBody == Spec => []EveryBodyPaidFor
BY Invariance, PTL DEF IndInv

\* A spend nullifier is recorded only with the refund released for it.
THEOREM NoLostCharge == Spec => []NoChargeWithoutRefund
BY Invariance, PTL DEF IndInv

\* One endorsement never leads to two credentials the Moderator would accept.
THEOREM SingleCredential == Spec => []OneLiveCredential
BY Invariance, PTL DEF IndInv

\* No endorsement is ever overdrawn, or credited beyond its initial grant.
THEOREM BudgetNeverExceeded == Spec => []BudgetKept
BY Invariance, PTL DEF IndInv

----------------------------------------------------------------------------
(* What a grant pays for.                                                  *)

\* A credential of the current process carries the grant less the price, as
\* often as it has been presented, and each time it could pay.
PricePaid ==
    \A c \in released : c.key = run =>
        /\ c.bal = config.initial - c.gen * (config.charge - config.refund)
        /\ c.gen > 0 =>
               config.charge <= config.initial
                                    - (c.gen - 1) * (config.charge - config.refund)

LEMMA PricePaidInd == IndInv /\ IndInv' /\ PricePaid /\ [Next]_vars => PricePaid'
<1> SUFFICES ASSUME IndInv, IndInv', PricePaid, [Next]_vars PROVE PricePaid'
  OBVIOUS
<1>1. /\ config.initial \in Nat /\ config.charge \in Nat /\ config.refund \in Nat
      /\ run \in Nat
  BY KeyAssumption, ModeratorAssumption DEF IndInv, TypeOK, Runs
<1>2. CASE UNCHANGED <<run, config, released>>
  BY <1>2 DEF PricePaid
<1>3. ASSUME NEW w \in Workers, Issue(w) PROVE PricePaid'
  <2> DEFINE n == Issued(task[w])
  <2>1. released' = released \union {n} /\ UNCHANGED <<run, config>>
    BY <1>3 DEF Issue
  <2>2. n.gen = 0 /\ n.bal = config.initial
    BY DEF Issued, Credential
  <2>3. n.bal = config.initial - n.gen * (config.charge - config.refund)
    BY <1>1, <2>2
  <2> HIDE DEF n
  <2> QED
    BY <2>1, <2>2, <2>3 DEF PricePaid
<1>4. ASSUME NEW w \in Workers, Serve(w) PROVE PricePaid'
  <2> DEFINE m == task[w]
             c == m.spend.token
             d == Refunded(m)
  <2>1. released' = released \union {d} /\ UNCHANGED <<run, config>>
    BY <1>4 DEF Serve
  <2>2. /\ c \in released /\ c.key = run /\ m.spend.charge = config.charge
        /\ m.spend.topup = 0 /\ c.bal >= config.charge
    BY <1>4 DEF IndInv, TasksValid, TaskValid, Serve, NoTask
  <2>3. /\ c.gen \in Nat /\ d.gen = c.gen + 1
        /\ d.bal = c.bal - config.charge + config.refund
    BY <2>2, RefundedType DEF IndInv
  <2> HIDE DEF m, c, d
  <2>4. PICK p \in Int : p = config.charge - config.refund
    BY <1>1
  <2>5. c.bal = config.initial - c.gen * p
    BY <2>2, <2>4 DEF PricePaid
  <2>6. (c.gen + 1) * p = c.gen * p + p /\ d.gen - 1 = c.gen
    <3>1. PICK g \in Nat : g = c.gen
      BY <2>3
    <3>2. (g + 1) * p = g * p + p /\ g + 1 - 1 = g
      OBVIOUS
    <3> QED
      BY <2>3, <3>1, <3>2
  <2>7. /\ d.bal = config.initial - d.gen * p
        /\ config.charge <= config.initial - (d.gen - 1) * p
    BY <1>1, <2>2, <2>3, <2>4, <2>5, <2>6
  <2> QED
    BY <2>1, <2>4, <2>7 DEF PricePaid
<1>5. ASSUME NEW cfg \in Configs, Restart(cfg) PROVE PricePaid'
  <2>1. \A c \in released : c.key \in Int /\ c.key <= run
    BY DEF IndInv, TypeOK, KeyedReleased, CredentialRecords, Runs
  <2> QED
    BY <1>1, <1>5, <2>1 DEF Restart, PricePaid
<1> QED
  BY <1>2, <1>3, <1>4, <1>5 DEF Next, vars, Refuse, Verify, Lose

LEMMA PriceIsPaid == Spec => []PricePaid
<1>1. Init => PricePaid
  BY DEF Init, PricePaid
<1> QED
  BY <1>1, Invariance, PricePaidInd, PTL DEF Spec

\* Where a presentation costs anything, no credential is replaced more often
\* than its initial grant pays for, by any handlers and in any order.
PresentedWithinGrant ==
    config.refund < config.charge =>
        \A c \in released : c.key = run => c.gen <= PresentationsPerGrant(config)

LEMMA PriceBounds == IndInv /\ PricePaid => PresentedWithinGrant
<1> SUFFICES ASSUME IndInv, PricePaid, config.refund < config.charge,
                    NEW c \in released, c.key = run
             PROVE  c.gen <= PresentationsPerGrant(config)
  BY DEF PresentedWithinGrant
<1>1. /\ config.initial \in Nat /\ config.charge \in Nat /\ config.refund \in Nat
      /\ c.gen \in Nat
  BY ModeratorAssumption DEF IndInv, TypeOK, CredentialRecords
<1>2. PICK p \in Nat : p = config.charge - config.refund /\ p > 0
  BY <1>1
<1>3. c.gen > 0 => config.charge <= config.initial - (c.gen - 1) * p
  BY <1>2 DEF PricePaid
<1>4. CASE config.initial < config.charge
  <2>1. c.gen > 0 => (c.gen - 1) * p >= 0
    BY <1>1, <1>2
  <2>2. ~(c.gen > 0)
    BY <1>1, <1>3, <1>4, <2>1
  <2> QED
    BY <1>1, <1>4, <2>2 DEF PresentationsPerGrant
<1>5. CASE config.initial >= config.charge
  <2> DEFINE a == config.initial - config.charge
  <2>1. a \in Nat /\ a \div p \in Nat
    BY <1>1, <1>2, <1>5
  <2>2. PresentationsPerGrant(config) = (a \div p) + 1
    BY <1>1, <1>2, <1>5 DEF PresentationsPerGrant
  <2>3. CASE c.gen = 0
    BY <2>1, <2>2, <2>3
  <2>4. CASE c.gen > 0
    <3>1. (c.gen - 1) * p <= a
      BY <1>1, <1>2, <1>3, <2>4
    <3>2. c.gen - 1 <= a \div p
      BY <1>1, <1>2, <2>1, <3>1, QuotientBound
    <3> QED
      BY <1>1, <2>1, <2>2, <3>2
  <2> QED
    BY <1>1, <2>3, <2>4
<1> QED
  BY <1>1, <1>4, <1>5

\* However presentations are raced, repeated and interleaved with restarts, a
\* grant is worth a number of presentations that its amounts fix beforehand.
THEOREM ServicePerGrant == Spec => []PresentedWithinGrant
BY Invariance, PriceIsPaid, PriceBounds, PTL

----------------------------------------------------------------------------
(* The ledger.                                                             *)

LEMMA LedgerInit == Init => LedgerOfAccounts!Init
BY DEF Init, LedgerOfAccounts!Init

\* Issue opens an account, Serve serves one, Restart renews the terms, and
\* everything else is invisible in the ledger.
LEMMA LedgerStep ==
    IndInv /\ [Next]_vars => [LedgerOfAccounts!Next]_(LedgerOfAccounts!vars)
<1> SUFFICES ASSUME IndInv, [Next]_vars
             PROVE  [LedgerOfAccounts!Next]_(LedgerOfAccounts!vars)
  OBVIOUS
<1> USE DEF LedgerOfAccounts!vars
<1>1. ASSUME NEW w \in Workers, Issue(w)
      PROVE  LedgerOfAccounts!Next
  <2> DEFINE e == task[w].e.nf
  <2>1. e \in Roots /\ outstanding[e] = 0
    <3>1. task[w].e \in Endorsements
      BY <1>1 DEF IndInv, TasksValid, TaskValid, Issue, NoTask
    <3> QED
      BY <1>1, <3>1, ModeratorAssumption DEF IndInv, Unopened, Issue
  <2>2. outstanding[e] + config.initial = config.initial
    BY <2>1, ModeratorAssumption DEF IndInv, TypeOK
  <2>3. outstanding' = [outstanding EXCEPT ![e] = config.initial]
    BY <1>1, <2>2 DEF Issue
  <2>4. LedgerOfAccounts!Open(e)
    BY <1>1, <2>3 DEF Issue, LedgerOfAccounts!Open
  <2> QED
    BY <2>1, <2>4 DEF LedgerOfAccounts!Next
<1>2. ASSUME NEW w \in Workers, Serve(w)
      PROVE  LedgerOfAccounts!Next
  <2> DEFINE c == task[w].spend.token
  <2>1. c \in released /\ c.key = run /\ c.bal >= config.charge
    BY <1>2 DEF IndInv, TasksValid, TaskValid, Serve, NoTask
  <2>2. c.root \in Roots /\ c.root \in seenEndorsementNullifiers
    BY <2>1 DEF IndInv, TypeOK, CredentialRecords, KeyedReleased
  <2>3. c \in Live
    BY <1>2, <2>1 DEF Live, Serve
  <2>4. outstanding[c.root] >= config.charge
    BY <2>1, <2>3 DEF IndInv, BudgetKept
  <2>5. LedgerOfAccounts!Serve(c.root)
    BY <1>2, <2>2, <2>4 DEF Serve, LedgerOfAccounts!Serve
  <2> QED
    BY <2>2, <2>5 DEF LedgerOfAccounts!Next
<1>3. ASSUME NEW cfg \in Configs, Restart(cfg)
      PROVE  LedgerOfAccounts!Next
  <2>1. LedgerOfAccounts!Renew
    BY <1>3 DEF Restart, LedgerOfAccounts!Renew
  <2> QED
    BY <2>1 DEF LedgerOfAccounts!Next
<1>4. ASSUME NEW w \in Workers, NEW m \in Requests, Verify(w, m)
      PROVE  UNCHANGED LedgerOfAccounts!vars
  BY <1>4 DEF Verify
<1>5. ASSUME NEW w \in Workers, Lose(w)
      PROVE  UNCHANGED LedgerOfAccounts!vars
  BY <1>5 DEF Lose
<1>6. CASE (\E m \in Requests : Refuse(m)) \/ UNCHANGED vars
  BY <1>6 DEF Refuse, vars
<1> QED
  BY <1>1, <1>2, <1>3, <1>4, <1>5, <1>6 DEF Next

\* Unlinkable requests over two nullifier sets implement an account book.
THEOREM Refinement == Spec => ImplementsLedger
BY Invariance, LedgerInit, LedgerStep, PTL
   DEF Spec, ImplementsLedger, LedgerOfAccounts!Spec
=============================================================================
