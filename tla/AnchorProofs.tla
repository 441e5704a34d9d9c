---------------------------- MODULE AnchorProofs ----------------------------
(***************************************************************************)
(* Theorems about Anchor, for every limit, any number of users, handlers,  *)
(* epochs and processes.                                                   *)
(*                                                                         *)
(* The limit holds because a count is a reservation: it is taken under the *)
(* lock before the signature exists, so signatures given plus handlers     *)
(* that may still give one never exceed it (LimitKept is its own           *)
(* induction hypothesis, with the sets it counts finite).  A session is    *)
(* answered once because taking it out of the map is what entitles a       *)
(* handler to answer: PendingUnused is the invariant, ProvedOnce follows.  *)
(***************************************************************************)
EXTENDS Anchor, NaturalLemmas, TLAPS

HandlersOK ==
    /\ handler = [h \in Handlers |-> handler[h]]
    /\ \A h \in Handlers :
           \/ handler[h] = Idle
           \/ /\ handler[h].step = 1
              /\ handler[h].user \in Users
              /\ handler[h].ctx \in Contexts
              /\ handler[h].blind \in Blinds

\* No key of the future has signed, and the current one only here and now.
SignedHere ==
    \A i \in DOMAIN signatures :
        /\ signatures[i].key <= anchorKey
        /\ signatures[i].key = anchorKey => signatures[i].ctx = context

IndInv ==
    /\ TypeOK
    /\ HandlersOK
    /\ SignedHere
    /\ OneEpochPerKey
    /\ PendingUnused
    /\ ProvedOnce
    /\ LimitKept

----------------------------------------------------------------------------

LEMMA InitInd == Init => IndInv
<1> SUFFICES ASSUME Init PROVE IndInv
  OBVIOUS
<1> USE DEF Init
<1>1. TypeOK
  BY AnchorAssumption DEF TypeOK, AnchorRuns
<1>2. LimitKept
  <2>1. SUFFICES ASSUME NEW u \in Users
                 PROVE  Cardinality(SignedFor(u)) + Cardinality(BeingSignedFor(u)) <= 0
    BY DEF LimitKept
  <2>2. SignedFor(u) = {} /\ BeingSignedFor(u) = {}
    BY DEF SignedFor, BeingSignedFor
  <2> QED
    BY <2>2, FS_EmptySet
<1> QED
  BY <1>1, <1>2 DEF IndInv, HandlersOK, SignedHere, OneEpochPerKey, PendingUnused,
     ProvedOnce

\* The sets that LimitKept counts.
LEMMA CountedFinite ==
    ASSUME TypeOK, NEW u
    PROVE  /\ IsFiniteSet(SignedFor(u))
           /\ IsFiniteSet(BeingSignedFor(u))
           /\ Cardinality(SignedFor(u)) \in Nat
           /\ Cardinality(BeingSignedFor(u)) \in Nat
<1>1. DOMAIN signatures = 1 .. Len(signatures) /\ Len(signatures) \in Nat
  BY DEF TypeOK
<1>2. IsFiniteSet(1 .. Len(signatures))
  BY <1>1, FS_Interval
<1>3. IsFiniteSet(SignedFor(u))
  BY <1>1, <1>2, FS_Subset DEF SignedFor
<1>4. IsFiniteSet(BeingSignedFor(u))
  BY AnchorAssumption, FS_Subset DEF BeingSignedFor
<1> QED
  BY <1>3, <1>4, FS_CardinalityType

\* Counting is a reservation: one more counted, one more being signed.
LEMMA CountInd ==
    ASSUME IndInv, NEW h \in Handlers, NEW m \in Step1Requests, Count(h, m)
    PROVE  IndInv'
<1> DEFINE u == m.user
<1>1. m.step = 1 /\ u \in Users /\ m.ctx \in Contexts /\ m.blind \in Blinds
  BY DEF Step1Requests, Step1, Count
<1>2. m # Idle
  BY <1>1 DEF Idle
<1>3. /\ handler[h] = Idle
      /\ grants[u] < GrantsPerEpoch
      /\ grants' = [grants EXCEPT ![u] = @ + 1]
      /\ handler' = [handler EXCEPT ![h] = m]
      /\ UNCHANGED <<anchorKey, context, sessions, signatures>>
  BY DEF Count
<1>4. /\ handler' = [g \in Handlers |-> handler'[g]]
      /\ \A g \in Handlers : handler'[g] = IF g = h THEN m ELSE handler[g]
  BY <1>3 DEF IndInv, HandlersOK
<1>5. \A v \in Users : grants'[v] = IF v = u THEN grants[v] + 1 ELSE grants[v]
  BY <1>1, <1>3 DEF IndInv, TypeOK
<1>6. TypeOK'
  <2>1. grants' \in [Users -> 0 .. GrantsPerEpoch]
    BY <1>1, <1>3, AnchorAssumption DEF IndInv, TypeOK
  <2> QED
    BY <1>1, <1>3, <1>4, <2>1 DEF IndInv, TypeOK
<1>7. HandlersOK'
  BY <1>1, <1>3, <1>4 DEF IndInv, HandlersOK
<1>8. LimitKept'
  <2>1. SUFFICES ASSUME NEW v \in Users
                 PROVE  Cardinality(SignedFor(v)') + Cardinality(BeingSignedFor(v)')
                           <= grants'[v]
    BY DEF LimitKept
  <2>2. SignedFor(v)' = SignedFor(v)
    BY <1>3 DEF SignedFor
  <2>3. /\ IsFiniteSet(BeingSignedFor(v))
        /\ Cardinality(SignedFor(v)) \in Nat
        /\ Cardinality(BeingSignedFor(v)) \in Nat
        /\ Cardinality(SignedFor(v)) + Cardinality(BeingSignedFor(v)) <= grants[v]
        /\ grants[v] \in Int
    BY CountedFinite DEF IndInv, LimitKept, TypeOK
  <2>4. CASE v = u
    <3>1. BeingSignedFor(v)' = BeingSignedFor(v) \union {h}
      BY <1>2, <1>4, <2>4 DEF BeingSignedFor
    <3>2. h \notin BeingSignedFor(v)
      BY <1>3 DEF BeingSignedFor
    <3>3. Cardinality(BeingSignedFor(v)') = Cardinality(BeingSignedFor(v)) + 1
      BY <2>3, <3>1, <3>2, FS_AddElement
    <3> QED
      BY <1>5, <2>2, <2>3, <2>4, <3>3
  <2>5. CASE v # u
    <3>1. BeingSignedFor(v)' = BeingSignedFor(v)
      BY <1>3, <1>4, <2>5 DEF BeingSignedFor
    <3> QED
      BY <1>5, <2>2, <2>3, <2>5, <3>1
  <2> QED
    BY <2>4, <2>5
<1> QED
  BY <1>3, <1>6, <1>7, <1>8 DEF IndInv, SignedHere, OneEpochPerKey, PendingUnused,
     ProvedOnce

\* Signing uses the reservation up: from being signed to signed.
LEMMA SignInd ==
    ASSUME IndInv, NEW h \in Handlers, Sign(h)
    PROVE  IndInv'
<1> DEFINE u == handler[h].user
           n == Len(signatures)
           s == [user |-> u, key |-> anchorKey, ctx |-> handler[h].ctx,
                 blind |-> handler[h].blind, proofs |-> 0]
<1>1. /\ handler[h] # Idle
      /\ handler[h].ctx = context
      /\ signatures' = Append(signatures, s)
      /\ sessions' = sessions \union {n + 1}
      /\ handler' = [handler EXCEPT ![h] = Idle]
      /\ UNCHANGED <<anchorKey, context, grants>>
  BY DEF Sign, Signable
<1>2. s \in SignatureRecords
  BY <1>1 DEF SignatureRecords, IndInv, TypeOK, HandlersOK
<1>3. /\ n \in Nat /\ DOMAIN signatures = 1 .. n
      /\ signatures' \in Seq(SignatureRecords)
      /\ DOMAIN signatures' = 1 .. n + 1
      /\ signatures'[n + 1] = s
      /\ \A i \in 1 .. n : signatures'[i] = signatures[i]
  BY <1>1, <1>2 DEF IndInv, TypeOK
<1>4. /\ handler' = [g \in Handlers |-> handler'[g]]
      /\ \A g \in Handlers : handler'[g] = IF g = h THEN Idle ELSE handler[g]
  BY <1>1 DEF IndInv, HandlersOK
<1>5. s.user = u /\ s.key = anchorKey /\ s.ctx = context /\ s.proofs = 0
  BY <1>1
<1> HIDE DEF s, n
<1>6. TypeOK'
  BY <1>1, <1>3, <1>4 DEF IndInv, TypeOK
<1>7. HandlersOK'
  BY <1>1, <1>4 DEF IndInv, HandlersOK
<1>8. anchorKey \in Nat /\ \A i \in 1 .. n : signatures[i].key \in Nat
  <2>1. \A i \in 1 .. n : signatures[i] \in SignatureRecords
    BY <1>3 DEF IndInv, TypeOK
  <2>2. \A k \in AnchorRuns : k \in Nat
    BY AnchorAssumption DEF AnchorRuns
  <2> QED
    BY <2>1, <2>2 DEF IndInv, TypeOK, SignatureRecords
<1>9. \A i \in 1 .. n + 1 : i \in 1 .. n \/ i = n + 1
  BY <1>3
<1>10. SignedHere'
  BY <1>1, <1>3, <1>5, <1>8, <1>9 DEF IndInv, SignedHere
<1>11. OneEpochPerKey'
  BY <1>1, <1>3, <1>5, <1>9 DEF IndInv, SignedHere, OneEpochPerKey
<1>12. PendingUnused'
  BY <1>1, <1>3, <1>5 DEF IndInv, TypeOK, PendingUnused
<1>13. ProvedOnce'
  BY <1>3, <1>5, <1>9 DEF IndInv, ProvedOnce
<1>14. LimitKept'
  <2>1. SUFFICES ASSUME NEW v \in Users
                 PROVE  Cardinality(SignedFor(v)') + Cardinality(BeingSignedFor(v)')
                           <= grants'[v]
    BY DEF LimitKept
  <2>2. /\ IsFiniteSet(SignedFor(v)) /\ IsFiniteSet(BeingSignedFor(v))
        /\ Cardinality(SignedFor(v)) \in Nat
        /\ Cardinality(BeingSignedFor(v)) \in Nat
        /\ Cardinality(SignedFor(v)) + Cardinality(BeingSignedFor(v)) <= grants[v]
        /\ grants[v] \in Int
    BY CountedFinite DEF IndInv, LimitKept, TypeOK
  <2>3. CASE v = u
    <3>1. SignedFor(v)' = SignedFor(v) \union {n + 1}
      BY <1>1, <1>3, <1>5, <1>9, <2>3 DEF SignedFor
    <3>2. n + 1 \notin SignedFor(v)
      BY <1>3 DEF SignedFor
    <3>3. BeingSignedFor(v)' = BeingSignedFor(v) \ {h}
      BY <1>4 DEF BeingSignedFor
    <3>4. h \in BeingSignedFor(v)
      BY <1>1, <2>3 DEF BeingSignedFor
    <3>5. Cardinality(SignedFor(v)') = Cardinality(SignedFor(v)) + 1
      BY <2>2, <3>1, <3>2, FS_AddElement
    <3>6. Cardinality(BeingSignedFor(v)') = Cardinality(BeingSignedFor(v)) - 1
      BY <2>2, <3>3, <3>4, FS_RemoveElement
    <3> QED
      BY <1>1, <2>2, <3>5, <3>6
  <2>4. CASE v # u
    <3>1. SignedFor(v)' = SignedFor(v)
      BY <1>1, <1>3, <1>5, <1>9, <2>4 DEF SignedFor
    <3>2. BeingSignedFor(v)' = BeingSignedFor(v)
      BY <1>4, <2>4 DEF BeingSignedFor
    <3> QED
      BY <1>1, <2>2, <3>1, <3>2
  <2> QED
    BY <2>3, <2>4
<1> QED
  BY <1>6, <1>7, <1>10, <1>11, <1>12, <1>13, <1>14 DEF IndInv

LEMMA GiveUpInd ==
    ASSUME IndInv, NEW h \in Handlers, GiveUp(h)
    PROVE  IndInv'
<1>1. /\ handler' = [handler EXCEPT ![h] = Idle]
      /\ UNCHANGED <<anchorKey, context, sessions, grants, signatures>>
  BY DEF GiveUp
<1>2. /\ handler' = [g \in Handlers |-> handler'[g]]
      /\ \A g \in Handlers : handler'[g] = IF g = h THEN Idle ELSE handler[g]
  BY <1>1 DEF IndInv, HandlersOK
<1>3. TypeOK' /\ HandlersOK'
  BY <1>1, <1>2 DEF IndInv, TypeOK, HandlersOK
<1>4. LimitKept'
  <2>1. SUFFICES ASSUME NEW v \in Users
                 PROVE  Cardinality(SignedFor(v)') + Cardinality(BeingSignedFor(v)')
                           <= grants[v]
    BY <1>1 DEF LimitKept
  <2>2. SignedFor(v)' = SignedFor(v) /\ BeingSignedFor(v)' \subseteq BeingSignedFor(v)
    BY <1>1, <1>2 DEF SignedFor, BeingSignedFor
  <2>3. /\ IsFiniteSet(BeingSignedFor(v))
        /\ Cardinality(SignedFor(v)) \in Nat
        /\ Cardinality(BeingSignedFor(v)) \in Nat
        /\ Cardinality(SignedFor(v)) + Cardinality(BeingSignedFor(v)) <= grants[v]
        /\ grants[v] \in Int
    BY CountedFinite DEF IndInv, LimitKept, TypeOK
  <2>4. /\ Cardinality(BeingSignedFor(v)') \in Nat
        /\ Cardinality(BeingSignedFor(v)') <= Cardinality(BeingSignedFor(v))
    BY <2>2, <2>3, FS_Subset, FS_CardinalityType
  <2> QED
    BY <2>2, <2>3, <2>4
<1> QED
  BY <1>1, <1>3, <1>4 DEF IndInv, SignedHere, OneEpochPerKey, PendingUnused, ProvedOnce

\* Proving: the session leaves the map in the same step, so the others are
\* still unused and this one is never used again.
LEMMA ProveInd ==
    ASSUME IndInv, NEW m \in Step2Requests, Prove(m)
    PROVE  IndInv'
<1> DEFINE i == m.sid
           s == signatures[i]
           t == [s EXCEPT !.proofs = @ + 1]
<1>1. /\ i \in sessions
      /\ sessions' = sessions \ {i}
      /\ signatures' = signatures \/ signatures' = [signatures EXCEPT ![i] = t]
      /\ UNCHANGED <<anchorKey, context, grants, handler>>
  BY DEF Prove
<1>2. /\ i \in DOMAIN signatures /\ s \in SignatureRecords
      /\ s.proofs = 0
  BY <1>1 DEF IndInv, TypeOK, PendingUnused
<1>3. /\ t \in SignatureRecords
      /\ t.user = s.user /\ t.key = s.key /\ t.ctx = s.ctx /\ t.proofs = 1
  BY <1>2 DEF SignatureRecords
<1> HIDE DEF i, s, t
<1>4. /\ signatures' \in Seq(SignatureRecords)
      /\ DOMAIN signatures' = DOMAIN signatures
      /\ \A j \in DOMAIN signatures :
             \/ signatures'[j] = signatures[j]
             \/ j = i /\ signatures'[j] = t
  BY <1>1, <1>2, <1>3 DEF IndInv, TypeOK
<1>5. \A j \in DOMAIN signatures :
          /\ signatures'[j].user = signatures[j].user
          /\ signatures'[j].key = signatures[j].key
          /\ signatures'[j].ctx = signatures[j].ctx
          /\ j # i => signatures'[j] = signatures[j]
          /\ signatures'[j].proofs = signatures[j].proofs \/ signatures'[j].proofs = 1
  BY <1>3, <1>4 DEF s
<1>6. TypeOK' /\ HandlersOK'
  BY <1>1, <1>4 DEF IndInv, TypeOK, HandlersOK
<1>7. SignedHere' /\ OneEpochPerKey'
  BY <1>1, <1>4, <1>5 DEF IndInv, SignedHere, OneEpochPerKey
<1>8. PendingUnused'
  BY <1>1, <1>5 DEF IndInv, TypeOK, PendingUnused
<1>9. ProvedOnce'
  BY <1>4, <1>5 DEF IndInv, ProvedOnce
<1>10. LimitKept'
  <2>1. \A v \in Users : SignedFor(v)' = SignedFor(v)
    BY <1>1, <1>4, <1>5 DEF SignedFor
  <2>2. \A v \in Users : BeingSignedFor(v)' = BeingSignedFor(v)
    BY <1>1 DEF BeingSignedFor
  <2> QED
    BY <1>1, <2>1, <2>2 DEF IndInv, LimitKept
<1> QED
  BY <1>6, <1>7, <1>8, <1>9, <1>10 DEF IndInv

\* Restart: nothing signed so far is of the new key.
LEMMA RestartInd ==
    ASSUME IndInv, NEW ctx \in Contexts, Restart(ctx)
    PROVE  IndInv'
<1>1. /\ anchorKey < MaxAnchorRuns
      /\ anchorKey' = anchorKey + 1
      /\ context' = ctx
      /\ sessions' = {}
      /\ grants' = [u \in Users |-> 0]
      /\ handler' = [h \in Handlers |-> Idle]
      /\ signatures' = signatures
  BY DEF Restart
<1>2. anchorKey \in Nat /\ anchorKey' \in AnchorRuns
  BY <1>1, AnchorAssumption DEF IndInv, TypeOK, AnchorRuns
<1>3. \A i \in DOMAIN signatures : signatures[i].key \in Int
  <2>1. \A i \in DOMAIN signatures : signatures[i] \in SignatureRecords
    BY DEF IndInv, TypeOK
  <2>2. \A k \in AnchorRuns : k \in Int
    BY AnchorAssumption DEF AnchorRuns
  <2> QED
    BY <2>1, <2>2 DEF SignatureRecords
<1>4. \A i \in DOMAIN signatures : signatures[i].key < anchorKey'
  BY <1>1, <1>2, <1>3 DEF IndInv, SignedHere
<1>5. TypeOK' /\ HandlersOK'
  BY <1>1, <1>2, AnchorAssumption DEF IndInv, TypeOK, HandlersOK
<1>6. SignedHere'
  BY <1>1, <1>2, <1>3, <1>4 DEF SignedHere
<1>7. LimitKept'
  <2>1. SUFFICES ASSUME NEW v \in Users
                 PROVE  Cardinality(SignedFor(v)') + Cardinality(BeingSignedFor(v)') <= 0
    BY <1>1 DEF LimitKept
  <2>2. SignedFor(v)' = {} /\ BeingSignedFor(v)' = {}
    BY <1>1, <1>2, <1>3, <1>4 DEF SignedFor, BeingSignedFor
  <2> QED
    BY <2>2, FS_EmptySet
<1> QED
  BY <1>1, <1>5, <1>6, <1>7 DEF IndInv, OneEpochPerKey, PendingUnused, ProvedOnce

LEMMA StepInd == IndInv /\ [Next]_vars => IndInv'
<1> SUFFICES ASSUME IndInv, [Next]_vars PROVE IndInv'
  OBVIOUS
<1>1. CASE UNCHANGED vars
  BY <1>1 DEF vars, IndInv, TypeOK, HandlersOK, SignedHere, OneEpochPerKey,
     PendingUnused, ProvedOnce, LimitKept, SignedFor, BeingSignedFor
<1>2. ASSUME NEW m \in Requests, Refuse(m) PROVE IndInv'
  BY <1>1, <1>2 DEF Refuse
<1>3. ASSUME NEW h \in Handlers, Sign(h) \/ GiveUp(h) PROVE IndInv'
  BY <1>3, SignInd, GiveUpInd
<1> QED
  BY <1>1, <1>2, <1>3, CountInd, ProveInd, RestartInd DEF Next

----------------------------------------------------------------------------
(* The theorems.                                                           *)

THEOREM Invariance == Spec => []IndInv
BY InitInd, StepInd, PTL DEF Spec

\* The Anchor's state has its type; in particular no count passes the limit.
THEOREM TypeCorrect == Spec => []TypeOK
BY Invariance, PTL DEF IndInv

\* However a user's first exchanges are interleaved, one Anchor process signs
\* at most the limit for that user.
THEOREM LimitNeverPassed == Spec => []LimitKept
BY Invariance, PTL DEF IndInv

\* No session's secret state is used for two answers.
THEOREM SessionSingleUse == Spec => []ProvedOnce
BY Invariance, PTL DEF IndInv

\* A pending second exchange has not been answered, by this process or another.
THEOREM PendingNeverAnswered == Spec => []PendingUnused
BY Invariance, PTL DEF IndInv

\* What one Anchor key signed belongs to one epoch.
THEOREM KeyWithinEpoch == Spec => []OneEpochPerKey
BY Invariance, PTL DEF IndInv

----------------------------------------------------------------------------
(* The limit over the life of several processes.                           *)

SignedBy(u, k) ==
    {i \in DOMAIN signatures : signatures[i].user = u /\ signatures[i].key = k}

KeysLimited ==
    \A u \in Users, k \in AnchorRuns : Cardinality(SignedBy(u, k)) <= GrantsPerEpoch

\* A step signs at most once, what a handler has counted, and with the key of
\* the process that is up; what was signed stays, but for the count of proofs.
SignaturesGrow ==
    /\ \A i \in DOMAIN signatures :
           /\ i \in DOMAIN signatures'
           /\ signatures'[i].user = signatures[i].user
           /\ signatures'[i].key = signatures[i].key
           /\ signatures'[i].ctx = signatures[i].ctx
           /\ signatures'[i].blind = signatures[i].blind
           /\ signatures[i].proofs <= signatures'[i].proofs
    /\ \A i \in DOMAIN signatures' \ DOMAIN signatures :
           /\ signatures'[i].key = anchorKey'
           /\ \E h \in Handlers :
                  /\ handler[h] # Idle
                  /\ signatures'[i].user = handler[h].user
                  /\ signatures'[i].ctx = handler[h].ctx
                  /\ signatures'[i].blind = handler[h].blind

LEMMA SignaturesStep == IndInv /\ [Next]_vars => SignaturesGrow
<1> SUFFICES ASSUME IndInv, [Next]_vars PROVE SignaturesGrow
  OBVIOUS
<1>1. Len(signatures) \in Nat /\ DOMAIN signatures = 1 .. Len(signatures)
      /\ signatures \in Seq(SignatureRecords)
      /\ \A i \in DOMAIN signatures : signatures[i] \in SignatureRecords
  BY DEF IndInv, TypeOK
<1>2. CASE UNCHANGED signatures
  <2>1. \A i \in DOMAIN signatures : signatures[i].proofs \in Nat
    BY <1>1 DEF SignatureRecords
  <2> QED
    BY <1>2, <2>1 DEF SignaturesGrow
<1>3. ASSUME NEW h \in Handlers, Sign(h) PROVE SignaturesGrow
  <2> DEFINE s == [user |-> handler[h].user, key |-> anchorKey, ctx |-> handler[h].ctx,
                   blind |-> handler[h].blind, proofs |-> 0]
  <2>1. /\ handler[h] # Idle /\ anchorKey' = anchorKey
        /\ signatures' = Append(signatures, s)
    BY <1>3 DEF Sign
  <2>2. /\ s.user = handler[h].user /\ s.key = anchorKey
        /\ s.ctx = handler[h].ctx /\ s.blind = handler[h].blind
    OBVIOUS
  <2> HIDE DEF s
  <2>3. /\ DOMAIN signatures' = 1 .. Len(signatures) + 1
        /\ signatures'[Len(signatures) + 1] = s
        /\ \A i \in 1 .. Len(signatures) : signatures'[i] = signatures[i]
    BY <1>1, <2>1
  <2>4. \A i \in 1 .. Len(signatures) + 1 :
            i \in 1 .. Len(signatures) \/ i = Len(signatures) + 1
    BY <1>1
  <2>5. \A i \in DOMAIN signatures : signatures[i].proofs \in Nat
    BY <1>1 DEF SignatureRecords
  <2> QED
    BY <1>1, <2>1, <2>2, <2>3, <2>4, <2>5 DEF SignaturesGrow
<1>4. ASSUME NEW m \in Step2Requests, Prove(m) PROVE SignaturesGrow
  <2>1. \/ UNCHANGED signatures
        \/ /\ m.sid \in DOMAIN signatures
           /\ signatures' = [signatures EXCEPT ![m.sid].proofs = @ + 1]
    BY <1>4 DEF Prove, IndInv, TypeOK
  <2>2. CASE /\ m.sid \in DOMAIN signatures
             /\ signatures' = [signatures EXCEPT ![m.sid].proofs = @ + 1]
    <3>1. DOMAIN signatures' = DOMAIN signatures
      BY <2>2
    <3>2. \A i \in DOMAIN signatures :
              /\ signatures'[i].user = signatures[i].user
              /\ signatures'[i].key = signatures[i].key
              /\ signatures'[i].ctx = signatures[i].ctx
              /\ signatures'[i].blind = signatures[i].blind
              /\ signatures[i].proofs <= signatures'[i].proofs
      BY <1>1, <2>2 DEF SignatureRecords
    <3> QED
      BY <3>1, <3>2 DEF SignaturesGrow
  <2> QED
    BY <1>2, <2>1, <2>2
<1>5. CASE UNCHANGED vars
  BY <1>2, <1>5 DEF vars
<1> QED
  BY <1>2, <1>3, <1>4, <1>5 DEF Next, Count, GiveUp, Restart, Refuse

\* Only the key of the process that is up can sign.
LEMMA PastSigned ==
    ASSUME IndInv, [Next]_vars, NEW u, NEW k, k # anchorKey'
    PROVE  SignedBy(u, k)' = SignedBy(u, k)
BY SignaturesStep DEF SignaturesGrow, SignedBy

\* The key of that process has not passed the limit.
CurrentLimited == \A u \in Users : Cardinality(SignedFor(u)) <= GrantsPerEpoch

LEMMA CurrentLimit == IndInv => CurrentLimited
<1> SUFFICES ASSUME IndInv, NEW u \in Users
             PROVE  Cardinality(SignedFor(u)) <= GrantsPerEpoch
  BY DEF CurrentLimited
<1>1. Cardinality(SignedFor(u)) \in Nat /\ Cardinality(BeingSignedFor(u)) \in Nat
  BY CountedFinite DEF IndInv
<1>2. /\ Cardinality(SignedFor(u)) + Cardinality(BeingSignedFor(u)) <= grants[u]
      /\ grants[u] \in 0 .. GrantsPerEpoch
  BY DEF IndInv, LimitKept, TypeOK
<1> QED
  BY <1>1, <1>2, AnchorAssumption

LEMMA KeysLimitedInd ==
    IndInv /\ KeysLimited /\ [Next]_vars /\ CurrentLimited' => KeysLimited'
<1> SUFFICES ASSUME IndInv, KeysLimited, [Next]_vars, CurrentLimited',
                    NEW u \in Users, NEW k \in AnchorRuns
             PROVE  Cardinality(SignedBy(u, k)') <= GrantsPerEpoch
  BY DEF KeysLimited
<1>1. CASE k = anchorKey'
  <2>1. SignedBy(u, k)' = SignedFor(u)'
    BY <1>1 DEF SignedBy, SignedFor
  <2> QED
    BY <2>1 DEF CurrentLimited
<1>2. CASE k # anchorKey'
  BY <1>2, PastSigned DEF KeysLimited
<1> QED
  BY <1>1, <1>2

LEMMA KeysLimitedInit == Init => KeysLimited
<1>1. ASSUME Init, NEW u, NEW k PROVE Cardinality(SignedBy(u, k)) = 0
  <2>1. SignedBy(u, k) = {}
    BY <1>1 DEF Init, SignedBy
  <2> QED
    BY <2>1, FS_EmptySet
<1> QED
  BY <1>1, AnchorAssumption DEF KeysLimited

\* One Anchor key never gives a user more than the limit, not while its
\* process is up and not after: no later process adds to it.
THEOREM EveryKeyLimited == Spec => []KeysLimited
BY KeysLimitedInit, CurrentLimit, KeysLimitedInd, Invariance, PTL DEF Spec

\* So sessions are bounded too: one for each user, key and unit of the limit.
LEMMA SessionsBounded ==
    ASSUME IndInv, KeysLimited, IsFiniteSet(Users)
    PROVE  /\ Cardinality(Users) \in Nat
           /\ Len(signatures) <= (Cardinality(Users) * MaxAnchorRuns) * GrantsPerEpoch
<1> DEFINE T == Users \X AnchorRuns
           class == [i \in DOMAIN signatures |-> <<signatures[i].user, signatures[i].key>>]
<1>1. /\ Len(signatures) \in Nat /\ DOMAIN signatures = 1 .. Len(signatures)
      /\ \A i \in DOMAIN signatures : signatures[i] \in SignatureRecords
  BY DEF IndInv, TypeOK
<1>2. IsFiniteSet(DOMAIN signatures) /\ Cardinality(DOMAIN signatures) = Len(signatures)
  BY <1>1, InitialSegment
<1>3. IsFiniteSet(AnchorRuns) /\ Cardinality(AnchorRuns) = MaxAnchorRuns
  BY AnchorAssumption, InitialSegment DEF AnchorRuns
<1>4. /\ IsFiniteSet(T) /\ Cardinality(Users) \in Nat
      /\ Cardinality(T) = Cardinality(Users) * MaxAnchorRuns
  BY <1>3, FS_Product, FS_CardinalityType
<1>5. class \in [DOMAIN signatures -> T]
  BY <1>1 DEF SignatureRecords
<1>6. ASSUME NEW x \in T
      PROVE  Cardinality({i \in DOMAIN signatures : class[i] = x}) <= GrantsPerEpoch
  <2>1. PICK u \in Users, k \in AnchorRuns : x = <<u, k>>
    OBVIOUS
  <2>2. {i \in DOMAIN signatures : class[i] = x} = SignedBy(u, k)
    BY <2>1 DEF SignedBy
  <2> QED
    BY <2>2 DEF KeysLimited
<1> HIDE DEF T, class
<1>7. Cardinality(DOMAIN signatures) <= Cardinality(T) * GrantsPerEpoch
  BY <1>2, <1>4, <1>5, <1>6, AnchorAssumption, CountByClass
<1> QED
  BY <1>2, <1>4, <1>7

\* What an environment must show of a first exchange it sends.
LEMMA ExpectedRequest ==
    ASSUME NEW user \in Users \union {NoUser}, NEW ctx \in Contexts, NEW blind \in Blinds
    PROVE  Step1(user, ctx, blind, "plain") \in Step1Requests
BY DEF Step1Requests
=============================================================================
