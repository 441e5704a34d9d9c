--------------------------- MODULE StartupProofs ---------------------------
(***************************************************************************)
(* Theorems of Startup, for any Anchors, arguments and epochs.             *)
(*                                                                         *)
(* The invariant says of each key read so far what the theorems say of all *)
(* keys of a Moderator that serves: where it comes from, and that it is    *)
(* still what its Anchor publishes unless that Anchor has been restarted.  *)
(* A failed start is exempt from the epoch, since the code takes the key   *)
(* before it compares the epochs.                                          *)
(***************************************************************************)
EXTENDS Startup, TLAPS

\* The config that Read takes is one of those the directory publishes.
LEMMA ConfigPublished ==
    ASSUME NEW a \in Anchors, NEW n \in Nat, NEW d \in Publishable(a, n),
           IhatConfigs(d) # {}
    PROVE  /\ IhatConfig(d) \in Published(d)
           /\ IhatConfig(d).key \in AnchorKeys
           /\ IhatConfig(d).epoch \in Epochs
<1> DEFINE Key(p) == [anchor |-> a, run |-> n, point |-> p]
           Cfg(p, e) == [type |-> IHAT, key |-> Key(p), epoch |-> e]
<1>1. \A p \in BOOLEAN, e \in Epochs :
          Cfg(p, e).key \in AnchorKeys /\ Cfg(p, e).epoch \in Epochs /\ Cfg(p, e).type = IHAT
  BY DEF AnchorKeys
<1>2. \A e \in Epochs : OtherConfig(e).type # IHAT
  BY DEF OtherConfig, Other, IHAT
<1>3. \/ \E p \in BOOLEAN, e \in Epochs : d = <<Cfg(p, e)>>
      \/ \E p \in BOOLEAN, e \in Epochs : d = <<OtherConfig(e), Cfg(p, e)>>
      \/ \E e \in Epochs : d = <<OtherConfig(e)>>
  BY DEF Publishable
<1> HIDE DEF Cfg
<1>4. CASE \E p \in BOOLEAN, e \in Epochs : d = <<Cfg(p, e)>>
  <2>1. PICK p \in BOOLEAN, e \in Epochs : d = <<Cfg(p, e)>>
    BY <1>4
  <2>2. IhatConfigs(d) = {1}
    BY <1>1, <2>1 DEF IhatConfigs
  <2>3. IhatConfig(d) = d[1] /\ d[1] = Cfg(p, e)
    BY <2>1, <2>2 DEF IhatConfig
  <2> QED  BY <1>1, <2>2, <2>3 DEF Published
<1>5. CASE \E p \in BOOLEAN, e \in Epochs : d = <<OtherConfig(e), Cfg(p, e)>>
  <2>1. PICK p \in BOOLEAN, e \in Epochs : d = <<OtherConfig(e), Cfg(p, e)>>
    BY <1>5
  <2>2. DOMAIN d = {1, 2} /\ d[1] = OtherConfig(e) /\ d[2] = Cfg(p, e)
    BY <2>1
  <2>3. IhatConfigs(d) = {2}
    BY <1>1, <1>2, <2>2 DEF IhatConfigs
  <2>4. IhatConfig(d) = d[2]
    BY <2>3 DEF IhatConfig
  <2> QED  BY <1>1, <2>2, <2>3, <2>4 DEF Published
<1>6. CASE \E e \in Epochs : d = <<OtherConfig(e)>>
  <2>1. PICK e \in Epochs : d = <<OtherConfig(e)>>
    BY <1>6
  <2>2. IhatConfigs(d) = {}
    BY <1>2, <2>1 DEF IhatConfigs
  <2> QED  BY <2>2
<1> QED  BY <1>3, <1>4, <1>5, <1>6

----------------------------------------------------------------------------
(* The invariant.                                                          *)

DirectoriesInv ==
    \A a \in Anchors :
        /\ directory[a] \in Publishable(a, restarts[a])
        /\ Published(directory[a]) \subseteq past[a]

\* Of the i-th key read: its origin, and whether it is still current.
KeyInv(i) ==
    /\ readFrom[i] <= restarts[Args[i]]
    /\ \E c \in past[Args[i]] :
           c.key = keys[i] /\ (phase # "failed" => c.epoch = context)
    /\ phase # "failed" /\ restarts[Args[i]] = readFrom[i] =>
           /\ IhatConfig(directory[Args[i]]).key = keys[i]
           /\ IhatConfig(directory[Args[i]]).epoch = context

Inv ==
    /\ TypeOK
    /\ DOMAIN directory = Anchors /\ DOMAIN past = Anchors
    /\ DirectoriesInv
    /\ \A i \in 1 .. Len(keys) : KeyInv(i)
    /\ context = NoEpoch => Len(keys) = 0
    /\ phase = "serving" => Len(keys) = Len(Args)

LEMMA ArgsAreAnchors ==
    /\ Len(Args) \in Nat
    /\ \A i \in 1 .. Len(Args) : Args[i] \in Anchors
BY StartupAssumption

LEMMA InitInv == Init => Inv
<1> SUFFICES ASSUME Init PROVE Inv
  OBVIOUS
<1>1. TypeOK
  BY ArgsAreAnchors, StartupAssumption DEF Init, TypeOK
<1>2. DOMAIN directory = Anchors /\ DOMAIN past = Anchors /\ DirectoriesInv
  BY DEF Init, DirectoriesInv
<1>3. Len(keys) = 0 /\ phase = "reading"
  BY DEF Init
<1> QED  BY <1>1, <1>2, <1>3 DEF Inv

LEMMA AnchorRestartInv == \A a \in Anchors : Inv /\ AnchorRestart(a) => Inv'
<1> SUFFICES ASSUME NEW a \in Anchors, Inv, AnchorRestart(a) PROVE Inv'
  OBVIOUS
<1>1. PICK d \in Publishable(a, restarts[a] + 1) :
          /\ directory' = [directory EXCEPT ![a] = d]
          /\ past' = [past EXCEPT ![a] = @ \union Published(d)]
  BY DEF AnchorRestart
<1>2. /\ restarts[a] < MaxRestarts /\ restarts' = [restarts EXCEPT ![a] = @ + 1]
      /\ UNCHANGED <<phase, keys, context, readFrom>>
      /\ restarts \in [Anchors -> 0 .. MaxRestarts] /\ MaxRestarts \in Nat
  BY StartupAssumption DEF AnchorRestart, Inv, TypeOK
<1>3. TypeOK'
  BY <1>2 DEF Inv, TypeOK
<1>4. /\ \A b \in Anchors : directory'[b] = IF b = a THEN d ELSE directory[b]
      /\ \A b \in Anchors : past'[b] = IF b = a THEN past[a] \union Published(d) ELSE past[b]
      /\ \A b \in Anchors : restarts'[b] = IF b = a THEN restarts[a] + 1 ELSE restarts[b]
  BY <1>1, <1>2 DEF Inv
<1>5. DOMAIN directory' = Anchors /\ DOMAIN past' = Anchors
  BY <1>1 DEF Inv
<1>6. DirectoriesInv'
  BY <1>4 DEF Inv, DirectoriesInv
<1>7. ASSUME NEW i \in 1 .. Len(keys) PROVE KeyInv(i)'
  <2>1. /\ Args[i] \in Anchors /\ KeyInv(i) /\ readFrom[i] \in Nat
        /\ restarts[Args[i]] \in Nat
    BY <1>2, ArgsAreAnchors DEF Inv, TypeOK
  <2>2. readFrom'[i] <= restarts'[Args[i]]
    BY <1>2, <1>4, <2>1 DEF KeyInv
  <2>3. past[Args[i]] \subseteq past'[Args[i]]
    BY <1>4, <2>1
  <2>4. restarts'[Args[i]] = readFrom[i] =>
            Args[i] # a /\ restarts[Args[i]] = readFrom[i]
    BY <1>2, <1>4, <2>1 DEF KeyInv
  <2> QED  BY <1>2, <1>4, <2>1, <2>2, <2>3, <2>4 DEF KeyInv
<1> QED  BY <1>2, <1>3, <1>5, <1>6, <1>7 DEF Inv

LEMMA ReadInv == Inv /\ Read => Inv'
<1> SUFFICES ASSUME Inv, Read PROVE Inv'
  OBVIOUS
<1>0. PICK n \in Nat : n = Len(keys)
  BY DEF Inv, TypeOK
<1> DEFINE a == Args[n + 1]
           c == IhatConfig(directory[a])
<1>1. /\ n \in Nat /\ n < Len(Args) /\ a \in Anchors /\ restarts[a] \in Nat
      /\ keys \in Seq(AnchorKeys) /\ readFrom \in Seq(Nat) /\ Len(readFrom) = n
  <2>1. n \in Nat /\ n < Len(Args)
    BY <1>0, ArgsAreAnchors DEF Read, Left
  <2>2. a \in Anchors
    BY <2>1, ArgsAreAnchors
  <2> QED  BY <1>0, <2>1, <2>2, StartupAssumption DEF Inv, TypeOK
<1>2. c \in past[a] /\ c.key \in AnchorKeys /\ c.epoch \in Epochs
  <2>1. directory[a] \in Publishable(a, restarts[a]) /\ IhatConfigs(directory[a]) # {}
        /\ Published(directory[a]) \subseteq past[a]
    BY <1>0, <1>1 DEF Read, Inv, DirectoriesInv
  <2> QED  BY <1>1, <2>1, ConfigPublished
<1>3. /\ keys' = Append(keys, c.key) /\ readFrom' = Append(readFrom, restarts[a])
      /\ UNCHANGED <<directory, past, restarts>> /\ phase = "reading"
      /\ \/ context \in {NoEpoch, c.epoch} /\ context' = c.epoch /\ phase' = phase
         \/ phase' = "failed" /\ context' = context /\ context \notin {NoEpoch, c.epoch}
  BY <1>0 DEF Read
<1> HIDE DEF c
<1>4. /\ Len(keys') = n + 1 /\ Len(readFrom') = n + 1
      /\ keys'[n + 1] = c.key /\ readFrom'[n + 1] = restarts[a]
      /\ \A i \in 1 .. n : keys'[i] = keys[i] /\ readFrom'[i] = readFrom[i]
  BY <1>0, <1>1, <1>3
<1>5. TypeOK'
  <2>1. keys' \in Seq(AnchorKeys) /\ readFrom' \in Seq(Nat)
    BY <1>1, <1>2, <1>3
  <2> QED  BY <1>1, <1>2, <1>3, <1>4, <2>1 DEF Inv, TypeOK
<1>6. ASSUME NEW i \in 1 .. n PROVE KeyInv(i)'
  <2>1. KeyInv(i) /\ context # NoEpoch
    BY <1>0, <1>1 DEF Inv
  <2> QED  BY <1>3, <1>4, <2>1 DEF KeyInv
<1>7. KeyInv(n + 1)'
  <2>1. readFrom'[n + 1] <= restarts'[a]
    BY <1>1, <1>3, <1>4
  <2>2. c \in past'[a] /\ c.key = keys'[n + 1] /\ (phase' # "failed" => c.epoch = context')
    BY <1>2, <1>3, <1>4
  <2>3. \E b \in past'[a] : b.key = keys'[n + 1] /\ (phase' # "failed" => b.epoch = context')
    BY <2>2
  <2>4. IhatConfig(directory'[a]) = c
    BY <1>3 DEF c
  <2>5. phase' # "failed" /\ restarts'[a] = readFrom'[n + 1] =>
            /\ IhatConfig(directory'[a]).key = keys'[n + 1]
            /\ IhatConfig(directory'[a]).epoch = context'
    BY <2>2, <2>4
  <2> QED  BY <2>1, <2>3, <2>5 DEF KeyInv, IhatConfig, IhatConfigs
<1>8. context' # NoEpoch
  BY <1>2, <1>3, StartupAssumption
<1>9. \A i \in 1 .. Len(keys') : KeyInv(i)'
  <2>1. TAKE i \in 1 .. Len(keys')
  <2>2. i \in 1 .. n \/ i = n + 1
    BY <1>1, <1>4, <2>1
  <2>3. CASE i \in 1 .. n
    BY <1>6, <2>3
  <2>4. CASE i = n + 1
    BY <1>7, <2>4
  <2> QED  BY <2>2, <2>3, <2>4
<1>10. DirectoriesInv' /\ DOMAIN directory' = Anchors /\ DOMAIN past' = Anchors
  BY <1>3 DEF Inv, DirectoriesInv
<1>11. phase' # "serving"
  BY <1>3
<1> QED  BY <1>5, <1>8, <1>9, <1>10, <1>11 DEF Inv

LEMMA NextInv == Inv /\ [Next]_vars => Inv'
<1> SUFFICES ASSUME Inv, [Next]_vars PROVE Inv'
  OBVIOUS
<1>1. ASSUME NEW a \in Anchors, AnchorRestart(a) PROVE Inv'
  BY <1>1, AnchorRestartInv
<1>2. CASE Read
  BY <1>2, ReadInv
<1>3. CASE StartFails \/ Serve
  <2>1. /\ UNCHANGED <<directory, past, restarts, keys, context, readFrom>>
        /\ \/ phase' = "failed"
           \/ phase' = "serving" /\ phase = "reading" /\ Len(keys) = Len(Args)
    BY <1>3, ArgsAreAnchors DEF StartFails, Serve, Bail, Left, Inv, TypeOK
  <2>2. TypeOK'
    BY <2>1 DEF Inv, TypeOK
  <2>3. \A i \in 1 .. Len(keys') : KeyInv(i)'
    BY <2>1 DEF Inv, KeyInv
  <2>4. DirectoriesInv' /\ DOMAIN directory' = Anchors /\ DOMAIN past' = Anchors
    BY <2>1 DEF Inv, DirectoriesInv
  <2> QED  BY <2>1, <2>2, <2>3, <2>4 DEF Inv
<1>4. CASE Restart
  <2>1. TypeOK'
    BY <1>4, ArgsAreAnchors DEF Restart, Inv, TypeOK
  <2>2. Len(keys') = 0 /\ phase' = "reading"
    BY <1>4 DEF Restart
  <2>3. DirectoriesInv' /\ DOMAIN directory' = Anchors /\ DOMAIN past' = Anchors
    BY <1>4 DEF Restart, Inv, DirectoriesInv
  <2> QED  BY <2>1, <2>2, <2>3 DEF Inv
<1>5. CASE UNCHANGED vars
  BY <1>5 DEF vars, Inv, TypeOK, DirectoriesInv, KeyInv
<1> QED  BY <1>1, <1>2, <1>3, <1>4, <1>5 DEF Next

LEMMA SpecInv == Spec => []Inv
BY InitInv, NextInv, PTL DEF Spec

\* The start-up's state is always of its type (main.rs:35).
THEOREM TypeCorrect == Spec => []TypeOK
<1>1. Inv => TypeOK
  BY DEF Inv
<1> QED  BY <1>1, SpecInv, PTL

\* A Moderator that serves trusts each Anchor it was told to trust, in order,
\* for one epoch (main.rs:36-63).
THEOREM AcceptsOneEpoch == Spec => []OneEpochAccepted
<1>1. Inv => OneEpochAccepted
  BY ArgsAreAnchors, StartupAssumption DEF Inv, KeyInv, OneEpochAccepted
<1> QED  BY <1>1, SpecInv, PTL

\* What the process it read from grants, it redeems (main.rs:36-63).
THEOREM RedeemsGrants == Spec => []GrantsRedeemable
<1>1. Inv => GrantsRedeemable
  BY ArgsAreAnchors, StartupAssumption DEF Inv, KeyInv, GrantsRedeemable
<1> QED  BY <1>1, SpecInv, PTL
=============================================================================
