------------------------------ MODULE Startup ------------------------------
(***************************************************************************)
(* How a Moderator learns whom to trust (mole-moderator main.rs): it reads *)
(* the directories of the Anchors named on its command line, one after the *)
(* other, and serves what they said until it is restarted.                 *)
(*                                                                         *)
(* Each read is an await.  Between two of them, and ever after, an Anchor  *)
(* may be restarted with a new key, in the same or in another epoch.       *)
(***************************************************************************)
EXTENDS Integers, SequencesExt

CONSTANTS
    Anchors,      \* origins
    Args,         \* the --anchor arguments, in order; an origin may recur
    Epochs,
    MaxRestarts,  \* bound: restarts of one Anchor
    MaxStarts     \* bound: Moderator processes

IHAT == "IHAT"
Other == "other"
NoEpoch == "none"
NoKey == <<>>

ASSUME StartupAssumption ==
    /\ Args \in Seq(Anchors) /\ Args # <<>>
    /\ MaxRestarts \in Nat
    /\ MaxStarts \in Nat
    /\ NoEpoch \notin Epochs

VARIABLES
    directory,  \* directory[a]: what a publishes now, a sequence of configs
    past,       \* history: past[a], the IHAT configs a's processes published
    restarts,   \* restarts[a]: how often a has been restarted
    phase,      \* of the Moderator: "reading", "serving", "failed"
    keys,       \* accepted_anchor_keys, read so far
    context,    \* endorsement_context
    readFrom,   \* history: readFrom[i], the process that published keys[i]
    starts      \* history: Moderator processes so far

vars == <<directory, past, restarts, phase, keys, context, readFrom, starts>>

----------------------------------------------------------------------------
(* Anchors. Every process has a key of its own; some keys are no points of *)
(* the curve, and other endorsement types have keys of other sizes.        *)

AnchorKeys == [anchor : Anchors, run : Nat, point : BOOLEAN]
OtherConfig(e) == [type |-> Other, key |-> NoKey, epoch |-> e]

\* What the n-th process of a may publish: mole-anchor one IHAT config, other
\* implementations also configs of types they support besides, or instead.
Publishable(a, n) ==
    LET configs == {[type |-> IHAT, key |-> [anchor |-> a, run |-> n, point |-> p],
                     epoch |-> e] : p \in BOOLEAN, e \in Epochs}
    IN  {<<c>> : c \in configs}
        \union {<<OtherConfig(c.epoch), c>> : c \in configs}
        \union {<<OtherConfig(e)>> : e \in Epochs}

\* Plausible bug: the first config is taken for the IHAT one.
FirstConfigs(d) == {1}

IhatConfigs(d) == {i \in DOMAIN d : d[i].type = IHAT}
IhatConfig(d) == d[CHOOSE i \in IhatConfigs(d) : \A j \in IhatConfigs(d) : i <= j]

Published(d) == {d[i] : i \in IhatConfigs(d)}

----------------------------------------------------------------------------

Init ==
    /\ restarts = [a \in Anchors |-> 0]
    /\ directory \in {d \in [Anchors -> UNION {Publishable(a, 0) : a \in Anchors}] :
                         \A a \in Anchors : d[a] \in Publishable(a, 0)}
    /\ past = [a \in Anchors |-> Published(directory[a])]
    /\ phase = "reading"
    /\ keys = <<>>
    /\ context = NoEpoch
    /\ readFrom = <<>>
    /\ starts = 1

AnchorRestart(a) ==
    /\ restarts[a] < MaxRestarts
    /\ restarts' = [restarts EXCEPT ![a] = @ + 1]
    /\ \E d \in Publishable(a, restarts[a] + 1) :
           /\ directory' = [directory EXCEPT ![a] = d]
           /\ past' = [past EXCEPT ![a] = @ \union Published(d)]
    /\ UNCHANGED <<phase, keys, context, readFrom, starts>>

\* The main loop has read all directories but these.
Left == Len(Args) - Len(keys)

Bail ==
    /\ phase' = "failed"
    /\ UNCHANGED <<directory, past, restarts, keys, context, readFrom, starts>>

\* Plausible bug: the last epoch read is the one that counts.
ReadUnchecked ==
    LET a == Args[Len(keys) + 1]
        c == IhatConfig(directory[a])
    IN
    /\ phase = "reading" /\ Left > 0
    /\ IhatConfigs(directory[a]) # {}
    /\ keys' = Append(keys, c.key)
    /\ context' = c.epoch
    /\ readFrom' = Append(readFrom, restarts[a])
    /\ UNCHANGED <<directory, past, restarts, phase, starts>>

\* Plausible bug: the list is built from its end.
ReadInReverse ==
    LET a == Args[Len(keys) + 1]
        c == IhatConfig(directory[a])
    IN
    /\ phase = "reading" /\ Left > 0
    /\ IhatConfigs(directory[a]) # {}
    /\ context \in {NoEpoch, c.epoch}
    /\ keys' = <<c.key>> \o keys
    /\ context' = c.epoch
    /\ readFrom' = Append(readFrom, restarts[a])
    /\ UNCHANGED <<directory, past, restarts, phase, starts>>

\* One turn of the loop: the key, then the check of the epoch.
Read ==
    LET a == Args[Len(keys) + 1]
        c == IhatConfig(directory[a])
    IN
    /\ phase = "reading" /\ Left > 0
    /\ IhatConfigs(directory[a]) # {}
    /\ keys' = Append(keys, c.key)
    /\ readFrom' = Append(readFrom, restarts[a])
    /\ IF context \in {NoEpoch, c.epoch}
       THEN context' = c.epoch /\ UNCHANGED phase
       ELSE phase' = "failed" /\ UNCHANGED context
    /\ UNCHANGED <<directory, past, restarts, starts>>

\* An Anchor does not answer or its directory has no IHAT config; or, with all
\* of them read, the amounts are refused or the port is taken.
StartFails == phase = "reading" /\ Bail

\* ModeratorState::new, which wants points, and the listener.
Serve ==
    /\ phase = "reading" /\ Left = 0
    /\ IF \A i \in DOMAIN keys : keys[i].point
       THEN /\ phase' = "serving"
            /\ UNCHANGED <<directory, past, restarts, keys, context, readFrom, starts>>
       ELSE Bail

\* The operator starts the Moderator again, after a failure or a crash, or to
\* follow the Anchors into the next epoch.
Restart ==
    /\ starts < MaxStarts
    /\ starts' = starts + 1
    /\ phase' = "reading"
    /\ keys' = <<>>
    /\ context' = NoEpoch
    /\ readFrom' = <<>>
    /\ UNCHANGED <<directory, past, restarts>>

Next ==
    \/ \E a \in Anchors : AnchorRestart(a)
    \/ Read \/ StartFails \/ Serve \/ Restart

Spec == Init /\ [][Next]_vars

----------------------------------------------------------------------------
(* Properties.                                                             *)

TypeOK ==
    /\ restarts \in [Anchors -> 0 .. MaxRestarts]
    /\ phase \in {"reading", "serving", "failed"}
    /\ keys \in Seq(AnchorKeys)
    /\ context \in Epochs \union {NoEpoch}
    /\ readFrom \in Seq(Nat) /\ Len(readFrom) = Len(keys) /\ Len(keys) <= Len(Args)

\* A Moderator that serves has one key per argument, at the argument's
\* position, and each was published for the epoch it redeems in: although the
\* directories are read at different times, no accepted key signs for another
\* epoch.
OneEpochAccepted ==
    phase = "serving" =>
        /\ Len(keys) = Len(Args)
        /\ \A i \in DOMAIN Args : \E c \in past[Args[i]] :
               c.key = keys[i] /\ c.epoch = context

\* What an Anchor grants now is redeemable at a Moderator that trusts it
\* unless the Anchor has been restarted since its directory was read; nothing
\* that happens to other Anchors matters.
GrantsRedeemable ==
    phase = "serving" =>
        \A i \in DOMAIN Args :
            restarts[Args[i]] = readFrom[i] =>
                LET c == IhatConfig(directory[Args[i]]) IN
                c.key = keys[i] /\ c.epoch = context
=============================================================================
