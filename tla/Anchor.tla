------------------------------- MODULE Anchor -------------------------------
(***************************************************************************)
(* The Anchor (mole-anchor): concurrent handlers of POST /mole/endorse.    *)
(*                                                                         *)
(* A grant takes two exchanges.  The first counts against the user's limit *)
(* under one mutex and later, under another, stores the state the second   *)
(* one needs; between the two the request is still parsed and may fail.    *)
(* The second takes that state out again and answers once from it: the     *)
(* state holds the Anchor's secret nonces, and two answers computed from   *)
(* the same nonces give its key away.                                      *)
(*                                                                         *)
(* The environment sends any exchange at any time, any number of times.    *)
(***************************************************************************)
EXTENDS GrantMessages, Integers, Sequences, FiniteSets

CONSTANTS
    Handlers,        \* bound: requests being handled at the same time
    Users,           \* values of the X-Demo-User header
    Blinds,          \* blinded nullifiers, each from one Client session
    Contexts,        \* endorsement contexts (epochs)
    GrantsPerEpoch,
    MaxAnchorRuns    \* bound: Anchor processes a behaviour starts

ASSUME AnchorAssumption ==
    /\ GrantsPerEpoch \in Nat
    /\ MaxAnchorRuns \in Nat \ {0}
    /\ IsFiniteSet(Handlers)

VARIABLES
    anchorKey,    \* which process is up; names its key
    context,      \* its endorsement_context
    sessions,     \* session ids with a pending second exchange
    grants,       \* grants[u]: counted against the limit
    handler,      \* handler[h]: counted first exchange, not signed yet
    signatures    \* history: first exchanges answered; the index stands for
                  \*          the random session id, proofs counts the second
                  \*          exchanges answered for it

vars == <<anchorKey, context, sessions, grants, handler, signatures>>

AnchorRuns == 1 .. MaxAnchorRuns
NoUser == "no X-Demo-User header"
Idle == [step |-> 0]

Init ==
    /\ anchorKey = 1
    /\ context \in Contexts
    /\ sessions = {}
    /\ grants = [u \in Users |-> 0]
    /\ handler = [h \in Handlers |-> Idle]
    /\ signatures = <<>>

----------------------------------------------------------------------------
(* The first exchange.                                                     *)

\* Plausible bug: one grant too many.
CountOffByOne(h, m) ==
    /\ handler[h] = Idle
    /\ m.step = 1 /\ m.form # "foreign" /\ m.user # NoUser
    /\ grants[m.user] <= GrantsPerEpoch
    /\ grants' = [grants EXCEPT ![m.user] = @ + 1]
    /\ handler' = [handler EXCEPT ![h] = m]
    /\ UNCHANGED <<anchorKey, context, sessions, signatures>>

\* The grants lock: check and count.
Count(h, m) ==
    /\ handler[h] = Idle
    /\ m.step = 1 /\ m.form # "foreign" /\ m.user # NoUser
    /\ grants[m.user] < GrantsPerEpoch
    /\ grants' = [grants EXCEPT ![m.user] = @ + 1]
    /\ handler' = [handler EXCEPT ![h] = m]
    /\ UNCHANGED <<anchorKey, context, sessions, signatures>>

\* Plausible bug: the Client's choice of context is signed.
SignableAnyContext(m) == m.form = "plain"

Signable(m) == m.form = "plain" /\ m.ctx = context

\* The sessions lock: sign, and keep what the second exchange needs.
Sign(h) ==
    /\ handler[h] # Idle
    /\ Signable(handler[h])
    /\ signatures' = Append(signatures,
           [user |-> handler[h].user, key |-> anchorKey, ctx |-> handler[h].ctx,
            blind |-> handler[h].blind, proofs |-> 0])
    /\ sessions' = sessions \union {Len(signatures) + 1}
    /\ handler' = [handler EXCEPT ![h] = Idle]
    /\ UNCHANGED <<anchorKey, context, grants>>

\* Plausible bug: the count is taken back for whoever is answered 400, by
\* starting the user over.
GiveUpForgetting(h) ==
    /\ handler[h] # Idle
    /\ ~Signable(handler[h])
    /\ handler' = [handler EXCEPT ![h] = Idle]
    /\ grants' = [grants EXCEPT ![handler[h].user] = 0]
    /\ UNCHANGED <<anchorKey, context, sessions, signatures>>

\* 400: nothing is signed, and the count is not taken back.
GiveUp(h) ==
    /\ handler[h] # Idle
    /\ ~Signable(handler[h])
    /\ handler' = [handler EXCEPT ![h] = Idle]
    /\ UNCHANGED <<anchorKey, context, sessions, grants, signatures>>

----------------------------------------------------------------------------
(* The second exchange.                                                    *)

\* Plausible bug: the session is looked up, not taken out.
ProveKeepingSession(m) ==
    /\ m.step = 2 /\ m.form # "foreign"
    /\ m.sid \in sessions
    /\ signatures' = IF m.form = "plain"
                     THEN [signatures EXCEPT ![m.sid].proofs = @ + 1]
                     ELSE signatures
    /\ UNCHANGED <<anchorKey, context, sessions, grants, handler>>

\* The session is gone before the proof request is even parsed.
Prove(m) ==
    /\ m.step = 2 /\ m.form # "foreign"
    /\ m.sid \in sessions
    /\ sessions' = sessions \ {m.sid}
    /\ signatures' = IF m.form = "plain"
                     THEN [signatures EXCEPT ![m.sid].proofs = @ + 1]
                     ELSE signatures
    /\ UNCHANGED <<anchorKey, context, grants, handler>>

----------------------------------------------------------------------------

Refusable(m) ==
    \/ m.form = "foreign"
    \/ m.step = 1 /\ m.user = NoUser
    \/ m.step = 1 /\ m.user # NoUser /\ grants[m.user] >= GrantsPerEpoch
    \/ m.step = 2 /\ m.sid \notin sessions

\* 4xx without a trace.
Refuse(m) ==
    /\ Refusable(m)
    /\ UNCHANGED vars

\* Plausible bug: sessions are carried over to a process with another key.
RestartKeepingSessions(ctx) ==
    /\ anchorKey < MaxAnchorRuns
    /\ anchorKey' = anchorKey + 1
    /\ context' = ctx
    /\ grants' = [u \in Users |-> 0]
    /\ handler' = [h \in Handlers |-> Idle]
    /\ UNCHANGED <<sessions, signatures>>

\* The process dies with its sessions, counts and handlers; the next one has
\* a key of its own and runs in the same or in another epoch.
Restart(ctx) ==
    /\ anchorKey < MaxAnchorRuns
    /\ anchorKey' = anchorKey + 1
    /\ context' = ctx
    /\ sessions' = {}
    /\ grants' = [u \in Users |-> 0]
    /\ handler' = [h \in Handlers |-> Idle]
    /\ UNCHANGED signatures

Step1Requests ==
    {Step1(user, ctx, blind, form) :
        user \in Users \union {NoUser}, ctx \in Contexts, blind \in Blinds,
        form \in {"plain", "garbled", "foreign"}}

\* Session ids are unguessable: only those handed out come back.
Step2Requests ==
    {Step2(sid, form) : sid \in DOMAIN signatures,
                        form \in {"plain", "garbled", "foreign"}}

Requests == Step1Requests \union Step2Requests

Next ==
    \/ \E h \in Handlers : \E m \in Step1Requests : Count(h, m)
    \/ \E h \in Handlers : Sign(h) \/ GiveUp(h)
    \/ \E m \in Step2Requests : Prove(m)
    \/ \E m \in Requests : Refuse(m)
    \/ \E ctx \in Contexts : Restart(ctx)

Spec == Init /\ [][Next]_vars

----------------------------------------------------------------------------
(* Properties.                                                             *)

SignatureRecords ==
    [user : Users, key : AnchorRuns, ctx : Contexts, blind : Blinds, proofs : Nat]

TypeOK ==
    /\ anchorKey \in AnchorRuns
    /\ context \in Contexts
    /\ grants \in [Users -> 0 .. GrantsPerEpoch]
    /\ signatures \in Seq(SignatureRecords)
    /\ sessions \subseteq DOMAIN signatures
    /\ \A h \in Handlers : handler[h] # Idle => handler[h].user \in Users

\* What the current process has signed for a user, and is about to.
SignedFor(u) ==
    {i \in DOMAIN signatures : signatures[i].user = u /\ signatures[i].key = anchorKey}

BeingSignedFor(u) == {h \in Handlers : handler[h] # Idle /\ handler[h].user = u}

\* No interleaving of first exchanges gets a user more signatures than the
\* limit: every one given, and every one that a handler may still give, has
\* been counted.
LimitKept ==
    \A u \in Users :
        Cardinality(SignedFor(u)) + Cardinality(BeingSignedFor(u)) <= grants[u]

\* One second exchange per first one, whoever repeats or races it.
ProvedOnce == \A i \in DOMAIN signatures : signatures[i].proofs <= 1

\* A session that can still be answered has not been: what the Anchor keeps
\* secret in it has not been used.
PendingUnused ==
    \A i \in sessions : signatures[i].proofs = 0 /\ signatures[i].key = anchorKey

\* A key signs in one epoch only, so an endorsement cannot be moved from one
\* epoch to another.
OneEpochPerKey ==
    \A i, j \in DOMAIN signatures :
        signatures[i].key = signatures[j].key => signatures[i].ctx = signatures[j].ctx
=============================================================================
