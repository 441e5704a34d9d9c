------------------------------- MODULE MCMole -------------------------------
(***************************************************************************)
(* Small instances of Mole.                                                *)
(***************************************************************************)
EXTENDS Mole, TLC

CONSTANTS c1, c2

MCKeyIds == [r \in Runs |-> r]

\* The keys of consecutive processes share their last byte.
MCCollidingKeyIds == [r \in Runs |-> 256 * r + 7]

\* One user with every Client, or each with a user of its own.
OneUser == [c \in Clients |-> "alice"]

Amounts(initial, charge, refund) ==
    [initial |-> initial, charge |-> charge, refund |-> refund]

\* Two presentations to a grant; one.
MCTwice == {Amounts(2, 1, 0)}
MCOnce == {Amounts(1, 1, 0)}
\* One presentation, and half the charge comes back.
MCHalfBack == {Amounts(2, 2, 1)}
MCOnceOrTwice == MCOnce \union MCTwice

\* All but histories that neither a step nor a property of the run reads.
WithoutHistory ==
    <<endorsements, credentials, fetch, sent, drawn, fetches,
      run, config, seenEndorsementNullifiers, seenSpendNullifiers, task, released, outstanding,
      anchorVars, delivered>>

\* Clients of one user and handlers are interchangeable.
Interchangeable == Permutations(Clients) \union Permutations(Workers)
=============================================================================
