---------------------------- MODULE MCModerator ----------------------------
(***************************************************************************)
(* Small instances of Moderator.                                           *)
(***************************************************************************)
EXTENDS Moderator

CONSTANTS e1, e2, p1, p2, anchorA, anchorB

\* The keys of both processes share their last byte.
MCKeyIds == [r \in Runs |-> 256 * r + 7]

Cfg(epoch, initial, charge, refund) ==
    [policy |-> "policy", keys |-> <<anchorA, anchorB>>, epoch |-> epoch,
     initial |-> initial, charge |-> charge, refund |-> refund]

\* A grant that is spent down with a partial refund; in another epoch, one
\* whose charge is sustained by its refund; two that new() refuses, for the
\* refund and for a key; a free resource; a grant that does not cover one
\* presentation; one spent exactly to zero; one that the balance digits cannot
\* carry.
MCConfigs ==
    {Cfg("epoch1", 3, 2, 1), Cfg("epoch2", 1, 1, 1), Cfg("epoch1", 3, 1, 2),
     [Cfg("epoch1", 2, 1, 1) EXCEPT !.keys = <<anchorA, MalformedKey>>],
     Cfg("epoch1", 0, 0, 0), Cfg("epoch1", 1, 2, 0), Cfg("epoch1", 2, 1, 0),
     Cfg("epoch1", BalanceLimit, 1, 0)}

Endorsement(nf, key, epoch) == [nf |-> nf, key |-> key, epoch |-> epoch]

\* e2 is good in the other epoch only.
MCTwoEpochs ==
    {Endorsement(e1, anchorA, "epoch1"), Endorsement(e2, anchorB, "epoch2")}
=============================================================================
