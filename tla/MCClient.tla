------------------------------ MODULE MCClient ------------------------------
(***************************************************************************)
(* Small instances of Client, with servers that answer anything.           *)
(***************************************************************************)
EXTENDS Client

CONSTANT c1

MCKeyIds == [r \in Runs |-> r]
MCUserOf == [c \in Clients |-> "alice"]

\* Two policies; a challenge that only key 2 can answer, with a top-up, and one
\* with a key that is not a point.
MCChallenges ==
    {[policy |-> "p", keys |-> <<1, 2>>, charge |-> 1, topup |-> 0],
     [policy |-> "q", keys |-> <<2>>, charge |-> 2, topup |-> 1],
     [policy |-> "p", keys |-> <<1, MalformedKey>>, charge |-> 1, topup |-> 0]}

MCDirectories ==
    {[policy |-> "p", key |-> 1, epoch |-> "epoch1"],
     [policy |-> "q", key |-> 2, epoch |-> "epoch1"]}

MCAnchorDirectories == [key : {1, 2}, epoch : {"epoch1", "epoch2"}]

MCIssuances ==
    {[key |-> 1, policy |-> "p", epoch |-> "epoch1", bal |-> 2],
     [key |-> 2, policy |-> "q", epoch |-> "epoch1", bal |-> 2],
     [key |-> 1, policy |-> "q", epoch |-> "epoch1", bal |-> 2]}
=============================================================================
