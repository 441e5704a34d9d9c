------------------------------- MODULE Ledger -------------------------------
(***************************************************************************)
(* What the Moderator promises, with nothing about proofs, nullifiers or   *)
(* concurrency: every endorsement opens at most one account, the account   *)
(* starts with the initial grant, each served request takes the charge     *)
(* and gives back the refund in one step, and no account is overdrawn.     *)
(* The Moderator cannot see accounts at all (its requests are unlinkable), *)
(* yet it has to behave as if it kept this ledger.                         *)
(***************************************************************************)
EXTENDS Integers

CONSTANTS
    Accounts,   \* one per endorsement nullifier
    Terms       \* configurations: records with initial, charge and refund

VARIABLES
    terms,      \* the terms in force
    open,       \* accounts opened under them
    balance     \* credits left in each account

vars == <<terms, open, balance>>

Init ==
    /\ terms \in Terms
    /\ open = {}
    /\ balance = [a \in Accounts |-> 0]

Open(a) ==
    /\ a \notin open
    /\ open' = open \union {a}
    /\ balance' = [balance EXCEPT ![a] = terms.initial]
    /\ UNCHANGED terms

Serve(a) ==
    /\ a \in open
    /\ balance[a] >= terms.charge
    /\ balance' = [balance EXCEPT ![a] = @ - terms.charge + terms.refund]
    /\ UNCHANGED <<terms, open>>

\* A new Moderator process: old credentials are void, accounts start over.
Renew ==
    /\ terms' \in Terms
    /\ open' = {}
    /\ balance' = [a \in Accounts |-> 0]

Next ==
    \/ \E a \in Accounts : Open(a) \/ Serve(a)
    \/ Renew

Spec == Init /\ [][Next]_vars
=============================================================================
