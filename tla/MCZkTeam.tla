------------------------------ MODULE MCZkTeam ------------------------------
(* Instances of ZkTeam for TLC. *)
EXTENDS ZkTeam, TLC

CONSTANTS U1, U2

Symmetry == Permutations(User)

PayOnly == {Pay}

\* What follows an operation that is not lawful is of no account to Budget and to the
\* ledger, which allows everything from there on.
WhileLawful == lawful

OwnCalls == {Pay, [name |-> "withdraw", arg |-> 1], [name |-> "discard", arg |-> 1]}
=============================================================================
