--------------------------- MODULE AllowanceLedger ---------------------------
(***************************************************************************)
(* What a ZkTeam account promises to its owner, without trees, proofs,     *)
(* nonces or clients. The admin grants allowances to users; a user holds   *)
(* its allowance as a note and spends it step by step; every step burns    *)
(* the nullifier of the note it starts from and issues the next note.      *)
(* The account does not check all of that itself; when somebody does it in *)
(* another way, the ledger promises nothing any more.                      *)
(***************************************************************************)
EXTENDS Integers

CONSTANT User

VARIABLES
  notes,    \* the notes that were issued and not discarded
  spent,    \* the nullifiers that were burnt
  granted,  \* user -> the sum of the allowances it was given
  paid,     \* user -> the sum of the values it spent
  lawful    \* every step was one of this ledger

ledgerVars == <<notes, spent, granted, paid, lawful>>

Note == [user : User, index : Nat, amount : Nat]

Nullifier == User \X Nat

\* Indices are used one after the other: all those below i are burnt.
UsedBelow(u, i) == \A j \in 0 .. i - 1 : <<u, j>> \in spent

LedgerTypeOK ==
  /\ notes \subseteq Note
  /\ spent \subseteq Nullifier
  /\ granted \in [User -> Nat]
  /\ paid \in [User -> Nat]

LedgerInit ==
  /\ notes = {}
  /\ spent = {}
  /\ granted = [u \in User |-> 0]
  /\ paid = [u \in User |-> 0]
  /\ lawful = TRUE

\* The admin issues note m. Its index may be one that the user has gone past
\* since the admin looked it up.
Grant(m) ==
  /\ m \in Note /\ m.index > 0
  /\ UsedBelow(m.user, m.index - 1)
  /\ spent' = spent \cup {<<m.user, m.index - 1>>}
  /\ notes' = notes \cup {m}
  /\ granted' = [granted EXCEPT ![m.user] = @ + m.amount]
  /\ UNCHANGED <<paid, lawful>>

\* A user spends the difference between its note n and the next one, m.
Spend(n, m) ==
  /\ <<n.user, n.index>> \notin spent
  /\ m \in Note
  /\ m.user = n.user /\ m.index = n.index + 1 /\ m.amount <= n.amount
  /\ spent' = spent \cup {<<n.user, n.index>>}
  /\ notes' = notes \cup {m}
  /\ paid' = [paid EXCEPT ![n.user] = @ + (n.amount - m.amount)]
  /\ UNCHANGED <<granted, lawful>>

Discard(gone) ==
  /\ notes' = notes \ gone
  /\ UNCHANGED <<spent, granted, paid, lawful>>

\* Something else was executed; from then on anything may happen.
Lapse == lawful' = FALSE

LedgerNext ==
  \/ \E m \in notes' : Grant(m)
  \/ \E n \in notes, m \in notes' : Spend(n, m)
  \/ \E gone \in SUBSET notes : Discard(gone)
  \/ Lapse

LedgerSpec == LedgerInit /\ [][LedgerNext]_ledgerVars

-----------------------------------------------------------------------------
\* No user is paid more than the admin granted it, whatever the order in which
\* grants and spends reach the account (the purpose of allowances).
Budget == \A u \in User : paid[u] <= granted[u]

\* The burnt nullifiers of a user are an initial segment of its indices: the
\* clients find the last one by counting up to the first that is not burnt.
NoGap == \A n \in spent : UsedBelow(n[1], n[2])

\* A note is issued by burning the nullifier of the index before its own.
NotesFollow == \A n \in notes : n.index > 0 /\ <<n.user, n.index - 1>> \in spent

\* What a note that can still be spent is worth is within what is left.
Covered ==
  \A n \in notes : <<n.user, n.index>> \notin spent =>
    paid[n.user] + n.amount <= granted[n.user]

LedgerSound == LedgerTypeOK /\ Budget /\ NoGap /\ NotesFollow /\ Covered

LedgerInv == lawful \in BOOLEAN /\ (lawful => LedgerSound)
=============================================================================
