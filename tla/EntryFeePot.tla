----------------------------- MODULE EntryFeePot -----------------------------
(***************************************************************************)
(* What a room promises about the entry fee of its match, and nothing      *)
(* else: the two payers put the same stake into a pot in one step, or      *)
(* nobody does; the pot then goes, whole and once, to one of the payers.   *)
(* The only leak is a coin credit the database refuses, and it is counted. *)
(***************************************************************************)
EXTENDS Integers, FiniteSets

CONSTANTS
  Players,     \* everybody who may sit in the room
  Exempt,      \* the players who never pay (the AI)
  EntryFee,    \* stake of one player
  LedgerFails  \* TRUE: the database may refuse a credit

VARIABLES
  payers, \* the two players whose stakes are in the pot, {} when it is empty
  ledger, \* net coins credited to every player
  lost,   \* coins in refused credits
  closed  \* the pot will never be filled (again)

potVars == <<payers, ledger, lost, closed>>

Init == /\ payers = {}
        /\ ledger = [u \in Players |-> 0]
        /\ lost = 0
        /\ closed = FALSE

\* Both stakes are taken in one step.
Collect == \E u, v \in Players \ Exempt :
  /\ u # v /\ ~closed /\ payers = {}
  /\ payers' = {u, v}
  /\ ledger' = [w \in Players |-> ledger[w] - IF w \in {u, v} THEN EntryFee ELSE 0]
  /\ UNCHANGED <<lost, closed>>

\* The match ends unpaid; a stake taken in vain is returned, or lost.
Abandon ==
  /\ ~closed /\ payers = {}
  /\ closed' = TRUE
  /\ \/ UNCHANGED <<ledger, lost>>
     \/ /\ LedgerFails
        /\ \E u \in Players \ Exempt : ledger' = [ledger EXCEPT ![u] = @ - EntryFee]
        /\ lost' = lost + EntryFee
  /\ UNCHANGED payers

\* The whole pot goes to one of the payers.
PayOut == \E w \in payers :
  /\ ~closed
  /\ closed' = TRUE
  /\ payers' = {}
  /\ \/ /\ ledger' = [ledger EXCEPT ![w] = @ + 2 * EntryFee]
        /\ UNCHANGED lost
     \/ /\ LedgerFails
        /\ lost' = lost + 2 * EntryFee
        /\ UNCHANGED ledger

Next == Collect \/ Abandon \/ PayOut

Spec == Init /\ [][Next]_potVars

=============================================================================
