------------------------------- MODULE RoomPot -------------------------------
(* The room implements the entry-fee pot.                                  *)
EXTENDS Room

\* The stakes are in the pot while feeCharged; the seats say whose they are.
Pot == INSTANCE EntryFeePot WITH
  Exempt <- {AI},
  payers <- IF feeCharged THEN SeatedPlayers ELSE {},
  closed <- (state = "finished")

\* chargeEntryFees, settleEntryFees and every path to a finished room together
\* behave as one pot: filled by both players or by nobody, emptied once.
PotSpec == Pot!Spec

=============================================================================
