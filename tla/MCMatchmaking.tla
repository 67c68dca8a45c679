---------------------------- MODULE MCMatchmaking ----------------------------
(* Instances of Matchmaking for TLC: who makes which call of Join, and      *)
(* what may go wrong meanwhile.                                             *)
EXTENDS Matchmaking, TLC

CONSTANTS Parts, alice, bob, carol, j1, j2, j3, j4

\* alice searches twice, bob and carol once
FourCalls == j1 :> alice @@ j2 :> alice @@ j3 :> bob @@ j4 :> carol
\* alice searches twice, bob once
ThreeCalls == j1 :> alice @@ j2 :> alice @@ j3 :> bob

VARIABLE part
mcVars == <<vars, part>>

\* All four calls are made and their callers wait; or carol stays away and the
\* others hang up, one cancels, or the server restarts once; or a user who has cancelled
\* searches again only when Cancel has answered.
MCInit == Init /\ part \in Parts
Bounded ==
  /\ UNCHANGED part
  /\ part = "patient" => Patient'
  /\ part = "impatient" => pc'[j4] = "idle" /\ cancels' + restarts' <= 1
  /\ part = "cancel" =>
       \A j \in Calls : pc[j] = "idle" /\ pc'[j] # "idle" => cancelling[Caller[j]] = "no"
MCNext == Next /\ Bounded

\* The fairness of FairSpec
MCSpec ==
  /\ MCInit /\ [][MCNext]_mcVars
  /\ WF_mcVars(Background /\ Bounded)
  /\ \A j \in Calls : WF_mcVars((Push(j) \/ Select(j) \/ Unregister(j)) /\ Bounded)

=============================================================================
