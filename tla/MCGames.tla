-------------------------------- MODULE MCGames --------------------------------
(***************************************************************************)
(* One run for the modules about finished games and their words.  They     *)
(* share no variable, so each behaviour belongs to one of them: `part`,    *)
(* chosen at the start, moves and the others keep their initial state.     *)
(***************************************************************************)
EXTENDS SoloGames, DailyBoard, WeeklyBoard, Scheduler, WordChain

CONSTANTS u1, a, b, z, x
Game(m, d, e) == [user |-> u1, mode |-> m, day |-> d, ended |-> e, valid |-> TRUE]
MCInfo == <<Game("daily", 1, 1), Game("daily", 1, 2), Game("match", 2, 2)>>

MCFa   == {<<a, b>>, <<b, z, a>>, <<a, a, b>>, <<b, a>>}
MCWords == MCFa \cup {<<b, a, z>>}
MCTyped == {<<a, b>>, <<b, z, a>>, <<b, a, z>>, <<b, b>>, <<b, x>>}
MCBad  == <<a, a, a, a>>

VARIABLE part

gamesVars == <<soloVars, boardVars, weekVars, schedVars, wordChainVars, part>>

GamesInit ==
  /\ SoloInit /\ BoardInit /\ WeekInit /\ SchedInit /\ WordChainInit
  /\ part \in {"solo", "payout", "daily page", "reset", "alltime page", "rows", "analytics",
               "words", "daily words"}
  /\ up => part \in {"rows", "analytics"}
  /\ part # "daily words" => run.letter = a

NoUpsertFails == (\E done \in SUBSET AllDays : EnsureDaily(done)) => EnsureBoth

NotWords == <<soloVars, boardVars, weekVars, schedVars, part>>

\* The readers of the two boards change nothing the writers read: they are checked
\* beside the uploads and scores, but apart from payout and reset.  The scheduler's jobs
\* share only their ticks: upserts that fail are checked apart from the events.
GamesNext ==
  \/ part = "solo"  /\ SoloNext  /\ UNCHANGED <<boardVars, weekVars, schedVars, wordChainVars, part>>
  \/ part = "payout" /\ BoardNext /\ UNCHANGED <<reader, soloVars, weekVars, schedVars, wordChainVars, part>>
  \/ part = "daily page" /\ BoardNext /\ UNCHANGED <<day, payout, soloVars, weekVars, schedVars, wordChainVars, part>>
  \/ part = "reset" /\ WeekNext /\ UNCHANGED <<page, soloVars, boardVars, schedVars, wordChainVars, part>>
  \/ part = "alltime page" /\ WeekNext /\ UNCHANGED <<reset, soloVars, boardVars, schedVars, wordChainVars, part>>
  \/ part = "rows" /\ SchedNext /\ UNCHANGED <<ingestVars, soloVars, boardVars, weekVars, wordChainVars, part>>
  \/ part = "analytics" /\ SchedNext /\ NoUpsertFails
     /\ UNCHANGED <<soloVars, boardVars, weekVars, wordChainVars, part>>
  \/ part = "words" /\ WordChainNext /\ UNCHANGED <<dailyVars, NotWords>>
  \/ part = "daily words" /\ WordChainNext /\ UNCHANGED <<matchVars, aiVars, NotWords>>

\* The fairness of BoardSpec and SchedSpec, in the behaviours that are theirs
OnBoard(A) == part = "payout" /\ A
OnSched(A) == part \in {"rows", "analytics"} /\ A
GamesSpec ==
  /\ GamesInit /\ [][GamesNext]_gamesVars
  /\ WF_boardVars(OnBoard(StartPayout)) /\ WF_boardVars(OnBoard(PayAwards))
  /\ SF_boardVars(OnBoard(PayAll))
  /\ WF_schedVars(OnSched(TickerFires)) /\ WF_schedVars(OnSched(Tick))
  /\ WF_schedVars(OnSched(RunAnalytics(TRUE))) /\ SF_schedVars(OnSched(EnsureBoth))

=============================================================================
