--------------------------------- MODULE MCApp ---------------------------------
(***************************************************************************)
(* One run for the mobile app's session, outbox and purchases, and for the *)
(* start letter of a day.  They share no variable, so each behaviour       *)
(* belongs to one of the parts that `part`, chosen at the start, names.    *)
(***************************************************************************)
EXTENDS AppSession, AppSync, AppStore, DailyLetter

CONSTANTS Parts, la
MCMatches   == {1, 2}
MCGenerated == [d \in AllDates |-> la]

VARIABLE part
mcVars == <<sessionVars, syncVars, storeVars, letterVars, part>>

\* The server keeps the newest game, whatever it makes of the one before.
MCInit ==
  /\ SessionInit /\ SyncInit /\ StoreInit /\ LetterInit /\ part \in Parts
  /\ verdict[2] = "kept"
  /\ part # "sync" => verdict[1] = "kept" /\ signedIn

MCNext ==
  \/ part = "session" /\ SessionNext /\ UNCHANGED <<syncVars, storeVars, letterVars, part>>
  \/ part = "sync" /\ SyncNext /\ UNCHANGED <<sessionVars, storeVars, letterVars, part>>
  \/ part = "store" /\ StoreNext /\ UNCHANGED <<sessionVars, syncVars, letterVars, part>>
  \/ part = "letter" /\ LetterNext /\ UNCHANGED <<sessionVars, syncVars, storeVars, part>>

\* The fairness of each module, in the behaviours that are its own
OnSession(A) == part = "session" /\ A
OnSync(A)    == part = "sync" /\ A
OnStore(A)   == part = "store" /\ A
MCSpec ==
  /\ MCInit /\ [][MCNext]_mcVars
  /\ \A r \in Requests : WF_sessionVars(OnSession(CallEnds(r)))
  /\ WF_sessionVars(OnSession(RefreshEnds)) /\ WF_sessionVars(OnSession(RemoveRefresh))
  /\ WF_sessionVars(OnSession(PerformRefresh))
  /\ WF_syncVars(OnSync(RecordGameResult)) /\ WF_syncVars(OnSync(\E l \in Loops : LoopMoves(l)))
  /\ WF_storeVars(OnStore(RestoreMoves))

\* What happens on the device reaches the server, once: games and purchases, through
\* deaths of the app, lost answers and other accounts (AppSync, AppStore).
NothingIsLost == GamesArrive /\ PurchasesArrive
=============================================================================
