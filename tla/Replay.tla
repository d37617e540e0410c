------------------------------- MODULE Replay -------------------------------
(***************************************************************************)
(* Recording and playback: the menu of gameLoop, the tick of               *)
(* updateGameLogic and the rows that dao.c keeps, over any number of runs  *)
(* of the program.  The keys become inputs through Control.  The engine is *)
(* any deterministic machine that takes an input in a tick, which is all   *)
(* that a replay relies on; its game is over when the goal is reached or   *)
(* when the player has topped out.  The program may stop between any two   *)
(* writes, and loses its memory when it does.                              *)
(***************************************************************************)
EXTENDS Integers, Sequences, FiniteSets

CONSTANTS
  DasDelay, DasSpeed,   \* as in Control
  Keystates, Starts,    \* as in Control
  ResetState,           \* the engine after fsGameReset
  Advance(_, _),        \* what fsGameTick makes of an engine state with an input
  Completed, ToppedOut, \* engine states in FSS_GAMEOVER: the goal was reached, or
                        \* the piece that entered had no room
  WritesFail,           \* may an insert or update fail?
  MaxGames, MaxTicks    \* bounds: recorded games, and ticks of a game

ASSUME EngineAssumption == ResetState \notin Completed \cup ToppedOut
ASSUME WriteAssumption == WritesFail \in BOOLEAN
ASSUME BoundAssumption == MaxGames \in Nat /\ MaxTicks \in Nat

VARIABLES
  \* the database
  overview,    \* rows of replay_overview: the column complete, by id
  inputs,      \* rows of replay_input, by rowid
  hiscore,     \* rows of hiscore: the column replay_id
  \* the program
  pc,          \* "off", "menu", "game", "over", "marked" (in gameLoop) or "end"
  menu,        \* state of gameLoop
  playback,    \* FSView.replayPlayback
  dao,         \* FSDao: rowId, lastRow, lastInput, output, lastOutput
  engine,      \* totalTicksRaw as ticks, and the rest of FSEngine as state
  ctl, input,  \* of Control
  \* history
  game,        \* the row of the game being played, 0 for none
  seen,        \* the inputs of every recorded game
  rested,      \* games that began with no key down since the last tick
  ended,       \* games played live to a game over, won or lost
  touched      \* restart or quit was down during this playback

db    == <<overview, inputs, hiscore>>
prog  == <<pc, menu, playback, dao, engine, ctl, input>>
hist  == <<game, seen, rested, ended, touched>>
vars  == <<db, prog, hist>>

Keys == INSTANCE Control WITH
  MsPerTick <- 1, FieldWidth <- 10, FieldHeight <- 22,
  SoftDropRows <- 1, OneShotSoftDrop <- TRUE

Abort == {"restart", "quit"}
\* A write that fails changes nothing, and its result is not looked at.
Fails == IF WritesFail THEN BOOLEAN ELSE {FALSE}
\* FSS_GAMEOVER (engine.c:658-661, 755): gameLoop does not ask how a game ended.
GameOver == Completed \cup ToppedOut

-----------------------------------------------------------------------------
\* The functions of dao.c.

\* sqlite3_last_insert_rowid is the last row this connection put into any table.
InsertOverview(fails) ==
  IF fails
  THEN overview' = overview /\ dao' = [dao EXCEPT !.rowId = dao.lastRow]
  ELSE /\ overview' = Append(overview, FALSE)
       /\ dao' = [dao EXCEPT !.rowId = Len(overview'), !.lastRow = Len(overview')]

\* Mutant: the tick after the keys.
MutInsertInput(tick, keys, fails) ==
  IF keys = dao.lastInput THEN UNCHANGED <<inputs, dao>>
  ELSE /\ inputs' = Append(inputs, [replay |-> dao.rowId, tick |-> tick + 1, keys |-> keys])
       /\ dao' = [dao EXCEPT !.lastInput = keys, !.lastRow = Len(inputs')]

\* Only a change of keys is stored.
InsertInput(tick, keys, fails) ==
  IF keys = dao.lastInput THEN UNCHANGED <<inputs, dao>>
  ELSE IF fails THEN inputs' = inputs /\ dao' = [dao EXCEPT !.lastInput = keys]
  ELSE /\ inputs' = Append(inputs, [replay |-> dao.rowId, tick |-> tick, keys |-> keys])
       /\ dao' = [dao EXCEPT !.lastInput = keys, !.lastRow = Len(inputs')]

\* Mutant: a tick without a row has no keys.
MutStored(tick) ==
  UNION {inputs[i].keys : i \in {j \in 1..Len(inputs) :
           inputs[j].replay = dao.output /\ inputs[j].tick = tick}}

\* The keys stored for a tick of the replay being played, else the last ones.
Stored(tick) ==
  LET rows == {i \in 1..Len(inputs) : inputs[i].replay = dao.output /\ inputs[i].tick = tick}
  IN  IF rows = {} THEN dao.lastOutput
      ELSE inputs[CHOOSE i \in rows : \A j \in rows : i <= j].keys

MarkComplete(fails) ==
  overview' = IF fails \/ dao.rowId \notin DOMAIN overview THEN overview
              ELSE [overview EXCEPT ![dao.rowId] = TRUE]

SaveHiscore(fails) ==
  IF fails THEN hiscore' = hiscore /\ dao' = dao
  ELSE /\ hiscore' = Append(hiscore, dao.rowId)
       /\ dao' = [dao EXCEPT !.lastRow = Len(hiscore')]

-----------------------------------------------------------------------------
NoDao == [rowId |-> 0, lastRow |-> 0, lastInput |-> {}, output |-> 0, lastOutput |-> {}]
NewEngine == [ticks |-> 0, state |-> ResetState]

Init ==
  /\ overview = <<>> /\ inputs = <<>> /\ hiscore = <<>>
  /\ pc = "off" /\ menu = "IN_GAME" /\ playback = FALSE /\ dao = NoDao
  /\ engine = NewEngine /\ ctl \in Starts /\ input = Keys!NoInput
  /\ game = 0 /\ seen = <<>> /\ rested = {} /\ ended = {} /\ touched = FALSE

\* main, with or without a replay on the command line.  Any replay can be
\* played, complete or not.
Start ==
  /\ pc = "off"
  /\ \/ playback' = FALSE /\ dao' = dao
     \/ \E id \in DOMAIN overview : playback' = TRUE /\ dao' = [dao EXCEPT !.output = id]
  /\ pc' = "menu"
  /\ UNCHANGED <<db, menu, engine, ctl, input, hist>>

\* The program ends or stops; what it had in memory is lost.
Off ==
  /\ pc' = "off" /\ menu' = "IN_GAME" /\ playback' = FALSE /\ dao' = NoDao
  /\ engine' = NewEngine /\ ctl' \in Starts /\ input' = Keys!NoInput
  /\ game' = 0 /\ touched' = FALSE
Stop == pc # "off" /\ Off /\ UNCHANGED <<db, seen, rested, ended>>

\* case IN_GAME: a live game gets a row of its own.
NewGame ==
  /\ \E fails \in Fails :
       IF playback THEN UNCHANGED <<overview, dao, game, seen, rested>>
       ELSE /\ Len(seen) < MaxGames
            /\ InsertOverview(fails)
            /\ game' = IF fails THEN 0 ELSE Len(overview')
            /\ seen' = IF fails THEN seen ELSE Append(seen, <<>>)
            /\ rested' = IF ~fails /\ dao.lastInput = {} /\ ctl.lastKeys = {}
                         THEN rested \cup {game'} ELSE rested
  /\ engine' = NewEngine /\ pc' = "game" /\ menu' = "IN_GAME"
  /\ UNCHANGED <<inputs, hiscore, playback, ctl, input, ended, touched>>

\* A turn of gameLoop outside a game.  Whether 125 frames have passed since the
\* game over, which ends IN_EXCELLENT, is left open.
Menu(keys) ==
  /\ pc = "menu"
  /\ \/ "quit" \in keys /\ Off /\ UNCHANGED <<db, seen, rested, ended>>
     \/ "quit" \notin keys /\ ("restart" \in keys \/ menu = "IN_GAME") /\ NewGame
     \/ /\ keys \cap Abort = {} /\ menu = "IN_EXCELLENT" /\ menu' = "IN_WAIT"
        /\ UNCHANGED <<db, pc, playback, dao, engine, ctl, input, hist>>

\* The keys a tick acts on: those of the player, or in playback the stored ones
\* and of the player's only restart and quit.
Fed(keys) == IF playback THEN (keys \cap Abort) \cup Stored(engine.ticks) ELSE keys

\* fsGameTick, then what gameLoop does when it has ended the game.
Tick(keys) ==
  LET fed == Fed(keys)
      in  == Keys!InputOf(ctl, fed)
      aborts == in.extra \cap Abort # {}
      state == IF aborts THEN engine.state ELSE Advance(engine.state, in)
  IN
  /\ pc = "game" /\ engine.ticks < MaxTicks
  /\ \E fails \in Fails :
       IF playback THEN inputs' = inputs /\ dao' = [dao EXCEPT !.lastOutput = Stored(engine.ticks)]
                   ELSE InsertInput(engine.ticks, keys, fails)
  /\ input' = in /\ ctl' = Keys!After(ctl, fed)
  /\ engine' = [ticks |-> engine.ticks + 1, state |-> state]
  /\ seen' = IF game = 0 THEN seen ELSE [seen EXCEPT ![game] = Append(@, in)]
  /\ touched' = (playback /\ (touched \/ keys \cap Abort # {}))
  /\ UNCHANGED <<overview, hiscore, rested>>
  /\ \/ /\ ~aborts /\ state \notin GameOver
        /\ UNCHANGED <<pc, menu, playback, game, ended>>
     \/ /\ aborts                            \* FSS_RESTART, FSS_QUIT
        /\ pc' = IF "quit" \in in.extra THEN "end" ELSE "menu"
        /\ playback' = FALSE /\ game' = 0 /\ UNCHANGED <<menu, ended>>
     \/ /\ ~aborts /\ state \in GameOver     \* FSS_GAMEOVER
        /\ IF playback THEN pc' = "menu" /\ menu' = "IN_EXCELLENT"
                       ELSE pc' = "over" /\ menu' = menu
        /\ ended' = ended \cup ({game} \ {0})
        /\ playback' = FALSE /\ game' = 0

\* Mutant: the hiscore first.
MutSave(fails) ==
  \/ /\ pc = "over" /\ pc' = "marked" /\ SaveHiscore(fails)
     /\ UNCHANGED <<overview, menu>>
  \/ /\ pc = "marked" /\ pc' = "menu" /\ menu' = "IN_EXCELLENT" /\ MarkComplete(fails)
     /\ UNCHANGED <<hiscore, dao>>

\* The writes after a live game over.
Save(fails) ==
  \/ /\ pc = "over" /\ pc' = "marked" /\ MarkComplete(fails)
     /\ UNCHANGED <<hiscore, dao, menu>>
  \/ /\ pc = "marked" /\ pc' = "menu" /\ menu' = "IN_EXCELLENT" /\ SaveHiscore(fails)
     /\ UNCHANGED overview

Finish ==
  /\ \E fails \in Fails : Save(fails)
  /\ UNCHANGED <<inputs, playback, engine, ctl, input, hist>>

Next ==
  \/ Start \/ Stop \/ Finish
  \/ \E keys \in Keystates : Menu(keys) \/ Tick(keys)

Spec     == Init /\ [][Next]_vars
\* playGameLoop ticks until the game ends.
FairSpec == Spec /\ WF_vars(\E keys \in Keystates : Tick(keys))

-----------------------------------------------------------------------------
TypeOK ==
  /\ \A i \in DOMAIN inputs : inputs[i].tick \in 0..MaxTicks - 1
  /\ pc \in {"off", "menu", "game", "over", "marked", "end"}
  /\ menu \in {"IN_GAME", "IN_EXCELLENT", "IN_WAIT"}
  /\ playback => game = 0 /\ dao.output \in DOMAIN overview
  /\ game \in 0..Len(seen) /\ rested \subseteq 1..Len(seen) /\ ended \subseteq 1..Len(seen)

\* A tick that plays back the game id, within what was recorded, and with no
\* restart or quit by the player.
Replays(id) == playback /\ dao.output = id /\ engine'.ticks = engine.ticks + 1 /\ ~touched'
                 /\ engine.ticks < Len(seen[id])

\* Playback feeds the engine what the game was fed, tick for tick, also for a
\* game that was cut short by a restart, a quit or the end of the program: the
\* stored changes are enough, given that the game began with no key down
\* (main.c:42-51, dao.c:426-444, 498-514).
PlaybackFaithful ==
  [][\A id \in rested : Replays(id) => input' = seen[id][engine.ticks + 1]]_vars

\* A hiscore belongs to a game that a player played to FSS_GAMEOVER, and whose
\* replay is marked complete; no game has two, however often it is played back
\* or the program stops.  A game that was lost counts like one whose goal was
\* reached: neither gameLoop nor daoSaveHiscore tells them apart (main.c:211-215,
\* dao.c:162-176).
HiscoresBelong ==
  /\ \A i \in DOMAIN hiscore : hiscore[i] \in ended /\ overview[hiscore[i]]
  /\ \A i, j \in DOMAIN hiscore : hiscore[i] = hiscore[j] => i = j

\* A replay being played comes to an end by itself if its game did, completed or
\* topped out.
PlaybackEnds ==
  [](playback /\ pc = "game" /\ dao.output \in rested \cap ended => <>(pc # "game"))

-----------------------------------------------------------------------------
\* "Only store deltas and not each state" (dao.c:428), "We must reinit the replay
\* buffer every restart" (main.c:184): the deltas of every game give its keys.
EveryReplayFaithful ==
  [][\A id \in DOMAIN seen : Replays(id) => input' = seen[id][engine.ticks + 1]]_vars

\* "replay_id INTEGER REFERENCES replay_overview(id)" (dao.c:132, 334).
ReferencesHold ==
  /\ \A i \in DOMAIN hiscore : hiscore[i] \in DOMAIN overview
  /\ \A i \in DOMAIN inputs : inputs[i].replay \in DOMAIN overview
=============================================================================
