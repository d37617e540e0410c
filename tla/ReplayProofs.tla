---------------------------- MODULE ReplayProofs ----------------------------
(***************************************************************************)
(* Proofs about Replay, for every delay and speed of auto-repeat, set of   *)
(* keys, length of games and deterministic engine, when writes succeed:    *)
(* the changes of keys that dao.c stores are enough to play a game again,  *)
(* to its end and no further, if the program starts with an FSControl of   *)
(* zeroes, and hiscores belong to games that ended, lost ones included.    *)
(***************************************************************************)
EXTENDS Replay, SequenceTheorems, TLAPS

NoControl == [lastKeys |-> {}, currentKeys |-> {}, dasCounter |-> 0]

\* The hypotheses of playback: an FSControl that is not initialised or a write
\* that fails may lose what it promises.  Hiscores need only the writes.
Orderly == ~WritesFail /\ \A c \in Starts : c = NoControl

-----------------------------------------------------------------------------
\* What is stored, and the phases of the program.

Row == [replay : Nat, tick : Nat, keys : Keystates]

Stores ==
  /\ overview \in Seq(BOOLEAN) /\ inputs \in Seq(Row) /\ hiscore \in Seq(Nat)
  /\ \E S : seen \in Seq(Seq(S))
  /\ Len(seen) = Len(overview) /\ rested \subseteq 1..Len(seen) /\ ended \subseteq 1..Len(seen)

IsDao(d) ==
  /\ d = [rowId |-> d.rowId, lastRow |-> d.lastRow, lastInput |-> d.lastInput,
          output |-> d.output, lastOutput |-> d.lastOutput]
  /\ d.rowId \in Nat

\* An FSControl after a conversion: without keys it is as good as new.
Settled(c) ==
  /\ c = [lastKeys |-> c.lastKeys, currentKeys |-> c.currentKeys, dasCounter |-> c.dasCounter]
  /\ c.currentKeys \subseteq c.lastKeys /\ (c.lastKeys = {} => c.dasCounter = 0)

\* A live game is the newest row, and has so many ticks behind it.
Phases ==
  /\ pc \in {"off", "menu", "game", "over", "marked", "end"} /\ game \in Nat
  /\ playback \in BOOLEAN /\ touched \in BOOLEAN
  /\ IsDao(dao) /\ Settled(ctl) /\ engine.ticks \in Nat
  /\ pc = "off" => ctl = NoControl /\ dao = NoDao /\ ~playback /\ ~touched
  /\ pc # "game" => game = 0
  /\ playback => /\ pc \in {"menu", "game"} /\ game = 0 /\ dao.output \in 1..Len(seen)
                 /\ ~touched => dao.lastOutput = ctl.lastKeys
                 /\ pc = "menu" => ctl = NoControl /\ ~touched
  /\ pc = "game" /\ ~playback =>
       game = dao.rowId /\ game \in 1..Len(seen) /\ engine.ticks = Len(seen[game])
  /\ game \in rested => dao.lastInput = ctl.lastKeys

\* The rows of a game lie in its past, one for a tick at most.
Past ==
  /\ \A i \in 1..Len(inputs) :
       /\ inputs[i].replay \in 1..Len(seen)
       /\ (game # 0 /\ inputs[i].replay = game) => inputs[i].tick < engine.ticks
  /\ \A i, j \in 1..Len(inputs) :
       inputs[i].replay = inputs[j].replay /\ inputs[i].tick = inputs[j].tick => i = j

-----------------------------------------------------------------------------
\* What a replay means.

RowsOf(id, tick) == {i \in 1..Len(inputs) : inputs[i].replay = id /\ inputs[i].tick = tick}

\* The keys of a tick, after those of the tick before.
KeysOf(id, tick, before) ==
  IF RowsOf(id, tick) = {} THEN before
  ELSE inputs[CHOOSE i \in RowsOf(id, tick) : \A j \in RowsOf(id, tick) : i <= j].keys

\* c is what the FSControl goes through when the first n ticks of a game are made
\* of what is stored, and the inputs it gives are those the game was given.
Run(id, n, c) ==
  /\ c[0] = NoControl
  /\ \A t \in 0..n - 1 :
       LET keys == KeysOf(id, t, c[t].lastKeys) IN
       c[t + 1] = Keys!After(c[t], keys) /\ seen[id][t + 1] = Keys!InputOf(c[t], keys)

\* What is stored of a game makes it again, so far.
Recorded ==
  \A id \in rested :
    \E c : Run(id, Len(seen[id]), c) /\ (game = id => c[Len(seen[id])] = ctl)

\* Playback is where the game was.
Playing ==
  (/\ playback /\ pc = "game" /\ ~touched
   /\ dao.output \in rested /\ engine.ticks <= Len(seen[dao.output]))
    => \E c : Run(dao.output, Len(seen[dao.output]), c) /\ c[engine.ticks] = ctl

RInv == Stores /\ Phases /\ Past /\ Recorded /\ Playing

-----------------------------------------------------------------------------
\* Lemmas.

LEMMA AppendAny ==
  ASSUME NEW S, NEW s \in Seq(S), NEW e
  PROVE  /\ Append(s, e) \in Seq(S \cup {e}) /\ Len(Append(s, e)) = Len(s) + 1
         /\ \A i \in 1..Len(s) : Append(s, e)[i] = s[i]
         /\ Append(s, e)[Len(s) + 1] = e
<1>1. s \in Seq(S \cup {e})
  BY SMT
<1> QED
  BY <1>1, AppendProperties

\* fsVirtualKeysToInput leaves an FSControl settled (control.c:36-86).
LEMMA AfterSettled ==
  ASSUME NEW c, NEW keys
  PROVE  LET d == Keys!After(c, keys) IN Settled(d) /\ d.lastKeys = keys
<1>1. keys = {} => Keys!Shift(c.dasCounter, Keys!SideOf(Keys!Live(c, keys))).das = 0
  BY DEF Keys!Shift, Keys!SideOf, Keys!Live
<1> QED
  BY <1>1 DEF Keys!After, Settled

\* An FSControl that saw no keys is as good as new.
LEMMA SettledNoKeys ==
  ASSUME NEW c, Settled(c), c.lastKeys = {}
  PROVE  c = NoControl
BY DEF Settled, NoControl

LEMMA Fresh == Settled(NoControl) /\ IsDao(NoDao)
BY DEF Settled, NoControl, IsDao, NoDao

LEMMA StoredKeys ==
  \A tick : Stored(tick) = KeysOf(dao.output, tick, dao.lastOutput)
BY DEF Stored, KeysOf, RowsOf

LEMMA OnlyOne ==
  ASSUME NEW R, NEW i \in R, i \in Nat, \A j \in R : j = i
  PROVE  (CHOOSE m \in R : \A j \in R : m <= j) = i
<1>1. i \in R /\ \A j \in R : i <= j
  OBVIOUS
<1>2. (CHOOSE m \in R : \A j \in R : m <= j) \in R
  BY <1>1
<1> QED
  BY <1>2

LEMMA OffForGood ==
  ASSUME NEW a \in BOOLEAN, NEW b, b = a \/ b = FALSE
  PROVE  b \in BOOLEAN /\ (b => a)
<1>1. b \in BOOLEAN
  BY Zenon
<1>2. CASE a = TRUE
  BY <1>2
<1>3. CASE a = FALSE
  <2>1. b = FALSE
    BY <1>3, Zenon
  <2> QED
    BY <1>1, <2>1
<1> QED
  BY <1>1, <1>2, <1>3

\* A new row for another game or another tick changes nothing.
LEMMA OtherRow ==
  ASSUME Stores, Past, NEW r \in Row, inputs' = Append(inputs, r),
         NEW id, NEW tick, r.replay # id \/ r.tick # tick, NEW before
  PROVE  KeysOf(id, tick, before)' = KeysOf(id, tick, before)
<1>1. /\ Len(inputs) \in Nat /\ Len(inputs') = Len(inputs) + 1
      /\ \A i \in 1..Len(inputs) : inputs'[i] = inputs[i]
      /\ inputs'[Len(inputs) + 1] = r
  BY AppendProperties DEF Stores
<1>2. RowsOf(id, tick)' = RowsOf(id, tick)
  BY <1>1 DEF RowsOf
<1>3. CASE RowsOf(id, tick) = {}
  BY <1>2, <1>3 DEF KeysOf
<1>4. ASSUME NEW i \in RowsOf(id, tick) PROVE KeysOf(id, tick, before)' = KeysOf(id, tick, before)
  <2> DEFINE least == CHOOSE m \in RowsOf(id, tick) : \A j \in RowsOf(id, tick) : m <= j
  <2>1. i \in 1..Len(inputs) /\ \A j \in RowsOf(id, tick) : j = i
    BY <1>4 DEF Past, RowsOf
  <2>2. least = i
    <3>1. i \in Nat
      BY <2>1
    <3> HIDE DEF least
    <3> QED
      BY <1>4, <2>1, <3>1, OnlyOne DEF least
  <2>3. inputs'[least] = inputs[least]
    BY <1>1, <2>1, <2>2
  <2>4. KeysOf(id, tick, before) = inputs[least].keys
    BY <1>4 DEF KeysOf
  <2>5. KeysOf(id, tick, before)' = inputs'[least].keys
    BY <1>2, <1>4 DEF KeysOf
  <2> QED
    BY <2>3, <2>4, <2>5
<1> QED
  BY <1>3, <1>4

\* The new row gives the keys of its tick.
LEMMA NewRow ==
  ASSUME Stores, NEW r \in Row, inputs' = Append(inputs, r), RowsOf(r.replay, r.tick) = {},
         NEW before
  PROVE  KeysOf(r.replay, r.tick, before)' = r.keys
<1> DEFINE n == Len(inputs) + 1
<1>1. /\ Len(inputs) \in Nat /\ Len(inputs') = Len(inputs) + 1
      /\ \A i \in 1..Len(inputs) : inputs'[i] = inputs[i]
      /\ inputs'[n] = r
  BY AppendProperties DEF Stores
<1>2. RowsOf(r.replay, r.tick)' = {n}
  BY <1>1 DEF RowsOf
<1>3. (CHOOSE m \in {n} : \A j \in {n} : m <= j) = n
  BY <1>1
<1> QED
  BY <1>1, <1>2, <1>3 DEF KeysOf

LEMMA SameRun ==
  ASSUME UNCHANGED <<inputs, seen>>
  PROVE  \A id, n, c : Run(id, n, c)' <=> Run(id, n, c)
BY DEF Run, KeysOf, RowsOf

\* A step that stores nothing leaves the records alone.
LEMMA SameRecord ==
  ASSUME RInv, UNCHANGED <<inputs, seen, rested>>,
         game' = 0 \/ (game' = game /\ ctl' = ctl)
  PROVE  Recorded'
<1>1. 0 \notin rested
  BY DEF RInv, Stores
<1> QED
  BY <1>1, SameRun DEF RInv, Recorded

-----------------------------------------------------------------------------
\* One lemma per action.

LEMMA InitRInv == Orderly /\ Init => RInv
<1> SUFFICES ASSUME Orderly, Init PROVE RInv
  OBVIOUS
<1>1. ctl = NoControl
  BY DEF Orderly, Init
<1>2. <<>> \in Seq(BOOLEAN) /\ <<>> \in Seq(Row) /\ <<>> \in Seq(Nat) /\ <<>> \in Seq(Seq({}))
      /\ Len(<<>>) = 0
  BY EmptySeq
<1>3. Stores
  BY <1>2 DEF Init, Stores
<1>4. Phases
  BY <1>1 DEF Init, Phases, IsDao, NoDao, Settled, NoControl, NewEngine
<1>5. Past /\ Recorded /\ Playing
  BY <1>2 DEF Init, Past, Recorded, Playing
<1> QED
  BY <1>3, <1>4, <1>5 DEF RInv

LEMMA StartStep ==
  ASSUME Orderly, RInv, Start
  PROVE  RInv'
<1>1. UNCHANGED <<db, ctl, engine, hist>> /\ pc = "off" /\ pc' = "menu"
  BY DEF Start
<1>2. ctl = NoControl /\ dao = NoDao /\ ~playback /\ ~touched /\ game = 0
  BY <1>1 DEF RInv, Phases
<1>3. Stores' /\ Past'
  BY <1>1 DEF RInv, Stores, Past, db, hist
<1>4. DOMAIN overview = 1..Len(seen)
  BY LenProperties DEF RInv, Stores
<1>5. 0 \notin rested
  BY DEF RInv, Stores
<1>6. Phases'
  <2>1. \/ playback' = FALSE /\ dao' = NoDao
        \/ \E id \in 1..Len(seen) : playback' = TRUE /\ dao' = [NoDao EXCEPT !.output = id]
    BY <1>2, <1>4 DEF Start
  <2>2. IsDao(dao)' /\ dao'.lastOutput = {} /\ (playback' => dao'.output \in 1..Len(seen))
    BY <2>1 DEF IsDao, NoDao
  <2>3. ctl' = NoControl /\ game' = 0 /\ touched' = FALSE /\ seen' = seen
        /\ engine' = engine /\ rested' = rested
    BY <1>1, <1>2 DEF hist
  <2>4. Settled(ctl)' /\ ctl'.lastKeys = {}
    BY <2>3, Fresh DEF NoControl
  <2>5. playback' \in BOOLEAN
    BY <2>1
  <2> QED
    BY <1>1, <1>5, <2>2, <2>3, <2>4, <2>5 DEF RInv, Phases
<1>7. Recorded'
  BY <1>1, SameRecord DEF db, hist
<1>8. Playing'
  BY <1>1 DEF Playing
<1> QED
  BY <1>3, <1>6, <1>7, <1>8 DEF RInv

LEMMA OffStep ==
  ASSUME Orderly, RInv, Off, UNCHANGED <<db, seen, rested, ended>>
  PROVE  RInv'
<1>1. Stores'
  BY DEF RInv, Stores, db
<1>2. ctl' = NoControl /\ dao' = NoDao /\ 0 \notin rested
  BY DEF Off, Orderly, RInv, Stores
<1>3. Phases'
  <2>1. IsDao(dao)' /\ Settled(ctl)' /\ engine'.ticks = 0
    BY <1>2, Fresh DEF Off, NewEngine
  <2>2. pc' = "off" /\ game' = 0 /\ rested' = rested
    BY DEF Off
  <2>3. playback' \in BOOLEAN /\ touched' \in BOOLEAN /\ ~playback' /\ ~touched'
    BY DEF Off
  <2> QED
    BY <1>2, <2>1, <2>2, <2>3 DEF Phases
<1>4. Past'
  BY DEF RInv, Past, Off, db
<1>5. Recorded' /\ Playing'
  BY SameRecord DEF Off, db, Playing
<1> QED
  BY <1>1, <1>3, <1>4, <1>5 DEF RInv

\* Waiting in the menu.
LEMMA WaitStep ==
  ASSUME RInv, pc = "menu", menu' = "IN_WAIT",
         UNCHANGED <<db, pc, playback, dao, engine, ctl, input, hist>>
  PROVE  RInv'
<1>1. UNCHANGED <<overview, inputs, hiscore, game, seen, rested, ended, touched>>
  BY DEF db, hist
<1>2. Stores' /\ Past'
  BY <1>1 DEF RInv, Stores, Past
<1>3. Phases'
  BY <1>1 DEF RInv, Phases
<1>4. Recorded' /\ Playing'
  BY <1>1, SameRecord DEF Playing
<1> QED
  BY <1>2, <1>3, <1>4 DEF RInv

\* Playback begins: nothing is stored, and the game is where every run begins.
LEMMA PlayStep ==
  ASSUME RInv, pc = "menu", playback, NewGame
  PROVE  RInv'
<1>1. /\ UNCHANGED <<overview, inputs, hiscore, dao, game, seen, rested, playback, ctl, ended, touched>>
      /\ engine' = NewEngine /\ pc' = "game"
  BY DEF NewGame, Fails
<1>2. Stores'
  BY <1>1 DEF RInv, Stores
<1>3. Past'
  BY <1>1 DEF RInv, Past, Phases
<1>4. Phases'
  BY <1>1 DEF RInv, Phases, NewEngine
<1>5. Recorded'
  BY <1>1, SameRecord
<1>6. Playing'
  <2> SUFFICES ASSUME dao'.output \in rested'
               PROVE  \E c : Run(dao.output, Len(seen[dao.output]), c)' /\ c[0] = ctl'
    BY <1>1 DEF Playing, NewEngine
  <2>1. PICK c : Run(dao.output, Len(seen[dao.output]), c)
    BY <1>1 DEF RInv, Recorded
  <2>2. c[0] = ctl'
    BY <1>1, <2>1 DEF Run, RInv, Phases
  <2>3. Run(dao.output, Len(seen[dao.output]), c)'
    BY <1>1, <2>1, SameRun
  <2> QED
    BY <2>2, <2>3
<1> QED
  BY <1>2, <1>3, <1>4, <1>5, <1>6 DEF RInv

\* A live game begins with a row of its own.
LEMMA LiveStep ==
  ASSUME Orderly, RInv, pc = "menu", ~playback, NewGame
  PROVE  RInv'
<1> DEFINE n == Len(seen) + 1
<1>1. /\ overview' = Append(overview, FALSE) /\ seen' = Append(seen, <<>>) /\ game' = Len(overview')
      /\ dao' = [dao EXCEPT !.rowId = Len(overview'), !.lastRow = Len(overview')]
      /\ rested' = IF dao.lastInput = {} /\ ctl.lastKeys = {} THEN rested \cup {game'} ELSE rested
  BY DEF NewGame, Orderly, Fails, InsertOverview
<1>2. /\ UNCHANGED <<inputs, hiscore, playback, ctl, ended, touched>>
      /\ engine' = NewEngine /\ pc' = "game"
  BY DEF NewGame
<1>3. PICK S : seen \in Seq(Seq(S))
  BY DEF RInv, Stores
<1>4. /\ seen' \in Seq(Seq(S)) /\ Len(seen') = n /\ seen'[n] = <<>> /\ Len(seen) \in Nat
      /\ \A id \in 1..Len(seen) : seen'[id] = seen[id]
  <2>1. <<>> \in Seq(S)
    BY EmptySeq
  <2> QED
    BY <1>1, <1>3, <2>1, AppendProperties, LenProperties
<1>5. overview' \in Seq(BOOLEAN) /\ Len(overview') = n /\ game' = n
  BY <1>1, AppendProperties DEF RInv, Stores
<1>6. rested \subseteq 1..Len(seen) /\ ended \subseteq 1..Len(seen)
  BY DEF RInv, Stores
<1> HIDE DEF n
<1>7. Stores'
  <2>1. rested' \subseteq 1..n /\ ended' \subseteq 1..n
    BY <1>1, <1>2, <1>4, <1>5, <1>6 DEF n
  <2> QED
    BY <1>2, <1>4, <1>5, <2>1 DEF RInv, Stores
<1>8. n \in 1..n /\ n # 0 /\ 1..Len(seen) \subseteq 1..n /\ n \notin 1..Len(seen)
  BY <1>4 DEF n
<1>9. Past'
  BY <1>2, <1>4, <1>5, <1>8 DEF RInv, Past
<1>10. Phases'
  <2>1. IsDao(dao)' /\ dao'.rowId = n /\ dao'.lastInput = dao.lastInput
    <3>1. IsDao(dao)
      BY DEF RInv, Phases
    <3>2. dao' = [dao EXCEPT !.rowId = n, !.lastRow = n]
      BY <1>1, <1>5
    <3>3. n \in Nat
      BY <1>4 DEF n
    <3> QED
      BY <3>1, <3>2, <3>3 DEF IsDao
  <2>2. game' \in rested' => dao'.lastInput = ctl'.lastKeys
    BY <1>1, <1>2, <1>5, <1>6, <1>8, <2>1
  <2>3. engine'.ticks = 0 /\ Len(seen'[n]) = 0
    BY <1>2, <1>4, EmptySeq DEF NewEngine
  <2>4. Settled(ctl)' /\ touched' \in BOOLEAN /\ playback' \in BOOLEAN /\ ~playback'
    BY <1>2 DEF RInv, Phases
  <2> QED
    BY <1>2, <1>4, <1>5, <1>8, <2>1, <2>2, <2>3, <2>4 DEF Phases
<1>11. Recorded'
  <2> SUFFICES ASSUME NEW id \in rested'
               PROVE  \E c : Run(id, Len(seen[id]), c)' /\ (game' = id => c[Len(seen'[id])] = ctl')
    BY DEF Recorded
  <2>1. CASE id = n
    <3>1. ctl = NoControl
      BY <1>1, <1>6, <1>8, <2>1, SettledNoKeys DEF RInv, Phases
    <3>2. Len(seen'[id]) = 0
      BY <1>4, <2>1, EmptySeq
    <3> DEFINE c == [t \in {0} |-> NoControl]
    <3>3. Run(id, 0, c)' /\ c[0] = ctl'
      BY <1>2, <3>1 DEF Run
    <3> QED
      BY <3>2, <3>3
  <2>2. CASE id # n
    <3>1. id \in rested /\ id \in 1..Len(seen) /\ game' # id
      BY <1>1, <1>5, <1>6, <2>2
    <3>2. PICK c : Run(id, Len(seen[id]), c)
      BY <3>1 DEF RInv, Recorded
    <3>3. seen'[id] = seen[id]
      BY <1>4, <3>1
    <3>4. \A t, before : KeysOf(id, t, before)' = KeysOf(id, t, before)
      BY <1>2 DEF KeysOf, RowsOf
    <3>5. Run(id, Len(seen[id]), c)'
      BY <3>2, <3>3, <3>4 DEF Run
    <3> QED
      BY <3>1, <3>5
  <2> QED
    BY <2>1, <2>2
<1>12. Playing'
  BY <1>2 DEF Playing
<1> QED
  BY <1>7, <1>9, <1>10, <1>11, <1>12 DEF RInv

\* A live tick stores the keys if they changed, and what is stored gives them.
LEMMA LiveTickStores ==
  ASSUME Orderly, RInv, pc = "game", ~playback, NEW keys \in Keystates, Tick(keys),
         NEW g, g = game, NEW n, n = engine.ticks
  PROVE  /\ inputs' \in Seq(Row) /\ Past'
         /\ IsDao(dao)' /\ dao'.rowId = dao.rowId /\ dao'.lastInput = keys
         /\ \A id, t, before : (id # g \/ t < n)
              => KeysOf(id, t, before)' = KeysOf(id, t, before)
         /\ \A before : before = dao.lastInput => KeysOf(g, n, before)' = keys
<1>1. /\ InsertInput(engine.ticks, keys, FALSE) /\ engine'.ticks = engine.ticks + 1
      /\ game' \in {0, game} /\ Len(seen') = Len(seen)
  <2>1. InsertInput(engine.ticks, keys, FALSE) /\ engine'.ticks = engine.ticks + 1
        /\ game' \in {0, game}
    BY DEF Tick, Orderly, Fails
  <2>2. Len(seen') = Len(seen)
    BY LenProperties DEF Tick, RInv, Stores
  <2> QED
    BY <2>1, <2>2
<1>2. /\ IsDao(dao) /\ game = dao.rowId /\ game \in 1..Len(seen) /\ engine.ticks \in Nat
      /\ Len(seen) \in Nat
  BY LenProperties DEF RInv, Phases, Stores
<1>3. /\ inputs \in Seq(Row) /\ Stores /\ Past
      /\ \A i \in 1..Len(inputs) :
           inputs[i].replay \in 1..Len(seen) /\ (inputs[i].replay = game => inputs[i].tick < engine.ticks)
  BY <1>2 DEF RInv, Stores, Past
<1>7. \A i \in 1..Len(inputs) : inputs[i].tick \in Nat
  <2>1. \A i \in 1..Len(inputs) : inputs[i] \in Row
    BY <1>3, ElementOfSeq
  <2> QED
    BY <2>1 DEF Row
<1>4. RowsOf(g, n) = {}
  BY <1>2, <1>3 DEF RowsOf
<1>5. CASE keys = dao.lastInput
  <2>1. inputs' = inputs /\ dao' = dao
    BY <1>1, <1>5 DEF InsertInput
  <2>2. Past'
    BY <1>1, <1>2, <1>3, <1>7, <2>1 DEF Past
  <2>3. \A id, t, before : KeysOf(id, t, before)' = KeysOf(id, t, before)
    BY <2>1 DEF KeysOf, RowsOf
  <2>4. KeysOf(g, n, dao.lastInput) = keys
    BY <1>4, <1>5 DEF KeysOf
  <2> QED
    BY <1>2, <1>3, <1>5, <2>1, <2>2, <2>3, <2>4 DEF IsDao
<1>6. CASE keys # dao.lastInput
  <2> DEFINE r == [replay |-> g, tick |-> n, keys |-> keys]
  <2>1. inputs' = Append(inputs, r) /\ dao' = [dao EXCEPT !.lastInput = keys, !.lastRow = Len(inputs')]
    BY <1>1, <1>2, <1>6 DEF InsertInput
  <2>2. r \in Row /\ r.replay = g /\ r.tick = n /\ r.keys = keys
    BY <1>2 DEF Row
  <2> HIDE DEF r
  <2>3. /\ inputs' \in Seq(Row) /\ Len(inputs') = Len(inputs) + 1 /\ Len(inputs) \in Nat
        /\ \A i \in 1..Len(inputs) : inputs'[i] = inputs[i]
        /\ inputs'[Len(inputs) + 1] = r
    BY <1>3, <2>1, <2>2, AppendProperties, LenProperties
  <2>4. Past'
    <3>1. \A i \in 1..Len(inputs') : \/ i \in 1..Len(inputs) /\ inputs'[i] = inputs[i]
                                     \/ i = Len(inputs) + 1 /\ inputs'[i] = r
      BY <2>3
    <3>2. ASSUME NEW i \in 1..Len(inputs')
          PROVE  /\ inputs'[i].replay \in 1..Len(seen')
                 /\ (game' # 0 /\ inputs'[i].replay = game') => inputs'[i].tick < engine'.ticks
      <4>1. CASE i \in 1..Len(inputs) /\ inputs'[i] = inputs[i]
        BY <1>1, <1>2, <1>3, <1>7, <4>1
      <4>2. CASE inputs'[i] = r
        BY <1>1, <1>2, <2>2, <4>2
      <4> QED
        BY <3>1, <4>1, <4>2
    <3>3. ASSUME NEW i \in 1..Len(inputs'), NEW j \in 1..Len(inputs'),
                 inputs'[i].replay = inputs'[j].replay, inputs'[i].tick = inputs'[j].tick
          PROVE  i = j
      <4>1. \A k \in 1..Len(inputs) : inputs[k].replay # r.replay \/ inputs[k].tick # r.tick
        BY <1>2, <1>3, <1>7, <2>2
      <4> QED
        BY <1>3, <3>1, <3>3, <4>1 DEF Past
    <3> QED
      BY <3>2, <3>3 DEF Past
  <2>5. IsDao(dao)' /\ dao'.rowId = dao.rowId /\ dao'.lastInput = keys
    BY <1>2, <2>1 DEF IsDao
  <2>6. \A id, t, before : (id # g \/ t < n)
          => KeysOf(id, t, before)' = KeysOf(id, t, before)
    BY <1>2, <1>3, <2>1, <2>2, OtherRow
  <2>7. \A before : KeysOf(g, n, before)' = keys
    BY <1>3, <1>4, <2>1, <2>2, NewRow
  <2> QED
    BY <2>3, <2>4, <2>5, <2>6, <2>7
<1> QED
  BY <1>5, <1>6

\* A live tick carries on the run of its game.
LEMMA LiveTickStep ==
  ASSUME Orderly, RInv, pc = "game", ~playback, NEW keys \in Keystates, Tick(keys)
  PROVE  RInv'
<1> DEFINE in == Keys!InputOf(ctl, keys)
<1> PICK g, n : g = game /\ n = engine.ticks
  OBVIOUS
<1>1. /\ inputs' \in Seq(Row) /\ Past'
      /\ IsDao(dao)' /\ dao'.rowId = dao.rowId /\ dao'.lastInput = keys
      /\ \A id, t, before : (id # g \/ t < n) => KeysOf(id, t, before)' = KeysOf(id, t, before)
      /\ \A before : before = dao.lastInput => KeysOf(g, n, before)' = keys
  BY LiveTickStores
<1>2. /\ g = dao.rowId /\ g \in 1..Len(seen) /\ g # 0 /\ n \in Nat /\ n = Len(seen[g])
      /\ Len(seen) \in Nat /\ rested \subseteq 1..Len(seen) /\ ended \subseteq 1..Len(seen)
  BY LenProperties DEF RInv, Phases, Stores
<1>3. /\ ctl' = Keys!After(ctl, keys) /\ engine'.ticks = n + 1
      /\ seen' = [seen EXCEPT ![g] = Append(@, in)]
      /\ UNCHANGED <<overview, hiscore, rested>>
      /\ touched' \in BOOLEAN /\ ~touched'
  BY <1>2 DEF Tick, Fed
<1>4. /\ playback' \in BOOLEAN /\ ~playback'
      /\ \/ pc' = "game" /\ game' = g
         \/ pc' \in {"menu", "end", "over"} /\ game' = 0
      /\ ended' \subseteq ended \cup {g}
  <2>1. playback \in BOOLEAN
    BY DEF RInv, Phases
  <2>2. \/ pc' = pc /\ game' = game /\ ended' = ended
        \/ (pc' = "end" \/ pc' = "menu") /\ game' = 0 /\ ended' = ended
        \/ pc' = "over" /\ game' = 0 /\ ended' = ended \cup ({game} \ {0})
    BY DEF Tick
  <2>3. playback' = playback \/ playback' = FALSE
    BY DEF Tick
  <2>4. playback' \in BOOLEAN /\ ~playback'
    BY <2>1, <2>3, OffForGood
  <2> QED
    BY <2>2, <2>4
<1> HIDE DEF in
<1>5. PICK S : seen \in Seq(Seq(S))
  BY DEF RInv, Stores
<1>6. /\ seen' \in Seq(Seq(S \cup {in})) /\ Len(seen') = Len(seen)
      /\ Len(seen'[g]) = n + 1 /\ seen'[g][n + 1] = in
      /\ \A t \in 1..n : seen'[g][t] = seen[g][t]
      /\ \A id \in 1..Len(seen) : id # g => seen'[id] = seen[id]
  <2>1. seen \in Seq(Seq(S \cup {in}))
    BY <1>5
  <2>2. seen[g] \in Seq(S)
    BY <1>2, <1>5, ElementOfSeq
  <2>3. /\ Append(seen[g], in) \in Seq(S \cup {in}) /\ Len(Append(seen[g], in)) = n + 1
        /\ \A t \in 1..n : Append(seen[g], in)[t] = seen[g][t]
        /\ Append(seen[g], in)[n + 1] = in
    BY <1>2, <2>2, AppendAny
  <2> DEFINE e == Append(seen[g], in)
  <2>4. seen' = [seen EXCEPT ![g] = e]
    BY <1>3
  <2>5. e \in Seq(S \cup {in}) /\ Len(e) = n + 1 /\ e[n + 1] = in /\ \A t \in 1..n : e[t] = seen[g][t]
    BY <2>3
  <2> HIDE DEF e
  <2> QED
    BY <1>2, <2>1, <2>4, <2>5, ExceptSeq
<1>7. Stores'
  <2>1. ended' \subseteq 1..Len(seen') /\ rested' \subseteq 1..Len(seen')
    BY <1>2, <1>3, <1>4, <1>6
  <2> QED
    BY <1>1, <1>3, <1>6, <2>1 DEF RInv, Stores
<1>8. Settled(ctl)' /\ ctl'.lastKeys = keys
  BY <1>3, AfterSettled
<1>9. Phases'
  <2>1. pc' \in {"menu", "game", "over", "end"} /\ game' \in Nat
    BY <1>2, <1>4
  <2>2. pc' # "game" => game' = 0
    BY <1>4
  <2>3. pc' = "game" => game' = dao'.rowId /\ game' \in 1..Len(seen') /\ engine'.ticks = Len(seen'[game'])
    BY <1>1, <1>2, <1>3, <1>4, <1>6
  <2>4. engine'.ticks \in Nat
    BY <1>2, <1>3
  <2> QED
    BY <1>1, <1>3, <1>4, <1>8, <2>1, <2>2, <2>3, <2>4 DEF Phases
<1>10. Recorded'
  <2> SUFFICES ASSUME NEW id \in rested
               PROVE  \E c : Run(id, Len(seen[id]), c)' /\ (game' = id => c[Len(seen'[id])] = ctl')
    BY <1>3 DEF Recorded
  <2>1. PICK c : Run(id, Len(seen[id]), c) /\ (game = id => c[Len(seen[id])] = ctl)
    BY DEF RInv, Recorded
  <2>2. CASE id # g
    <3>1. seen'[id] = seen[id] /\ game' # id
      <4>1. id \in 1..Len(seen) /\ id # 0
        BY <1>2
      <4>2. seen'[id] = seen[id]
        BY <1>6, <2>2, <4>1
      <4>3. game' # id
        BY <1>4, <2>2, <4>1
      <4> QED
        BY <4>2, <4>3
    <3>2. Run(id, Len(seen[id]), c)'
      BY <1>1, <2>1, <2>2, <3>1 DEF Run
    <3> QED
      BY <3>1, <3>2
  <2>3. CASE id = g
    <3> PICK last : last = ctl'
      OBVIOUS
    <3> PICK d : d = [t \in 0..n + 1 |-> IF t = n + 1 THEN last ELSE c[t]]
      OBVIOUS
    <3>1. c[n] = ctl /\ dao.lastInput = ctl.lastKeys
      BY <1>2, <2>1, <2>3 DEF RInv, Phases
    <3>2. d[0] = NoControl /\ d[n + 1] = ctl' /\ \A t \in 0..n : d[t] = c[t]
      BY <1>2, <2>1 DEF Run
    <3>3. ASSUME NEW t \in 0..n
          PROVE  LET ks == KeysOf(g, t, d[t].lastKeys)' IN
                 d[t + 1] = Keys!After(d[t], ks) /\ seen'[g][t + 1] = Keys!InputOf(d[t], ks)
      <4>1. CASE t = n
        <5>1. KeysOf(g, t, d[t].lastKeys)' = keys
          BY <1>1, <1>2, <3>1, <3>2, <4>1
        <5> QED
          BY <1>2, <1>3, <1>6, <3>1, <3>2, <4>1, <5>1 DEF in
      <4>2. CASE t # n
        <5>1. t \in 0..n - 1 /\ t < n /\ t + 1 \in 1..n /\ t + 1 \in 0..n
          BY <1>2, <4>2
        <5>2. KeysOf(g, t, d[t].lastKeys)' = KeysOf(g, t, c[t].lastKeys)
          <6>1. \A before : KeysOf(g, t, before)' = KeysOf(g, t, before)
            BY <1>1, <5>1
          <6>2. d[t] = c[t]
            BY <3>2
          <6> QED
            BY <6>1, <6>2
        <5>3. LET ks == KeysOf(g, t, c[t].lastKeys) IN
              c[t + 1] = Keys!After(c[t], ks) /\ seen[g][t + 1] = Keys!InputOf(c[t], ks)
          BY <1>2, <2>1, <2>3, <5>1 DEF Run
        <5> QED
          BY <1>6, <3>2, <5>1, <5>2, <5>3
      <4> QED
        BY <4>1, <4>2
    <3>4. Run(g, n + 1, d)'
      <4>1. 0..(n + 1) - 1 = 0..n
        BY <1>2
      <4> QED
        BY <3>2, <3>3, <4>1 DEF Run
    <3> QED
      BY <1>6, <2>3, <3>2, <3>4
  <2> QED
    BY <2>2, <2>3
<1>11. Playing'
  BY <1>4 DEF Playing
<1> QED
  BY <1>1, <1>7, <1>9, <1>10, <1>11 DEF RInv

\* A tick of playback takes the next step of the run that is played.
LEMMA PlaybackTickStep ==
  ASSUME RInv, pc = "game", playback, NEW keys \in Keystates, Tick(keys)
  PROVE  RInv'
<1> DEFINE fed == (keys \cap Abort) \cup Stored(engine.ticks)
<1>1. /\ game = 0 /\ IsDao(dao) /\ engine.ticks \in Nat /\ dao.output \in 1..Len(seen)
      /\ ~touched => dao.lastOutput = ctl.lastKeys
      /\ 0 \notin rested
  BY DEF RInv, Phases, Stores
<1>2. /\ inputs' = inputs /\ dao' = [dao EXCEPT !.lastOutput = Stored(engine.ticks)]
      /\ ctl' = Keys!After(ctl, fed) /\ engine'.ticks = engine.ticks + 1 /\ seen' = seen
      /\ UNCHANGED <<overview, hiscore, rested>>
  BY <1>1 DEF Tick, Fed
<1>3. /\ touched' \in BOOLEAN
      /\ ~touched' => ~touched /\ keys \cap Abort = {}
  BY DEF Tick
<1>4. game' = 0 /\ ended' = ended
  BY <1>1 DEF Tick
<1>5. \/ pc' = "game" /\ playback' = playback
      \/ pc' \in {"menu", "end"} /\ playback' = FALSE
  BY DEF Tick
<1>6. playback' \in BOOLEAN /\ (playback' <=> pc' = "game")
  <2>1. playback \in BOOLEAN
    BY DEF RInv, Phases
  <2>2. playback' = playback \/ playback' = FALSE
    BY <1>5
  <2>3. playback' \in BOOLEAN
    BY <2>1, <2>2, OffForGood
  <2>4. CASE pc' = "game"
    BY <1>5, <2>4, <2>3
  <2>5. CASE pc' # "game"
    BY <1>5, <2>5, <2>3
  <2> QED
    BY <2>3, <2>4, <2>5
<1> HIDE DEF fed
<1>7. Settled(ctl)' /\ ctl'.lastKeys = fed
  BY <1>2, AfterSettled
<1>8. IsDao(dao)' /\ dao'.output = dao.output /\ dao'.lastOutput = Stored(engine.ticks)
  BY <1>1, <1>2 DEF IsDao
<1>9. Stores' /\ Past'
  BY <1>1, <1>2, <1>4 DEF RInv, Stores, Past
<1>10. ~touched' => dao'.lastOutput = ctl'.lastKeys /\ fed = Stored(engine.ticks)
  BY <1>3, <1>7, <1>8 DEF fed
<1>11. Phases'
  <2>1. playback' => /\ pc' \in {"menu", "game"} /\ game' = 0 /\ dao'.output \in 1..Len(seen')
                     /\ ~touched' => dao'.lastOutput = ctl'.lastKeys
                     /\ pc' = "menu" => ctl' = NoControl /\ ~touched'
    BY <1>1, <1>2, <1>4, <1>6, <1>8, <1>10
  <2>2. pc' \in {"game", "menu", "end"}
    BY <1>5
  <2>3. game' \notin rested' /\ engine'.ticks \in Nat
    BY <1>1, <1>2, <1>4
  <2> QED
    BY <1>3, <1>4, <1>6, <1>7, <1>8, <2>1, <2>2, <2>3 DEF Phases
<1>12. Recorded'
  BY <1>2, <1>4, SameRecord
<1>13. Playing'
  <2> SUFFICES ASSUME ~touched', playback', dao'.output \in rested',
                      engine'.ticks <= Len(seen'[dao'.output])
               PROVE  \E c : Run(dao.output, Len(seen[dao.output]), c)' /\ c[engine'.ticks] = ctl'
    BY DEF Playing
  <2> PICK id, n : id = dao.output /\ n = engine.ticks
    OBVIOUS
  <2>1. id \in rested /\ Len(seen[id]) \in Nat /\ n < Len(seen[id])
    <3>1. seen[id] \in Seq(UNION {{seen[id][i]} : i \in 1..Len(seen[id])}) \/ Len(seen[id]) \in Nat
      <4>1. PICK S : seen \in Seq(Seq(S))
        BY DEF RInv, Stores
      <4>2. seen[id] \in Seq(S)
        BY <1>1, <4>1, ElementOfSeq
      <4> QED
        BY <4>2, LenProperties
    <3> QED
      BY <1>1, <1>2, <1>8, <3>1, LenProperties
  <2>2. PICK c : Run(id, Len(seen[id]), c) /\ c[n] = ctl
    BY <1>1, <1>3, <2>1 DEF RInv, Playing
  <2>3. n \in 0..Len(seen[id]) - 1
    BY <1>1, <2>1
  <2>4. KeysOf(id, n, c[n].lastKeys) = fed
    BY <1>1, <1>3, <1>10, <2>2, StoredKeys
  <2>5. c[n + 1] = ctl'
    BY <1>2, <2>2, <2>3, <2>4 DEF Run
  <2>6. Run(id, Len(seen[id]), c)'
    <3>1. Run(id, Len(seen[id]), c)' <=> Run(id, Len(seen[id]), c)
      BY <1>2 DEF Run, KeysOf, RowsOf
    <3> QED
      BY <2>2, <3>1
  <2> QED
    BY <1>2, <1>8, <2>5, <2>6
<1> QED
  BY <1>9, <1>11, <1>12, <1>13 DEF RInv

\* The writes after a game over touch no replay.
LEMMA FinishStep ==
  ASSUME RInv, Finish
  PROVE  RInv'
<1>1. PICK fails \in Fails : Save(fails)
  BY DEF Finish
<1>2. UNCHANGED <<inputs, playback, engine, ctl, game, seen, rested, ended, touched>>
  BY DEF Finish, hist
<1>3. /\ overview \in Seq(BOOLEAN) /\ hiscore \in Seq(Nat) /\ IsDao(dao) /\ game = 0 /\ ~playback
      /\ 0 \notin rested
  BY <1>1 DEF RInv, Stores, Phases, Save
<1>4. overview' \in Seq(BOOLEAN) /\ Len(overview') = Len(overview)
  <2>1. CASE overview' = overview
    BY <1>3, <2>1
  <2>2. CASE overview' = [overview EXCEPT ![dao.rowId] = TRUE] /\ dao.rowId \in DOMAIN overview
    <3>1. dao.rowId \in 1..Len(overview) /\ TRUE \in BOOLEAN
      BY <1>3, <2>2, LenProperties
    <3> QED
      BY <1>3, <2>2, <3>1, ExceptSeq
  <2> QED
    BY <1>1, <2>1, <2>2 DEF Save, MarkComplete
<1>5. hiscore' \in Seq(Nat) /\ IsDao(dao)' /\ dao'.rowId = dao.rowId
  <2>1. CASE hiscore' = hiscore /\ dao' = dao
    BY <1>3, <2>1 DEF IsDao
  <2>2. CASE hiscore' = Append(hiscore, dao.rowId) /\ dao' = [dao EXCEPT !.lastRow = Len(hiscore')]
    <3>1. dao.rowId \in Nat
      BY <1>3 DEF IsDao
    <3>2. IsDao(dao)' /\ dao'.rowId = dao.rowId
      BY <1>3, <2>2 DEF IsDao
    <3> QED
      BY <1>3, <2>2, <3>1, <3>2, AppendProperties
  <2> QED
    BY <1>1, <2>1, <2>2 DEF Save, SaveHiscore
<1>6. Stores' /\ Past'
  BY <1>2, <1>4, <1>5 DEF RInv, Stores, Past
<1>7. Phases'
  <2>1. pc' \in {"marked", "menu"}
    BY <1>1 DEF Save
  <2> QED
    BY <1>2, <1>3, <1>5, <2>1 DEF RInv, Phases
<1>8. Recorded' /\ Playing'
  BY <1>2, <1>3, SameRecord DEF Playing
<1> QED
  BY <1>6, <1>7, <1>8 DEF RInv

LEMMA StutterStep == RInv /\ UNCHANGED vars => RInv'
<1> SUFFICES ASSUME RInv, UNCHANGED vars PROVE RInv'
  OBVIOUS
<1>1. UNCHANGED <<overview, inputs, hiscore, pc, playback, dao, engine, ctl, game, seen, rested,
                  ended, touched>>
  BY DEF vars, db, prog, hist
<1>2. Stores' /\ Phases' /\ Past'
  BY <1>1 DEF RInv, Stores, Phases, Past
<1>3. Recorded'
  BY <1>1, SameRecord
<1>4. Playing'
  BY <1>1, SameRun DEF RInv, Playing
<1> QED
  BY <1>2, <1>3, <1>4 DEF RInv

LEMMA RStep == Orderly /\ RInv /\ [Next]_vars => RInv'
<1> SUFFICES ASSUME Orderly, RInv, Next PROVE RInv'
  BY StutterStep
<1>1. CASE Start
  BY <1>1, StartStep
<1>2. CASE Stop
  BY <1>2, OffStep DEF Stop
<1>3. CASE Finish
  BY <1>3, FinishStep
<1>4. ASSUME NEW keys \in Keystates, Menu(keys) PROVE RInv'
  <2>1. \/ Off /\ UNCHANGED <<db, seen, rested, ended>>
        \/ pc = "menu" /\ NewGame
        \/ /\ pc = "menu" /\ menu' = "IN_WAIT"
           /\ UNCHANGED <<db, pc, playback, dao, engine, ctl, input, hist>>
    BY <1>4 DEF Menu
  <2> QED
    BY <2>1, OffStep, PlayStep, LiveStep, WaitStep
<1>5. ASSUME NEW keys \in Keystates, Tick(keys) PROVE RInv'
  <2>1. pc = "game"
    BY <1>5 DEF Tick
  <2> QED
    BY <1>5, <2>1, LiveTickStep, PlaybackTickStep
<1> QED
  BY <1>1, <1>2, <1>3, <1>4, <1>5 DEF Next

-----------------------------------------------------------------------------
\* The theorems.

\* What is stored makes every game again that began with no key down, whenever
\* the program stops and starts: the rows of dao.c hold changes of keys, and the
\* FSControl is back where it was (dao.c:426-444, 498-514; main.c:42-51).
THEOREM RecordsSuffice == ASSUME Orderly PROVE Spec => []RInv
<1>1. Init => RInv
  BY InitRInv
<1>2. RInv /\ [Next]_vars => RInv'
  BY RStep
<1> QED
  BY <1>1, <1>2, PTL DEF Spec

\* A tick of playback within what was recorded, and nothing pressed.
LEMMA PlayedTick ==
  ASSUME RInv, NEW keys \in Keystates, Tick(keys), playback, NEW id \in rested, dao.output = id,
         ~touched', engine.ticks < Len(seen[id])
  PROVE  input' = seen[id][engine.ticks + 1]
<1>1. pc = "game" /\ engine.ticks \in Nat
  BY DEF RInv, Phases, Tick
<1>2. /\ touched' = (touched \/ keys \cap Abort # {})
      /\ input' = Keys!InputOf(ctl, (keys \cap Abort) \cup Stored(engine.ticks))
  BY DEF Tick, Fed
<1>3. ~touched /\ keys \cap Abort = {} /\ dao.lastOutput = ctl.lastKeys
  BY <1>2 DEF RInv, Phases
<1>4. Len(seen[id]) \in Nat
  <2>1. PICK S : seen \in Seq(Seq(S))
    BY DEF RInv, Stores
  <2>2. seen[id] \in Seq(S)
    BY <2>1, ElementOfSeq DEF RInv, Phases
  <2> QED
    BY <2>2, LenProperties
<1>5. PICK c : Run(id, Len(seen[id]), c) /\ c[engine.ticks] = ctl
  BY <1>1, <1>3, <1>4 DEF RInv, Playing
<1>6. engine.ticks \in 0..Len(seen[id]) - 1
  BY <1>1, <1>4
<1>7. KeysOf(id, engine.ticks, ctl.lastKeys) = Stored(engine.ticks)
  BY <1>3, StoredKeys
<1>8. seen[id][engine.ticks + 1] = Keys!InputOf(ctl, Stored(engine.ticks))
  BY <1>5, <1>6, <1>7 DEF Run
<1> QED
  BY <1>2, <1>3, <1>8

\* Playback gives the engine what the game was given, tick for tick, for every
\* length of game and however the keys are mapped.
THEOREM PlaybackRepeats == ASSUME Orderly PROVE Spec => PlaybackFaithful
<1> DEFINE Same == \A id \in rested : Replays(id) => input' = seen[id][engine.ticks + 1]
<1>1. RInv /\ [Next]_vars => [Same]_vars
  <2> SUFFICES ASSUME RInv, Next, NEW id \in rested, Replays(id)
               PROVE  input' = seen[id][engine.ticks + 1]
    OBVIOUS
  <2>1. /\ playback /\ dao.output = id /\ engine'.ticks = engine.ticks + 1 /\ ~touched'
        /\ engine.ticks < Len(seen[id]) /\ engine.ticks \in Nat
    BY DEF Replays, RInv, Phases
  <2>2. PICK keys \in Keystates : pc = "game" /\ Tick(keys)
    <3>1. CASE Start
      BY <2>1, <3>1 DEF Start
    <3>2. CASE Stop
      BY <2>1, <3>2 DEF Stop, Off, NewEngine
    <3>3. CASE Finish
      BY <2>1, <3>3 DEF Finish
    <3>4. ASSUME NEW keys \in Keystates, Menu(keys) PROVE FALSE
      <4>1. engine' = NewEngine \/ engine' = engine
        BY <3>4 DEF Menu, Off, NewGame
      <4> QED
        BY <2>1, <4>1 DEF NewEngine
    <3>5. \A keys \in Keystates : Tick(keys) => pc = "game"
      BY DEF Tick
    <3> QED
      BY <3>1, <3>2, <3>3, <3>4, <3>5 DEF Next
  <2> QED
    BY <2>1, <2>2, PlayedTick
<1> QED
  BY <1>1, RecordsSuffice, PTL DEF Spec, PlaybackFaithful

-----------------------------------------------------------------------------
\* How long a playback lasts.

\* d is the course of the engine through the first n ticks of a game, of which
\* none but the last may end it.
Course(id, n, d) ==
  /\ d[0] = ResetState
  /\ \A t \in 0..n - 1 : d[t + 1] = Advance(d[t], seen[id][t + 1]) /\ d[t] \notin GameOver

\* A game being played is where the course of its inputs leads; one that was ended
\* was over with its last tick, won or lost, and no tick of it asked for a restart
\* or to quit.
Timed ==
  \A id \in 1..Len(seen) :
    /\ \E d : /\ Course(id, Len(seen[id]), d)
              /\ game = id => d[Len(seen[id])] = engine.state
              /\ id \in ended => d[Len(seen[id])] \in GameOver
    /\ id \in ended \cup {game} => \A t \in 1..Len(seen[id]) : seen[id][t].extra \cap Abort = {}

\* Playback follows the course of the game, and is behind its end if it was ended.
Racing ==
  (playback /\ pc = "game") =>
    LET id == dao.output IN
    /\ \E d : /\ Course(id, Len(seen[id]), d)
              /\ id \in ended => d[Len(seen[id])] \in GameOver
              /\ (id \in rested /\ engine.ticks <= Len(seen[id])) => d[engine.ticks] = engine.state
    /\ id \in rested \cap ended => engine.ticks < Len(seen[id])

\* Playback goes on only while nobody asks for a restart or to quit, and a game
\* only while it is not over.
Clean == (playback /\ pc = "game") => ctl.lastKeys \cap Abort = {} /\ ~touched
Going == pc = "game" => engine.state \notin GameOver

TInv == RInv /\ Timed /\ Racing /\ Clean /\ Going

LEMMA SameCourse ==
  ASSUME NEW id, seen'[id] = seen[id]
  PROVE  \A n, d : Course(id, n, d)' <=> Course(id, n, d)
BY DEF Course

LEMMA SeenLen ==
  ASSUME RInv, NEW id \in 1..Len(seen)
  PROVE  Len(seen[id]) \in Nat
<1>1. PICK S : seen \in Seq(Seq(S))
  BY DEF RInv, Stores
<1>2. seen[id] \in Seq(S)
  BY <1>1, ElementOfSeq
<1> QED
  BY <1>2, LenProperties

\* A step that plays no live game leaves the counts alone.
LEMMA SameTimes ==
  ASSUME RInv, Timed, seen' = seen, ended' = ended,
         game' = 0 \/ (game' = game /\ engine' = engine)
  PROVE  Timed'
<1> SUFFICES ASSUME NEW id \in 1..Len(seen)
             PROVE  /\ \E d : /\ Course(id, Len(seen[id]), d)'
                              /\ game' = id => d[Len(seen[id])] = engine'.state
                              /\ id \in ended => d[Len(seen[id])] \in GameOver
                    /\ id \in ended \cup {game'} =>
                         \A t \in 1..Len(seen[id]) : seen[id][t].extra \cap Abort = {}
  BY DEF Timed
<1>1. 0 \notin 1..Len(seen)
  OBVIOUS
<1>2. game' = id => game = id /\ engine' = engine
  BY <1>1
<1>3. PICK d : /\ Course(id, Len(seen[id]), d)
               /\ game = id => d[Len(seen[id])] = engine.state
               /\ id \in ended => d[Len(seen[id])] \in GameOver
  BY DEF Timed
<1>4. Course(id, Len(seen[id]), d)'
  BY <1>3, SameCourse
<1>5. id \in ended \cup {game} => \A t \in 1..Len(seen[id]) : seen[id][t].extra \cap Abort = {}
  BY DEF Timed
<1> QED
  BY <1>2, <1>3, <1>4, <1>5

LEMMA InitTInv == Orderly /\ Init => TInv
<1> SUFFICES ASSUME Orderly, Init PROVE TInv
  OBVIOUS
<1>1. Len(<<>>) = 0
  BY EmptySeq
<1>2. Timed
  BY <1>1 DEF Timed, Init
<1>3. Racing /\ Clean /\ Going
  BY DEF Racing, Clean, Going, Init
<1> QED
  BY <1>2, <1>3, InitRInv DEF TInv

\* Steps after which no game is being played.
LEMMA IdleTimes ==
  ASSUME RInv, Timed, seen' = seen, ended' = ended, pc' # "game",
         game' = 0 \/ (game' = game /\ engine' = engine)
  PROVE  (Timed /\ Racing /\ Clean /\ Going)'
<1>1. Timed'
  BY SameTimes
<1>2. (Racing /\ Clean /\ Going)'
  BY DEF Racing, Clean, Going
<1> QED
  BY <1>1, <1>2

LEMMA PlayTimes ==
  ASSUME TInv, pc = "menu", playback, NewGame
  PROVE  (Timed /\ Racing /\ Clean /\ Going)'
<1>1. /\ UNCHANGED <<dao, game, seen, rested, playback, ctl, ended, touched>>
      /\ engine' = NewEngine /\ pc' = "game"
  BY DEF NewGame, Fails
<1>2. game = 0 /\ dao.output \in 1..Len(seen) /\ ctl = NoControl /\ ~touched
  BY DEF TInv, RInv, Phases
<1>3. Timed'
  BY <1>1, <1>2, SameTimes DEF TInv
<1>4. Racing'
  <2> PICK id : id = dao.output
    OBVIOUS
  <2>1. PICK d : Course(id, Len(seen[id]), d) /\ (id \in ended => d[Len(seen[id])] \in GameOver)
    BY <1>2 DEF TInv, Timed
  <2>2. Course(id, Len(seen[id]), d)'
    BY <1>1, <2>1, SameCourse
  <2>3. d[0] = ResetState /\ engine'.ticks = 0 /\ engine'.state = ResetState
    BY <1>1, <2>1 DEF Course, NewEngine
  <2>4. id \in ended => 0 < Len(seen[id])
    BY <1>2, <2>1, <2>3, EngineAssumption, SeenLen DEF TInv, GameOver
  <2> QED
    BY <1>1, <2>1, <2>2, <2>3, <2>4 DEF Racing
<1>5. Clean' /\ Going'
  BY <1>1, <1>2, EngineAssumption DEF Clean, Going, NoControl, NewEngine, GameOver
<1> QED
  BY <1>3, <1>4, <1>5

LEMMA LiveTimes ==
  ASSUME Orderly, TInv, pc = "menu", ~playback, NewGame
  PROVE  (Timed /\ Racing /\ Clean /\ Going)'
<1> DEFINE n == Len(seen) + 1
<1>1. /\ overview' = Append(overview, FALSE) /\ seen' = Append(seen, <<>>) /\ game' = Len(overview')
      /\ UNCHANGED <<playback, ended>> /\ engine' = NewEngine
  BY DEF NewGame, Orderly, Fails, InsertOverview
<1>2. PICK S : seen \in Seq(Seq(S))
  BY DEF TInv, RInv, Stores
<1>3. /\ Len(seen') = n /\ seen'[n] = <<>> /\ Len(seen) \in Nat
      /\ \A id \in 1..Len(seen) : seen'[id] = seen[id]
  <2>1. <<>> \in Seq(S)
    BY EmptySeq
  <2> QED
    BY <1>1, <1>2, <2>1, AppendProperties, LenProperties
<1>4. game' = n
  BY <1>1, AppendProperties DEF TInv, RInv, Stores
<1>5. n \notin ended /\ Len(<<>>) = 0
  BY <1>3, EmptySeq DEF TInv, RInv, Stores
<1>6. Timed'
  <2> SUFFICES ASSUME NEW id \in 1..n
               PROVE  /\ \E d : /\ Course(id, Len(seen[id]), d)'
                                /\ game' = id => d[Len(seen'[id])] = engine'.state
                                /\ id \in ended' => d[Len(seen'[id])] \in GameOver
                      /\ id \in ended' \cup {game'} =>
                           \A t \in 1..Len(seen'[id]) : seen'[id][t].extra \cap Abort = {}
    BY <1>3 DEF Timed
  <2>1. CASE id = n
    <3>1. Len(seen'[id]) = 0
      BY <1>3, <1>5, <2>1
    <3> DEFINE d == [t \in {0} |-> ResetState]
    <3>2. Course(id, 0, d)' /\ d[0] = engine'.state
      BY <1>1 DEF Course, NewEngine
    <3> QED
      BY <1>1, <1>5, <2>1, <3>1, <3>2
  <2>2. CASE id # n
    <3>1. id \in 1..Len(seen) /\ game' # id /\ seen'[id] = seen[id]
      BY <1>3, <1>4, <2>2
    <3>2. PICK d : Course(id, Len(seen[id]), d) /\ (id \in ended => d[Len(seen[id])] \in GameOver)
      BY <3>1 DEF TInv, Timed
    <3>3. Course(id, Len(seen[id]), d)'
      BY <3>1, <3>2, SameCourse
    <3>4. id \in ended => \A t \in 1..Len(seen[id]) : seen[id][t].extra \cap Abort = {}
      BY <3>1 DEF TInv, Timed
    <3> QED
      BY <1>1, <3>1, <3>2, <3>3, <3>4
  <2> QED
    BY <2>1, <2>2
<1>7. (Racing /\ Clean /\ Going)'
  BY <1>1, EngineAssumption DEF Racing, Clean, Going, NewEngine, GameOver
<1> QED
  BY <1>6, <1>7

\* A tick of a live game goes on with its course, and ends the game only where the
\* engine does.
LEMMA LiveTickTimes ==
  ASSUME TInv, pc = "game", ~playback, NEW keys \in Keystates, Tick(keys)
  PROVE  (Timed /\ Racing /\ Clean /\ Going)'
<1> PICK g, n, in : g = game /\ n = engine.ticks /\ in = Keys!InputOf(ctl, keys)
  OBVIOUS
<1>1. /\ g \in 1..Len(seen) /\ g # 0 /\ n \in Nat /\ n = Len(seen[g]) /\ Len(seen) \in Nat
      /\ engine.state \notin GameOver
  BY LenProperties DEF TInv, RInv, Phases, Stores, Going
<1>2. /\ in.extra \cap Abort = {} => engine'.state = Advance(engine.state, in)
      /\ seen' = [seen EXCEPT ![g] = Append(@, in)]
  BY <1>1 DEF Tick, Fed
<1>3. ~playback'
  BY DEF Tick
<1>4. \/ /\ in.extra \cap Abort = {} /\ engine'.state \notin GameOver
         /\ pc' = "game" /\ game' = g /\ ended' = ended
      \/ pc' # "game" /\ game' = 0 /\ ended' = ended
      \/ /\ in.extra \cap Abort = {} /\ engine'.state \in GameOver
         /\ pc' # "game" /\ game' = 0 /\ ended' = ended \cup {g}
  BY <1>1 DEF Tick, Fed
<1>6. PICK S : seen \in Seq(Seq(S))
  BY DEF TInv, RInv, Stores
<1>7. /\ Len(seen') = Len(seen)
      /\ Len(seen'[g]) = n + 1 /\ seen'[g][n + 1] = in
      /\ \A t \in 1..n : seen'[g][t] = seen[g][t]
      /\ \A id \in 1..Len(seen) : id # g => seen'[id] = seen[id]
  <2>1. seen \in Seq(Seq(S \cup {in}))
    BY <1>6
  <2>2. seen[g] \in Seq(S)
    BY <1>1, <1>6, ElementOfSeq
  <2> PICK e : e = Append(seen[g], in)
    OBVIOUS
  <2>3. e \in Seq(S \cup {in}) /\ Len(e) = n + 1 /\ e[n + 1] = in /\ \A t \in 1..n : e[t] = seen[g][t]
    BY <1>1, <2>2, AppendAny
  <2>4. seen' = [seen EXCEPT ![g] = e]
    BY <1>2
  <2> QED
    BY <1>1, <2>1, <2>3, <2>4, ExceptSeq
<1>8. PICK c : /\ Course(g, n, c) /\ c[n] = engine.state
               /\ g \in ended => c[n] \in GameOver
  BY <1>1 DEF TInv, Timed
<1>9. g \notin ended /\ \A t \in 1..n : seen[g][t].extra \cap Abort = {}
  BY <1>1, <1>8 DEF TInv, Timed
<1>10. ASSUME NEW id \in 1..Len(seen)
       PROVE  /\ \E d : /\ Course(id, Len(seen[id]), d)'
                        /\ game' = id => d[Len(seen'[id])] = engine'.state
                        /\ id \in ended' => d[Len(seen'[id])] \in GameOver
              /\ id \in ended' \cup {game'} =>
                   \A t \in 1..Len(seen'[id]) : seen'[id][t].extra \cap Abort = {}
  <2>1. CASE id = g
    <3> PICK last : last = Advance(engine.state, in)
      OBVIOUS
    <3> PICK d : d = [t \in 0..n + 1 |-> IF t = n + 1 THEN last ELSE c[t]]
      OBVIOUS
    <3>1. d[0] = ResetState /\ d[n + 1] = last /\ \A t \in 0..n : d[t] = c[t]
      BY <1>1, <1>8 DEF Course
    <3>2. ASSUME NEW t \in 0..n
          PROVE  d[t + 1] = Advance(d[t], seen'[g][t + 1]) /\ d[t] \notin GameOver
      <4>1. CASE t = n
        BY <1>1, <1>2, <1>7, <1>8, <3>1, <4>1
      <4>2. CASE t # n
        <5>1. t \in 0..n - 1 /\ t + 1 \in 1..n /\ t + 1 \in 0..n
          BY <1>1, <4>2
        <5>2. c[t + 1] = Advance(c[t], seen[g][t + 1]) /\ c[t] \notin GameOver
          BY <1>8, <5>1 DEF Course
        <5> QED
          BY <1>7, <3>1, <5>1, <5>2
      <4> QED
        BY <4>1, <4>2
    <3>3. Course(g, n + 1, d)'
      <4>1. 0..(n + 1) - 1 = 0..n
        BY <1>1
      <4> QED
        BY <3>1, <3>2, <4>1 DEF Course
    <3>4. /\ game' = g => d[n + 1] = engine'.state
          /\ g \in ended' => d[n + 1] \in GameOver
      BY <1>1, <1>2, <1>4, <1>9, <3>1
    <3>5. g \in ended' \cup {game'} => in.extra \cap Abort = {}
      BY <1>1, <1>4, <1>9
    <3>6. g \in ended' \cup {game'} => \A t \in 1..n + 1 : seen'[g][t].extra \cap Abort = {}
      BY <1>1, <1>7, <1>9, <3>5
    <3> QED
      BY <1>7, <2>1, <3>1, <3>3, <3>4, <3>6
  <2>2. CASE id # g
    <3>1. seen'[id] = seen[id] /\ game' # id /\ (id \in ended' => id \in ended)
      BY <1>1, <1>4, <1>7, <2>2
    <3>2. PICK d : Course(id, Len(seen[id]), d) /\ (id \in ended => d[Len(seen[id])] \in GameOver)
      BY DEF TInv, Timed
    <3>3. Course(id, Len(seen[id]), d)'
      BY <3>1, <3>2, SameCourse
    <3>4. id \in ended => \A t \in 1..Len(seen[id]) : seen[id][t].extra \cap Abort = {}
      BY DEF TInv, Timed
    <3> QED
      BY <3>1, <3>2, <3>3, <3>4
  <2> QED
    BY <2>1, <2>2
<1>11. Timed'
  BY <1>7, <1>10 DEF Timed
<1>12. Going'
  BY <1>1, <1>2, <1>4 DEF Going
<1> QED
  BY <1>3, <1>11, <1>12 DEF Racing, Clean

\* No one presses restart or quit in a tick of playback that does not end it.
LEMMA CleanTick ==
  ASSUME TInv, playback, NEW keys \in Keystates, Tick(keys), pc' = "game"
  PROVE  ~touched' /\ ctl'.lastKeys \cap Abort = {}
<1> PICK fed : fed = (keys \cap Abort) \cup Stored(engine.ticks)
  OBVIOUS
<1>1. /\ pc = "game" /\ ctl' = Keys!After(ctl, fed)
      /\ touched' = (touched \/ keys \cap Abort # {})
      /\ Keys!InputOf(ctl, fed).extra \cap Abort = {}
  BY DEF Tick, Fed
<1>2. Keys!New(ctl, fed) \cap Abort = {}
  <2>1. Keys!Extra(Keys!New(ctl, fed)) \cap Abort = {}
    BY <1>1 DEF Keys!InputOf
  <2> QED
    BY <2>1 DEF Keys!Extra, Abort
<1>3. ctl.currentKeys \subseteq ctl.lastKeys /\ ctl.lastKeys \cap Abort = {} /\ ~touched
  BY <1>1 DEF TInv, RInv, Phases, Settled, Clean
<1>4. fed \cap Abort = {}
  BY <1>2, <1>3 DEF Keys!New
<1>5. ctl'.lastKeys = fed
  BY <1>1, AfterSettled
<1> QED
  BY <1>1, <1>3, <1>4, <1>5

\* From where playback is in the course, a tick takes it one step on.
LEMMA PlayedState ==
  ASSUME TInv, playback, NEW keys \in Keystates, Tick(keys), ~touched',
         dao.output \in rested, engine.ticks < Len(seen[dao.output]),
         NEW d, Course(dao.output, Len(seen[dao.output]), d), d[engine.ticks] = engine.state
  PROVE  /\ input' = seen[dao.output][engine.ticks + 1]
         /\ engine'.ticks = engine.ticks + 1
         /\ input'.extra \cap Abort = {} => engine'.state = d[engine.ticks + 1]
<1> PICK id, n : id = dao.output /\ n = engine.ticks
  OBVIOUS
<1>1. id \in 1..Len(seen) /\ n \in Nat
  BY DEF TInv, RInv, Phases
<1>2. input' = seen[id][n + 1]
  BY PlayedTick DEF TInv
<1>3. /\ engine'.ticks = n + 1
      /\ input'.extra \cap Abort = {} => engine'.state = Advance(engine.state, input')
  BY DEF Tick
<1>4. Len(seen[id]) \in Nat
  BY <1>1, SeenLen DEF TInv
<1>5. n \in 0..Len(seen[id]) - 1
  BY <1>1, <1>4
<1>6. d[n + 1] = Advance(d[n], seen[id][n + 1])
  BY <1>5 DEF Course
<1> QED
  BY <1>2, <1>3, <1>6

\* A tick of playback keeps to the course of the game.
LEMMA PlaybackTickTimes ==
  ASSUME TInv, pc = "game", playback, NEW keys \in Keystates, Tick(keys)
  PROVE  (Timed /\ Racing /\ Clean /\ Going)'
<1>1. game = 0 /\ dao.output \in 1..Len(seen) /\ engine.ticks \in Nat
  BY DEF TInv, RInv, Phases
<1>2. /\ game' = 0 /\ ended' = ended /\ seen' = seen /\ rested' = rested
      /\ dao' = [dao EXCEPT !.lastOutput = Stored(engine.ticks)]
      /\ engine'.ticks = engine.ticks + 1
  BY <1>1 DEF Tick
<1>3. Timed'
  BY <1>2, SameTimes DEF TInv
<1>4. Going'
  BY DEF Tick, Going
<1>5. Clean'
  BY CleanTick DEF Clean
<1>6. Racing'
  <2> SUFFICES ASSUME pc' = "game" PROVE Racing'
    BY DEF Racing
  <2> PICK id, n : id = dao.output /\ n = engine.ticks
    OBVIOUS
  <2>1. dao'.output = id
    BY <1>2 DEF TInv, RInv, Phases, IsDao
  <2>2. /\ id \in rested \cap ended => n < Len(seen[id])
        /\ \E d : /\ Course(id, Len(seen[id]), d)
                  /\ id \in ended => d[Len(seen[id])] \in GameOver
                  /\ (id \in rested /\ n <= Len(seen[id])) => d[n] = engine.state
    BY DEF TInv, Racing
  <2>3. PICK d : /\ Course(id, Len(seen[id]), d)
                 /\ id \in ended => d[Len(seen[id])] \in GameOver
                 /\ (id \in rested /\ n <= Len(seen[id])) => d[n] = engine.state
    BY <2>2
  <2>4. Course(id, Len(seen[id]), d)'
    BY <1>2, <2>3, SameCourse
  <2>5. Len(seen[id]) \in Nat
    BY <1>1, SeenLen DEF TInv
  <2>6. (id \in rested /\ n + 1 <= Len(seen[id])) => d[n + 1] = engine'.state
    <3> SUFFICES ASSUME id \in rested, n + 1 <= Len(seen[id]) PROVE d[n + 1] = engine'.state
      OBVIOUS
    <3>1. n < Len(seen[id]) /\ n <= Len(seen[id])
      BY <1>1, <2>5
    <3>2. ~touched' /\ input'.extra \cap Abort = {}
      BY CleanTick DEF Tick
    <3> QED
      BY <2>3, <3>1, <3>2, PlayedState
  <2>7. id \in rested \cap ended => n + 1 < Len(seen[id])
    <3> SUFFICES ASSUME id \in rested \cap ended, n + 1 = Len(seen[id]) PROVE FALSE
      BY <1>1, <2>2, <2>5
    <3>1. engine'.state \notin GameOver
      BY <1>4 DEF Going
    <3> QED
      BY <2>3, <2>6, <3>1, <2>5
  <2> QED
    BY <1>2, <2>1, <2>3, <2>4, <2>6, <2>7 DEF Racing
<1> QED
  BY <1>3, <1>4, <1>5, <1>6

LEMMA StutterTimes == TInv /\ UNCHANGED vars => TInv'
<1> SUFFICES ASSUME TInv, UNCHANGED vars PROVE TInv'
  OBVIOUS
<1>1. UNCHANGED <<pc, playback, dao, engine, ctl, game, seen, rested, ended, touched>>
  BY DEF vars, db, prog, hist
<1>2. Timed'
  BY <1>1, SameTimes DEF TInv
<1>3. Racing'
  <2>1. \A n, d : Course(dao.output, n, d)' <=> Course(dao.output, n, d)
    BY <1>1 DEF Course
  <2> QED
    BY <1>1, <2>1 DEF TInv, Racing
<1>4. Clean' /\ Going'
  BY <1>1 DEF TInv, Clean, Going
<1> QED
  BY <1>2, <1>3, <1>4, StutterStep DEF TInv

LEMMA TStep == Orderly /\ TInv /\ [Next]_vars => TInv'
<1> SUFFICES ASSUME Orderly, TInv, Next PROVE TInv'
  BY StutterTimes
<1>1. RInv'
  BY RStep DEF TInv
<1> SUFFICES (Timed /\ Racing /\ Clean /\ Going)'
  BY <1>1 DEF TInv
<1>2. RInv /\ Timed
  BY DEF TInv
<1>3. CASE Start
  BY <1>2, <1>3, IdleTimes DEF Start, db, hist
<1>4. Off /\ UNCHANGED <<db, seen, rested, ended>> => (Timed /\ Racing /\ Clean /\ Going)'
  BY <1>2, IdleTimes DEF Off
<1>5. CASE Stop
  BY <1>4, <1>5 DEF Stop
<1>6. CASE Finish
  <2>1. pc' # "game" /\ UNCHANGED <<seen, ended, game, engine>>
    BY <1>6 DEF Finish, Save, hist
  <2> QED
    BY <1>2, <2>1, IdleTimes
<1>7. ASSUME NEW keys \in Keystates, Menu(keys) PROVE (Timed /\ Racing /\ Clean /\ Going)'
  <2>1. \/ Off /\ UNCHANGED <<db, seen, rested, ended>>
        \/ pc = "menu" /\ NewGame
        \/ pc' # "game" /\ UNCHANGED <<seen, ended, game, engine>>
    BY <1>7 DEF Menu, hist
  <2> QED
    BY <1>2, <1>4, <2>1, PlayTimes, LiveTimes, IdleTimes
<1>8. ASSUME NEW keys \in Keystates, Tick(keys) PROVE (Timed /\ Racing /\ Clean /\ Going)'
  <2>1. pc = "game"
    BY <1>8 DEF Tick
  <2> QED
    BY <1>8, <2>1, LiveTickTimes, PlaybackTickTimes
<1> QED
  BY <1>3, <1>5, <1>6, <1>7, <1>8 DEF Next

LEMMA CoursesHold == ASSUME Orderly PROVE Spec => []TInv
<1>1. Init => TInv
  BY InitTInv
<1>2. TInv /\ [Next]_vars => TInv'
  BY TStep
<1> QED
  BY <1>1, <1>2, PTL DEF Spec

\* A game that was ended is played back for as many ticks as it took at most.
RunsOut ==
  (playback /\ pc = "game" /\ dao.output \in rested \cap ended)
    => engine.ticks < Len(seen[dao.output])

\* Playback of a game that was ended has, in every tick, a recorded tick to play:
\* it cannot run past the end of the record, where the last keys would be held
\* for good, whatever the player presses meanwhile (main.c:42-51, dao.c:498-514).
THEOREM PlaybackRunsOut == ASSUME Orderly PROVE Spec => []RunsOut
<1>1. TInv => RunsOut
  BY DEF TInv, Racing, RunsOut
<1> QED
  BY <1>1, CoursesHold, PTL

\* Playback that no one interrupts ends a game that was ended with a game over, as
\* the player did, and in the same tick.
EndsAlike ==
  [][playback /\ pc = "game" /\ dao.output \in rested \cap ended
       /\ pc' \in {"menu", "end"} /\ ~touched'
       => /\ menu' = "IN_EXCELLENT" /\ pc' = "menu"
          /\ engine'.ticks = Len(seen[dao.output])]_vars

LEMMA EndsWithIt ==
  ASSUME TInv, Next, playback, pc = "game", dao.output \in rested \cap ended,
         pc' \in {"menu", "end"}, ~touched'
  PROVE  menu' = "IN_EXCELLENT" /\ pc' = "menu" /\ engine'.ticks = Len(seen[dao.output])
<1>1. PICK keys \in Keystates : Tick(keys)
  <2>1. ~Start /\ ~Finish /\ \A keys \in Keystates : ~Menu(keys)
    BY DEF Start, Finish, Save, Menu
  <2>2. ~Stop
    BY DEF Stop, Off
  <2> QED
    BY <2>1, <2>2 DEF Next
<1> PICK id, n : id = dao.output /\ n = engine.ticks
  OBVIOUS
<1>2. id \in 1..Len(seen) /\ n \in Nat /\ Len(seen[id]) \in Nat /\ n < Len(seen[id])
  BY SeenLen DEF TInv, RInv, Phases, Racing
<1>3. \E d : /\ Course(id, Len(seen[id]), d)
             /\ id \in ended => d[Len(seen[id])] \in GameOver
             /\ (id \in rested /\ n <= Len(seen[id])) => d[n] = engine.state
  BY DEF TInv, Racing
<1>4. PICK d : Course(id, Len(seen[id]), d) /\ d[n] = engine.state
  BY <1>2, <1>3
<1>5. /\ input' = seen[id][n + 1] /\ engine'.ticks = n + 1
      /\ input'.extra \cap Abort = {} => engine'.state = d[n + 1]
  BY <1>1, <1>2, <1>4, PlayedState
<1>6. input'.extra \cap Abort = {}
  <2>1. n + 1 \in 1..Len(seen[id])
    BY <1>2
  <2> QED
    BY <1>2, <1>5, <2>1 DEF TInv, Timed
<1>7. engine'.state \in GameOver /\ pc' = "menu" /\ menu' = "IN_EXCELLENT"
  BY <1>1, <1>6 DEF Tick
<1>8. n + 1 = Len(seen[id])
  <2> SUFFICES ASSUME n + 1 # Len(seen[id]) PROVE FALSE
    OBVIOUS
  <2>1. n + 1 \in 0..Len(seen[id]) - 1
    BY <1>2
  <2>2. d[n + 1] \notin GameOver
    BY <1>4, <2>1 DEF Course
  <2> QED
    BY <1>5, <1>6, <1>7, <2>2
<1> QED
  BY <1>5, <1>7, <1>8

\* The record of a game holds its end: the game that the playback shows is lost
\* or completed with the tick the recorded one ended with, neither cut short nor
\* played on, and nothing is saved again (main.c:193-218).
THEOREM PlaybackEndsAlike == ASSUME Orderly PROVE Spec => EndsAlike
<1> DEFINE Ends ==
      playback /\ pc = "game" /\ dao.output \in rested \cap ended
        /\ pc' \in {"menu", "end"} /\ ~touched'
        => /\ menu' = "IN_EXCELLENT" /\ pc' = "menu"
           /\ engine'.ticks = Len(seen[dao.output])
<1>1. TInv /\ [Next]_vars => [Ends]_vars
  BY EndsWithIt
<1> QED
  BY <1>1, CoursesHold, PTL DEF Spec, EndsAlike

-----------------------------------------------------------------------------
\* Hiscores.

\* A game is ended once, and is on its way into the hiscores once.
Earned ==
  /\ \A i \in 1..Len(hiscore) : hiscore[i] \in ended /\ overview[hiscore[i]] = TRUE
  /\ \A i, j \in 1..Len(hiscore) : hiscore[i] = hiscore[j] => i = j
  /\ pc \in {"over", "marked"} =>
       dao.rowId \in ended /\ \A i \in 1..Len(hiscore) : hiscore[i] # dao.rowId
  /\ pc = "marked" => overview[dao.rowId] = TRUE
  /\ game \notin ended

LEMMA AppendFalse ==
  ASSUME NEW s \in Seq(BOOLEAN)
  PROVE  /\ Len(Append(s, FALSE)) = Len(s) + 1 /\ Len(s) \in Nat
         /\ \A i \in 1..Len(s) : Append(s, FALSE)[i] = s[i]
<1>1. FALSE \in BOOLEAN
  OBVIOUS
<1>2. PICK e : e = FALSE
  OBVIOUS
<1>3. e \in BOOLEAN
  BY <1>1, <1>2, Zenon
<1>4. /\ Len(Append(s, e)) = Len(s) + 1 /\ Len(s) \in Nat
      /\ \A i \in 1..Len(s) : Append(s, e)[i] = s[i]
  BY <1>3, AppendProperties, LenProperties
<1> QED
  BY <1>2, <1>4, Zenon

LEMMA MarkedSeq ==
  ASSUME NEW s \in Seq(BOOLEAN), NEW k \in DOMAIN s
  PROVE  [s EXCEPT ![k] = TRUE] \in Seq(BOOLEAN) /\ Len([s EXCEPT ![k] = TRUE]) = Len(s)
<1>1. TRUE \in BOOLEAN /\ k \in 1..Len(s)
  BY LenProperties
<1> QED
  BY <1>1, ExceptSeq

\* The books: a live game is a row, and one that is ended has been one.
Books ==
  /\ overview \in Seq(BOOLEAN) /\ hiscore \in Seq(Nat) /\ ended \subseteq 1..Len(overview)
  /\ IsDao(dao)
  /\ pc # "game" => game = 0
  /\ playback => game = 0
  /\ pc = "game" /\ ~playback => game = dao.rowId /\ game \in 1..Len(overview)

LEMMA TickBooks ==
  ASSUME Books, NEW keys \in Keystates, Tick(keys)
  PROVE  Books' /\ dao'.rowId = dao.rowId
<1>1. overview' = overview /\ hiscore' = hiscore /\ pc = "game"
  BY DEF Tick
<1>2. IsDao(dao)' /\ dao'.rowId = dao.rowId
  <2>1. \E l, m, o : dao' \in {dao, [dao EXCEPT !.lastOutput = o], [dao EXCEPT !.lastInput = l],
                               [dao EXCEPT !.lastInput = l, !.lastRow = m]}
    BY DEF Tick, InsertInput
  <2> QED
    BY <2>1 DEF Books, IsDao
<1>3. \/ pc' = pc /\ playback' = playback /\ game' = game /\ ended' = ended
      \/ /\ pc' \in {"end", "menu", "over"} /\ playback' = FALSE /\ game' = 0
         /\ ended' = ended \/ ended' = ended \cup ({game} \ {0})
  BY <1>1 DEF Tick
<1>4. game = 0 \/ game \in 1..Len(overview)
  <2>1. playback => game = 0
    BY DEF Books
  <2>2. ~playback => game \in 1..Len(overview)
    BY <1>1 DEF Books
  <2> QED
    BY <2>1, <2>2, Zenon
<1>5. CASE pc' = pc /\ playback' = playback /\ game' = game /\ ended' = ended
  BY <1>1, <1>2, <1>5 DEF Books
<1>6. CASE /\ pc' \in {"end", "menu", "over"} /\ playback' = FALSE /\ game' = 0
           /\ ended' = ended \/ ended' = ended \cup ({game} \ {0})
  <2>1. ended' \subseteq 1..Len(overview)
    BY <1>4, <1>6 DEF Books
  <2> QED
    BY <1>1, <1>2, <1>6, <2>1 DEF Books
<1> QED
  BY <1>2, <1>3, <1>5, <1>6

LEMMA GameBooks ==
  ASSUME ~WritesFail, Books, pc = "menu", NewGame
  PROVE  Books' /\ game' \in {game, Len(overview) + 1}
<1>1. hiscore' = hiscore /\ ended' = ended /\ pc' = "game" /\ playback' = playback /\ game = 0
  BY DEF NewGame, Books
<1>2. CASE playback
  BY <1>1, <1>2 DEF NewGame, Books
<1>3. CASE ~playback
  <2>1. /\ overview' = Append(overview, FALSE) /\ game' = Len(overview')
        /\ dao' = [dao EXCEPT !.rowId = Len(overview'), !.lastRow = Len(overview')]
    BY <1>3 DEF NewGame, Fails, InsertOverview
  <2>2. overview' \in Seq(BOOLEAN) /\ Len(overview') = Len(overview) + 1 /\ Len(overview) \in Nat
    BY <2>1, AppendFalse DEF Books
  <2>3. IsDao(dao)' /\ dao'.rowId = Len(overview')
    <3>1. PICK n \in Nat : n = Len(overview')
      BY <2>2
    <3>2. IsDao(dao) /\ dao' = [dao EXCEPT !.rowId = n, !.lastRow = n]
      BY <2>1, <3>1 DEF Books
    <3> QED
      BY <3>1, <3>2 DEF IsDao
  <2> QED
    BY <1>1, <1>3, <2>1, <2>2, <2>3 DEF Books
<1> QED
  BY <1>2, <1>3, Zenon

LEMMA FinishBooks ==
  ASSUME Books, NEW fails \in BOOLEAN, Save(fails),
         UNCHANGED <<playback, hist>>
  PROVE  Books'
<1>1. pc \in {"over", "marked"} /\ pc' \in {"marked", "menu"} /\ game' = game /\ ended' = ended
      /\ playback' = playback /\ game = 0
  BY DEF Save, hist, Books
<1>2. overview' \in Seq(BOOLEAN) /\ Len(overview') = Len(overview)
  <2>1. \/ overview' = overview
        \/ dao.rowId \in DOMAIN overview /\ overview' = [overview EXCEPT ![dao.rowId] = TRUE]
    BY DEF Save, MarkComplete
  <2> QED
    BY <2>1, MarkedSeq DEF Books
<1>3. hiscore' \in Seq(Nat) /\ IsDao(dao)'
  <2>1. \E m : dao' \in {dao, [dao EXCEPT !.lastRow = m]}
    BY DEF Save, SaveHiscore
  <2>2. IsDao(dao)'
    BY <2>1 DEF Books, IsDao
  <2>3. dao.rowId \in Nat /\ hiscore \in Seq(Nat)
    BY DEF Books, IsDao
  <2>4. hiscore' \in {hiscore, Append(hiscore, dao.rowId)}
    BY DEF Save, SaveHiscore
  <2> QED
    BY <2>2, <2>3, <2>4, AppendProperties
<1> QED
  BY <1>1, <1>2, <1>3 DEF Books

LEMMA BooksStep == ~WritesFail /\ Books /\ [Next]_vars => Books'
<1> SUFFICES ASSUME ~WritesFail, Books, [Next]_vars PROVE Books'
  OBVIOUS
<1>1. CASE UNCHANGED vars
  BY <1>1 DEF Books, vars, db, prog, hist
<1>2. CASE Start
  <2>1. \E id : dao' \in {dao, [dao EXCEPT !.output = id]}
    BY <1>2 DEF Start
  <2>2. IsDao(dao)' /\ game' = 0 /\ pc' = "menu" /\ UNCHANGED <<overview, hiscore, ended>>
    BY <1>2, <2>1 DEF Start, db, hist, Books, IsDao
  <2> QED
    BY <2>2 DEF Books
<1>3. ASSUME Off, UNCHANGED <<db, seen, rested, ended>> PROVE Books'
  BY <1>3, Fresh DEF Books, Off, db
<1>4. CASE Finish
  BY <1>4, FinishBooks DEF Finish, Fails
<1>5. ASSUME NEW keys \in Keystates, Menu(keys) PROVE Books'
  <2>1. CASE UNCHANGED <<db, pc, playback, dao, engine, ctl, input, hist>>
    BY <2>1 DEF Books, db, hist
  <2> QED
    BY <1>3, <1>5, <2>1, GameBooks DEF Menu
<1> QED
  BY <1>1, <1>2, <1>3, <1>4, <1>5, TickBooks DEF Next, Stop

LEMMA InitBooks == Init => Books
<1>1. <<>> \in Seq(BOOLEAN) /\ <<>> \in Seq(Nat)
  OBVIOUS
<1> QED
  BY <1>1, Fresh DEF Init, Books

\* Steps that neither end a game nor write a hiscore.
LEMMA NothingEarned ==
  ASSUME Books, Earned, hiscore' = hiscore, ended' = ended, pc' \notin {"over", "marked"},
         overview' = overview \/ overview' = Append(overview, FALSE), game' \notin ended
  PROVE  Earned'
<1>1. overview \in Seq(BOOLEAN) /\ ended \subseteq 1..Len(overview)
  BY DEF Books
<1>2. \A i \in 1..Len(overview) : overview'[i] = overview[i]
  BY <1>1, AppendFalse
<1>3. \A k \in ended : overview'[k] = overview[k]
  BY <1>1, <1>2
<1> QED
  BY <1>3 DEF Earned

LEMMA FinishEarns ==
  ASSUME ~WritesFail, Books, Earned, Finish
  PROVE  Earned'
<1>1. Save(FALSE)
  BY DEF Finish, Fails
<1>2. ended' = ended /\ game' = game
  BY DEF Finish, hist
<1>3. /\ overview \in Seq(BOOLEAN) /\ hiscore \in Seq(Nat) /\ ended \subseteq 1..Len(overview)
      /\ IsDao(dao) /\ dao.rowId \in Nat /\ Len(hiscore) \in Nat
      /\ dao.rowId \in ended /\ \A i \in 1..Len(hiscore) : hiscore[i] # dao.rowId
  BY <1>1, LenProperties DEF Books, IsDao, Earned, Save
<1>4. dao.rowId \in 1..Len(overview) /\ DOMAIN overview = 1..Len(overview) /\ TRUE \in BOOLEAN
  BY <1>3, LenProperties
<1>5. CASE pc = "over"
  <2>1. /\ overview' = [overview EXCEPT ![dao.rowId] = TRUE]
        /\ hiscore' = hiscore /\ dao' = dao /\ pc' = "marked"
    BY <1>1, <1>4, <1>5 DEF Save, MarkComplete
  <2>2. \A k \in 1..Len(overview) : overview'[k] = IF k = dao.rowId THEN TRUE ELSE overview[k]
    BY <1>3, <1>4, <2>1, ExceptSeq
  <2>3. \A k \in ended : overview[k] = TRUE => overview'[k] = TRUE
    BY <1>3, <2>2
  <2>4. overview'[dao'.rowId] = TRUE
    BY <1>4, <2>1, <2>2
  <2>5. \A i \in 1..Len(hiscore') : hiscore'[i] \in ended' /\ overview'[hiscore'[i]] = TRUE
    BY <1>2, <2>1, <2>3 DEF Earned
  <2> QED
    BY <1>2, <1>3, <2>1, <2>4, <2>5 DEF Earned
<1>6. CASE pc = "marked"
  <2>1. /\ hiscore' = Append(hiscore, dao.rowId) /\ overview' = overview /\ pc' = "menu"
    BY <1>1, <1>6 DEF Save, SaveHiscore
  <2>2. /\ Len(hiscore') = Len(hiscore) + 1 /\ hiscore'[Len(hiscore) + 1] = dao.rowId
        /\ \A i \in 1..Len(hiscore) : hiscore'[i] = hiscore[i]
    BY <1>3, <2>1, AppendProperties
  <2>3. \A i \in 1..Len(hiscore') : i \in 1..Len(hiscore) \/ i = Len(hiscore) + 1
    BY <1>3, <2>2
  <2>4. overview[dao.rowId] = TRUE
    BY <1>6 DEF Earned
  <2>5. \A i \in 1..Len(hiscore') : hiscore'[i] \in ended /\ overview[hiscore'[i]] = TRUE
    BY <1>3, <2>2, <2>3, <2>4 DEF Earned
  <2>6. \A i, j \in 1..Len(hiscore') : hiscore'[i] = hiscore'[j] => i = j
    BY <1>3, <2>2, <2>3 DEF Earned
  <2> QED
    BY <1>2, <2>1, <2>5, <2>6 DEF Earned
<1> QED
  BY <1>1, <1>5, <1>6 DEF Save

LEMMA TickEarns ==
  ASSUME Books, Earned, NEW keys \in Keystates, Tick(keys)
  PROVE  Earned'
<1>1. hiscore' = hiscore /\ overview' = overview /\ pc = "game"
  BY DEF Tick
<1>2. \/ pc' = pc /\ game' = game /\ ended' = ended
      \/ pc' \in {"end", "menu"} /\ game' = 0 /\ ended' = ended
      \/ (IF playback THEN pc' = "menu" ELSE pc' = "over")
         /\ game' = 0 /\ ended' = ended \cup ({game} \ {0})
  BY DEF Tick
<1>3. 0 \notin ended
  BY DEF Books
<1>4. CASE ended' = ended /\ pc' \notin {"over", "marked"}
  BY <1>1, <1>2, <1>3, <1>4, NothingEarned DEF Earned
<1>5. CASE playback
  BY <1>1, <1>2, <1>3, <1>5, NothingEarned DEF Earned, Books
<1>6. CASE ~playback /\ pc' = "over" /\ game' = 0 /\ ended' = ended \cup ({game} \ {0})
  <2>1. game = dao.rowId /\ game # 0
    BY <1>1, <1>6 DEF Books
  <2>2. dao'.rowId = dao.rowId
    BY TickBooks
  <2>3. ended' = ended \cup {game} /\ 0 \notin ended'
    BY <1>3, <1>6, <2>1
  <2> QED
    BY <1>1, <1>6, <2>1, <2>2, <2>3 DEF Earned
<1> QED
  BY <1>1, <1>2, <1>4, <1>5, <1>6

LEMMA EarnedStep == ~WritesFail /\ Books /\ Earned /\ [Next]_vars => Earned'
<1> SUFFICES ASSUME ~WritesFail, Books, Earned, [Next]_vars PROVE Earned'
  OBVIOUS
<1>0. 0 \notin ended
  BY DEF Books
<1>1. CASE UNCHANGED vars
  BY <1>1 DEF Earned, vars, db, prog, hist
<1>2. CASE Start
  BY <1>2, NothingEarned DEF Start, db, hist, Earned
<1>3. ASSUME Off, UNCHANGED <<db, seen, rested, ended>> PROVE Earned'
  BY <1>0, <1>3, NothingEarned DEF Off, db
<1>4. ASSUME NEW keys \in Keystates, Menu(keys) PROVE Earned'
  <2>1. CASE Off /\ UNCHANGED <<db, seen, rested, ended>>
    BY <1>3, <2>1
  <2>2. CASE UNCHANGED <<db, pc, playback, dao, engine, ctl, input, hist>> /\ pc = "menu"
    BY <2>2, NothingEarned DEF db, hist, Earned
  <2>3. CASE NewGame /\ pc = "menu"
    <3>1. hiscore' = hiscore /\ ended' = ended /\ pc' = "game"
      BY <2>3 DEF NewGame
    <3>2. \/ overview' = overview /\ game' = game
          \/ overview' = Append(overview, FALSE) /\ game' = Len(overview')
      BY <2>3 DEF NewGame, Fails, InsertOverview
    <3>3. game' \notin ended
      BY <2>3, GameBooks DEF Books, Earned
    <3> QED
      BY <3>1, <3>2, <3>3, NothingEarned
  <2> QED
    BY <1>4, <2>1, <2>2, <2>3 DEF Menu
<1> QED
  BY <1>1, <1>2, <1>3, <1>4, FinishEarns, TickEarns DEF Next, Stop

\* Every hiscore belongs to a game that a player ended, whose replay is complete,
\* and no game has two, for every goal, length of game, content of the FSControl
\* when the program starts and moment to stop it at (main.c:211-215, 265).
THEOREM HiscoresAreGames == ASSUME ~WritesFail PROVE Spec => []HiscoresBelong
<1>1. Init => Books /\ Earned
  <2>1. Len(<<>>) = 0
    BY EmptySeq
  <2> QED
    BY <2>1, InitBooks DEF Init, Earned
<1>2. Books /\ Earned /\ [Next]_vars => (Books /\ Earned)'
  BY BooksStep, EarnedStep
<1>3. Books /\ Earned => HiscoresBelong
  <2> SUFFICES ASSUME Books, Earned PROVE HiscoresBelong
    OBVIOUS
  <2>1. DOMAIN hiscore = 1..Len(hiscore)
    BY LenProperties DEF Books
  <2> QED
    BY <2>1 DEF Earned, HiscoresBelong
<1> QED
  BY <1>1, <1>2, <1>3, PTL DEF Spec
=============================================================================
