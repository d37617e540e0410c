--------------------------- MODULE FrontendProofs ---------------------------
(***************************************************************************)
(* The pace of the game loop, for every tick rate, word size and machine:  *)
(* however slow the ticks, late the sleeps or long the stalls, and however *)
(* often the clock wraps.                                                  *)
(***************************************************************************)
EXTENDS Terminal, TLAPS

\* Equal as clock values.
Same(a, b) == \E k \in Int : a = b + k * Word

\* The lag is the difference between the clock and the time that the ticks
\* played call for, as far as a clock value can tell; and a turn begins no
\* earlier than the game is due.
InPlay == {"turn", "tick", "blit", "sleep"}
Pace ==
  /\ pc = "turn" => /\ Same(lastTime - lag, Due(totalTicksRaw))
                    /\ now >= Due(IF totalTicksRaw = 0 THEN 0 ELSE totalTicksRaw + 1)
  /\ pc = "tick" => /\ Same(lastTime - lag, Due(totalTicksRaw + 1))
                    /\ now >= Due(totalTicksRaw)
  /\ pc \in {"blit", "sleep"} => /\ Same(lastTime - lag, Due(totalTicksRaw))
                                 /\ now >= Due(totalTicksRaw - 1)
Numbers ==
  /\ now \in Int /\ lastTime \in Int /\ lag \in Int /\ epoch \in Int
  /\ totalTicksRaw \in Nat
PInv == Numbers /\ Pace

-----------------------------------------------------------------------------
\* What Wrap returns: the same clock value, within half a word of zero.
LEMMA WrapIsSame ==
  ASSUME NEW n \in Int
  PROVE  /\ Wrap(n) \in Int
         /\ Same(Wrap(n), n)
         /\ Wrap(n) >= -(Word \div 2) /\ Wrap(n) < Word - Word \div 2
<1> DEFINE h == Word \div 2
           m == n + h
<1>1. Word \in Nat \ {0} /\ h \in Nat
  BY LoopAssumption
<1>2. /\ m \in Int /\ m % Word \in 0..(Word - 1) /\ m \div Word \in Int
      /\ m = Word * (m \div Word) + (m % Word)
  BY <1>1
<1>3. Wrap(n) = (m % Word) - h
  BY DEF Wrap
<1>4. Wrap(n) = n + (-(m \div Word)) * Word
  <2> DEFINE q == m \div Word
             r == m % Word
  <2>1. q \in Int /\ r \in Int /\ Word \in Int /\ h \in Int /\ n + h = Word * q + r /\ Wrap(n) = r - h
    BY <1>1, <1>2, <1>3
  <2> HIDE DEF q, r, h
  <2>2. Word * q \in Int /\ (-q) * Word = -(Word * q)
    BY <2>1
  <2> QED BY <2>1, <2>2 DEF q
<1>5. Same(Wrap(n), n)
  <2>1. -(m \div Word) \in Int
    BY <1>2
  <2> HIDE DEF m
  <2> QED BY <1>4, <2>1 DEF Same
<1>6. Wrap(n) \in Int /\ Wrap(n) >= -h /\ Wrap(n) < Word - h
  <2> DEFINE r == m % Word
  <2>1. r \in Int /\ r >= 0 /\ r < Word /\ Wrap(n) = r - h
    BY <1>1, <1>2, <1>3
  <2> HIDE DEF r, h
  <2> QED BY <1>1, <2>1
<1> QED BY <1>5, <1>6

\* Clock values add up.
LEMMA SameAdds ==
  ASSUME NEW a \in Int, NEW b \in Int, NEW c \in Int, NEW d \in Int,
         Same(a, b), Same(c, d)
  PROVE  Same(a + c, b + d) /\ Same(a - c, b - d)
<1>1. PICK k \in Int : a = b + k * Word
  BY DEF Same
<1>2. PICK l \in Int : c = d + l * Word
  BY DEF Same
<1>3. Word \in Int
  BY LoopAssumption
<1>4. /\ k * Word \in Int /\ l * Word \in Int
      /\ (k + l) * Word = k * Word + l * Word
      /\ (k - l) * Word = k * Word - l * Word
  BY <1>3
<1>5. a + c = b + d + (k + l) * Word /\ a - c = b - d + (k - l) * Word
  BY <1>1, <1>2, <1>4
<1> QED BY <1>5 DEF Same

\* A number less than half a word from zero is its own clock value, and no
\* other number so close has it.
LEMMA WrapExact ==
  ASSUME NEW n \in Int, NEW v \in Int, Same(n, v),
         v >= -(Word \div 2), v < Word - Word \div 2
  PROVE  Wrap(n) = v
<1>1. PICK k \in Int : n = v + k * Word
  BY DEF Same
<1>2. Wrap(n) \in Int /\ Same(Wrap(n), n)
      /\ Wrap(n) >= -(Word \div 2) /\ Wrap(n) < Word - Word \div 2
  BY WrapIsSame
<1>3. PICK l \in Int : Wrap(n) = n + l * Word
  BY <1>2 DEF Same
<1> DEFINE j == k + l
<1>4. Word \in Nat \ {0} /\ Word \div 2 \in Nat
  BY LoopAssumption
<1>5. k * Word \in Int /\ l * Word \in Int /\ j \in Int /\ j * Word = k * Word + l * Word
  BY <1>4
<1>6. Wrap(n) = v + j * Word
  BY <1>1, <1>2, <1>3, <1>4, <1>5
<1> HIDE DEF j
<1>7. j * Word > -Word /\ j * Word < Word
  BY <1>2, <1>4, <1>5, <1>6
<1>8. j = 0
  <2>1. CASE j >= 1
    <3>1. j * Word >= Word
      BY <1>4, <1>5, <2>1
    <3> QED BY <1>4, <1>5, <1>7, <3>1
  <2>2. CASE j <= -1
    <3>1. j * Word <= -Word
      BY <1>4, <1>5, <2>2
    <3> QED BY <1>4, <1>5, <1>7, <3>1
  <2> QED BY <1>5, <2>1, <2>2
<1> QED BY <1>4, <1>6, <1>8

-----------------------------------------------------------------------------
\* The sleep of a turn ends when the next tick is due, or is no sleep when
\* that is past.
LEMMA SleepIsExact ==
  ASSUME PInv, pc = "sleep"
  PROVE  /\ Slept \in Nat
         /\ now + Slept >= Due(totalTicksRaw + 1)
         /\ Due(totalTicksRaw + 1) - now >= -(Word \div 2)
              => now + Slept <= now \/ now + Slept <= Due(totalTicksRaw + 1)
<1> DEFINE v   == Due(totalTicksRaw + 1) - now
           arg == lastTime + TickRate - lag - fsiGetTime
<1>1. /\ now \in Int /\ lastTime \in Int /\ lag \in Int /\ epoch \in Int /\ totalTicksRaw \in Nat
      /\ Same(lastTime - lag, Due(totalTicksRaw)) /\ now >= Due(totalTicksRaw - 1)
  BY DEF PInv, Numbers, Pace
<1>2. TickRate \in Nat \ {0} /\ Word \in Nat \ {0} /\ 2 * TickRate < Word \div 2
  BY LoopAssumption
<1>3. fsiGetTime \in Int /\ Same(fsiGetTime, now)
  BY <1>1, WrapIsSame DEF fsiGetTime
<1>4. /\ Due(totalTicksRaw) \in Int /\ Due(totalTicksRaw + 1) = Due(totalTicksRaw) + TickRate
      /\ Due(totalTicksRaw - 1) = Due(totalTicksRaw) - TickRate
  BY <1>1, <1>2 DEF Due
<1>5. v \in Int /\ arg \in Int /\ v <= 2 * TickRate
  BY <1>1, <1>2, <1>3, <1>4
<1>6. Same(arg, v)
  <2>1. Same(lastTime - lag - fsiGetTime, Due(totalTicksRaw) - now)
    BY <1>1, <1>3, <1>4, SameAdds
  <2>2. PICK k \in Int : lastTime - lag - fsiGetTime = Due(totalTicksRaw) - now + k * Word
    BY <2>1 DEF Same
  <2>3. k * Word \in Int
    BY <1>2
  <2>4. arg = v + k * Word
    BY <1>1, <1>2, <1>3, <1>4, <2>2, <2>3
  <2> QED BY <2>4 DEF Same
<1> HIDE DEF v, arg
<1>7. Slept = IF Wrap(arg) > 0 THEN Wrap(arg) ELSE 0
  BY DEF Slept, arg
<1>8. Wrap(arg) \in Int
  BY <1>5, WrapIsSame
<1>9. Slept \in Nat
  BY <1>7, <1>8
<1>10. v >= -(Word \div 2) => Wrap(arg) = v
  BY <1>2, <1>5, <1>6, WrapExact
<1>11. v > 0 => Slept = v
  BY <1>2, <1>5, <1>7, <1>10
<1>12. v >= -(Word \div 2) => Slept = 0 \/ Slept = v
  BY <1>7, <1>10
<1>13. now + v = Due(totalTicksRaw + 1)
  BY <1>1, <1>2, <1>4 DEF v
<1> QED BY <1>1, <1>2, <1>5, <1>9, <1>11, <1>12, <1>13 DEF v

LEMMA PInvInit == LInit => PInv
BY LoopAssumption DEF LInit, PInv, Numbers, Pace

\* A turn adds to the lag what the clock shows beyond one tick.
LEMMA PInvTurn == PInv /\ Turn => PInv'
<1> SUFFICES ASSUME PInv, Turn PROVE PInv'
  OBVIOUS
<1>1. /\ now \in Int /\ lastTime \in Int /\ lag \in Int /\ epoch \in Int /\ totalTicksRaw \in Nat
      /\ Same(lastTime - lag, Due(totalTicksRaw))
      /\ now >= Due(IF totalTicksRaw = 0 THEN 0 ELSE totalTicksRaw + 1)
  BY DEF PInv, Numbers, Pace, Turn
<1>2. TickRate \in Nat \ {0} /\ Word \in Nat \ {0}
  BY LoopAssumption
<1> DEFINE passed == Wrap(fsiGetTime - lastTime)
           sum    == lag + passed - TickRate
<1>3. fsiGetTime \in Int
  BY <1>1, WrapIsSame DEF fsiGetTime
<1>4. passed \in Int /\ Same(passed, fsiGetTime - lastTime)
  BY <1>1, <1>3, WrapIsSame
<1>5. /\ lastTime' = fsiGetTime /\ lag' = Wrap(sum) /\ pc' = "tick"
      /\ UNCHANGED <<now, epoch, totalTicksRaw>>
  BY DEF Turn
<1>6. Due(totalTicksRaw + 1) = Due(totalTicksRaw) + TickRate /\ Due(totalTicksRaw) \in Int
  BY <1>1, <1>2 DEF Due
<1> HIDE DEF passed
<1>7. sum \in Int /\ Wrap(sum) \in Int /\ Same(Wrap(sum), sum)
  BY <1>1, <1>2, <1>4, WrapIsSame
<1>8. Same(fsiGetTime - Wrap(sum), Due(totalTicksRaw + 1))
  <2>1. PICK j \in Int : passed = fsiGetTime - lastTime + j * Word
    BY <1>4 DEF Same
  <2>2. PICK k \in Int : Wrap(sum) = sum + k * Word
    BY <1>7 DEF Same
  <2>3. PICK l \in Int : lastTime - lag = Due(totalTicksRaw) + l * Word
    BY <1>1 DEF Same
  <2>4. /\ j * Word \in Int /\ k * Word \in Int /\ l * Word \in Int /\ l - j - k \in Int
        /\ (l - j - k) * Word = l * Word - j * Word - k * Word
    BY <1>2
  <2>5. fsiGetTime - Wrap(sum) = Due(totalTicksRaw + 1) + (l - j - k) * Word
    BY <1>1, <1>2, <1>3, <1>4, <1>6, <2>1, <2>2, <2>3, <2>4
  <2> QED BY <2>4, <2>5 DEF Same
<1>9. now >= Due(totalTicksRaw)
  BY <1>1, <1>2 DEF Due
<1>10. Due(totalTicksRaw + 1)' = Due(totalTicksRaw + 1) /\ Due(totalTicksRaw)' = Due(totalTicksRaw)
  BY <1>5 DEF Due
<1>11. Same(lastTime - lag, Due(totalTicksRaw + 1))'
  BY <1>5, <1>8, <1>10 DEF Same, Due
<1> QED BY <1>1, <1>3, <1>5, <1>7, <1>9, <1>10, <1>11 DEF PInv, Numbers, Pace

LEMMA PInvTick ==
  ASSUME PInv, NEW work \in Works, Tick(work)
  PROVE  PInv'
<1>1. /\ now \in Int /\ lastTime \in Int /\ lag \in Int /\ epoch \in Int /\ totalTicksRaw \in Nat
      /\ Same(lastTime - lag, Due(totalTicksRaw + 1)) /\ now >= Due(totalTicksRaw)
  BY DEF PInv, Numbers, Pace, Tick
<1>2. work \in Nat /\ TickRate \in Nat
  BY LoopAssumption
<1>3. /\ now' = now + work /\ totalTicksRaw' = totalTicksRaw + 1 /\ pc' \in {"blit", "sleep"}
      /\ UNCHANGED <<lastTime, lag, epoch>>
  BY DEF Tick
<1>4. Same(lastTime - lag, Due(totalTicksRaw))'
  BY <1>1, <1>3 DEF Same, Due
<1>5. totalTicksRaw' - 1 = totalTicksRaw
  BY <1>1, <1>3
<1>6. Due(totalTicksRaw) \in Int
  BY <1>1, <1>2 DEF Due
<1>7. now' >= Due(totalTicksRaw)
  BY <1>1, <1>2, <1>3, <1>6
<1>8. (now >= Due(totalTicksRaw - 1))'
  BY <1>3, <1>5, <1>7 DEF Due
<1> QED BY <1>1, <1>2, <1>3, <1>4, <1>8 DEF PInv, Numbers, Pace

LEMMA PInvSleep ==
  ASSUME PInv, NEW late \in Late, Sleep(late)
  PROVE  PInv'
<1>1. /\ now \in Int /\ lastTime \in Int /\ lag \in Int /\ epoch \in Int /\ totalTicksRaw \in Nat
      /\ Same(lastTime - lag, Due(totalTicksRaw)) /\ now >= Due(totalTicksRaw - 1)
      /\ pc = "sleep"
  BY DEF PInv, Numbers, Pace, Sleep
<1>2. late \in Nat /\ TickRate \in Nat
  BY LoopAssumption
<1>3. Slept \in Nat /\ now + Slept >= Due(totalTicksRaw + 1)
  BY <1>1, SleepIsExact
<1>4. /\ now' = now + Slept + late /\ pc' = "turn"
      /\ UNCHANGED <<lastTime, lag, epoch, totalTicksRaw>>
  BY DEF Sleep
<1>5. /\ Due(totalTicksRaw + 1) \in Int /\ Due(0) \in Int
      /\ totalTicksRaw = 0 => Due(0) <= Due(totalTicksRaw + 1)
  BY <1>1, <1>2 DEF Due
<1>6. now' \in Int /\ now' >= Due(IF totalTicksRaw = 0 THEN 0 ELSE totalTicksRaw + 1)
  BY <1>1, <1>2, <1>3, <1>4, <1>5
<1>7. (now >= Due(IF totalTicksRaw = 0 THEN 0 ELSE totalTicksRaw + 1))'
  BY <1>4, <1>6 DEF Due
<1>8. Same(lastTime - lag, Due(totalTicksRaw))'
  BY <1>1, <1>4 DEF Same, Due
<1> QED BY <1>1, <1>4, <1>6, <1>7, <1>8 DEF PInv, Numbers, Pace

\* A new game starts the clock and the count together.
LEMMA PInvMenu ==
  ASSUME PInv, NEW keys, MenuTurn(keys)
  PROVE  PInv'
<1>1. now \in Int /\ now' = now
  BY DEF PInv, Numbers, MenuTurn
<1>2. CASE Begin
  <2>1. /\ pc' = "turn" /\ totalTicksRaw' = 0 /\ lastTime' = fsiGetTime /\ lag' = 0 /\ epoch' = now
    BY <1>2 DEF Begin
  <2>2. fsiGetTime \in Int /\ Same(fsiGetTime, now)
    BY <1>1, WrapIsSame DEF fsiGetTime
  <2>3. TickRate \in Int
    BY LoopAssumption
  <2>4. Due(0)' = now
    BY <1>1, <2>1, <2>3 DEF Due
  <2>5. Same(lastTime - lag, Due(0))'
    BY <1>1, <2>1, <2>2, <2>4 DEF Same
  <2> QED BY <1>1, <2>1, <2>2, <2>4, <2>5 DEF PInv, Numbers, Pace, Due
<1>3. CASE ~Begin
  <2>1. pc' \in {"end", "menublit"} /\ UNCHANGED <<lastTime, lag, epoch, totalTicksRaw>>
    BY <1>3 DEF MenuTurn
  <2> QED BY <1>1, <2>1 DEF PInv, Numbers, Pace
<1> QED BY <1>2, <1>3

LEMMA PInvStep == PInv /\ [LNext]_lvars => PInv'
<1> SUFFICES ASSUME PInv, [LNext]_lvars PROVE PInv'
  OBVIOUS
<1>1. ASSUME NEW keys \in SUBSET {"restart", "quit"}, MenuTurn(keys) PROVE PInv'
  BY <1>1, PInvMenu
<1>2. CASE MenuBlit
  BY <1>2 DEF MenuBlit, PInv, Numbers, Pace
<1>3. CASE Turn
  BY <1>3, PInvTurn
<1>4. CASE Blit
  BY <1>4 DEF Blit, PInv, Numbers, Pace, Same, Due
<1>5. CASE Break
  BY <1>5 DEF Break, PInv, Numbers, Pace
<1>6. ASSUME NEW work \in Works, Tick(work) PROVE PInv'
  BY <1>6, PInvTick
<1>7. ASSUME NEW late \in Late, Sleep(late) PROVE PInv'
  BY <1>7, PInvSleep
<1>8. ASSUME NEW late \in Late, MenuSleep(late) PROVE PInv'
  <2>1. late \in Nat /\ MenuRest \in Nat
    BY LoopAssumption
  <2> QED BY <1>8, <2>1 DEF MenuSleep, PInv, Numbers, Pace
<1>9. CASE UNCHANGED lvars
  BY <1>9 DEF lvars, PInv, Numbers, Pace, Same, Due
<1> QED BY <1>1, <1>2, <1>3, <1>4, <1>5, <1>6, <1>7, <1>8, <1>9 DEF LNext

-----------------------------------------------------------------------------
\* Under the terminal the loop does nothing that it does not do alone: the
\* signals and the steps of a blit are invisible to it.
LEMMA TStepIsLStep == [TNext]_tvars => [LNext]_lvars
<1> SUFFICES ASSUME [TNext]_tvars PROVE [LNext]_lvars
  OBVIOUS
<1>1. CASE Winch
  BY <1>1 DEF Winch
<1>2. CASE Interrupt
  BY <1>2 DEF Interrupt
<1>3. CASE TurnOfGame
  BY <1>3 DEF TurnOfGame, LNext
<1>4. CASE StepOfLoop
  BY <1>4 DEF StepOfLoop, LNext
<1>5. CASE BlitStart
  BY <1>5 DEF BlitStart
<1>6. CASE BlitClear
  BY <1>6 DEF BlitClear
<1>7. CASE BlitPaint
  BY <1>7 DEF BlitPaint, LNext
<1>8. CASE End
  BY <1>8 DEF End
<1>9. CASE UNCHANGED tvars
  BY <1>9 DEF tvars
<1> QED BY <1>1, <1>2, <1>3, <1>4, <1>5, <1>6, <1>7, <1>8, <1>9 DEF TNext

\* The terminal frontend leaves the game loop as it is: TSpec implements the
\* loop's own specification.
THEOREM LoopUndisturbed == TSpec => LSpec
<1>1. TInit => LInit
  BY DEF TInit
<1>2. [TNext]_tvars => [LNext]_lvars
  BY TStepIsLStep
<1> QED BY <1>1, <1>2, PTL DEF TSpec, LSpec

\* The game never runs ahead of real time, for every tick rate of less than a
\* quarter of the clock's range, however long a tick, a sleep or a stall
\* takes and however often the clock wraps (main.c:99, 139-142).
THEOREM LoopNeverAhead == LSpec => []NeverAhead
<1>1. LInit => PInv
  BY PInvInit
<1>2. PInv /\ [LNext]_lvars => PInv'
  BY PInvStep
<1>3. PInv => NeverAhead
  BY DEF PInv, Numbers, Pace, NeverAhead
<1> QED BY <1>1, <1>2, <1>3, PTL DEF LSpec

THEOREM GameNeverAhead == TSpec => []NeverAhead
BY LoopUndisturbed, LoopNeverAhead, PTL

\* No sleep ends after the next tick is due, but for the lateness of the
\* machine, as long as no stall is longer than half the range of the clock
\* (36 minutes): past that the lag of main.c:99 changes its sign.
NoLongStall == Due(totalTicksRaw + 1) - now >= -(Word \div 2)

THEOREM LoopNeverOversleeps == LSpec /\ [](pc = "sleep" => NoLongStall) => NoOversleep
<1> DEFINE Reach == pc = "sleep" => NoLongStall
           Good == \A late \in Late : Sleep(late) => now' <= now + late \/ now' <= Due(totalTicksRaw + 1) + late
<1>1. PInv /\ Reach /\ [LNext]_lvars => [Good]_lvars
  <2> SUFFICES ASSUME PInv, Reach, NEW late \in Late, Sleep(late)
               PROVE  now' <= now + late \/ now' <= Due(totalTicksRaw + 1) + late
    OBVIOUS
  <2>1. pc = "sleep" /\ now' = now + Slept + late
    BY DEF Sleep
  <2>2. Slept \in Nat /\ (now + Slept <= now \/ now + Slept <= Due(totalTicksRaw + 1))
    BY <2>1, SleepIsExact DEF NoLongStall
  <2>3. late \in Nat /\ now \in Int /\ Due(totalTicksRaw + 1) \in Int
    BY LoopAssumption DEF PInv, Numbers, Due
  <2> QED BY <2>1, <2>2, <2>3
<1>2. LInit => PInv
  BY PInvInit
<1>3. PInv /\ [LNext]_lvars => PInv'
  BY PInvStep
<1> QED BY <1>1, <1>2, <1>3, PTL DEF LSpec, NoOversleep

-----------------------------------------------------------------------------
\* Numbers that follow one another.
LEMMA NextRemainder ==
  ASSUME NEW t \in Nat, NEW n \in Nat \ {0}
  PROVE  /\ t % n \in 0..(n - 1)
         /\ (t + 1) % n # 0 => (t + 1) % n = (t % n) + 1
<1> DEFINE r == t % n
           q == t \div n
           s == (t + 1) % n
           p == (t + 1) \div n
<1>1. r \in 0..(n - 1) /\ q \in Int /\ t = n * q + r
  BY SMT
<1>2. s \in 0..(n - 1) /\ p \in Int /\ t + 1 = n * p + s
  BY SMT
<1> HIDE DEF r, q, s, p
<1>3. n * (p - q) = n * p - n * q /\ n * p \in Int /\ n * q \in Int /\ p - q \in Int
  BY <1>1, <1>2
<1>4. n * (p - q) = r + 1 - s
  BY <1>1, <1>2, <1>3
<1>5. s # 0 => n * (p - q) < n /\ n * (p - q) > -n
  BY <1>1, <1>2, <1>4
<1>6. s # 0 => p - q = 0
  <2>1. CASE p - q >= 1
    <3>1. n * (p - q) >= n
      BY <1>3, <2>1
    <3> QED BY <1>3, <1>5, <3>1
  <2>2. CASE p - q <= -1
    <3>1. n * (p - q) <= -n
      BY <1>3, <2>2
    <3> QED BY <1>3, <1>5, <3>1
  <2> QED BY <1>3, <2>1, <2>2
<1>7. s # 0 => n * (p - q) = 0
  BY <1>3, <1>6
<1>8. s # 0 => s = r + 1
  BY <1>1, <1>2, <1>4, <1>7
<1> QED BY <1>1, <1>8 DEF r, s

\* While a game is on, the ticks not drawn are those since the last multiple of
\* TicksPerDraw; the countdown, which counts no ticks, draws every one of its own.
Undrawn ==
  /\ totalTicks \in Nat /\ totalTicksRaw \in Nat /\ undrawn \in Nat
  /\ state \in {"PLAY"} \cup Finished
  /\ pc \in {"menu", "turn", "tick", "blit", "sleep", "menublit", "menusleep", "end"}
  /\ pc \in {"turn", "tick"} => state = "PLAY"
  /\ pc \in InPlay /\ state = "PLAY" /\ totalTicksRaw <= Countdown => totalTicks = 0
  /\ pc \in {"turn", "tick", "sleep"} /\ state = "PLAY" => undrawn = totalTicks % TicksPerDraw
  /\ pc = "blit" => undrawn <= TicksPerDraw /\ (totalTicks % TicksPerDraw = 0 \/ state \in Finished)
  /\ pc = "sleep" /\ state \in Finished => undrawn = 0
  /\ pc \in {"menu", "menublit", "menusleep", "end"} => undrawn = 0

LEMMA UndrawnTick ==
  ASSUME Undrawn, NEW work \in Works, Tick(work)
  PROVE  Undrawn'
<1>1. TicksPerDraw \in Nat \ {0} /\ Countdown \in Nat
  BY LoopAssumption
<1>2. /\ totalTicks \in Nat /\ totalTicksRaw \in Nat /\ undrawn = totalTicks % TicksPerDraw
      /\ totalTicksRaw <= Countdown => totalTicks = 0
  BY DEF Undrawn, Tick, InPlay
<1>3. /\ totalTicksRaw' = totalTicksRaw + 1 /\ undrawn' = undrawn + 1
      /\ state' \in {"PLAY"} \cup Finished
      /\ totalTicks' = IF totalTicksRaw' > Countdown \/ state' # "PLAY" THEN totalTicks + 1 ELSE totalTicks
      /\ pc' = IF totalTicks' % TicksPerDraw = 0 \/ state' \in Finished THEN "blit" ELSE "sleep"
  BY DEF Tick, Draws, Finished
<1>4. /\ totalTicks % TicksPerDraw \in 0..(TicksPerDraw - 1)
      /\ (totalTicks + 1) % TicksPerDraw # 0
            => (totalTicks + 1) % TicksPerDraw = (totalTicks % TicksPerDraw) + 1
  BY <1>1, <1>2, NextRemainder
<1>5. undrawn' \in Nat /\ undrawn' <= TicksPerDraw
  BY <1>1, <1>2, <1>3, <1>4
<1>6. CASE totalTicksRaw' > Countdown \/ state' # "PLAY"
  <2>1. totalTicks' = totalTicks + 1
    BY <1>3, <1>6
  <2>2. state' = "PLAY" => ~(totalTicksRaw' <= Countdown)
    BY <1>1, <1>2, <1>3, <1>6
  <2>3. pc' = "sleep" => undrawn' = totalTicks' % TicksPerDraw /\ state' \notin Finished
    BY <1>2, <1>3, <1>4, <2>1
  <2>4. pc' = "blit" => totalTicks' % TicksPerDraw = 0 \/ state' \in Finished
    BY <1>3
  <2> QED BY <1>2, <1>3, <1>5, <2>1, <2>2, <2>3, <2>4 DEF Undrawn, InPlay
<1>7. CASE ~(totalTicksRaw' > Countdown \/ state' # "PLAY")
  <2>1. totalTicks' = totalTicks /\ totalTicks = 0
    BY <1>1, <1>2, <1>3, <1>7
  <2>2. 0 % TicksPerDraw = 0
    BY <1>1
  <2>3. pc' = "blit" /\ totalTicks' % TicksPerDraw = 0
    BY <1>3, <2>1, <2>2
  <2> QED BY <1>2, <1>3, <1>5, <2>1, <2>3 DEF Undrawn, InPlay
<1> QED BY <1>6, <1>7

LEMMA UndrawnStep == Undrawn /\ [LNext]_lvars => Undrawn'
<1> SUFFICES ASSUME Undrawn, [LNext]_lvars PROVE Undrawn'
  OBVIOUS
<1>0. TicksPerDraw \in Nat \ {0} /\ 0 % TicksPerDraw = 0
  BY LoopAssumption
<1>1. ASSUME NEW keys \in SUBSET {"restart", "quit"}, MenuTurn(keys) PROVE Undrawn'
  BY <1>0, <1>1 DEF MenuTurn, Begin, Undrawn, InPlay, Finished
<1>2. CASE MenuBlit
  BY <1>2 DEF MenuBlit, Undrawn, InPlay
<1>3. CASE Turn
  BY <1>3 DEF Turn, Undrawn, InPlay
<1>4. CASE Blit
  BY <1>4 DEF Blit, Undrawn, InPlay, Finished
<1>5. CASE Break
  BY <1>5 DEF Break, Undrawn, InPlay, Finished
<1>6. ASSUME NEW work \in Works, Tick(work) PROVE Undrawn'
  BY <1>6, UndrawnTick
<1>7. ASSUME NEW late \in Late, Sleep(late) PROVE Undrawn'
  BY <1>7 DEF Sleep, Undrawn, InPlay, Finished
<1>8. ASSUME NEW late \in Late, MenuSleep(late) PROVE Undrawn'
  BY <1>8 DEF MenuSleep, Undrawn, InPlay
<1>9. CASE UNCHANGED lvars
  BY <1>9 DEF lvars, Undrawn, InPlay
<1> QED BY <1>1, <1>2, <1>3, <1>4, <1>5, <1>6, <1>7, <1>8, <1>9 DEF LNext

\* What the player sees is never more than ticksPerDraw ticks old, and a
\* finished game is always on the screen, for every draw rate and countdown
\* (main.c:115-117).
THEOREM AlwaysDrawn == TSpec => []DrawnOften
<1>1. LInit => Undrawn
  BY LoopAssumption DEF LInit, Undrawn, InPlay, Finished
<1>2. Undrawn /\ [LNext]_lvars => Undrawn'
  BY UndrawnStep
<1>3. Undrawn => DrawnOften
  <2> SUFFICES ASSUME Undrawn PROVE DrawnOften
    OBVIOUS
  <2>1. TicksPerDraw \in Nat \ {0}
    BY LoopAssumption
  <2>2. totalTicks % TicksPerDraw \in 0..(TicksPerDraw - 1)
    BY <2>1, NextRemainder DEF Undrawn
  <2> QED BY <2>1, <2>2 DEF Undrawn, DrawnOften
<1>4. LSpec => []DrawnOften
  BY <1>1, <1>2, <1>3, PTL DEF LSpec
<1> QED BY <1>4, LoopUndisturbed, PTL

-----------------------------------------------------------------------------
\* The handler is gone once it has run, which takes a ^C.
Handled ==
  /\ presses \in Nat
  /\ life \in {"running", "ended", "killed"} /\ tty \in {"raw", "initial"}
  /\ life = "running" => tty = "raw" /\ (handler <=> ~caughtSigint)
  /\ life = "ended" => tty = "initial"
  /\ ~handler => presses >= 1
  /\ handler \in BOOLEAN
  /\ life = "killed" /\ tty = "raw" => presses > 1

\* The program never plays on in a terminal that it gave back, and dies with
\* the terminal not given back only of a second ^C (frontend.c:184-186,
\* 796-801).
THEOREM TerminalGivenBack == TSpec => []TtyRestored
<1>1. TInit => Handled
  BY DEF TInit, Handled
<1>2. Handled /\ [TNext]_tvars => Handled'
  <2> SUFFICES ASSUME Handled, [TNext]_tvars PROVE Handled'
    OBVIOUS
  <2> USE DEF Handled
  <2>1. CASE Winch
    BY <2>1 DEF Winch
  <2>2. CASE Interrupt
    <3>1. /\ life = "running" /\ tty' = tty /\ presses' = presses + 1 /\ presses' \in Nat
          /\ presses >= 0
      BY <2>2 DEF Interrupt
    <3>2. CASE handler
      <4>1. caughtSigint' = TRUE /\ handler' = FALSE /\ life' = life
        BY <2>2, <3>2 DEF Interrupt, Receive
      <4>2. (handler' <=> ~caughtSigint') /\ handler' \in BOOLEAN
        BY <4>1
      <4>3. presses' >= 1
        BY <3>1
      <4>4. tty' = "raw" /\ life' = "running"
        BY <3>1, <4>1
      <4> QED BY <3>1, <4>2, <4>3, <4>4
    <3>3. CASE ~handler
      <4>1. life' = "killed" /\ handler' = handler
        BY <2>2, <3>3 DEF Interrupt, Receive
      <4>2. presses' > 1
        BY <3>1, <3>3
      <4> QED BY <3>1, <3>3, <4>1, <4>2
    <3> QED BY <3>2, <3>3
  <2>3. CASE TurnOfGame
    BY <2>3 DEF TurnOfGame, PreFrameHook, Receive, device, buffers, counts
  <2>4. CASE StepOfLoop
    BY <2>4 DEF StepOfLoop, Draw, device, counts
  <2>5. CASE BlitStart
    BY <2>5 DEF BlitStart, device
  <2>6. CASE BlitClear
    BY <2>6 DEF BlitClear, device, counts
  <2>7. CASE BlitPaint
    BY <2>7 DEF BlitPaint, counts
  <2>8. CASE End
    BY <2>8 DEF End, buffers, counts
  <2>9. CASE UNCHANGED tvars
    BY <2>9 DEF tvars, device, buffers, counts
  <2> QED BY <2>1, <2>2, <2>3, <2>4, <2>5, <2>6, <2>7, <2>8, <2>9 DEF TNext
<1>3. Handled => TtyRestored
  BY DEF Handled, TtyRestored
<1> QED BY <1>1, <1>2, <1>3, PTL DEF TSpec

-----------------------------------------------------------------------------
\* The screen is the front buffer unless a change of the window waits or
\* everything will be printed; and the frontend knows the size unless a
\* change waits or was missed.
BlankScreen == [c \in Columns |-> Blank]
Centred == ~centerField \/ width \in {size, Unknown}
Shown ==
  /\ at \in {"start", "clear", "paint"}
  /\ at \in {"clear", "paint"} => pc \in {"blit", "menublit"}
  /\ at = "clear" => invalidateBuffers
  /\ ~caughtSigwinch /\ ~invalidateBuffers => screen = Placed(fbuf, Offset(width), BlankScreen)
  /\ ~caughtSigwinch \/ at = "clear" => raced \/ Centred
  /\ pc \notin {"blit", "menublit"} /\ ~invalidateBuffers => fbuf = bbuf

\* What fsiBlit prints makes the screen the back buffer.
LEMMA PaintedRight ==
  ASSUME Shown, BlitPaint, ~caughtSigwinch
  PROVE  screen' = Placed(bbuf, Offset(width), BlankScreen)
<1> DEFINE off   == Offset(width)
           from  == IF invalidateBuffers THEN BlankScreen ELSE screen
           drawn == {c \in 1..TermWidth : invalidateBuffers \/ bbuf[c] # fbuf[c]}
<1>1. screen' = [c \in Columns |-> IF c - off \in drawn THEN bbuf[c - off] ELSE from[c]]
  BY DEF BlitPaint, BlankScreen
<1>2. ~invalidateBuffers => screen = Placed(fbuf, off, BlankScreen)
  BY DEF Shown
<1>3. ASSUME NEW c \in Columns
      PROVE  (IF c - off \in drawn THEN bbuf[c - off] ELSE from[c])
               = (IF c - off \in 1..TermWidth THEN bbuf[c - off] ELSE BlankScreen[c])
  <2> DEFINE d == c - off
  <2> HIDE DEF off, d
  <2>1. CASE invalidateBuffers
    BY <2>1
  <2>2. CASE ~invalidateBuffers
    <3>1. screen[c] = IF d \in 1..TermWidth THEN fbuf[d] ELSE BlankScreen[c]
      BY <1>2, <2>2 DEF Placed, d
    <3>2. from[c] = screen[c]
      BY <2>2
    <3>3. d \in drawn <=> d \in 1..TermWidth /\ bbuf[d] # fbuf[d]
      BY <2>2
    <3> QED BY <3>1, <3>2, <3>3 DEF d
  <2> QED BY <2>1, <2>2
<1> HIDE DEF off, from, drawn
<1>4. [c \in Columns |-> IF c - off \in drawn THEN bbuf[c - off] ELSE from[c]]
        = [c \in Columns |-> IF c - off \in 1..TermWidth THEN bbuf[c - off] ELSE BlankScreen[c]]
  BY <1>3
<1> QED BY <1>1, <1>4 DEF Placed, off

\* Between two blits the screen is the back buffer, whole and in its place,
\* for every size of the field and the window, every picture and any number of
\* changes of the window at any moment; one that comes within the answer to
\* another may leave it off centre, never torn (frontend.c:617-692).
THEOREM ScreenFollows == TSpec => []ScreenRight
<1>1. TInit => Shown
  BY DEF TInit, LInit, Shown, Centred
<1>2. Shown /\ [TNext]_tvars => Shown'
  <2> SUFFICES ASSUME Shown, [TNext]_tvars PROVE Shown'
    OBVIOUS
  <2>1. CASE Winch
    BY <2>1 DEF Winch, Shown, Centred, lvars
  <2>2. CASE Interrupt
    BY <2>2 DEF Interrupt, Shown, Centred, lvars, Placed, Offset, BlankScreen
  <2>3. CASE TurnOfGame
    <3>1. UNCHANGED <<size, screen, centerField, width, invalidateBuffers, bbuf, fbuf, caughtSigwinch, at, raced>>
      BY <2>3 DEF TurnOfGame, PreFrameHook, device, buffers, counts
    <3>2. pc = "turn" /\ pc' = "tick"
      BY <2>3 DEF TurnOfGame, Turn
    <3> QED BY <3>1, <3>2 DEF Shown, Centred, Placed, Offset, BlankScreen
  <2>4. CASE StepOfLoop
    <3>1. UNCHANGED <<size, screen, centerField, width, invalidateBuffers, fbuf, caughtSigwinch, at, raced>>
      BY <2>4 DEF StepOfLoop, Draw, device, counts
    <3>2. pc \notin {"blit", "menublit"}
      BY <2>4 DEF StepOfLoop, Tick, Sleep, MenuSleep, MenuTurn, Break
    <3>3. pc' \notin {"blit", "menublit"} => bbuf' = bbuf
      BY <2>4 DEF StepOfLoop, Draw
    <3> QED BY <3>1, <3>2, <3>3 DEF Shown, Centred, Placed, Offset, BlankScreen
  <2>5. CASE BlitStart
    <3>1. /\ UNCHANGED <<size, screen, centerField, bbuf, fbuf, caughtSigwinch, pc>>
          /\ at = "start" /\ pc \in {"blit", "menublit"}
      BY <2>5 DEF BlitStart, Blitting, device, lvars
    <3>2. CASE caughtSigwinch
      BY <2>5, <3>1, <3>2 DEF BlitStart, Notice, getTerminalDimensions, Shown, Centred
    <3>3. CASE ~caughtSigwinch
      <4>1. at' = "paint" /\ UNCHANGED <<width, invalidateBuffers, raced>>
        BY <2>5, <3>3 DEF BlitStart
      <4> QED BY <3>1, <3>3, <4>1 DEF Shown, Centred, Placed, Offset, BlankScreen
    <3> QED BY <3>2, <3>3
  <2>6. CASE BlitClear
    <3>1. /\ UNCHANGED <<size, screen, centerField, width, invalidateBuffers, bbuf, fbuf, raced, pc>>
          /\ at = "clear" /\ at' = "paint" /\ pc \in {"blit", "menublit"}
      BY <2>6 DEF BlitClear, Blitting, device, counts, lvars
    <3> QED BY <3>1 DEF Shown, Centred
  <2>7. CASE BlitPaint
    <3>1. /\ UNCHANGED <<size, centerField, width, bbuf, caughtSigwinch, raced>>
          /\ at = "paint" /\ at' = "start" /\ fbuf' = bbuf /\ invalidateBuffers' = FALSE
      BY <2>7 DEF BlitPaint, counts
    <3>2. ~caughtSigwinch => screen' = Placed(bbuf, Offset(width), BlankScreen)
      BY <2>7, PaintedRight
    <3> QED BY <3>1, <3>2 DEF Shown, Centred, Placed, Offset, BlankScreen
  <2>8. CASE End
    BY <2>8 DEF End, buffers, counts, lvars, Shown, Centred, Placed, Offset, BlankScreen
  <2>9. CASE UNCHANGED tvars
    BY <2>9 DEF tvars, device, buffers, counts, lvars, Shown, Centred, Placed, Offset, BlankScreen
  <2> QED BY <2>1, <2>2, <2>3, <2>4, <2>5, <2>6, <2>7, <2>8, <2>9 DEF TNext
<1>3. Shown => ScreenRight
  <2> SUFFICES ASSUME Shown, ~caughtSigwinch, ~invalidateBuffers, pc \notin {"blit", "menublit"}
               PROVE  \/ screen = Placed(bbuf, Offset(IF width = Unknown THEN Unknown ELSE size), BlankScreen)
                      \/ raced /\ screen = Placed(bbuf, Offset(width), BlankScreen)
    BY DEF ScreenRight, BlankScreen
  <2>1. screen = Placed(bbuf, Offset(width), BlankScreen) /\ (raced \/ Centred)
    BY DEF Shown
  <2>2. CASE ~centerField
    BY <2>1, <2>2 DEF Offset
  <2>3. CASE centerField
    BY <2>1, <2>3 DEF Centred
  <2> QED BY <2>2, <2>3
<1> QED BY <1>1, <1>2, <1>3, PTL DEF TSpec
=============================================================================
