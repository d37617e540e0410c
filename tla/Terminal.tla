------------------------------ MODULE Terminal ------------------------------
(***************************************************************************)
(* terminal/frontend.c under the game loop: the two screen buffers, the    *)
(* size of the window, and the signals, which may arrive between any two   *)
(* steps.  A handler only sets a flag; fsiBlit looks at one and            *)
(* fsiPreFrameHook at the other.  A line of the screen stands for it all:  *)
(* rows and columns are centred alike.                                     *)
(***************************************************************************)
EXTENDS GameLoop, Sequences

CONSTANTS
  TermWidth,             \* FS_TERM_WIDTH
  Sizes,                 \* widths that the window may take, none below TermWidth
  Pictures,              \* what fsiDraw may put into the back buffer
  MaxWinches, MaxPresses \* bounds: changes of the window, presses of ^C

Unknown == -1
Blank   == " "
Garbled == "?"           \* what a change of the window leaves of a cell

ASSUME SizeAssumption == TermWidth \in Nat \ {0} /\ Sizes \subseteq {n \in Nat : n >= TermWidth}
ASSUME PictureAssumption == \A p \in Pictures : Len(p) = TermWidth

VARIABLES
  \* the terminal and the process
  size, screen, tty,     \* tty is "raw" or "initial"
  life,                  \* "running", "ended" or "killed"
  handler,               \* is sigintHandler installed?
  \* the frontend
  centerField, width, invalidateBuffers, bbuf, fbuf,
  caughtSigwinch, caughtSigint,
  at,                    \* in fsiBlit: "start", "clear" (the flag) or "paint"
  \* history
  raced,                 \* the window changed while fsiBlit answered a change
  winches, presses

device  == <<size, screen, tty, life, handler>>
buffers == <<centerField, width, invalidateBuffers, bbuf, fbuf, caughtSigwinch, caughtSigint, at>>
counts  == <<raced, winches, presses>>
tvars   == <<lvars, device, buffers, counts>>

Columns == 1..(CHOOSE n \in Sizes : \A m \in Sizes : m <= n)
Nothing == [c \in 1..TermWidth |-> Blank]

\* After fsiPreInit, the options and fsiInit.
TInit ==
  /\ LInit
  /\ size \in Sizes /\ screen = [c \in Columns |-> Garbled] /\ tty = "raw"
  /\ life = "running" /\ handler = TRUE
  /\ centerField \in BOOLEAN /\ width \in {size, Unknown} /\ invalidateBuffers = TRUE
  /\ bbuf = Nothing /\ fbuf = Nothing
  /\ caughtSigwinch = FALSE /\ caughtSigint = FALSE /\ at = "start"
  /\ raced = FALSE /\ winches = 0 /\ presses = 0

-----------------------------------------------------------------------------
(***************************************************************************)
(* Signals.                                                                *)
(***************************************************************************)
\* The user changes the window, and the terminal moves or cuts what it shows.
Winch ==
  /\ life = "running" /\ winches < MaxWinches
  /\ size' \in Sizes \ {size} /\ screen' = [c \in Columns |-> Garbled]
  /\ caughtSigwinch' = TRUE
  /\ winches' = winches + 1 /\ raced' = (raced \/ at = "clear")
  /\ UNCHANGED <<lvars, tty, life, handler, centerField, width, invalidateBuffers, bbuf, fbuf,
                 caughtSigint, at, presses>>

\* Mutant: no SA_RESETHAND.
MutReceive == IF handler THEN caughtSigint' = TRUE /\ UNCHANGED <<life, handler>>
              ELSE life' = "killed" /\ UNCHANGED <<caughtSigint, handler>>

\* SIGINT: the handler runs once (SA_RESETHAND), then the default is death.
Receive == IF handler THEN caughtSigint' = TRUE /\ handler' = FALSE /\ UNCHANGED life
           ELSE life' = "killed" /\ UNCHANGED <<caughtSigint, handler>>

Interrupt ==
  /\ life = "running" /\ presses < MaxPresses
  /\ Receive
  /\ presses' = presses + 1
  /\ UNCHANGED <<lvars, size, screen, tty, centerField, width, invalidateBuffers, bbuf, fbuf,
                 caughtSigwinch, at, raced, winches>>

-----------------------------------------------------------------------------
(***************************************************************************)
(* fsiDraw and fsiBlit.                                                    *)
(***************************************************************************)
\* fsiDraw and the strings put over it, when the step draws.
Draw ==
  /\ IF pc' \in {"blit", "menublit"} THEN bbuf' \in Pictures ELSE UNCHANGED bbuf
  /\ UNCHANGED <<centerField, width, invalidateBuffers, fbuf, caughtSigwinch, caughtSigint, at>>

\* The request may fail.
getTerminalDimensions == width' \in {size, Unknown}

\* Mutant: a window that changed is not redrawn.
MutNotice ==
  IF centerField /\ width # Unknown THEN getTerminalDimensions /\ UNCHANGED invalidateBuffers
  ELSE UNCHANGED <<width, invalidateBuffers>>
Notice ==
  /\ IF centerField /\ width # Unknown THEN getTerminalDimensions ELSE UNCHANGED width
  /\ invalidateBuffers' = TRUE

Blitting == life = "running" /\ pc \in {"blit", "menublit"}

BlitStart ==
  /\ Blitting /\ at = "start"
  /\ IF caughtSigwinch THEN at' = "clear" /\ Notice /\ raced' = FALSE
     ELSE at' = "paint" /\ UNCHANGED <<width, invalidateBuffers, raced>>
  /\ UNCHANGED <<lvars, device, centerField, bbuf, fbuf, caughtSigwinch, caughtSigint, winches, presses>>

BlitClear ==
  /\ Blitting /\ at = "clear" /\ at' = "paint" /\ caughtSigwinch' = FALSE
  /\ UNCHANGED <<lvars, device, centerField, width, invalidateBuffers, bbuf, fbuf, caughtSigint, counts>>

\* Where the picture goes in a window of n columns.
Offset(n) ==
  IF centerField /\ n # Unknown THEN (IF n > TermWidth THEN (n - TermWidth) \div 2 ELSE 0) ELSE 0

Placed(picture, offset, under) ==
  [c \in Columns |-> IF c - offset \in 1..TermWidth THEN picture[c - offset] ELSE under[c]]

\* Only the cells that differ from the front buffer, unless it is invalid.
BlitPaint ==
  /\ Blitting /\ at = "paint" /\ at' = "start"
  /\ LET from  == IF invalidateBuffers THEN [c \in Columns |-> Blank] ELSE screen
         drawn == {c \in 1..TermWidth : invalidateBuffers \/ bbuf[c] # fbuf[c]}
     IN  screen' = [c \in Columns |-> IF c - Offset(width) \in drawn THEN bbuf[c - Offset(width)]
                                      ELSE from[c]]
  /\ fbuf' = bbuf /\ invalidateBuffers' = FALSE
  /\ (Blit \/ MenuBlit)
  /\ UNCHANGED <<size, tty, life, handler, centerField, width, bbuf, caughtSigwinch, caughtSigint, counts>>

-----------------------------------------------------------------------------
\* fsiFini, when main ends.
End ==
  /\ life = "running" /\ pc = "end"
  /\ tty' = "initial" /\ life' = "ended"
  /\ UNCHANGED <<lvars, size, screen, handler, buffers, counts>>

\* fsiPreFrameHook: fsiFini, then the signal once more.
PreFrameHook ==
  IF caughtSigint
  THEN /\ tty' = "initial" /\ Receive
       /\ UNCHANGED <<size, screen, centerField, width, invalidateBuffers, bbuf, fbuf, caughtSigwinch, at>>
  ELSE UNCHANGED <<device, buffers>>

TurnOfGame == life = "running" /\ Turn /\ PreFrameHook /\ UNCHANGED counts

\* The other steps of the loop.
StepOfLoop ==
  /\ life = "running"
  /\ \/ \E work \in Works : Tick(work)
     \/ \E late \in Late : Sleep(late) \/ MenuSleep(late)
     \/ \E keys \in SUBSET {"restart", "quit"} : MenuTurn(keys)
     \/ Break
  /\ Draw
  /\ UNCHANGED <<device, counts>>

TNext ==
  \/ Winch \/ Interrupt
  \/ TurnOfGame \/ StepOfLoop
  \/ BlitStart \/ BlitClear \/ BlitPaint
  \/ End
TSpec == TInit /\ [][TNext]_tvars

-----------------------------------------------------------------------------
\* Between two blits, unless a change of the window waits for the next one,
\* the screen shows the back buffer and nothing else, and shows it where it
\* belongs in the window as it is, though only changed cells are printed and
\* the window may change in the middle of everything.  Only a change that
\* comes after fsiBlit has asked for the size and before it clears the flag
\* is missed (frontend.c:624-628): the picture is whole but off centre until
\* the window changes again.
ScreenRight ==
  ~caughtSigwinch /\ ~invalidateBuffers /\ pc \notin {"blit", "menublit"} =>
    LET blank == [c \in Columns |-> Blank] IN
    \/ screen = Placed(bbuf, Offset(IF width = Unknown THEN Unknown ELSE size), blank)
    \/ raced /\ screen = Placed(bbuf, Offset(width), blank)

\* The program never plays on in a terminal that it gave back, and gives it
\* back before it dies, unless a second ^C comes before the next turn
\* (frontend.c:184-186, 796-801).
TtyRestored ==
  /\ life = "running" => tty = "raw"
  /\ life = "ended"   => tty = "initial"
  /\ life = "killed" /\ tty = "raw" => presses > 1
=============================================================================
