----------------------------- MODULE Tec1gKeys -----------------------------
(***************************************************************************)
(* The inputs of the TEC-1G (tec1g/runtime.ts): the keypad's latch, which  *)
(* shows a key while the user holds it and for a minimum pulse on the      *)
(* cycle clock, with the interrupt a press raises; and the matrix          *)
(* keyboard, whose changes wait for the start of the program's next scan.  *)
(*                                                                         *)
(* rawKeyActive and shiftKeyActive are written together with keyValue      *)
(* everywhere and are functions of it, so they are left out.               *)
(***************************************************************************)
EXTENDS Integers, FiniteSets, Functions, FiniteSetsExt

CONSTANTS None,
          Key,        \* keypad codes
          Hold,       \* the minimum pulse, in cycles
          MaxStretch, \* bound: cycles of one instruction
          Row,        \* rows of the matrix, numbered
          Col,        \* columns of a row
          ScanBound   \* bound: matrix keyboards remembered in a scan

VARIABLES key,        \* keyValue, keyUserHeld, keyHeldCode, keyMinPulseDone,
                      \* keyReleaseEventId, resetKeyValue, nmiPending
          timers,     \* release events on the cycle clock: id -> cycles left
          video,      \* the video card asserts its frame interrupt
          matrix,     \* matrixKeyStates, -PendingKeyStates, -PendingDirty, -LastReadRow
          joystick,   \* joystickState
          press,      \* history: the last press, how long ago, and whether it is held
          due,        \* history: what the program has not been interrupted for
          scan        \* history: rows read in this scan, keyboards there were during it

keyVars == <<key, timers, video, press, due>>
matrixVars == <<matrix, joystick, scan>>
inputVars == <<keyVars, matrixVars>>

\* The row that the joystick pulls down too.
JoyRow == 3

\* A row's value is the set of its pressed columns: the port is active low.
Keyboard == [Row -> SUBSET Col]
NoKeys == [r \in Row |-> {}]

NoPress == [code |-> None, age |-> Hold, held |-> FALSE]
NoScan(keyboard) == [read |-> <<>>, seen |-> {keyboard}]

IdleKey ==
  [value |-> None, userHeld |-> FALSE, heldCode |-> None, minPulseDone |-> TRUE,
   eventId |-> None, resetValue |-> None, nmi |-> FALSE]

InputInit ==
  /\ key = IdleKey
  /\ timers = <<>>
  /\ video = FALSE
  /\ matrix = [states |-> NoKeys, pending |-> NoKeys, dirty |-> FALSE, lastRow |-> None]
  /\ joystick = {}
  /\ press = NoPress
  /\ due = {}
  /\ scan = NoScan(NoKeys)

-----------------------------------------------------------------------------
\* The keypad.

(* Mutant: the timer of an earlier press is not cancelled.                 *)
CancelledNever(id) == timers
Cancelled(id) == Restrict(timers, DOMAIN timers \ {id})
FreshId(t) == Max(DOMAIN t \cup {0}) + 1

Scheduled(t, id) == [i \in DOMAIN t \cup {id} |-> IF i = id THEN Hold ELSE t[i]]

(* Mutant: a press does not start a pulse of its own.                      *)
LatchedPulseKept(k, code, userHeld, raiseNmi, id) ==
  [k EXCEPT !.value = code, !.userHeld = userHeld, !.heldCode = code,
            !.eventId = id, !.nmi = @ \/ raiseNmi]

Latched(k, code, userHeld, raiseNmi, id) ==
  [k EXCEPT !.value = code, !.userHeld = userHeld, !.heldCode = code,
            !.minPulseDone = FALSE, !.eventId = id, !.nmi = @ \/ raiseNmi]

(* The release event of an earlier press is cancelled and a new one set.   *)
SetKeyLatch(code, userHeld, raiseNmi) ==
  LET rest == Cancelled(key.eventId)
      id == FreshId(rest)
  IN /\ key' = Latched(key, code, userHeld, raiseNmi, id)
     /\ timers' = Scheduled(rest, id)
     /\ press' = [code |-> code, age |-> 0, held |-> userHeld]

\* A click has no release; a silent press is a headless session's.
ApplyKey(code, held, silent) ==
  /\ silent => held
  /\ SetKeyLatch(code, held, ~silent)
  /\ due' = IF silent THEN due ELSE due \cup {"key"}
  /\ UNCHANGED <<video, matrixVars>>

Released(k) == IF k.minPulseDone THEN [k EXCEPT !.value = None] ELSE k

(* A release of a key that is not the latched press's is of no effect.     *)
ReleaseKey(code) ==
  /\ IF code # key.heldCode THEN UNCHANGED key
       ELSE key' = Released([key EXCEPT !.userHeld = FALSE])
  /\ press' = IF code = press.code THEN [press EXCEPT !.held = FALSE] ELSE press
  /\ UNCHANGED <<timers, video, due, matrixVars>>

\* The callback of a release event.
PulseDone(k) ==
  [k EXCEPT !.eventId = None, !.minPulseDone = TRUE,
            !.value = IF k.userHeld THEN @ ELSE None]

(* An instruction's cycles: the events that are due run, and the video     *)
(* card may come to the end of a frame, its interrupt enabled.             *)
RecordCycles(c) ==
  /\ key' = IF \E i \in DOMAIN timers : timers[i] <= c THEN PulseDone(key) ELSE key
  /\ timers' = [i \in {j \in DOMAIN timers : timers[j] > c} |-> timers[i] - c]
  /\ press' = [press EXCEPT !.age = Min({Hold, @ + c})]
  /\ \E frame \in BOOLEAN :
       /\ video' = (video \/ frame)
       /\ due' = IF frame /\ ~video THEN due \cup {"frame"} ELSE due
  /\ UNCHANGED matrixVars

(* The program reads the card's status, or the user switches it off.       *)
WithdrawFrame ==
  /\ video
  /\ video' = FALSE
  /\ due' = due \ {"frame"}
  /\ UNCHANGED <<key, timers, press, matrixVars>>

(* The tick after an instruction raises one interrupt: the video card's,   *)
(* or else the keypad's.                                                   *)
TakesFrame == video
TakesKey == ~video /\ key.nmi

Tick ==
  /\ TakesFrame \/ TakesKey
  /\ video' = (video /\ ~TakesFrame)
  /\ key' = [key EXCEPT !.nmi = @ /\ ~TakesKey]
  /\ due' = due \ {IF TakesFrame THEN "frame" ELSE "key"}
  /\ UNCHANGED <<timers, press, matrixVars>>

(* The keypad port shows a key held for the reset once.                    *)
ReadKeypad ==
  /\ key.resetValue # None
  /\ key' = [key EXCEPT !.resetValue = None]
  /\ UNCHANGED <<timers, video, press, due, matrixVars>>

-----------------------------------------------------------------------------
\* The matrix keyboard and the joystick.

ApplyMatrixKey(row, col, pressed) ==
  LET keyboard == [matrix.pending EXCEPT ![row] = IF pressed THEN @ \cup {col}
                                                             ELSE @ \ {col}]
  IN /\ Cardinality(scan.seen \cup {keyboard}) <= ScanBound
     /\ matrix' = [matrix EXCEPT !.pending = keyboard, !.dirty = TRUE]
     /\ scan' = [scan EXCEPT !.seen = @ \cup {keyboard}]
     /\ UNCHANGED <<joystick, keyVars>>

SetJoystickState(mask) ==
  /\ joystick' = mask
  /\ UNCHANGED <<matrix, scan, keyVars>>

(* Mutant: the keyboard is looked at afresh for every row.                 *)
BeginsAlways(row) == TRUE

(* A row no later than the last one read begins a scan.                    *)
BeginsScan(row) == matrix.lastRow = None \/ row <= matrix.lastRow

Snapshot(row) ==
  IF matrix.dirty /\ BeginsScan(row)
    THEN [matrix EXCEPT !.states = matrix.pending, !.dirty = FALSE]
    ELSE matrix

RowValue(m, row) ==
  m.states[row] \cup (IF row = JoyRow THEN joystick ELSE {})

\* The program's scan, as it sees it: rows in order, from the top again.
Continues(row) == \A r \in DOMAIN scan.read : r < row

ReadMatrixKeyboardRow(row) ==
  LET before == IF Continues(row) THEN scan ELSE NoScan(matrix.pending)
      value == RowValue(Snapshot(row), row)
  IN /\ matrix' = [Snapshot(row) EXCEPT !.lastRow = row]
     /\ scan' = [before EXCEPT !.read =
                   [r \in DOMAIN @ \cup {row} |-> IF r = row THEN value ELSE @[r]]]
     /\ UNCHANGED <<joystick, keyVars>>

-----------------------------------------------------------------------------
(* The panel loses the focus: every key and the joystick are let go, at    *)
(* once, the rest of a scan included.                                      *)
ReleaseInputs ==
  /\ key' = IdleKey
  /\ timers' = Cancelled(key.eventId)
  /\ matrix' = [matrix EXCEPT !.states = NoKeys, !.pending = NoKeys, !.dirty = TRUE]
  /\ joystick' = {}
  /\ press' = NoPress
  /\ due' = due \ {"key"}
  /\ scan' = NoScan(NoKeys)
  /\ UNCHANGED video

(* What a reset of the board does to the inputs; it restarts the program.  *)
(* The FN key may be held down for it, without an interrupt.               *)
ResetInputs(heldKey) ==
  /\ IF heldKey = None
       THEN /\ key' = IdleKey
            /\ timers' = Cancelled(key.eventId)
            /\ press' = NoPress
       ELSE LET rest == Cancelled(key.eventId)
                id == FreshId(rest)
            IN /\ key' = [Latched(IdleKey, heldKey, FALSE, FALSE, id)
                            EXCEPT !.resetValue = heldKey]
               /\ timers' = Scheduled(rest, id)
               /\ press' = [code |-> heldKey, age |-> 0, held |-> FALSE]
  /\ video' = FALSE
  /\ matrix' = [states |-> NoKeys, pending |-> NoKeys, dirty |-> FALSE, lastRow |-> None]
  /\ joystick' = {}
  /\ due' = {}
  /\ scan' = NoScan(NoKeys)

KeypadStep ==
  \/ \E k \in Key, held, silent \in BOOLEAN : ApplyKey(k, held, silent)
  \/ \E k \in Key : ReleaseKey(k)
  \/ \E c \in 1..MaxStretch : RecordCycles(c)
  \/ WithdrawFrame
  \/ Tick
  \/ ReadKeypad

MatrixStep ==
  \/ \E r \in Row, c \in Col, pressed \in BOOLEAN : ApplyMatrixKey(r, c, pressed)
  \/ \E mask \in SUBSET Col : SetJoystickState(mask)
  \/ \E r \in Row : ReadMatrixKeyboardRow(r)

-----------------------------------------------------------------------------
InputTypeOK ==
  /\ key \in [value : Key \cup {None}, userHeld : BOOLEAN, heldCode : Key \cup {None},
              minPulseDone : BOOLEAN, eventId : Nat \cup {None},
              resetValue : Key \cup {None}, nmi : BOOLEAN]
  /\ DOMAIN timers \subseteq {key.eventId} /\ \A i \in DOMAIN timers : timers[i] \in 1..Hold
  /\ video \in BOOLEAN
  /\ matrix \in [states : Keyboard, pending : Keyboard, dirty : BOOLEAN,
                 lastRow : Row \cup {None}]
  /\ joystick \subseteq Col
  /\ due \subseteq {"key", "frame"}

(* The latch shows the last key pressed for the minimum pulse and for as   *)
(* long as it is held: a tap is never too short to be read, no key stays   *)
(* down, and a release or timer of an earlier press never ends a later one *)
(* (tec1g/runtime.ts:181-220).  A press and a frame of the video card in   *)
(* one tick interrupt the program twice (runtime.ts:163-173).              *)
KeypadShowsLastPress ==
  /\ key.value = IF press.age < Hold \/ press.held THEN press.code ELSE None
  /\ due = (IF key.nmi THEN {"key"} ELSE {}) \cup (IF video THEN {"frame"} ELSE {})

(* What one scan of the matrix reads is a keyboard that existed during it, *)
(* whatever keys change between its rows: a chord is never seen torn       *)
(* (tec1g/io-handlers.ts:265-279, matrix.test.ts:78).  When the panel      *)
(* loses the focus the keys go at once, and what is left of the scan is    *)
(* taken as another.                                                       *)
ScanIsOneMoment ==
  \E keyboard \in scan.seen :
    \A r \in DOMAIN scan.read \ {JoyRow} : scan.read[r] = keyboard[r]
=============================================================================
