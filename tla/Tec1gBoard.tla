----------------------------- MODULE Tec1gBoard -----------------------------
(***************************************************************************)
(* The TEC-1G as a running program and its user find it: keypad and matrix *)
(* keyboard, SD card, memory map and clock chip, under the board's reset   *)
(* (the tec1gReset request of platforms/tec1g/provider.ts).                *)
(*                                                                         *)
(* The devices share nothing but the reset, so a behaviour exercises one   *)
(* of them, chosen in Init as its focus.  The serial port is Tec1gSerial.  *)
(***************************************************************************)
EXTENDS Integers, Sequences, FiniteSets

CONSTANTS None,
          Key, Hold, MaxStretch, Row, Col, ScanBound,
          BlockSize, ImageSize, CardArg, CardBlock, MaxTries,
          Boards, SysCtrl, Written,
          ChipCommand, ChipByte, Instant, MaxBurst,
          Focuses,      \* devices exercised
          FnKey         \* the key that may be held down for a reset

VARIABLES key, timers, video, matrix, joystick, press, due, scan,
          card, program,
          base, banks, latch, board, cells,
          chip, now, talk,
          focus

Inputs == INSTANCE Tec1gKeys
Card == INSTANCE SdSpi
Memory == INSTANCE Tec1gMemory
Clock == INSTANCE Ds1302

ASSUME BoardAssumption ==
  /\ FnKey \in Key /\ None \notin Key \cup Row /\ None \notin Card!WriteState
  /\ Hold \in Nat \ {0} /\ MaxStretch \in Nat \ {0} /\ ScanBound \in Nat
  /\ Row \subseteq 0..7 /\ Col \subseteq 0..7
  /\ BlockSize \in Nat \ {0} /\ ImageSize \in Nat /\ CardArg \subseteq 0..255
  /\ CardBlock \subseteq [1..BlockSize -> 0..255] /\ MaxTries \in Nat
  /\ SysCtrl \subseteq 0..255 /\ Boards # {}
  /\ Boards \subseteq [rom : SUBSET Memory!Location, cartridge : BOOLEAN, sysCtrl : 0..255]
  /\ ChipCommand \subseteq 128..255 /\ ChipByte \subseteq 0..255
  /\ MaxBurst \in 1..7
  /\ Instant \subseteq [0..6 -> 0..255]

inputVars == <<key, timers, video, matrix, joystick, press, due, scan>>
cardVars == <<card, program>>
memoryVars == <<base, banks, latch, board, cells>>
chipVars == <<chip, now, talk>>
vars == <<inputVars, cardVars, memoryVars, chipVars, focus>>

Init ==
  /\ focus \in Focuses
  /\ Inputs!InputInit /\ Clock!ChipInit
  /\ \E highCapacity \in IF focus = "card" THEN BOOLEAN ELSE {TRUE} : Card!CardInit(highCapacity)
  /\ \E b \in IF focus = "memory" THEN Boards ELSE {CHOOSE b \in Boards : TRUE} :
       Memory!MemoryInit(b)

-----------------------------------------------------------------------------
KeypadStep ==
  /\ focus = "keypad"
  /\ Inputs!KeypadStep \/ Inputs!ReleaseInputs
  /\ UNCHANGED <<cardVars, memoryVars, chipVars, focus>>

MatrixStep ==
  /\ focus = "matrix"
  /\ Inputs!MatrixStep \/ Inputs!ReleaseInputs
  /\ UNCHANGED <<cardVars, memoryVars, chipVars, focus>>

CardStep ==
  /\ focus = "card" /\ Card!CardStep
  /\ UNCHANGED <<inputVars, memoryVars, chipVars, focus>>

MemoryStep ==
  /\ focus = "memory" /\ Memory!MemoryStep
  /\ UNCHANGED <<inputVars, cardVars, chipVars, focus>>

ClockStep ==
  /\ focus = "clock" /\ Clock!ChipStep
  /\ UNCHANGED <<inputVars, cardVars, memoryVars, focus>>

(* The user resets the board, perhaps with FN held down: the program image *)
(* is loaded again, inputs and latch go back to their defaults; the card   *)
(* and the clock chip are not told.  A reset in the middle of an exchange  *)
(* with the card leaves the card out of step, and is left out.             *)
Reset ==
  /\ \E heldKey \in IF focus = "keypad" THEN {None, FnKey} ELSE {None} :
       Inputs!ResetInputs(heldKey)
  /\ Memory!ResetMemory
  /\ Card!AtRest
  /\ Clock!ResetChipProgram
  /\ UNCHANGED <<cardVars, focus>>

Next ==
  \/ KeypadStep \/ MatrixStep \/ CardStep \/ MemoryStep \/ ClockStep \/ Reset

Spec == Init /\ [][Next]_vars

-----------------------------------------------------------------------------
TypeOK ==
  /\ focus \in Focuses
  /\ Inputs!InputTypeOK /\ Card!CardTypeOK /\ Memory!MemoryTypeOK /\ Clock!ChipTypeOK

\* These are stated, and commented, in the components' modules.
KeypadShowsLastPress == Inputs!KeypadShowsLastPress
ScanIsOneMoment == Inputs!ScanIsOneMoment
CardAnswers == Card!CardAnswers
MemoryIsMapped == Memory!MemoryIsMapped
RomShadowed == Memory!RomShadowed
ClockChipAnswers == Clock!ClockChipAnswers
=============================================================================
