--------------------------- MODULE Tec1gBoardProofs ---------------------------
(***************************************************************************)
(* Proofs about the TEC-1G's memory map, keypad and matrix keyboard, for   *)
(* every set of keys, rows, latch values and boards, and every pulse.      *)
(***************************************************************************)
EXTENDS Tec1gDeviceProofs

-----------------------------------------------------------------------------
\* The memory map.

(* A program image that has the monitor's ROM at the bottom has it at the  *)
(* top as well: it is at the bottom alone that a reset loses the shadow    *)
(* (the run shadow_rom).                                                   *)
ShadowInImage(b) == "low" \in b.rom => "mirror" \in b.rom

Byte == Nat \cup {Written}

MemoryInv ==
  /\ board \in [rom : SUBSET Memory!Location, cartridge : BOOLEAN, sysCtrl : 0..255,
                shadowCopied : {FALSE}]
  /\ ShadowInImage(board)
  /\ latch \in SysCtrl \cup {board.sysCtrl}
  /\ base \in [Memory!Location -> Byte]
  /\ banks \in [Memory!Bank -> Byte]
  /\ cells = [map |-> base, bank |-> banks]

(* The ROM image and a cartridge are bytes.                                *)
LEMMA ProgramImage ==
  /\ Memory!Image \in [Memory!Location -> Byte]
  /\ Memory!Cartridge \in [Memory!Bank -> Byte] /\ Memory!NoCartridge \in [Memory!Bank -> Byte]
<1>1. Memory!Image \in [Memory!Location -> Byte]
  BY DEF Memory!Image, Memory!Location, Byte
<1>2. /\ Memory!Cartridge \in [Memory!Bank -> Byte]
      /\ Memory!NoCartridge \in [Memory!Bank -> Byte]
  BY DEF Memory!Cartridge, Memory!NoCartridge, Memory!Bank, Memory!Cleared, Byte
<1> QED
  BY <1>1, <1>2

(* The system latch is a byte.                                             *)
LEMMA LatchByte ==
  ASSUME MemoryInv PROVE latch \in 0..255
<1>1. board.sysCtrl \in 0..255 /\ latch \in SysCtrl \cup {board.sysCtrl}
  BY DEF MemoryInv
<1>2. SysCtrl \subseteq 0..255
  BY BoardAssumption
<1> QED
  BY <1>1, <1>2

(* The bank the code computes from the latch is the documented one.        *)
LEMMA BankIsDocumented ==
  ASSUME latch \in 0..255
  PROVE  /\ Memory!PhysicalBank(latch) = Memory!DocumentedBank
         /\ Memory!DocumentedBank \in Memory!Bank
<1> DEFINE bank == (latch \div 8) % 16
<1>1. bank \in 0..15 /\ bank \div 2 = (latch \div 16) % 8 /\ bank % 2 = (latch \div 8) % 2
  OBVIOUS
<1>2. (latch \div 16) % 8 \in 0..7 /\ (latch \div 8) % 2 \in 0..1
  OBVIOUS
<1> QED
  BY <1>1, <1>2 DEF Memory!PhysicalBank, Memory!DocumentedBank, Memory!Bank

(* The invariant holds of a board whose image has what it shadows.         *)
LEMMA MemoryInitInv ==
  ASSUME \A b \in Boards : ShadowInImage(b) PROVE Init => MemoryInv
<1> SUFFICES ASSUME Init PROVE MemoryInv
  OBVIOUS
<1>1. PICK b \in Boards : Memory!MemoryInit(b)
  BY BoardAssumption DEF Init
<1>2. /\ b.rom \in SUBSET Memory!Location /\ b.cartridge \in BOOLEAN /\ b.sysCtrl \in 0..255
      /\ "low" \in b.rom => "mirror" \in b.rom
  BY <1>1, BoardAssumption DEF ShadowInImage
<1>3. Memory!EnsureShadowRom(Memory!Image, b.rom) = Memory!Image
  BY <1>2 DEF Memory!EnsureShadowRom, Memory!HasShadowRom
<1>4. Memory!ShadowCopied(b.rom) = FALSE
  BY <1>2 DEF Memory!ShadowCopied, Memory!HasShadowRom
<1>5. /\ board = [rom |-> b.rom, cartridge |-> b.cartridge, sysCtrl |-> b.sysCtrl,
                  shadowCopied |-> FALSE]
      /\ base = Memory!Image /\ latch = b.sysCtrl
      /\ banks \in {Memory!Cartridge, Memory!NoCartridge}
      /\ cells = [map |-> base, bank |-> banks]
  BY <1>1, <1>3, <1>4 DEF Memory!MemoryInit
<1> QED
  BY <1>2, <1>5, ProgramImage DEF MemoryInv, ShadowInImage

(* What the code writes is what the documentation says is written.         *)
LEMMA WriteStep ==
  ASSUME MemoryInv, NEW l \in Memory!Location, Memory!WriteVisibleMemory(l),
         cells' = Memory!DocumentedWrite(l), UNCHANGED <<latch, board>>
  PROVE  MemoryInv'
<1>0. /\ base \in [Memory!Location -> Byte] /\ banks \in [Memory!Bank -> Byte]
      /\ cells = [map |-> base, bank |-> banks] /\ Written \in Byte
  BY DEF MemoryInv, Byte
<1>1. CASE l = "window" /\ Memory!ExpandEnabled(latch)
  <2> DEFINE k == Memory!DocumentedBank
  <2>1. Memory!PhysicalBank(latch) = k /\ k \in Memory!Bank
    BY LatchByte, BankIsDocumented
  <2>2. banks' = [banks EXCEPT ![k] = Written] /\ base' = base
    BY <1>1, <2>1 DEF Memory!WriteVisibleMemory
  <2>3. cells' = [cells EXCEPT !.bank[k] = Written]
    BY <1>1 DEF Memory!DocumentedWrite
  <2> HIDE DEF k
  <2>4. cells' = [map |-> base', bank |-> banks'] /\ banks' \in [Memory!Bank -> Byte]
    BY <1>0, <2>1, <2>2, <2>3
  <2> QED
    BY <2>2, <2>4 DEF MemoryInv, ShadowInImage
<1>2. CASE ~(l = "window" /\ Memory!ExpandEnabled(latch))
  <2>1. base' = [base EXCEPT ![l] = Written] /\ banks' = banks
    BY <1>2 DEF Memory!WriteVisibleMemory
  <2>2. cells' = [cells EXCEPT !.map[l] = Written]
    BY <1>2 DEF Memory!DocumentedWrite
  <2>3. cells' = [map |-> base', bank |-> banks'] /\ base' \in [Memory!Location -> Byte]
    BY <1>0, <2>1, <2>2
  <2> QED
    BY <2>1, <2>3 DEF MemoryInv, ShadowInImage
<1> QED
  BY <1>1, <1>2

(* What the code refuses to write is what the documentation says is        *)
(* read-only or protected.                                                 *)
LEMMA MemWriteStep ==
  ASSUME MemoryInv, NEW l \in Memory!Location, Memory!MemWrite(l) PROVE MemoryInv'
<1>1. Memory!IsMemoryWritable(l)
        <=> ~(l \in Memory!ReadOnly \/ (l = "app" /\ Memory!ProtectEnabled(latch)))
  BY DEF MemoryInv, ShadowInImage, Memory!IsMemoryWritable, Memory!IsRomAddress, Memory!ReadOnly
<1>2. CASE Memory!IsMemoryWritable(l)
  BY <1>1, <1>2, WriteStep DEF Memory!MemWrite
<1>3. CASE ~Memory!IsMemoryWritable(l)
  <2>1. UNCHANGED <<base, banks, latch, board, cells>>
    BY <1>1, <1>3 DEF Memory!MemWrite
  <2> QED
    BY <2>1 DEF MemoryInv, ShadowInImage
<1> QED
  BY <1>2, <1>3

(* A reset loads the same bytes into the memory and into the documented    *)
(* map.                                                                    *)
LEMMA ResetMemoryStep ==
  ASSUME MemoryInv, Memory!ResetMemory PROVE MemoryInv'
<1>0. /\ base \in [Memory!Location -> Byte] /\ banks \in [Memory!Bank -> Byte]
      /\ cells = [map |-> base, bank |-> banks]
      /\ "low" \in board.rom => "mirror" \in board.rom
  BY DEF MemoryInv, ShadowInImage
<1>1. /\ base' = Memory!Reloaded /\ UNCHANGED <<banks, board>> /\ latch' = board.sysCtrl
      /\ cells' = [cells EXCEPT !.map =
           [Memory!EnsureShadowRom(Memory!Image, board.rom) EXCEPT
              !["monitor"] = cells.map["monitor"], !["presentation"] = Memory!Presentation]]
  BY DEF Memory!ResetMemory
<1>2. Memory!EnsureShadowRom(Memory!Image, board.rom) = Memory!Image
  BY <1>0 DEF Memory!EnsureShadowRom, Memory!HasShadowRom
<1>3. Memory!Reloaded = [Memory!Image EXCEPT !["monitor"] = base["monitor"],
                                             !["presentation"] = Memory!Presentation]
  <2> DEFINE image == [Memory!Image EXCEPT !["monitor"] = base["monitor"],
                                           !["presentation"] = Memory!Presentation]
  <2>1. image \in [Memory!Location -> Byte]
    BY <1>0, ProgramImage DEF Memory!Location, Memory!Presentation, Byte
  <2>2. \A l \in Memory!Location : Memory!Reloaded[l] = image[l]
    BY ProgramImage DEF Memory!Reloaded, Memory!Location
  <2>3. Memory!Reloaded = [l \in Memory!Location |-> Memory!Reloaded[l]]
    BY DEF Memory!Reloaded
  <2> HIDE DEF image
  <2>4. image = Memory!Reloaded
    BY <2>1, <2>2, <2>3
  <2> QED
    BY <2>4 DEF image
<1>4. Memory!Reloaded \in [Memory!Location -> Byte]
  BY <1>0, <1>3, ProgramImage DEF Memory!Location, Memory!Presentation, Byte
<1>5. cells' = [map |-> base', bank |-> banks']
  BY <1>0, <1>1, <1>2, <1>3
<1>6. board' = board /\ latch' \in SysCtrl' \cup {board'.sysCtrl}
  BY <1>1
<1> QED
  BY <1>1, <1>4, <1>5, <1>6 DEF MemoryInv, ShadowInImage

(* Every step of the board keeps the memory invariant.                     *)
LEMMA MemoryStepInv ==
  ASSUME MemoryInv, [Next]_vars PROVE MemoryInv'
<1>1. CASE UNCHANGED memoryVars
  BY <1>1 DEF MemoryInv, ShadowInImage, memoryVars
<1>2. CASE UNCHANGED vars \/ KeypadStep \/ MatrixStep \/ CardStep \/ ClockStep
  BY <1>1, <1>2 DEF vars, KeypadStep, MatrixStep, CardStep, ClockStep
<1>3. CASE MemoryStep
  <2>1. ASSUME NEW l \in Memory!Location, Memory!ForceMemWrite(l) PROVE MemoryInv'
    BY <2>1, WriteStep DEF Memory!ForceMemWrite
  <2>2. ASSUME NEW v \in SysCtrl, Memory!WriteSysCtrl(v) PROVE MemoryInv'
    <3>1. latch' \in SysCtrl /\ UNCHANGED <<base, banks, board, cells>>
      BY <2>2 DEF Memory!WriteSysCtrl
    <3> QED
      BY <3>1 DEF MemoryInv, ShadowInImage
  <2> QED
    BY <1>3, <2>1, <2>2, MemWriteStep DEF MemoryStep, Memory!MemoryStep
<1>4. CASE Reset
  BY <1>4, ResetMemoryStep DEF Reset
<1> QED
  BY <1>2, <1>3, <1>4 DEF Next

(* Whatever the latch held when a byte was written and holds now, every    *)
(* address reads the cell of the documented map, across resets: read-only  *)
(* and protected bytes stay, a byte switched out is kept, and no two       *)
(* settings of the latch reach a byte by mistake, for all 256 values of    *)
(* the latch and every layout of ROM (tec1g-memory.ts:116-158).            *)
THEOREM MemoryMapped ==
  ASSUME \A b \in Boards : ShadowInImage(b)
  PROVE  Spec => []MemoryIsMapped
<1>1. Init => MemoryInv
  BY MemoryInitInv
<1>2. MemoryInv /\ [Next]_vars => MemoryInv'
  BY MemoryStepInv
<1>3. MemoryInv => MemoryIsMapped
  <2> SUFFICES ASSUME MemoryInv PROVE MemoryIsMapped
    OBVIOUS
  <2>1. Memory!PhysicalBank(latch) = Memory!DocumentedBank /\ cells.map = base /\ cells.bank = banks
    BY LatchByte, BankIsDocumented DEF MemoryInv
  <2> QED
    BY <2>1 DEF MemoryIsMapped, Memory!MemoryIsMapped, Memory!MemRead, Memory!Documented
<1> QED
  BY <1>1, <1>2, <1>3, PTL DEF Spec

(* With the monitor at the bottom and the top, the shadow mirrors it after *)
(* any reset: the promise whose failure with it at the bottom alone the    *)
(* run shadow_rom shows (platforms/tec1g/README.md:132).                   *)
THEOREM ShadowMirrorsRom ==
  ASSUME \A b \in Boards : ShadowInImage(b)
  PROVE  Spec => []RomShadowed
<1>1. Init => MemoryInv
  BY MemoryInitInv
<1>2. MemoryInv /\ [Next]_vars => MemoryInv'
  BY MemoryStepInv
<1>3. MemoryInv => RomShadowed
  BY DEF MemoryInv, RomShadowed, Memory!RomShadowed, Memory!MemRead
<1> QED
  BY <1>1, <1>2, <1>3, PTL DEF Spec

-----------------------------------------------------------------------------
\* The keypad.

KeyType ==
  [value : Key \cup {None}, userHeld : BOOLEAN, heldCode : Key \cup {None},
   minPulseDone : BOOLEAN, eventId : Nat \cup {None}, resetValue : Key \cup {None}, nmi : BOOLEAN]

(* The one release event on the clock is that of the pulse that runs, and  *)
(* is due when it ends.                                                    *)
PulseInv ==
  /\ key.minPulseDone <=> press.age = Hold
  /\ IF key.minPulseDone THEN DOMAIN timers = {}
       ELSE /\ DOMAIN timers = {key.eventId} /\ key.eventId \in Nat
            /\ timers[key.eventId] = Hold - press.age

(* The runtime knows of the last press what there is to know.              *)
PressInv ==
  /\ key.userHeld = press.held /\ key.heldCode = press.code
  /\ key.value = IF press.age < Hold \/ press.held THEN press.code ELSE None

DueInv == due = (IF key.nmi THEN {"key"} ELSE {}) \cup (IF video THEN {"frame"} ELSE {})

KeypadInv ==
  /\ key \in KeyType /\ video \in BOOLEAN
  /\ press \in [code : Key \cup {None}, age : 0..Hold, held : BOOLEAN]
  /\ PulseInv /\ PressInv /\ DueInv

(* What the proofs below start from, field by field.                       *)
LEMMA KeypadFacts ==
  ASSUME KeypadInv
  PROVE  /\ key = [value |-> key.value, userHeld |-> key.userHeld, heldCode |-> key.heldCode,
                   minPulseDone |-> key.minPulseDone, eventId |-> key.eventId,
                   resetValue |-> key.resetValue, nmi |-> key.nmi]
         /\ key.value \in Key \cup {None} /\ key.userHeld \in BOOLEAN
         /\ key.heldCode \in Key \cup {None} /\ key.minPulseDone \in BOOLEAN
         /\ key.eventId \in Nat \cup {None} /\ key.resetValue \in Key \cup {None}
         /\ key.nmi \in BOOLEAN /\ video \in BOOLEAN
         /\ press = [code |-> press.code, age |-> press.age, held |-> press.held]
         /\ press.code \in Key \cup {None} /\ press.age \in 0..Hold /\ press.held \in BOOLEAN
         /\ PulseInv /\ PressInv /\ DueInv
         /\ Hold \in Nat \ {0}
<1>1. /\ key \in KeyType /\ video \in BOOLEAN
      /\ press \in [code : Key \cup {None}, age : 0..Hold, held : BOOLEAN]
      /\ PulseInv /\ PressInv /\ DueInv
  BY DEF KeypadInv
<1>2. Hold \in Nat \ {0}
  BY BoardAssumption
<1> QED
  BY <1>1, <1>2 DEF KeyType

(* With the release event cancelled the clock is empty, and the next       *)
(* event's identifier is free.                                             *)
LEMMA CancelledPulse ==
  ASSUME KeypadInv PROVE DOMAIN Inputs!Cancelled(key.eventId) = {}
<1>1. DOMAIN timers \ {key.eventId} = {}
  BY DEF KeypadInv, PulseInv
<1> QED
  BY <1>1 DEF Inputs!Cancelled, Inputs!Restrict

(* The first timer has number one.                                         *)
LEMMA FirstId ==
  ASSUME NEW t, DOMAIN t = {} PROVE Inputs!FreshId(t) = 1
<1>1. DOMAIN t \cup {0} = {0}
  OBVIOUS
<1>2. Inputs!Max({0}) = 0
  BY DEF Inputs!Max
<1> QED
  BY <1>1, <1>2 DEF Inputs!FreshId

(* A press's age counts up to the hold time.                               *)
LEMMA MinWithHold ==
  ASSUME NEW n \in Nat
  PROVE  Inputs!Min({Hold, n}) = IF n < Hold THEN n ELSE Hold
<1>1. Hold \in Nat
  BY BoardAssumption
<1> DEFINE m == IF n < Hold THEN n ELSE Hold
<1>2. m \in {Hold, n} /\ \A y \in {Hold, n} : m <= y
  BY <1>1
<1>3. \A x \in {Hold, n} : (\A y \in {Hold, n} : x <= y) => x = m
  BY <1>1
<1> HIDE DEF m
<1>4. Inputs!Min({Hold, n}) = m
  BY <1>2, <1>3 DEF Inputs!Min
<1> QED
  BY <1>4 DEF m

(* A pulse begins.                                                         *)
LEMMA PulseBegins ==
  ASSUME NEW code \in Key, NEW held \in BOOLEAN, NEW shown \in Key \cup {None},
         NEW raised \in BOOLEAN, NEW rest, DOMAIN rest = {},
         NEW id, id = Inputs!FreshId(rest),
         key' = [value |-> code, userHeld |-> held, heldCode |-> code, minPulseDone |-> FALSE,
                 eventId |-> id, resetValue |-> shown, nmi |-> raised],
         timers' = Inputs!Scheduled(rest, id),
         press' = [code |-> code, age |-> 0, held |-> held],
         video' \in BOOLEAN, DueInv'
  PROVE  KeypadInv'
<1>1. Hold \in Nat \ {0} /\ id = 1
  BY BoardAssumption, FirstId
<1>2. DOMAIN timers' = {id} /\ timers'[id] = Hold
  BY DEF Inputs!Scheduled
<1>3. key' \in KeyType
  BY <1>1 DEF KeyType
<1>4. press' \in [code : Key \cup {None}, age : 0..Hold, held : BOOLEAN]
  BY <1>1
<1>5. PulseInv'
  BY <1>1, <1>2 DEF PulseInv
<1>6. PressInv'
  BY <1>1 DEF PressInv
<1> QED
  BY <1>3, <1>4, <1>5, <1>6 DEF KeypadInv

(* The keypad let go of altogether.                                        *)
LEMMA KeypadIdle ==
  ASSUME key' = Inputs!IdleKey, DOMAIN timers' = {}, press' = Inputs!NoPress,
         video' \in BOOLEAN, DueInv'
  PROVE  KeypadInv'
<1>1. Hold \in Nat \ {0}
  BY BoardAssumption
<1>2. key' \in KeyType
  BY DEF Inputs!IdleKey, KeyType
<1>3. press' \in [code : Key \cup {None}, age : 0..Hold, held : BOOLEAN]
  BY <1>1 DEF Inputs!NoPress
<1>4. PulseInv' /\ PressInv'
  BY <1>1 DEF PulseInv, PressInv, Inputs!IdleKey, Inputs!NoPress
<1> QED
  BY <1>2, <1>3, <1>4 DEF KeypadInv

(* No key is pressed at first.                                             *)
LEMMA KeypadInitInv == Init => KeypadInv
<1> SUFFICES ASSUME Init PROVE KeypadInv
  OBVIOUS
<1>1. /\ key = Inputs!IdleKey /\ timers = <<>> /\ video = FALSE /\ press = Inputs!NoPress /\ due = {}
  BY DEF Init, Inputs!InputInit
<1>2. Hold \in Nat \ {0}
  BY BoardAssumption
<1>3. key \in KeyType /\ press \in [code : Key \cup {None}, age : 0..Hold, held : BOOLEAN]
  BY <1>1, <1>2 DEF Inputs!IdleKey, Inputs!NoPress, KeyType
<1>4. DOMAIN timers = {}
  BY <1>1
<1>5. PulseInv /\ PressInv /\ DueInv
  BY <1>1, <1>2, <1>4 DEF PulseInv, PressInv, DueInv, Inputs!IdleKey, Inputs!NoPress
<1> QED
  BY <1>1, <1>3, <1>5 DEF KeypadInv

(* A press replaces the latched key and the timer of the press before.     *)
LEMMA ApplyKeyStep ==
  ASSUME KeypadInv, NEW code \in Key, NEW held \in BOOLEAN, NEW silent \in BOOLEAN,
         Inputs!ApplyKey(code, held, silent)
  PROVE  KeypadInv'
<1> DEFINE rest == Inputs!Cancelled(key.eventId)
           id == Inputs!FreshId(rest)
<1>1. /\ key' = Inputs!Latched(key, code, held, ~silent, id)
      /\ timers' = Inputs!Scheduled(rest, id)
      /\ press' = [code |-> code, age |-> 0, held |-> held]
      /\ due' = IF silent THEN due ELSE due \cup {"key"}
      /\ video' = video
  BY DEF Inputs!ApplyKey, Inputs!SetKeyLatch
<1>2. DOMAIN rest = {}
  BY CancelledPulse
<1> HIDE DEF rest, id
<1>3. key' = [value |-> code, userHeld |-> held, heldCode |-> code, minPulseDone |-> FALSE,
              eventId |-> id, resetValue |-> key.resetValue, nmi |-> key.nmi \/ ~silent]
  BY <1>1, KeypadFacts DEF Inputs!Latched
<1>4. DueInv'
  <2>1. due = (IF key.nmi THEN {"key"} ELSE {}) \cup (IF video THEN {"frame"} ELSE {})
    BY KeypadFacts DEF DueInv
  <2>2. key'.nmi <=> (key.nmi \/ ~silent)
    BY <1>3
  <2>3. CASE silent
    BY <1>1, <2>1, <2>2, <2>3 DEF DueInv
  <2>4. CASE ~silent
    BY <1>1, <2>1, <2>2, <2>4 DEF DueInv
  <2> QED
    BY <2>3, <2>4
<1>5. (key.nmi \/ ~silent) \in BOOLEAN /\ key.resetValue \in Key \cup {None} /\ video' \in BOOLEAN
  BY <1>1, KeypadFacts
<1>6. id = Inputs!FreshId(rest)
  BY DEF id
<1> QED
  BY <1>1, <1>2, <1>3, <1>4, <1>5, <1>6, PulseBegins

(* A release ends the press it belongs to and no other.                    *)
LEMMA ReleaseKeyStep ==
  ASSUME KeypadInv, NEW code \in Key, Inputs!ReleaseKey(code)
  PROVE  KeypadInv'
<1>0. UNCHANGED <<timers, video, due>>
  BY DEF Inputs!ReleaseKey
<1>1. CASE code # key.heldCode
  <2>1. key' = key /\ press' = press
    BY <1>1, KeypadFacts DEF Inputs!ReleaseKey, PressInv
  <2> QED
    BY <1>0, <2>1 DEF KeypadInv, PulseInv, PressInv, DueInv
<1>2. CASE code = key.heldCode
  <2>1. /\ key' = Inputs!Released([key EXCEPT !.userHeld = FALSE])
        /\ press' = [press EXCEPT !.held = FALSE]
    BY <1>2, KeypadFacts DEF Inputs!ReleaseKey, PressInv
  <2>2. /\ press' = [code |-> press.code, age |-> press.age, held |-> FALSE]
        /\ \E v \in Key \cup {None} :
             /\ v = IF key.minPulseDone THEN None ELSE key.value
             /\ key' = [value |-> v, userHeld |-> FALSE, heldCode |-> key.heldCode,
                        minPulseDone |-> key.minPulseDone, eventId |-> key.eventId,
                        resetValue |-> key.resetValue, nmi |-> key.nmi]
    BY <2>1, KeypadFacts DEF Inputs!Released
  <2>3. key' \in KeyType /\ press' \in [code : Key \cup {None}, age : 0..Hold, held : BOOLEAN]
    BY <2>2, KeypadFacts DEF KeyType
  <2>4. PulseInv' /\ PressInv' /\ DueInv'
    BY <1>0, <2>2, KeypadFacts DEF PulseInv, PressInv, DueInv
  <2> QED
    BY <1>0, <2>3, <2>4, KeypadFacts DEF KeypadInv
<1> QED
  BY <1>1, <1>2

(* Cycles run the timers down; the pulse of a press ends with its own.     *)
LEMMA RecordCyclesStep ==
  ASSUME KeypadInv, NEW c \in 1..MaxStretch, Inputs!RecordCycles(c)
  PROVE  KeypadInv'
<1>1. /\ key' = IF \E i \in DOMAIN timers : timers[i] <= c THEN Inputs!PulseDone(key) ELSE key
      /\ timers' = [i \in {j \in DOMAIN timers : timers[j] > c} |-> timers[i] - c]
      /\ press' = [press EXCEPT !.age = Inputs!Min({Hold, press.age + c})]
      /\ \E frame \in BOOLEAN : /\ video' = (video \/ frame)
                                /\ due' = IF frame /\ ~video THEN due \cup {"frame"} ELSE due
  BY DEF Inputs!RecordCycles
<1>2. c \in Nat \ {0}
  BY BoardAssumption
<1> DEFINE age == IF press.age + c < Hold THEN press.age + c ELSE Hold
<1>3. age \in 0..Hold /\ press' = [code |-> press.code, age |-> age, held |-> press.held]
  <2>1. press.age + c \in Nat
    BY <1>2, KeypadFacts
  <2>2. Inputs!Min({Hold, press.age + c}) = age
    BY <2>1, MinWithHold
  <2> QED
    BY <1>1, <1>2, <2>2, KeypadFacts
<1>4. press' \in [code : Key \cup {None}, age : 0..Hold, held : BOOLEAN]
  BY <1>3, KeypadFacts
<1>5. CASE key.minPulseDone
  <2>1. DOMAIN timers = {} /\ press.age = Hold
    BY <1>5, KeypadFacts DEF PulseInv
  <2>2. key' = key /\ DOMAIN timers' = {} /\ age = Hold /\ press' = press
    BY <1>1, <1>2, <1>3, <2>1, KeypadFacts
  <2>3. PulseInv' /\ PressInv'
    BY <1>5, <2>1, <2>2, KeypadFacts DEF PulseInv, PressInv
  <2>4. DueInv' /\ video' \in BOOLEAN
    BY <1>1, <2>2, KeypadFacts DEF DueInv
  <2> QED
    BY <1>4, <2>2, <2>3, <2>4 DEF KeypadInv
<1>6. CASE ~key.minPulseDone /\ press.age + c < Hold
  <2>1. /\ DOMAIN timers = {key.eventId} /\ timers[key.eventId] = Hold - press.age
        /\ key.eventId \in Nat
    BY <1>6, KeypadFacts DEF PulseInv
  <2>2. Hold - press.age > c
    BY <1>2, <1>6, KeypadFacts
  <2>3. /\ key' = key /\ DOMAIN timers' = {key.eventId}
        /\ timers'[key.eventId] = Hold - (press.age + c)
    BY <1>1, <1>2, <2>1, <2>2, KeypadFacts
  <2>4. press' = [code |-> press.code, age |-> press.age + c, held |-> press.held]
    BY <1>3, <1>6
  <2>5. press.age < Hold /\ press.age + c # Hold
    BY <1>2, <1>6, KeypadFacts
  <2>6. PulseInv' /\ PressInv'
    BY <1>6, <2>1, <2>3, <2>4, <2>5, KeypadFacts DEF PulseInv, PressInv
  <2>7. DueInv' /\ video' \in BOOLEAN
    BY <1>1, <2>3, KeypadFacts DEF DueInv
  <2> QED
    BY <1>4, <2>3, <2>6, <2>7 DEF KeypadInv
<1>7. CASE ~key.minPulseDone /\ press.age + c >= Hold
  <2>1. /\ DOMAIN timers = {key.eventId} /\ timers[key.eventId] = Hold - press.age
    BY <1>7, KeypadFacts DEF PulseInv
  <2>2. Hold - press.age <= c /\ ~(Hold - press.age > c)
    BY <1>2, <1>7, KeypadFacts
  <2>3. key' = Inputs!PulseDone(key) /\ DOMAIN timers' = {}
    BY <1>1, <2>1, <2>2
  <2>4. \E v \in Key \cup {None} :
          /\ v = IF key.userHeld THEN key.value ELSE None
          /\ key' = [value |-> v, userHeld |-> key.userHeld, heldCode |-> key.heldCode,
                     minPulseDone |-> TRUE, eventId |-> None,
                     resetValue |-> key.resetValue, nmi |-> key.nmi]
    BY <2>3, KeypadFacts DEF Inputs!PulseDone
  <2>5. press' = [code |-> press.code, age |-> Hold, held |-> press.held]
    BY <1>2, <1>3, <1>7, KeypadFacts
  <2>6. key' \in KeyType
    BY <2>4, KeypadFacts DEF KeyType
  <2>7. PulseInv'
    BY <2>3, <2>4, <2>5 DEF PulseInv
  <2>8. PressInv'
    <3>1. press.age <= Hold /\ (~key.minPulseDone => press.age # Hold) /\ press.age \in Nat
      BY KeypadFacts DEF PulseInv
    <3>2. press.age < Hold
      BY <1>7, <3>1, KeypadFacts
    <3> QED
      BY <2>4, <2>5, <3>2, KeypadFacts DEF PressInv
  <2>9. DueInv' /\ video' \in BOOLEAN
    BY <1>1, <2>4, KeypadFacts DEF DueInv
  <2> QED
    BY <1>4, <2>6, <2>7, <2>8, <2>9 DEF KeypadInv
<1> QED
  <2>1. press.age + c \in Nat /\ Hold \in Nat /\ key.minPulseDone \in BOOLEAN
    BY <1>2, KeypadFacts
  <2>2. press.age + c < Hold \/ press.age + c >= Hold
    BY <2>1
  <2> QED
    BY <1>5, <1>6, <1>7, <2>2

(* A step that touches only what the program has been interrupted for and  *)
(* the key held for a reset.                                               *)
LEMMA InterruptStep ==
  ASSUME KeypadInv, NEW raised \in BOOLEAN, NEW shown \in Key \cup {None},
         key' = [key EXCEPT !.nmi = raised, !.resetValue = shown],
         UNCHANGED <<timers, press>>, video' \in BOOLEAN,
         due' = (IF raised THEN {"key"} ELSE {}) \cup (IF video' THEN {"frame"} ELSE {})
  PROVE  KeypadInv'
<1>1. key' = [value |-> key.value, userHeld |-> key.userHeld, heldCode |-> key.heldCode,
              minPulseDone |-> key.minPulseDone, eventId |-> key.eventId,
              resetValue |-> shown, nmi |-> raised]
  BY KeypadFacts
<1>2. key' \in KeyType
  BY <1>1, KeypadFacts DEF KeyType
<1>3. PulseInv' /\ PressInv'
  BY <1>1, KeypadFacts DEF PulseInv, PressInv
<1>4. DueInv'
  BY <1>1 DEF DueInv
<1> QED
  BY <1>2, <1>3, <1>4 DEF KeypadInv

(* Interrupts and reads of the keypad leave the latched key alone.         *)
LEMMA TickStep ==
  ASSUME KeypadInv, Inputs!WithdrawFrame \/ Inputs!Tick \/ Inputs!ReadKeypad
  PROVE  KeypadInv'
<1>1. due = (IF key.nmi THEN {"key"} ELSE {}) \cup (IF video THEN {"frame"} ELSE {})
  BY KeypadFacts DEF DueInv
<1>2. CASE Inputs!WithdrawFrame
  <2>1. /\ UNCHANGED <<key, timers, press>> /\ video' = FALSE /\ due' = due \ {"frame"}
    BY <1>2 DEF Inputs!WithdrawFrame
  <2>2. due' = (IF key.nmi THEN {"key"} ELSE {}) \cup (IF video' THEN {"frame"} ELSE {})
    BY <1>1, <2>1
  <2>3. key' = [key EXCEPT !.nmi = key.nmi, !.resetValue = key.resetValue]
    BY <2>1, KeypadFacts
  <2> QED
    BY <2>1, <2>2, <2>3, InterruptStep, KeypadFacts
<1>3. CASE Inputs!Tick
  <2>0. /\ video' = (video /\ ~Inputs!TakesFrame)
        /\ key' = [key EXCEPT !.nmi = @ /\ ~Inputs!TakesKey]
        /\ due' = due \ {IF Inputs!TakesFrame THEN "frame" ELSE "key"}
        /\ UNCHANGED <<timers, press>>
        /\ Inputs!TakesFrame <=> video
        /\ Inputs!TakesKey <=> ~video /\ key.nmi
        /\ video \/ key.nmi
    BY <1>3 DEF Inputs!Tick, Inputs!TakesFrame, Inputs!TakesKey
  <2>1. CASE video
    <3>1. video' = FALSE /\ key' = [key EXCEPT !.nmi = key.nmi, !.resetValue = key.resetValue]
      BY <2>0, <2>1, KeypadFacts
    <3>2. due' = (IF key.nmi THEN {"key"} ELSE {}) \cup (IF video' THEN {"frame"} ELSE {})
      BY <1>1, <2>0, <2>1, <3>1
    <3> QED
      BY <2>0, <3>1, <3>2, InterruptStep, KeypadFacts
  <2>2. CASE ~video
    <3>1. video' = FALSE /\ key' = [key EXCEPT !.nmi = FALSE, !.resetValue = key.resetValue]
      BY <2>0, <2>2, KeypadFacts
    <3>2. due' = (IF FALSE THEN {"key"} ELSE {}) \cup (IF video' THEN {"frame"} ELSE {})
      BY <1>1, <2>0, <2>2, <3>1
    <3> QED
      BY <2>0, <3>1, <3>2, InterruptStep, KeypadFacts
  <2> QED
    BY <2>1, <2>2
<1>4. CASE Inputs!ReadKeypad
  <2>1. /\ key' = [key EXCEPT !.nmi = key.nmi, !.resetValue = None]
        /\ UNCHANGED <<timers, video, press, due>>
    BY <1>4, KeypadFacts DEF Inputs!ReadKeypad
  <2> QED
    BY <1>1, <2>1, InterruptStep, KeypadFacts
<1> QED
  BY <1>2, <1>3, <1>4

(* Releasing the inputs ends the press.                                    *)
LEMMA ReleaseInputsKeypad ==
  ASSUME KeypadInv, Inputs!ReleaseInputs PROVE KeypadInv'
<1>1. /\ key' = Inputs!IdleKey /\ timers' = Inputs!Cancelled(key.eventId) /\ press' = Inputs!NoPress
      /\ due' = due \ {"key"} /\ video' = video
  BY DEF Inputs!ReleaseInputs
<1>2. DueInv'
  BY <1>1, KeypadFacts DEF DueInv, Inputs!IdleKey
<1> QED
  BY <1>1, <1>2, CancelledPulse, KeypadIdle, KeypadFacts

(* A reset ends the press, or begins one of the Fn key it finds held.      *)
LEMMA ResetInputsKeypad ==
  ASSUME KeypadInv, NEW heldKey \in {None, FnKey}, Inputs!ResetInputs(heldKey)
  PROVE  KeypadInv'
<1>1. video' = FALSE /\ due' = {}
  BY DEF Inputs!ResetInputs
<1>2. CASE heldKey = None
  <2>1. /\ key' = Inputs!IdleKey /\ timers' = Inputs!Cancelled(key.eventId)
        /\ press' = Inputs!NoPress
    BY <1>2 DEF Inputs!ResetInputs
  <2>2. DueInv'
    BY <1>1, <2>1 DEF DueInv, Inputs!IdleKey
  <2> QED
    BY <1>1, <2>1, <2>2, CancelledPulse, KeypadIdle
<1>3. CASE heldKey # None
  <2> DEFINE rest == Inputs!Cancelled(key.eventId)
             id == Inputs!FreshId(rest)
  <2>1. /\ key' = [Inputs!Latched(Inputs!IdleKey, heldKey, FALSE, FALSE, id)
                     EXCEPT !.resetValue = heldKey]
        /\ timers' = Inputs!Scheduled(rest, id)
        /\ press' = [code |-> heldKey, age |-> 0, held |-> FALSE]
    BY <1>3 DEF Inputs!ResetInputs
  <2>2. DOMAIN rest = {}
    BY CancelledPulse
  <2>3. heldKey \in Key
    BY <1>3, BoardAssumption
  <2>4. id = Inputs!FreshId(rest)
    OBVIOUS
  <2> HIDE DEF rest, id
  <2>5. key' = [value |-> heldKey, userHeld |-> FALSE, heldCode |-> heldKey,
                minPulseDone |-> FALSE, eventId |-> id, resetValue |-> heldKey, nmi |-> FALSE]
    BY <2>1 DEF Inputs!Latched, Inputs!IdleKey
  <2>6. DueInv'
    BY <1>1, <2>5 DEF DueInv
  <2> QED
    BY <1>1, <2>1, <2>2, <2>3, <2>4, <2>5, <2>6, PulseBegins
<1> QED
  BY <1>2, <1>3

(* Every step of the board keeps the keypad invariant.                     *)
LEMMA KeypadStepInv ==
  ASSUME KeypadInv, [Next]_vars PROVE KeypadInv'
<1>1. CASE UNCHANGED <<key, timers, video, press, due>>
  BY <1>1 DEF KeypadInv, PulseInv, PressInv, DueInv
<1>2. CASE UNCHANGED vars \/ CardStep \/ MemoryStep \/ ClockStep
  BY <1>1, <1>2 DEF vars, CardStep, MemoryStep, ClockStep, inputVars
<1>3. CASE KeypadStep
  <2>1. ASSUME NEW k \in Key, NEW held \in BOOLEAN, NEW silent \in BOOLEAN,
               Inputs!ApplyKey(k, held, silent)
        PROVE  KeypadInv'
    BY <2>1, ApplyKeyStep
  <2>2. ASSUME NEW k \in Key, Inputs!ReleaseKey(k) PROVE KeypadInv'
    BY <2>2, ReleaseKeyStep
  <2>3. ASSUME NEW c \in 1..MaxStretch, Inputs!RecordCycles(c) PROVE KeypadInv'
    BY <2>3, RecordCyclesStep
  <2> QED
    BY <1>3, <2>1, <2>2, <2>3, TickStep, ReleaseInputsKeypad DEF KeypadStep, Inputs!KeypadStep
<1>4. CASE MatrixStep
  <2>1. CASE Inputs!MatrixStep
    BY <1>1, <2>1 DEF Inputs!MatrixStep, Inputs!ApplyMatrixKey, Inputs!SetJoystickState,
       Inputs!ReadMatrixKeyboardRow, Inputs!keyVars
  <2> QED
    BY <1>4, <2>1, ReleaseInputsKeypad DEF MatrixStep
<1>5. CASE Reset
  <2>1. PICK heldKey \in {None, FnKey} : Inputs!ResetInputs(heldKey)
    BY <1>5 DEF Reset
  <2> QED
    BY <2>1, ResetInputsKeypad
<1> QED
  BY <1>2, <1>3, <1>4, <1>5 DEF Next

(* The latch shows the last key pressed for the minimum pulse and for as   *)
(* long as it is held, whatever presses, releases, resets and instructions *)
(* fall into the pulse and however long it is; and of a press and a frame  *)
(* in one tick neither interrupt is lost (tec1g/runtime.ts:163-220).       *)
THEOREM KeypadLatch == Spec => []KeypadShowsLastPress
<1>1. Init => KeypadInv
  BY KeypadInitInv
<1>2. KeypadInv /\ [Next]_vars => KeypadInv'
  BY KeypadStepInv
<1>3. KeypadInv => KeypadShowsLastPress
  BY DEF KeypadInv, PressInv, DueInv, KeypadShowsLastPress, Inputs!KeypadShowsLastPress
<1> QED
  BY <1>1, <1>2, <1>3, PTL DEF Spec

-----------------------------------------------------------------------------
\* The matrix keyboard.

MatrixType ==
  /\ matrix \in [states : Inputs!Keyboard, pending : Inputs!Keyboard, dirty : BOOLEAN,
                 lastRow : Row \cup {None}]
  /\ DOMAIN scan.read \subseteq Row
  /\ scan = [read |-> scan.read, seen |-> scan.seen]
  /\ joystick \subseteq Col

(* The keyboard the runtime shows is one of this scan, as is the one it    *)
(* keeps back; the rows were read in order, the last of them last, and all *)
(* of the keyboard that is shown.                                          *)
ScanInv ==
  /\ matrix.states \in scan.seen /\ matrix.pending \in scan.seen
  /\ ~matrix.dirty => matrix.states = matrix.pending
  /\ DOMAIN scan.read # {} =>
       /\ matrix.lastRow \in DOMAIN scan.read
       /\ \A r \in DOMAIN scan.read : r <= matrix.lastRow
  /\ \A r \in DOMAIN scan.read \ {Inputs!JoyRow} : scan.read[r] = matrix.states[r]

MatrixInv == MatrixType /\ ScanInv

(* Rows are numbers, and None is no row.                                   *)
LEMMA RowNumbers == Row \subseteq Nat /\ None \notin Row
BY BoardAssumption

(* The matrix and the scan, field by field.                                *)
LEMMA MatrixFacts ==
  ASSUME MatrixInv
  PROVE  /\ matrix = [states |-> matrix.states, pending |-> matrix.pending,
                      dirty |-> matrix.dirty, lastRow |-> matrix.lastRow]
         /\ matrix.states \in Inputs!Keyboard /\ matrix.pending \in Inputs!Keyboard
         /\ matrix.dirty \in BOOLEAN /\ matrix.lastRow \in Row \cup {None}
         /\ DOMAIN scan.read \subseteq Row /\ joystick \subseteq Col
         /\ scan = [read |-> scan.read, seen |-> scan.seen]
         /\ ScanInv
BY DEF MatrixInv, MatrixType

(* All keys let go, and a scan begun.                                      *)
LEMMA MatrixIdle ==
  ASSUME NEW dirty \in BOOLEAN, NEW row \in Row \cup {None},
         matrix' = [states |-> Inputs!NoKeys, pending |-> Inputs!NoKeys, dirty |-> dirty,
                    lastRow |-> row],
         joystick' = {}, scan' = Inputs!NoScan(Inputs!NoKeys)
  PROVE  MatrixInv'
<1>1. Inputs!NoKeys \in Inputs!Keyboard
  BY DEF Inputs!NoKeys, Inputs!Keyboard
<1>2. scan' = [read |-> <<>>, seen |-> {Inputs!NoKeys}] /\ DOMAIN scan'.read = {}
  BY DEF Inputs!NoScan
<1>3. MatrixType'
  BY <1>1, <1>2 DEF MatrixType
<1>4. ScanInv'
  BY <1>2 DEF ScanInv
<1> QED
  BY <1>3, <1>4 DEF MatrixInv

(* No matrix key is down at first.                                         *)
LEMMA MatrixInitInv == Init => MatrixInv
<1> SUFFICES ASSUME Init PROVE MatrixInv
  OBVIOUS
<1>1. /\ matrix = [states |-> Inputs!NoKeys, pending |-> Inputs!NoKeys, dirty |-> FALSE,
                   lastRow |-> None]
      /\ joystick = {} /\ scan = Inputs!NoScan(Inputs!NoKeys)
  BY DEF Init, Inputs!InputInit
<1>2. Inputs!NoKeys \in Inputs!Keyboard
  BY DEF Inputs!NoKeys, Inputs!Keyboard
<1>3. scan = [read |-> <<>>, seen |-> {Inputs!NoKeys}] /\ DOMAIN scan.read = {}
  BY <1>1 DEF Inputs!NoScan
<1>4. MatrixType
  BY <1>1, <1>2, <1>3 DEF MatrixType
<1>5. ScanInv
  BY <1>1, <1>3 DEF ScanInv
<1> QED
  BY <1>4, <1>5 DEF MatrixInv

(* A matrix key changes the keyboard that the next scan will read.         *)
LEMMA ApplyMatrixKeyStep ==
  ASSUME MatrixInv, NEW r \in Row, NEW c \in Col, NEW pressed \in BOOLEAN,
         Inputs!ApplyMatrixKey(r, c, pressed)
  PROVE  MatrixInv'
<1> DEFINE keyboard == [matrix.pending EXCEPT ![r] =
                          IF pressed THEN matrix.pending[r] \cup {c} ELSE matrix.pending[r] \ {c}]
<1>1. /\ matrix' = [matrix EXCEPT !.pending = keyboard, !.dirty = TRUE]
      /\ scan' = [scan EXCEPT !.seen = @ \cup {keyboard}] /\ joystick' = joystick
  BY DEF Inputs!ApplyMatrixKey
<1>2. keyboard \in Inputs!Keyboard
  BY MatrixFacts DEF Inputs!Keyboard
<1> HIDE DEF keyboard
<1>3. /\ matrix' = [states |-> matrix.states, pending |-> keyboard, dirty |-> TRUE,
                    lastRow |-> matrix.lastRow]
      /\ scan' = [read |-> scan.read, seen |-> scan.seen \cup {keyboard}]
  BY <1>1, MatrixFacts
<1>4. MatrixType'
  BY <1>1, <1>2, <1>3, MatrixFacts DEF MatrixType
<1>5. ScanInv'
  BY <1>3, MatrixFacts DEF ScanInv
<1> QED
  BY <1>4, <1>5 DEF MatrixInv

(* The joystick is no part of the keyboard a scan reads.                   *)
LEMMA SetJoystickStep ==
  ASSUME MatrixInv, NEW mask \in SUBSET Col, Inputs!SetJoystickState(mask)
  PROVE  MatrixInv'
<1>1. joystick' = mask /\ UNCHANGED <<matrix, scan>>
  BY DEF Inputs!SetJoystickState
<1> QED
  BY <1>1 DEF MatrixInv, MatrixType, ScanInv

(* A row that goes on in the scan does not change the keyboard shown; one  *)
(* that does not begins another, of the keyboard there is now.             *)
LEMMA ReadRowStep ==
  ASSUME MatrixInv, NEW row \in Row, Inputs!ReadMatrixKeyboardRow(row)
  PROVE  MatrixInv'
<1> DEFINE snapshot == Inputs!Snapshot(row)
           value == Inputs!RowValue(snapshot, row)
           before == IF Inputs!Continues(row) THEN scan ELSE Inputs!NoScan(matrix.pending)
           read == [r \in DOMAIN before.read \cup {row} |-> IF r = row THEN value ELSE before.read[r]]
<1>1. /\ matrix' = [snapshot EXCEPT !.lastRow = row]
      /\ scan' = [before EXCEPT !.read = read] /\ joystick' = joystick
  BY DEF Inputs!ReadMatrixKeyboardRow
<1>2. PICK states \in Inputs!Keyboard, dirty \in BOOLEAN :
        /\ snapshot = [states |-> states, pending |-> matrix.pending, dirty |-> dirty,
                       lastRow |-> matrix.lastRow]
        /\ states \in {matrix.states, matrix.pending}
        /\ ~dirty => states = matrix.pending
        /\ dirty => ~Inputs!BeginsScan(row)
        /\ ~Inputs!BeginsScan(row) => states = matrix.states
  <2>1. CASE matrix.dirty /\ Inputs!BeginsScan(row)
    <3>1. snapshot = [states |-> matrix.pending, pending |-> matrix.pending, dirty |-> FALSE,
                      lastRow |-> matrix.lastRow]
      BY <2>1, MatrixFacts DEF Inputs!Snapshot
    <3> QED
      BY <2>1, <3>1, MatrixFacts
  <2>2. CASE ~(matrix.dirty /\ Inputs!BeginsScan(row))
    <3>1. snapshot = matrix
      BY <2>2 DEF Inputs!Snapshot
    <3> QED
      BY <2>2, <3>1, MatrixFacts DEF ScanInv
  <2> QED
    BY <2>1, <2>2
<1>3. /\ before = [read |-> before.read, seen |-> before.seen]
      /\ DOMAIN before.read \subseteq Row
      /\ states \in before.seen /\ matrix.pending \in before.seen
      /\ \A r \in DOMAIN before.read : r < row
      /\ \A r \in DOMAIN before.read \ {Inputs!JoyRow} : before.read[r] = states[r]
  <2>1. CASE Inputs!Continues(row)
    <3>1. before = scan /\ \A r \in DOMAIN scan.read : r < row
      BY <2>1 DEF Inputs!Continues
    <3>2. CASE DOMAIN scan.read = {}
      BY <1>2, <3>1, <3>2, MatrixFacts DEF ScanInv
    <3>3. CASE DOMAIN scan.read # {}
      <4>1. matrix.lastRow \in Row /\ matrix.lastRow < row
        BY <3>1, <3>3, MatrixFacts DEF ScanInv
      <4>2. matrix.lastRow # None /\ matrix.lastRow \in Nat /\ row \in Nat
        BY <4>1, RowNumbers
      <4>3. ~(row <= matrix.lastRow)
        BY <4>1, <4>2
      <4>4. ~Inputs!BeginsScan(row)
        BY <4>2, <4>3, Zenon DEF Inputs!BeginsScan
      <4> QED
        BY <1>2, <3>1, <4>4, MatrixFacts DEF ScanInv
    <3> QED
      BY <3>2, <3>3
  <2>2. CASE ~Inputs!Continues(row)
    <3>1. before = [read |-> <<>>, seen |-> {matrix.pending}] /\ DOMAIN before.read = {}
      BY <2>2 DEF Inputs!NoScan
    <3>2. PICK r \in DOMAIN scan.read : ~(r < row)
      BY <2>2 DEF Inputs!Continues
    <3>3. matrix.lastRow \in Row /\ r <= matrix.lastRow /\ r \in Row
      BY <3>2, MatrixFacts DEF ScanInv
    <3>4. row <= matrix.lastRow
      BY <3>2, <3>3, RowNumbers
    <3>5. Inputs!BeginsScan(row)
      BY <3>4 DEF Inputs!BeginsScan
    <3>6. states = matrix.pending
      BY <1>2, <3>5
    <3> QED
      BY <3>1, <3>6
  <2> QED
    BY <2>1, <2>2
<1>4. row # Inputs!JoyRow => value = states[row]
  BY <1>2 DEF Inputs!RowValue
<1>5. /\ DOMAIN read = DOMAIN before.read \cup {row}
      /\ read[row] = value
      /\ \A r \in DOMAIN before.read : read[r] = before.read[r]
  BY <1>3, RowNumbers
<1> HIDE DEF value, read, before, snapshot
<1>6. /\ scan' = [read |-> read, seen |-> before.seen]
      /\ matrix' = [states |-> states, pending |-> matrix.pending, dirty |-> dirty,
                    lastRow |-> row]
  BY <1>1, <1>2, <1>3
<1>7. MatrixType'
  BY <1>1, <1>2, <1>3, <1>5, <1>6, MatrixFacts DEF MatrixType
<1>8. ScanInv'
  <2>1. \A r \in DOMAIN read \ {Inputs!JoyRow} : read[r] = states[r]
    BY <1>3, <1>4, <1>5
  <2>2. row \in DOMAIN read /\ \A r \in DOMAIN read : r <= row
    BY <1>3, <1>5, RowNumbers
  <2> QED
    BY <1>2, <1>3, <1>6, <2>1, <2>2 DEF ScanInv
<1> QED
  BY <1>7, <1>8 DEF MatrixInv

(* Every step of the board keeps the matrix invariant.                     *)
LEMMA MatrixStepInv ==
  ASSUME MatrixInv, [Next]_vars PROVE MatrixInv'
<1>1. CASE UNCHANGED <<matrix, joystick, scan>>
  BY <1>1 DEF MatrixInv, MatrixType, ScanInv
<1>2. CASE UNCHANGED vars \/ CardStep \/ MemoryStep \/ ClockStep
  BY <1>1, <1>2 DEF vars, CardStep, MemoryStep, ClockStep, inputVars
<1>3. CASE Inputs!ReleaseInputs
  <2>1. /\ matrix' = [states |-> Inputs!NoKeys, pending |-> Inputs!NoKeys, dirty |-> TRUE,
                      lastRow |-> matrix.lastRow]
        /\ joystick' = {} /\ scan' = Inputs!NoScan(Inputs!NoKeys)
    BY <1>3, MatrixFacts DEF Inputs!ReleaseInputs
  <2> QED
    BY <2>1, MatrixIdle, MatrixFacts
<1>4. CASE KeypadStep
  <2>1. CASE Inputs!KeypadStep
    BY <1>1, <2>1 DEF Inputs!KeypadStep, Inputs!ApplyKey, Inputs!ReleaseKey, Inputs!RecordCycles,
       Inputs!WithdrawFrame, Inputs!Tick, Inputs!ReadKeypad, Inputs!matrixVars
  <2> QED
    BY <1>3, <1>4, <2>1 DEF KeypadStep
<1>5. CASE MatrixStep
  BY <1>3, <1>5, ApplyMatrixKeyStep, SetJoystickStep, ReadRowStep DEF MatrixStep, Inputs!MatrixStep
<1>6. CASE Reset
  <2>1. /\ matrix' = [states |-> Inputs!NoKeys, pending |-> Inputs!NoKeys, dirty |-> FALSE,
                      lastRow |-> None]
        /\ joystick' = {} /\ scan' = Inputs!NoScan(Inputs!NoKeys)
    BY <1>6 DEF Reset, Inputs!ResetInputs
  <2> QED
    BY <2>1, MatrixIdle
<1> QED
  BY <1>2, <1>4, <1>5, <1>6 DEF Next

(* What one scan of the matrix reads is a keyboard that existed during it, *)
(* whatever keys change between its rows and however many rows and columns *)
(* it has: a chord is never seen torn (tec1g/io-handlers.ts:265-279).      *)
THEOREM ScansAreNotTorn == Spec => []ScanIsOneMoment
<1>1. Init => MatrixInv
  BY MatrixInitInv
<1>2. MatrixInv /\ [Next]_vars => MatrixInv'
  BY MatrixStepInv
<1>3. MatrixInv => ScanIsOneMoment
  BY MatrixFacts DEF ScanInv, ScanIsOneMoment, Inputs!ScanIsOneMoment
<1> QED
  BY <1>1, <1>2, <1>3, PTL DEF Spec

-----------------------------------------------------------------------------
\* The types of the whole board.

(* What the documented map needs a suitable image for, the types do not.   *)
MemoryTyped ==
  /\ focus \in Focuses
  /\ DOMAIN base = Memory!Location /\ DOMAIN banks = Memory!Bank
  /\ latch \in SysCtrl \cup {board.sysCtrl}

(* A write goes to a location or a bank there is, whatever the image.      *)
LEMMA MemoryTypedStep ==
  ASSUME MemoryTyped, [Next]_vars PROVE MemoryTyped'
<1>1. focus' = focus
  BY DEF vars, Next, KeypadStep, MatrixStep, CardStep, MemoryStep, ClockStep, Reset
<1>2. CASE UNCHANGED <<base, banks, latch, board>>
  BY <1>1, <1>2 DEF MemoryTyped
<1>3. CASE MemoryStep
  <2>1. ASSUME NEW l \in Memory!Location, Memory!WriteVisibleMemory(l)
        PROVE  DOMAIN base' = DOMAIN base /\ DOMAIN banks' = DOMAIN banks
    BY <2>1 DEF Memory!WriteVisibleMemory
  <2>2. ASSUME NEW l \in Memory!Location, Memory!MemWrite(l) \/ Memory!ForceMemWrite(l)
        PROVE  MemoryTyped'
    <3>1. /\ DOMAIN base' = DOMAIN base /\ DOMAIN banks' = DOMAIN banks
          /\ UNCHANGED <<latch, board>>
      BY <2>1, <2>2 DEF Memory!MemWrite, Memory!ForceMemWrite
    <3> QED
      BY <1>1, <3>1 DEF MemoryTyped
  <2>3. ASSUME NEW v \in SysCtrl, Memory!WriteSysCtrl(v) PROVE MemoryTyped'
    BY <1>1, <2>3 DEF Memory!WriteSysCtrl, MemoryTyped
  <2> QED
    BY <1>3, <2>2, <2>3 DEF MemoryStep, Memory!MemoryStep
<1>4. CASE Reset
  <2>1. Memory!ResetMemory
    BY <1>4 DEF Reset
  <2>2. DOMAIN base' = Memory!Location
    BY <2>1 DEF Memory!ResetMemory, Memory!Reloaded
  <2>3. latch' = board.sysCtrl /\ UNCHANGED <<banks, board>>
    BY <2>1 DEF Memory!ResetMemory
  <2> QED
    BY <1>1, <2>2, <2>3 DEF MemoryTyped
<1>5. CASE UNCHANGED vars \/ KeypadStep \/ MatrixStep \/ CardStep \/ ClockStep
  BY <1>2, <1>5 DEF vars, memoryVars, KeypadStep, MatrixStep, CardStep, ClockStep
<1> QED
  BY <1>3, <1>4, <1>5 DEF Next

(* Nor does it matter for them where the image has the monitor's ROM.      *)
LEMMA MemoryTypedInit == Init => MemoryTyped
<1> SUFFICES ASSUME Init PROVE MemoryTyped
  OBVIOUS
<1>1. PICK b \in Boards : Memory!MemoryInit(b)
  BY BoardAssumption DEF Init
<1>2. DOMAIN base = Memory!Location
  <2>1. DOMAIN Memory!Image = Memory!Location
    BY DEF Memory!Image
  <2> QED
    BY <1>1, <2>1 DEF Memory!MemoryInit, Memory!EnsureShadowRom
<1>3. DOMAIN banks = Memory!Bank
  BY <1>1 DEF Memory!MemoryInit, Memory!Cartridge, Memory!NoCartridge
<1>4. latch = board.sysCtrl /\ focus \in Focuses
  BY <1>1 DEF Memory!MemoryInit, Init
<1> QED
  BY <1>2, <1>3, <1>4 DEF MemoryTyped

(* The pulse that runs is the one timer there is, and has time left.       *)
LEMMA InputsTyped == ASSUME KeypadInv, MatrixInv PROVE Inputs!InputTypeOK
<1>1. key \in KeyType /\ video \in BOOLEAN /\ joystick \subseteq Col
  BY DEF KeypadInv, MatrixInv, MatrixType
<1>2. matrix \in [states : Inputs!Keyboard, pending : Inputs!Keyboard, dirty : BOOLEAN,
                  lastRow : Row \cup {None}]
  BY DEF MatrixInv, MatrixType
<1>3. due \subseteq {"key", "frame"}
  BY DEF KeypadInv, DueInv
<1>4. /\ DOMAIN timers \subseteq {key.eventId}
      /\ \A i \in DOMAIN timers : timers[i] \in 1..Hold
  <2>1. PulseInv /\ press.age \in 0..Hold /\ Hold \in Nat \ {0}
    BY KeypadFacts
  <2>2. CASE key.minPulseDone
    BY <2>1, <2>2 DEF PulseInv
  <2>3. CASE ~key.minPulseDone
    <3>1. DOMAIN timers = {key.eventId} /\ timers[key.eventId] = Hold - press.age
      BY <2>1, <2>3 DEF PulseInv
    <3>2. press.age # Hold
      BY <2>1, <2>3 DEF PulseInv
    <3>3. Hold - press.age \in 1..Hold
      BY <2>1, <3>2
    <3> QED
      BY <3>1, <3>3
  <2> QED
    BY <2>2, <2>3
<1> QED
  BY <1>1, <1>2, <1>3, <1>4 DEF Inputs!InputTypeOK, KeyType

(* A frame has six bytes, of which the card has five at most: the sixth is *)
(* acted on; and a block no more than its size.                            *)
LEMMA CardTyped == ASSUME CardInv PROVE Card!CardTypeOK
<1>1. card \in CardType /\ program \in ProgramType
      /\ InStep(card, program) /\ Phase(card, program)
  BY DEF CardInv
<1>2. card.inShift \in 0..127 /\ card.inBit \in 0..7 /\ card.outBit = card.inBit
  <2>1. card.inBit = program.bit /\ card.outBit = program.bit
        /\ card.inShift = Bits(Sent(program), program.bit) /\ program.bit \in 0..7
    BY <1>1 DEF InStep, ProgramType
  <2>2. PICK x \in ByteValue : x = Sent(program)
    <3>1. program.out \in Seq(ByteValue)
      BY <1>1 DEF ProgramType
    <3>2. CASE program.out = <<>>
      BY <3>2 DEF Sent, ByteValue
    <3>3. CASE program.out # <<>>
      BY <3>1, <3>3, HeadTailProperties DEF Sent
    <3> QED
      BY <3>2, <3>3
  <2>3. Bits(x, program.bit) \in 0..127
    <3>1. Bits(x, 7) \in 0..127 /\ \A b \in 0..6 : Bits(x, b) \in 0..127
      BY FirstBits
    <3>2. program.bit \in 0..6 \/ program.bit = 7
      BY <2>1
    <3> QED
      BY <3>1, <3>2
  <2> QED
    BY <2>1, <2>2, <2>3
<1>3. card.outShift \in 0..255 /\ card.delay \in 0..1
  BY <1>1 DEF CardType, ByteValue
<1>4. Len(card.command) < 6
  <2>1. CASE card.command = <<>>
    BY <2>1
  <2>2. CASE Commanding(card, program)
    <3>1. PICK cmd \in Commands, arg \in ByteValue :
            card.command \o program.out = Card!Frame(cmd, arg)
      BY <2>2 DEF Commanding
    <3>2. program.out # <<>>
      BY <2>2 DEF Commanding, Opening
    <3>3. card.command \in Seq(ByteValue) /\ program.out \in Seq(ByteValue)
      BY <1>1 DEF CardType, ProgramType
    <3>4. PICK frame : frame = card.command \o program.out
      OBVIOUS
    <3>5. Len(card.command) \in Nat /\ Len(program.out) \in Nat /\ Len(program.out) # 0
      BY <3>2, <3>3, EmptySeq
    <3>6. Len(frame) = Len(card.command) + Len(program.out)
      BY <3>3, <3>4, ConcatProperties
    <3>7. Len(frame) = 6
      BY <3>1, <3>4 DEF Card!Frame
    <3>8. PICK n \in Nat, m \in Nat :
            n = Len(card.command) /\ m # 0 /\ n + m = 6
      BY <3>5, <3>6, <3>7
    <3>9. n < 6
      BY <3>8
    <3> QED
      BY <3>8, <3>9
  <2> QED
    BY <1>1, <2>1, <2>2 DEF Phase, Resting, Storing, Waiting, Answering, Hearing
<1>5. card.write # None => card.write.crc \in 1..2 /\ Len(card.write.buffer) <= BlockSize
  <2>1. BlockSize \in Nat /\ None \notin Card!WriteState
    BY BoardAssumption
  <2>2. CASE card.write = None
    BY <2>2
  <2>3. CASE Storing(card, program)
    <3>1. PICK block \in CardBlock : Midway(card.write, program.out, block)
      BY <2>3 DEF Storing
    <3>2. block \in [1..BlockSize -> 0..255]
      BY BoardAssumption
    <3>3. Len(block) = BlockSize
      BY <2>1, <3>2
    <3>4. PICK w : w = card.write
      OBVIOUS
    <3>5. Midway(w, program.out, block)
      BY <3>1, <3>4
    <3>6. w.crc = 1 \/ w.crc = 2
      BY <3>5, Zenon DEF Midway
    <3>7. w.buffer = <<>> \/ w.buffer = block \/ Len(w.buffer) <= BlockSize
      BY <3>5, Zenon DEF Midway
    <3>8. Len(w.buffer) <= BlockSize
      <4>1. Len(<<>>) = 0
        OBVIOUS
      <4> QED
        BY <2>1, <3>3, <3>7, <4>1
    <3> QED
      BY <3>4, <3>6, <3>8
  <2>4. CASE Ahead(card, program)
    BY <2>1, <2>4 DEF Ahead
  <2> QED
    BY <1>1, <2>2, <2>3, <2>4 DEF Phase, Resting, Commanding, Waiting, Answering, Hearing
<1>6. Len(card.image) = ImageSize
  <2>1. card.image \in [1..ImageSize -> ByteValue] /\ ImageSize \in Nat
    BY <1>1, BoardAssumption DEF CardType
  <2> QED
    BY <2>1
<1> QED
  BY <1>2, <1>3, <1>4, <1>5, <1>6 DEF Card!CardTypeOK

(* The chip's registers have their widths, and its program is at a command *)
(* there is.                                                               *)
LEMMA ChipTyped == ASSUME ClockInv PROVE Clock!ChipTypeOK
<1>1. chip \in ChipType /\ talk \in TalkType /\ now \in Instant
  BY DEF ClockInv
<1> QED
  BY <1>1 DEF ChipType, TalkType, Mode, ByteValue, Clock!ChipTypeOK

(* The types of the whole board, for every board, key set, block size and  *)
(* pulse, from the invariants of its parts: the clock holds no event but   *)
(* the release of the pulse that runs (tec1g/runtime.ts:181-220), a card   *)
(* never has a whole frame or more than a block unprocessed                *)
(* (sd-spi.ts:146-189, 374-399), the chip's shift registers do not         *)
(* overflow (ds1302.ts:95-160).                                           *)
THEOREM BoardTypeCorrect == Spec => []TypeOK
<1>1. Spec => []KeypadInv
  <2>1. Init => KeypadInv
    BY KeypadInitInv
  <2>2. KeypadInv /\ [Next]_vars => KeypadInv'
    BY KeypadStepInv
  <2> QED
    BY <2>1, <2>2, PTL DEF Spec
<1>2. Spec => []MatrixInv
  <2>1. Init => MatrixInv
    BY MatrixInitInv
  <2>2. MatrixInv /\ [Next]_vars => MatrixInv'
    BY MatrixStepInv
  <2> QED
    BY <2>1, <2>2, PTL DEF Spec
<1>3. Spec => []MemoryTyped
  <2>1. Init => MemoryTyped
    BY MemoryTypedInit
  <2>2. MemoryTyped /\ [Next]_vars => MemoryTyped'
    BY MemoryTypedStep
  <2> QED
    BY <2>1, <2>2, PTL DEF Spec
<1>4. KeypadInv /\ MatrixInv /\ MemoryTyped /\ CardInv /\ ClockInv => TypeOK
  BY InputsTyped, CardTyped, ChipTyped DEF TypeOK, MemoryTyped, Memory!MemoryTypeOK
<1> QED
  BY <1>1, <1>2, <1>3, <1>4, CardTalks, ClockChipTalks, PTL
=============================================================================
