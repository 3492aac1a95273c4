-------------------------- MODULE Tec1gDeviceProofs --------------------------
(***************************************************************************)
(* Proofs about the devices that the TEC-1G's program talks to over lines, *)
(* a bit at a time.  The clock chip holds what was written to it and says  *)
(* what it holds, for every set of commands, bytes and moments and every   *)
(* length of a burst, wherever a transfer is cut.  The SD card answers     *)
(* every command with what it should, for every size of block and image    *)
(* and every content, wherever the select is dropped and taken again.      *)
(***************************************************************************)
EXTENDS Tec1gBoard, SequenceTheorems, TLAPS

-----------------------------------------------------------------------------
\* Bits of a byte.

(* The powers of two in a byte.                                            *)
LEMMA Powers ==
  /\ 2^0 = 1 /\ 2^1 = 2 /\ 2^2 = 4 /\ 2^3 = 8 /\ 2^4 = 16 /\ 2^5 = 32 /\ 2^6 = 64
  /\ 2^7 = 128 /\ 2^8 = 256
OBVIOUS

(* They fit a byte.                                                        *)
LEMMA PowerType == ASSUME NEW i \in 0..7 PROVE 2^i \in 1..128
<1>1. CASE i = 0
  BY <1>1, Powers
<1>2. CASE i = 1
  BY <1>2, Powers
<1>3. CASE i = 2
  BY <1>3, Powers
<1>4. CASE i = 3
  BY <1>4, Powers
<1>5. CASE i = 4
  BY <1>5, Powers
<1>6. CASE i = 5
  BY <1>6, Powers
<1>7. CASE i = 6
  BY <1>7, Powers
<1>8. CASE i = 7
  BY <1>8, Powers
<1> QED
  BY <1>1, <1>2, <1>3, <1>4, <1>5, <1>6, <1>7, <1>8

(* The low bits of a byte are those below the highest and the highest.     *)
LEMMA LowBits ==
  ASSUME NEW x \in 0..255
  PROVE  /\ x % 1 = 0
         /\ x % 2 = ((x \div 1) % 2) * 1
         /\ x % 4 = (x % 2) + ((x \div 2) % 2) * 2
         /\ x % 8 = (x % 4) + ((x \div 4) % 2) * 4
         /\ x % 16 = (x % 8) + ((x \div 8) % 2) * 8
         /\ x % 32 = (x % 16) + ((x \div 16) % 2) * 16
         /\ x % 64 = (x % 32) + ((x \div 32) % 2) * 32
         /\ x % 128 = (x % 64) + ((x \div 64) % 2) * 64
         /\ x = (x % 128) + ((x \div 128) % 2) * 128
OBVIOUS

(* A byte is put together again from its bits, the lowest first.           *)
LEMMA NextBit ==
  ASSUME NEW x \in 0..255, NEW i \in 0..7
  PROVE  /\ Clock!BitAt(x, i) \in 0..1 /\ x % 2^0 = 0
         /\ x % 2^i \in 0..127
         /\ i < 7 => (x % 2^i) + Clock!BitAt(x, i) * 2^i = x % 2^(i + 1)
         /\ i = 7 => (x % 2^i) + Clock!BitAt(x, i) * 2^i = x
<1> USE DEF Clock!BitAt
<1>0. x % 1 = 0 /\ x % 2^0 = 0
  BY LowBits, Powers
<1>1. CASE i = 0
  BY <1>0, <1>1, Powers, LowBits
<1>2. CASE i = 1
  BY <1>0, <1>2, Powers, LowBits
<1>3. CASE i = 2
  BY <1>0, <1>3, Powers, LowBits
<1>4. CASE i = 3
  BY <1>0, <1>4, Powers, LowBits
<1>5. CASE i = 4
  BY <1>0, <1>5, Powers, LowBits
<1>6. CASE i = 5
  BY <1>0, <1>6, Powers, LowBits
<1>7. CASE i = 6
  BY <1>0, <1>7, Powers, LowBits
<1>8. CASE i = 7
  BY <1>0, <1>8, Powers, LowBits
<1> QED
  BY <1>1, <1>2, <1>3, <1>4, <1>5, <1>6, <1>7, <1>8

-----------------------------------------------------------------------------
\* The clock chip.

ByteValue == 0..255
Mode == {"idle", "command", "read", "write"}

ChipType ==
  [registers : [0..31 -> ByteValue], ram : [0..31 -> ByteValue],
   ce : BOOLEAN, clk : BOOLEAN, ioOut : 0..1, mode : Mode,
   bitIndex : 0..7, command : ByteValue, address : 0..63, dataShift : ByteValue,
   burst : BOOLEAN, timeFrozen : BOOLEAN]

Data == {<<>>} \cup [1..1 -> ByteValue] \cup [1..MaxBurst -> ByteValue]

TalkType ==
  [command : ChipCommand \cup {None}, data : Data, bits : Nat, heard : Int, low : BOOLEAN,
   memory : [0..63 -> ByteValue], timeSet : BOOLEAN, mustDrop : BOOLEAN, ok : BOOLEAN]

(* The chip holds what it should.                                          *)
Holds(c, t) ==
  /\ \A r \in 0..31 : c.registers[r] = t.memory[r] /\ c.ram[r] = t.memory[32 + r]
  /\ t.timeSet = c.timeFrozen

(* Where the chip is in a transfer is where the program is: a command that *)
(* is begun, n bits of it; then byte k of the data, p bits of that.        *)
InCommand(c, cmd, n) ==
  c.mode = "command" /\ c.bitIndex = n /\ c.command = cmd % 2^n

InData(c, t, cmd, k, p) ==
  /\ c.bitIndex = p /\ c.burst = Clock!IsBurst(cmd) /\ c.command = 0
  /\ c.address = Clock!AddressOf(cmd) + k - 1
  /\ IF Clock!Reads(cmd)
       THEN /\ c.mode = "read" /\ c.dataShift = t.memory[c.address]
            /\ t.heard = c.dataShift % 2^p
       ELSE c.mode = "write" /\ c.dataShift = t.data[k] % 2^p

Ready(c) == c.ce => c.mode = "command" /\ c.bitIndex = 0 /\ c.command = 0

Transfer(c, t) ==
  /\ ~t.mustDrop /\ t.command \in ChipCommand
  /\ t.bits < 8 + 8 * Clock!Bytes(t.command)
  /\ t.data \in IF Clock!Reads(t.command) THEN {<<>>}
                ELSE [1..Clock!Bytes(t.command) -> ByteValue]
  /\ t.bits > 0 \/ t.low => c.ce
  /\ t.low => ~c.clk
  /\ t.bits < 8 /\ c.ce => InCommand(c, t.command, t.bits)
  /\ t.bits >= 8 => InData(c, t, t.command, t.bits \div 8, t.bits % 8)

Idle(c, t) == t.bits = 0 /\ ~t.low /\ (~t.mustDrop => Ready(c))

ClockInv ==
  /\ chip \in ChipType /\ talk \in TalkType /\ now \in Instant /\ talk.ok
  /\ Holds(chip, talk)
  /\ talk.command # None => Transfer(chip, talk)
  /\ talk.command = None => Idle(chip, talk)

(* No bits of a byte are zero.                                             *)
LEMMA NoBits == ASSUME NEW x \in ByteValue PROVE x % 2^0 = 0
<1>1. x \in 0..255 /\ 0 \in 0..7
  BY DEF ByteValue
<1> QED
  BY <1>1, NextBit

(* Where a command's data begins, and that its bytes stay in one of the    *)
(* two memories.                                                           *)
LEMMA CommandAddress ==
  ASSUME NEW cmd \in ChipCommand
  PROVE  /\ cmd \in 128..255
         /\ Clock!Bytes(cmd) \in 1..7 /\ Clock!IsBurst(cmd) \in BOOLEAN
         /\ Clock!Bytes(cmd) \in {1, MaxBurst}
         /\ ~Clock!IsBurst(cmd) => Clock!Bytes(cmd) = 1
         /\ Clock!AddressOf(cmd) \in 0..63
         /\ Clock!IsBurst(cmd) => Clock!AddressOf(cmd) \in {0, 32}
<1>1. cmd \in 128..255 /\ MaxBurst \in 1..7
  BY BoardAssumption
<1>2. cmd \div 2 \in 64..127
  BY <1>1
<1> DEFINE half == cmd \div 2
<1> HIDE DEF half
<1>3. half \in 64..127
  BY <1>2 DEF half
<1>4. half % 64 \in 0..63
  BY <1>3
<1>5. /\ Clock!IsBurst(cmd) <=> half \in {95, 127}
      /\ Clock!IsBurst(cmd) \in BOOLEAN
      /\ Clock!AddressOf(cmd) = IF half = 95 THEN 0 ELSE IF half = 127 THEN 32 ELSE half % 64
  BY DEF Clock!IsBurst, Clock!AddressOf, Clock!RamOffset, half
<1> QED
  BY <1>1, <1>3, <1>4, <1>5 DEF Clock!Bytes

ChipOf(registers, ram, frozen, ce, clk, out, mode, i, command, address, shift, burst) ==
  [registers |-> registers, ram |-> ram, ce |-> ce, clk |-> clk, ioOut |-> out, mode |-> mode,
   bitIndex |-> i, command |-> command, address |-> address, dataShift |-> shift,
   burst |-> burst, timeFrozen |-> frozen]

TalkOf(command, data, bits, heard, low, memory, timeSet, mustDrop, ok) ==
  [command |-> command, data |-> data, bits |-> bits, heard |-> heard, low |-> low,
   memory |-> memory, timeSet |-> timeSet, mustDrop |-> mustDrop, ok |-> ok]

(* The values the chip starts from have their types.                       *)
LEMMA ChipValues ==
  /\ 0 \in ByteValue /\ 0 \in 0..7 /\ 0 \in 0..63 /\ 0 \in 0..1 /\ 1 \in 0..1
  /\ "idle" \in Mode /\ "command" \in Mode /\ "read" \in Mode /\ "write" \in Mode
  /\ TRUE \in BOOLEAN /\ FALSE \in BOOLEAN
  /\ <<>> \in Data
BY DEF ByteValue, Mode, Data

(* A program that is between commands.                                     *)
LEMMA TalkOver ==
  ASSUME NEW heard \in Int, NEW memory \in [0..63 -> ByteValue], NEW timeSet \in BOOLEAN,
         NEW mustDrop \in BOOLEAN, NEW ok \in BOOLEAN
  PROVE  TalkOf(None, <<>>, 0, heard, FALSE, memory, timeSet, mustDrop, ok) \in TalkType
<1>1. PICK data \in Data : data = <<>>
  BY ChipValues
<1>2. TalkOf(None, data, 0, heard, FALSE, memory, timeSet, mustDrop, ok) \in TalkType
  BY ChipValues DEF TalkOf, TalkType
<1> QED
  BY <1>1, <1>2

(* The chip and the program, field by field.                               *)
LEMMA ClockFacts ==
  ASSUME ClockInv
  PROVE  /\ chip = ChipOf(chip.registers, chip.ram, chip.timeFrozen, chip.ce, chip.clk,
                          chip.ioOut, chip.mode, chip.bitIndex, chip.command, chip.address,
                          chip.dataShift, chip.burst)
         /\ chip.registers \in [0..31 -> ByteValue] /\ chip.ram \in [0..31 -> ByteValue]
         /\ chip.ce \in BOOLEAN /\ chip.clk \in BOOLEAN /\ chip.ioOut \in 0..1
         /\ chip.mode \in Mode /\ chip.bitIndex \in 0..7 /\ chip.command \in ByteValue
         /\ chip.address \in 0..63 /\ chip.dataShift \in ByteValue
         /\ chip.burst \in BOOLEAN /\ chip.timeFrozen \in BOOLEAN
         /\ talk = TalkOf(talk.command, talk.data, talk.bits, talk.heard, talk.low, talk.memory,
                          talk.timeSet, talk.mustDrop, talk.ok)
         /\ talk.command \in ChipCommand \cup {None} /\ talk.data \in Data /\ talk.bits \in Nat
         /\ talk.heard \in Int /\ talk.low \in BOOLEAN /\ talk.memory \in [0..63 -> ByteValue]
         /\ talk.timeSet \in BOOLEAN /\ talk.mustDrop \in BOOLEAN /\ talk.ok = TRUE /\ talk.ok \in BOOLEAN
         /\ now \in Instant /\ Holds(chip, talk)
<1>1. chip \in ChipType /\ talk \in TalkType /\ now \in Instant /\ talk.ok /\ Holds(chip, talk)
  BY DEF ClockInv
<1>2. talk.ok = TRUE
  BY <1>1 DEF TalkType
<1> QED
  BY <1>1, <1>2 DEF ChipType, TalkType, ChipOf, TalkOf

(* The invariant holds of an idle chip.                                    *)
LEMMA ClockInitInv == Init => ClockInv
<1> SUFFICES ASSUME Init PROVE ClockInv
  OBVIOUS
<1>1. chip = Clock!IdleChip /\ now \in Instant /\ talk = Clock!IdleTalk
  BY DEF Init, Clock!ChipInit
<1>2. chip \in ChipType
  BY <1>1 DEF ChipType, Clock!IdleChip, Clock!Registers, Clock!RamSize, ByteValue, Mode
<1>3. <<>> \in Data
  BY DEF Data
<1>4. talk \in TalkType
  BY <1>1, <1>3 DEF TalkType, Clock!IdleTalk, ByteValue
<1>5. Holds(chip, talk) /\ Idle(chip, talk) /\ talk.ok /\ talk.command = None
  BY <1>1 DEF Holds, Idle, Clock!IdleChip, Clock!IdleTalk, Clock!Registers, Clock!RamSize
<1> QED
  BY <1>1, <1>2, <1>4, <1>5 DEF ClockInv

(* Beginning a command touches the program only.                           *)
LEMMA SendCommandStep ==
  ASSUME ClockInv, NEW cmd \in ChipCommand,
         NEW data \in IF Clock!Reads(cmd) THEN {<<>>} ELSE [1..Clock!Bytes(cmd) -> ChipByte],
         Clock!SendCommand(cmd, data)
  PROVE  ClockInv'
<1>1. /\ talk.command = None /\ ~talk.mustDrop /\ UNCHANGED <<chip, now>>
      /\ talk' = TalkOf(cmd, data, talk.bits, talk.heard, talk.low, talk.memory, talk.timeSet,
                        talk.mustDrop, talk.ok)
  BY ClockFacts DEF Clock!SendCommand, TalkOf
<1>2. talk.bits = 0 /\ ~talk.low /\ Ready(chip)
  BY <1>1 DEF ClockInv, Idle
<1>3. data \in Data /\ data \in IF Clock!Reads(cmd) THEN {<<>>}
                                ELSE [1..Clock!Bytes(cmd) -> ByteValue]
  <2>1. ChipByte \subseteq ByteValue
    BY BoardAssumption DEF ByteValue
  <2>2. Clock!Bytes(cmd) \in {1, MaxBurst}
    BY CommandAddress
  <2>3. CASE Clock!Reads(cmd)
    BY <2>3 DEF Data
  <2>4. CASE ~Clock!Reads(cmd)
    <3>1. data \in [1..Clock!Bytes(cmd) -> ByteValue]
      BY <2>1, <2>4
    <3> QED
      BY <2>2, <2>4, <3>1 DEF Data
  <2> QED
    BY <2>3, <2>4
<1>4. /\ talk' \in TalkType /\ talk'.command = cmd /\ talk'.data = data /\ talk'.bits = 0
      /\ ~talk'.low /\ talk'.memory = talk.memory /\ talk'.timeSet = talk.timeSet
      /\ ~talk'.mustDrop /\ talk'.ok
  <2>1. talk' \in TalkType
    BY <1>1, <1>2, <1>3, ClockFacts, ChipValues DEF TalkOf, TalkType
  <2> QED
    BY <2>1, <1>1, <1>2, <1>3, ClockFacts DEF TalkOf
<1>5. chip' \in ChipType /\ now' \in Instant
  BY <1>1 DEF ClockInv
<1>6. Holds(chip', talk')
  BY <1>1, <1>4, ClockFacts DEF Holds
<1>7. chip'.ce => InCommand(chip', cmd, 0)
  <2>1. cmd \in 128..255
    BY CommandAddress
  <2>2. cmd % 2^0 = 0
    BY <2>1, Powers
  <2> QED
    BY <1>1, <1>2, <2>2 DEF Ready, InCommand
<1>8. Transfer(chip', talk')
  <2>1. 0 < 8 + 8 * Clock!Bytes(cmd)
    BY CommandAddress
  <2> QED
    BY <1>3, <1>4, <1>7, <2>1 DEF Transfer
<1>9. talk'.command = None => Idle(chip', talk')
  BY <1>1, <1>2, <1>4 DEF Idle
<1> QED
  BY <1>4, <1>5, <1>6, <1>8, <1>9 DEF ClockInv

(* Lowering the clock moves no bit.                                        *)
LEMMA LowerClockStep ==
  ASSUME ClockInv, Clock!LowerClock PROVE ClockInv'
<1>1. /\ talk.command # None /\ now' = now
      /\ chip' = Clock!WritePort(chip, TRUE, FALSE, Clock!DataOut, now)
      /\ talk' = TalkOf(talk.command, talk.data, talk.bits, talk.heard, TRUE, talk.memory,
                        talk.timeSet, talk.mustDrop, talk.ok)
  BY ClockFacts DEF Clock!LowerClock, TalkOf
<1>2. Transfer(chip, talk)
  BY <1>1 DEF ClockInv
<1>3. /\ talk' \in TalkType /\ talk'.command = talk.command /\ talk'.data = talk.data
      /\ talk'.bits = talk.bits /\ talk'.low /\ talk'.memory = talk.memory
      /\ talk'.timeSet = talk.timeSet /\ talk'.mustDrop = talk.mustDrop /\ talk'.ok
      /\ talk'.heard = talk.heard
  <2>1. talk' \in TalkType
    BY <1>1, ClockFacts, ChipValues DEF TalkOf, TalkType
  <2> QED
    BY <2>1, <1>1, ClockFacts DEF TalkOf
<1>4. CASE chip.ce
  <2>1. chip' = ChipOf(chip.registers, chip.ram, chip.timeFrozen, TRUE, FALSE, chip.ioOut,
                       chip.mode, chip.bitIndex, chip.command, chip.address, chip.dataShift,
                       chip.burst)
    BY <1>1, <1>4, ClockFacts DEF Clock!WritePort, ChipOf
  <2>2. /\ chip' \in ChipType /\ chip'.registers = chip.registers /\ chip'.ram = chip.ram
        /\ chip'.timeFrozen = chip.timeFrozen /\ chip'.ce /\ ~chip'.clk
        /\ chip'.mode = chip.mode /\ chip'.bitIndex = chip.bitIndex
        /\ chip'.command = chip.command /\ chip'.address = chip.address
        /\ chip'.dataShift = chip.dataShift /\ chip'.burst = chip.burst
    <3>1. chip' \in ChipType
      BY <2>1, ClockFacts, ChipValues DEF ChipOf, ChipType
    <3> QED
      BY <3>1, <2>1, ClockFacts DEF ChipOf
  <2>3. Holds(chip', talk')
    BY <1>3, <2>2, ClockFacts DEF Holds
  <2>4. Transfer(chip', talk')
    BY <1>2, <1>3, <1>4, <2>2 DEF Transfer, InCommand, InData
  <2> QED
    BY <1>1, <1>3, <2>2, <2>3, <2>4, ClockFacts DEF ClockInv
<1>5. CASE ~chip.ce
  <2>1. chip' = ChipOf(chip.registers, chip.ram, chip.timeFrozen, TRUE, FALSE, 1, "command",
                       0, 0, 0, 0, chip.burst)
    BY <1>1, <1>5, ClockFacts DEF Clock!WritePort, Clock!BeginTransaction,
       Clock!ResetTransaction, ChipOf
  <2>2. /\ chip' \in ChipType /\ chip'.registers = chip.registers /\ chip'.ram = chip.ram
        /\ chip'.timeFrozen = chip.timeFrozen /\ chip'.ce /\ ~chip'.clk
        /\ chip'.mode = "command" /\ chip'.bitIndex = 0 /\ chip'.command = 0
    <3>1. chip' \in ChipType
      BY <2>1, ClockFacts, ChipValues DEF ChipOf, ChipType
    <3> QED
      BY <3>1, <2>1, ClockFacts DEF ChipOf
  <2>3. Holds(chip', talk')
    BY <1>3, <2>2, ClockFacts DEF Holds
  <2>4. talk.bits = 0 /\ talk.command \in ChipCommand
    <3>1. ~(talk.bits > 0) /\ talk.command \in ChipCommand
      BY <1>2, <1>5 DEF Transfer
    <3>2. talk.bits \in Nat
      BY ClockFacts
    <3> QED
      BY <3>1, <3>2
  <2>5. talk.command \in 128..255
    BY <2>4, CommandAddress
  <2>6. InCommand(chip', talk.command, 0)
    <3>1. talk.command % 2^0 = 0
      BY <2>5, Powers
    <3> QED
      BY <2>2, <3>1 DEF InCommand
  <2>7. Transfer(chip', talk')
    BY <1>2, <1>3, <2>2, <2>4, <2>6 DEF Transfer
  <2> QED
    BY <1>1, <1>3, <2>2, <2>3, <2>7, ClockFacts DEF ClockInv
<1> QED
  BY <1>4, <1>5, ClockFacts

(* The enable drops, or the program restarts, or time passes.              *)
LEMMA DisableStep ==
  ASSUME ClockInv, Clock!Disable \/ Clock!ResetChipProgram \/ Clock!TimePasses
  PROVE  ClockInv'
<1>1. CASE Clock!Disable
  <2>1. PICK clk \in BOOLEAN : chip' = Clock!WritePort(chip, FALSE, clk, 1, now)
    BY <1>1 DEF Clock!Disable
  <2>2. /\ now' = now
        /\ talk' = TalkOf(None, <<>>, 0, 0, FALSE, talk.memory, talk.timeSet, FALSE, talk.ok)
    BY <1>1, ClockFacts DEF Clock!Disable, TalkOf
  <2>3. chip' = ChipOf(chip.registers, chip.ram, chip.timeFrozen, FALSE, clk, 1, "idle",
                       0, 0, 0, 0, chip.burst)
    BY <2>1, ClockFacts DEF Clock!WritePort, Clock!ResetTransaction, ChipOf
  <2>4. /\ chip' \in ChipType /\ chip'.registers = chip.registers /\ chip'.ram = chip.ram
        /\ chip'.timeFrozen = chip.timeFrozen /\ ~chip'.ce
    <3>1. chip' \in ChipType
      BY <2>3, ClockFacts, ChipValues DEF ChipOf, ChipType
    <3> QED
      BY <3>1, <2>3, ClockFacts DEF ChipOf
  <2>5. /\ talk' \in TalkType /\ talk'.ok /\ talk'.command = None /\ talk'.bits = 0 /\ ~talk'.low
        /\ talk'.memory = talk.memory /\ talk'.timeSet = talk.timeSet
    <3>1. talk' \in TalkType
      <4>1. talk.memory \in [0..63 -> ByteValue] /\ talk.timeSet \in BOOLEAN
            /\ talk.ok \in BOOLEAN
        BY ClockFacts
      <4>2. 0 \in Int
        OBVIOUS
      <4> QED
        BY <2>2, <4>1, <4>2, ChipValues, TalkOver, Zenon
    <3> QED
      BY <3>1, <2>2, ClockFacts DEF TalkOf
  <2>6. Holds(chip', talk')
    BY <2>4, <2>5, ClockFacts DEF Holds
  <2>7. Idle(chip', talk')
    BY <2>4, <2>5 DEF Idle, Ready
  <2> QED
    BY <2>2, <2>4, <2>5, <2>6, <2>7, ClockFacts DEF ClockInv
<1>2. CASE Clock!ResetChipProgram
  <2>1. /\ talk' = TalkOf(None, <<>>, 0, 0, FALSE, talk.memory, talk.timeSet, TRUE, talk.ok)
        /\ UNCHANGED <<chip, now>>
    BY <1>2, ClockFacts DEF Clock!ResetChipProgram, TalkOf
  <2>2. /\ talk' \in TalkType /\ talk'.ok /\ talk'.command = None /\ talk'.bits = 0 /\ ~talk'.low
        /\ talk'.memory = talk.memory /\ talk'.timeSet = talk.timeSet /\ talk'.mustDrop
    <3>1. talk' \in TalkType
      <4>1. talk.memory \in [0..63 -> ByteValue] /\ talk.timeSet \in BOOLEAN
            /\ talk.ok \in BOOLEAN
        BY ClockFacts
      <4>2. 0 \in Int
        OBVIOUS
      <4> QED
        BY <2>1, <4>1, <4>2, ChipValues, TalkOver, Zenon
    <3> QED
      BY <3>1, <2>1, ClockFacts DEF TalkOf
  <2>3. Holds(chip', talk')
    <3>1. chip' = chip
      BY <2>1
    <3> QED
      BY <2>2, <3>1, ClockFacts DEF Holds
  <2>4. chip' \in ChipType /\ now' \in Instant
    BY <2>1 DEF ClockInv
  <2>5. Idle(chip', talk')
    BY <2>2 DEF Idle
  <2> QED
    BY <2>2, <2>3, <2>4, <2>5 DEF ClockInv
<1>3. CASE Clock!TimePasses
  <2>1. now' \in Instant /\ UNCHANGED <<chip, talk>>
    BY <1>3 DEF Clock!TimePasses
  <2> QED
    BY <2>1 DEF ClockInv
<1> QED
  BY <1>1, <1>2, <1>3

(* The clock line rises: what the chip does with the bit, and what the     *)
(* program notes.                                                          *)
Heard == talk.heard + chip'.ioOut * 2^(talk.bits % 8)

TalkWith(heard) ==
  TalkOf(talk.command, talk.data, talk.bits, heard, FALSE, talk.memory, talk.timeSet,
         talk.mustDrop, talk.ok)

(* What raising the clock does to the chip and to the program.             *)
LEMMA RaiseFacts ==
  ASSUME ClockInv, Clock!RaiseClock
  PROVE  /\ Transfer(chip, talk) /\ talk.command \in ChipCommand /\ chip.ce /\ ~chip.clk
         /\ ~talk.mustDrop /\ talk.command # None
         /\ now' = now
         /\ chip' = [Clock!HandleClockRise(chip, Clock!DataOut, now) EXCEPT !.ce = TRUE,
                                                                            !.clk = TRUE]
         /\ talk.bits % 8 < 7 => talk' = Clock!Advanced(TalkWith(Heard))
         /\ ~(talk.bits % 8 < 7) =>
              talk' = Clock!Advanced(Clock!ByteThrough(TalkWith(0), Heard))
<1>1. talk.low
  BY DEF Clock!RaiseClock
<1>2. talk.command # None
  BY <1>1 DEF ClockInv, Idle
<1>3. Transfer(chip, talk)
  BY <1>2 DEF ClockInv
<1>4. chip.ce /\ ~chip.clk /\ ~talk.mustDrop /\ talk.command \in ChipCommand
  BY <1>1, <1>3 DEF Transfer
<1>5. chip' = Clock!WritePort(chip, TRUE, TRUE, Clock!DataOut, now) /\ now' = now
  BY DEF Clock!RaiseClock
<1>6. chip' = [Clock!HandleClockRise(chip, Clock!DataOut, now) EXCEPT !.ce = TRUE, !.clk = TRUE]
  BY <1>4, <1>5 DEF Clock!WritePort
<1>7. ASSUME NEW h, NEW t, t = [talk EXCEPT !.low = FALSE, !.heard = h] PROVE t = TalkWith(h)
  BY <1>7, ClockFacts DEF TalkOf, TalkWith
<1>8. talk' = IF talk.bits % 8 < 7
              THEN Clock!Advanced([talk EXCEPT !.low = FALSE, !.heard = Heard])
              ELSE Clock!Advanced(Clock!ByteThrough([talk EXCEPT !.low = FALSE, !.heard = 0],
                                                    Heard))
  BY DEF Clock!RaiseClock, Heard
<1> QED
  BY <1>2, <1>3, <1>4, <1>5, <1>6, <1>7, <1>8

(* Where the next bit of a transfer falls.                                 *)
LEMMA BitPlace ==
  ASSUME NEW n \in Nat
  PROVE  /\ n < 7 => n % 8 = n /\ n \div 8 = 0
         /\ n = 7 => n % 8 = 7 /\ n \div 8 = 0
         /\ n % 8 \in 0..7 /\ n \div 8 \in Nat /\ n = 8 * (n \div 8) + (n % 8)
         /\ n >= 8 => n \div 8 >= 1
         /\ n % 8 < 7 => (n + 1) % 8 = (n % 8) + 1 /\ (n + 1) \div 8 = n \div 8
         /\ n % 8 = 7 => (n + 1) % 8 = 0 /\ (n + 1) \div 8 = n \div 8 + 1
OBVIOUS

(* A register read holds what the program knows is in it.                  *)
LEMMA ReadsMemory ==
  ASSUME NEW c, NEW t, Holds(c, t), NEW a \in 0..63
  PROVE  Clock!ReadRegister(c, a) = t.memory[a]
<1>1. CASE a \in 0..31
  BY <1>1 DEF Holds, Clock!ReadRegister, Clock!IsRam, Clock!RamOffset, Clock!RamSize
<1>2. CASE a \notin 0..31
  <2>1. a - 32 \in 0..31 /\ 32 + (a - 32) = a
    BY <1>2
  <2>2. c.ram[a - 32] = t.memory[a]
    BY <2>1 DEF Holds
  <2> QED
    BY <1>2, <2>2 DEF Clock!ReadRegister, Clock!IsRam, Clock!RamOffset, Clock!RamSize
<1> QED
  BY <1>1, <1>2

(* A bit of the command.                                                   *)
LEMMA CommandBitStep ==
  ASSUME ClockInv, Clock!RaiseClock, talk.bits < 7 PROVE ClockInv'
<1>a. talk.bits \in 0..6
  BY ClockFacts
<1>b. PICK n \in 0..6 : n = talk.bits
  BY <1>a
<1>c. PICK cmd \in ChipCommand : cmd = talk.command
  BY RaiseFacts
<1>1. n % 8 = n /\ n % 8 < 7 /\ n \in 0..7 /\ n + 1 \in 0..7 /\ n \in Nat /\ n + 1 \in Nat
  BY BitPlace
<1>2. cmd \in 0..255 /\ Clock!Bytes(cmd) \in 1..7
  <2>1. cmd \in 128..255 /\ Clock!Bytes(cmd) \in 1..7
    BY CommandAddress
  <2> QED
    BY <2>1
<1>n. 2^n \in 1..128
  BY <1>1, PowerType
<1>3. chip.mode = "command" /\ chip.bitIndex = n /\ chip.command = cmd % 2^n
  <2>1. chip.ce /\ Transfer(chip, talk) /\ talk.bits < 8
    BY <1>b, RaiseFacts
  <2> QED
    BY <1>b, <1>c, <2>1 DEF Transfer, InCommand
<1>4. Clock!DataOut = Clock!BitAt(cmd, n)
  BY <1>b, <1>c DEF Clock!DataOut
<1>5. (cmd % 2^n) + Clock!BitAt(cmd, n) * 2^n = cmd % 2^(n + 1)
  BY <1>1, <1>2, NextBit
<1>6. cmd % 2^(n + 1) \in ByteValue
  <2>1. cmd % 2^(n + 1) \in 0..127
    BY <1>1, <1>2, NextBit
  <2> QED
    BY <2>1 DEF ByteValue
<1>7. chip' = ChipOf(chip.registers, chip.ram, chip.timeFrozen, TRUE, TRUE, chip.ioOut, "command",
                     n + 1, cmd % 2^(n + 1), chip.address, chip.dataShift, chip.burst)
  <2>1. Clock!HandleClockRise(chip, Clock!DataOut, now)
          = [chip EXCEPT !.command = cmd % 2^(n + 1), !.bitIndex = @ + 1]
    BY <1>1, <1>3, <1>4, <1>5 DEF Clock!HandleClockRise, Clock!CommandBit
  <2>2. chip' = [Clock!HandleClockRise(chip, Clock!DataOut, now) EXCEPT !.ce = TRUE, !.clk = TRUE]
    BY RaiseFacts
  <2> QED
    BY <1>1, <1>3, <2>1, <2>2, ClockFacts, ZenonT(40) DEF ChipOf
<1>8. chip' \in ChipType
  BY <1>1, <1>6, <1>7, ClockFacts, ChipValues DEF ChipOf, ChipType
<1>9. chip'.ioOut \in 0..1 /\ Heard \in Int
  <2>1. chip'.ioOut \in 0..1
    BY <1>8 DEF ChipType
  <2>2. Heard = talk.heard + chip'.ioOut * 2^n /\ talk.heard \in Int
    BY <1>1, <1>b, ClockFacts DEF Heard
  <2> QED
    BY <1>n, <2>1, <2>2
<1>10. talk' = TalkOf(cmd, talk.data, n + 1, Heard, FALSE, talk.memory, talk.timeSet,
                      talk.mustDrop, talk.ok)
  <2>1. talk' = Clock!Advanced(TalkWith(Heard))
    BY <1>1, <1>b, RaiseFacts
  <2>2. n + 1 < 8 + 8 * Clock!Bytes(cmd)
    BY <1>1, <1>2
  <2> QED
    BY <1>b, <1>c, <2>1, <2>2 DEF Clock!Advanced, TalkWith, TalkOf
<1>11. talk' \in TalkType
  BY <1>1, <1>9, <1>10, ClockFacts, ChipValues DEF TalkOf, TalkType
<1>12. Holds(chip', talk')
  BY <1>7, <1>10, ClockFacts DEF Holds, ChipOf, TalkOf
<1>13. Transfer(chip', talk')
  <2>1. InCommand(chip', cmd, n + 1) /\ chip'.ce
    BY <1>7 DEF InCommand, ChipOf
  <2>2. /\ talk'.command = cmd /\ talk'.bits = n + 1 /\ ~talk'.low /\ talk'.data = talk.data
        /\ ~talk'.mustDrop
    BY <1>10, RaiseFacts DEF TalkOf
  <2>3. n + 1 < 8 /\ n + 1 < 8 + 8 * Clock!Bytes(cmd)
    BY <1>1, <1>2
  <2> QED
    BY <1>1, <1>2, <1>b, <1>c, <2>1, <2>2, <2>3, RaiseFacts DEF Transfer
<1>14. talk'.command # None /\ talk'.ok
  BY <1>10, <1>c, RaiseFacts, ClockFacts DEF TalkOf
<1> QED
  BY <1>8, <1>11, <1>12, <1>13, <1>14, RaiseFacts, ClockFacts DEF ClockInv

(* The registers as a command to read the clock leaves them, and what they *)
(* should then be.                                                         *)
Refreshed(c) == Clock!RefreshTimeRegisters(c, now).registers

Known(t) ==
  IF t.timeSet THEN t.memory
  ELSE [a \in 0..63 |-> IF a \in 0..6 THEN now[a] ELSE t.memory[a]]

(* The registers a command finds are the time, or what was written.        *)
LEMMA RefreshHolds ==
  ASSUME ClockInv
  PROVE  /\ Refreshed(chip) \in [0..31 -> ByteValue] /\ Known(talk) \in [0..63 -> ByteValue]
         /\ \A r \in 0..31 : /\ Refreshed(chip)[r] = Known(talk)[r]
                             /\ chip.ram[r] = Known(talk)[32 + r]
<1>1. now \in [0..6 -> ByteValue]
  BY ClockFacts, BoardAssumption DEF ByteValue
<1>2. /\ talk.timeSet = chip.timeFrozen
      /\ \A r \in 0..31 : chip.registers[r] = talk.memory[r] /\ chip.ram[r] = talk.memory[32 + r]
  BY ClockFacts DEF Holds
<1>3. CASE chip.timeFrozen
  <2>1. Refreshed(chip) = chip.registers /\ Known(talk) = talk.memory
    BY <1>2, <1>3 DEF Refreshed, Known, Clock!RefreshTimeRegisters
  <2> QED
    BY <1>2, <2>1, ClockFacts
<1>4. CASE ~chip.timeFrozen
  <2>1. Refreshed(chip) = [r \in 0..31 |-> IF r \in 0..6 THEN now[r] ELSE chip.registers[r]]
    BY <1>4, ClockFacts DEF Refreshed, Clock!RefreshTimeRegisters, Clock!Registers,
       Clock!TimeRegister, ChipOf
  <2>2. Known(talk) = [a \in 0..63 |-> IF a \in 0..6 THEN now[a] ELSE talk.memory[a]]
    BY <1>2, <1>4 DEF Known
  <2>3. \A r \in 0..31 : 32 + r \in 0..63 /\ 32 + r \notin 0..6 /\ r \in 0..63
    OBVIOUS
  <2>4. Refreshed(chip) \in [0..31 -> ByteValue]
    BY <1>1, <2>1, ClockFacts
  <2>5. Known(talk) \in [0..63 -> ByteValue]
    BY <1>1, <2>2, ClockFacts
  <2> QED
    BY <1>2, <2>1, <2>2, <2>3, <2>4, <2>5, SMTT(30)
<1> QED
  BY <1>3, <1>4

(* The last bit of the command.                                            *)
LEMMA CommandEndStep ==
  ASSUME ClockInv, Clock!RaiseClock, talk.bits = 7 PROVE ClockInv'
<1>c. PICK cmd \in ChipCommand : cmd = talk.command
  BY RaiseFacts
<1>1. talk.bits % 8 = 7 /\ ~(talk.bits % 8 < 7) /\ talk.bits \div 8 = 0 /\ talk.bits + 1 = 8
  OBVIOUS
<1>2. cmd \in 0..255 /\ Clock!Bytes(cmd) \in 1..7 /\ Clock!IsBurst(cmd) \in BOOLEAN
      /\ Clock!AddressOf(cmd) \in 0..63
  <2>1. cmd \in 128..255 /\ Clock!Bytes(cmd) \in 1..7 /\ Clock!IsBurst(cmd) \in BOOLEAN
        /\ Clock!AddressOf(cmd) \in 0..63
    BY CommandAddress
  <2> QED
    BY <2>1
<1>3. chip.mode = "command" /\ chip.bitIndex = 7 /\ chip.command = cmd % 2^7
  <2>1. chip.ce /\ Transfer(chip, talk) /\ talk.bits < 8
    BY RaiseFacts
  <2> QED
    BY <1>c, <2>1 DEF Transfer, InCommand
<1>4. Clock!DataOut = Clock!BitAt(cmd, 7)
  BY <1>c DEF Clock!DataOut
<1>5. (cmd % 2^7) + Clock!BitAt(cmd, 7) * 2^7 = cmd
  BY <1>2, NextBit
<1>6. chip' = [Clock!TakeCommand(chip, cmd, now) EXCEPT !.ce = TRUE, !.clk = TRUE]
  <2>1. Clock!HandleClockRise(chip, Clock!DataOut, now) = Clock!TakeCommand(chip, cmd, now)
    BY <1>3, <1>4, <1>5 DEF Clock!HandleClockRise, Clock!CommandBit
  <2> QED
    BY <2>1, RaiseFacts
<1>7. talk' = Clock!Advanced(Clock!ByteThrough(TalkWith(0), Heard)) /\ 8 < 8 + 8 * Clock!Bytes(cmd)
  BY <1>1, <1>2, RaiseFacts
<1>8. \A x \in ByteValue : x % 2^0 = 0
  BY NextBit DEF ByteValue
<1>9. CASE Clock!Reads(cmd)
  <2>1. Refreshed(chip) \in [0..31 -> ByteValue] /\ Known(talk) \in [0..63 -> ByteValue]
    BY RefreshHolds
  <2>2. PICK regs \in [0..31 -> ByteValue] : regs = Refreshed(chip)
    BY <2>1
  <2>3. PICK memory \in [0..63 -> ByteValue] : memory = Known(talk)
    BY <2>1
  <2>4. PICK addr \in 0..63 : addr = Clock!AddressOf(cmd)
    BY <1>2
  <2>5. PICK burst \in BOOLEAN : burst = Clock!IsBurst(cmd)
    BY <1>2
  <2>6. PICK shift : shift = IF addr \in 32..63 THEN chip.ram[addr - 32] ELSE regs[addr]
    OBVIOUS
  <2>7. chip' = ChipOf(regs, chip.ram, chip.timeFrozen, TRUE, TRUE, chip.ioOut, "read", 0, 0, addr,
                       shift, burst)
    <3>1. cmd % 2 = 1
      BY <1>9 DEF Clock!Reads
    <3>2. PICK taken : taken = [chip EXCEPT !.address = addr, !.burst = burst, !.bitIndex = 0,
                                            !.dataShift = 0, !.command = 0]
      OBVIOUS
    <3>3. taken = ChipOf(chip.registers, chip.ram, chip.timeFrozen, chip.ce, chip.clk, chip.ioOut,
                         chip.mode, 0, 0, addr, 0, burst)
      BY <3>2, ClockFacts DEF ChipOf
    <3>4. PICK read : read = Clock!RefreshTimeRegisters(taken, now)
      OBVIOUS
    <3>5. read = ChipOf(regs, chip.ram, chip.timeFrozen, chip.ce, chip.clk, chip.ioOut,
                        chip.mode, 0, 0, addr, 0, burst)
      <4>1. CASE chip.timeFrozen
        <5>1. regs = chip.registers
          BY <2>2, <4>1 DEF Refreshed, Clock!RefreshTimeRegisters
        <5>2. read = taken
          BY <3>3, <3>4, <4>1 DEF Clock!RefreshTimeRegisters, ChipOf
        <5> QED
          BY <3>3, <5>1, <5>2
      <4>2. CASE ~chip.timeFrozen
        <5>1. regs = [r \in 0..31 |-> IF r \in 0..6 THEN now[r] ELSE chip.registers[r]]
          BY <2>2, <4>2, ClockFacts DEF Refreshed, Clock!RefreshTimeRegisters, Clock!Registers,
             Clock!TimeRegister, ChipOf
        <5> QED
          BY <3>3, <3>4, <4>2, <5>1 DEF Clock!RefreshTimeRegisters, Clock!Registers,
             Clock!TimeRegister, ChipOf
      <4> QED
        BY <4>1, <4>2
    <3>6. Clock!ReadRegister(read, addr) = shift
      <4>1. read.ram = chip.ram /\ read.registers = regs
        BY <3>5 DEF ChipOf
      <4> QED
        BY <2>6, <4>1 DEF Clock!ReadRegister, Clock!IsRam, Clock!RamOffset, Clock!RamSize
    <3>7. Clock!TakeCommand(chip, cmd, now) = [read EXCEPT !.mode = "read", !.dataShift = shift]
      BY <2>4, <2>5, <3>1, <3>2, <3>4, <3>6 DEF Clock!TakeCommand
    <3> QED
      BY <1>6, <3>5, <3>7 DEF ChipOf
  <2>8. talk' = TalkOf(cmd, talk.data, 8, 0, FALSE, memory, talk.timeSet, talk.mustDrop, talk.ok)
    <3>1. PICK through : through = Clock!ByteThrough(TalkWith(0), Heard)
      OBVIOUS
    <3>2. through = TalkOf(cmd, talk.data, 7, 0, FALSE, memory, talk.timeSet, talk.mustDrop, talk.ok)
      <4>1. CASE talk.timeSet
        BY <1>1, <1>9, <1>c, <2>3, <3>1, <4>1, ClockFacts
        DEF Clock!ByteThrough, TalkWith, TalkOf, Known
      <4>2. CASE ~talk.timeSet
        BY <1>1, <1>9, <1>c, <2>3, <3>1, <4>2, ClockFacts, ZenonT(40)
        DEF Clock!ByteThrough, TalkWith, TalkOf, Known, Clock!TimeRegister
      <4> QED
        BY <4>1, <4>2
    <3> QED
      <4>1. 7 + 1 = 8 /\ 7 + 1 < 8 + 8 * Clock!Bytes(cmd)
        BY <1>7
      <4>2. talk' = [through EXCEPT !.bits = @ + 1]
        BY <1>7, <3>1, <3>2, <4>1 DEF Clock!Advanced, TalkOf
      <4> QED
        BY <3>2, <4>1, <4>2 DEF TalkOf
  <2> HIDE DEF Refreshed, Known
  <2>9. /\ \A r \in 0..31 : regs[r] = memory[r] /\ chip.ram[r] = memory[32 + r]
        /\ talk.timeSet = chip.timeFrozen
    BY <2>2, <2>3, RefreshHolds, ClockFacts DEF Holds
  <2>10. Holds(chip', talk')
    BY <2>7, <2>8, <2>9 DEF Holds, ChipOf, TalkOf
  <2>11. shift = memory[addr] /\ shift \in ByteValue
    <3>1. CASE addr \in 32..63
      <4>1. addr - 32 \in 0..31 /\ 32 + (addr - 32) = addr
        BY <3>1
      <4> QED
        BY <2>6, <2>9, <3>1, <4>1
    <3>2. CASE addr \notin 32..63
      BY <2>6, <2>9, <3>2
    <3> QED
      BY <3>1, <3>2
  <2>12. chip' \in ChipType /\ talk' \in TalkType
    <3>1. chip' \in ChipType
      BY <2>7, <2>11, ClockFacts, ChipValues DEF ChipOf, ChipType
    <3>2. talk' \in TalkType
      BY <2>8, ClockFacts, ChipValues DEF TalkOf, TalkType
    <3> QED
      BY <3>1, <3>2
  <2>13. InData(chip', talk', cmd, 1, 0)
    <3>1. /\ chip'.mode = "read" /\ chip'.bitIndex = 0 /\ chip'.command = 0 /\ chip'.address = addr
          /\ chip'.dataShift = shift /\ chip'.burst = burst /\ talk'.memory = memory /\ talk'.heard = 0
      BY <2>7, <2>8 DEF ChipOf, TalkOf
    <3>2. shift % 2^0 = 0 /\ addr + 1 - 1 = addr
      BY <1>8, <2>11
    <3> QED
      BY <1>9, <2>4, <2>5, <2>11, <3>1, <3>2 DEF InData
  <2>14. Transfer(chip', talk')
    <3>1. /\ talk'.command = cmd /\ talk'.bits = 8 /\ ~talk'.low /\ talk'.data = talk.data
          /\ ~talk'.mustDrop /\ chip'.ce
      BY <2>7, <2>8, RaiseFacts DEF ChipOf, TalkOf
    <3>2. 8 \div 8 = 1 /\ 8 % 8 = 0 /\ ~(8 < 8)
      OBVIOUS
    <3> QED
      BY <1>7, <1>c, <2>13, <3>1, <3>2, RaiseFacts, ZenonT(40) DEF Transfer
  <2>15. talk'.command # None /\ talk'.ok
    BY <2>8, <1>c, RaiseFacts, ClockFacts DEF TalkOf
  <2> QED
    BY <2>10, <2>12, <2>14, <2>15, RaiseFacts, ClockFacts DEF ClockInv
<1>10. CASE ~Clock!Reads(cmd)
  <2>4. PICK addr \in 0..63 : addr = Clock!AddressOf(cmd)
    BY <1>2
  <2>5. PICK burst \in BOOLEAN : burst = Clock!IsBurst(cmd)
    BY <1>2
  <2>7. chip' = ChipOf(chip.registers, chip.ram, chip.timeFrozen, TRUE, TRUE, chip.ioOut, "write",
                       0, 0, addr, 0, burst)
    <3>1. ~(cmd % 2 = 1)
      BY <1>10 DEF Clock!Reads
    <3> QED
      BY <1>6, <2>4, <2>5, <3>1, ClockFacts DEF Clock!TakeCommand, ChipOf
  <2>8. talk' = TalkOf(cmd, talk.data, 8, 0, FALSE, talk.memory, talk.timeSet, talk.mustDrop, talk.ok)
    <3>1. PICK through : through = TalkWith(0)
      OBVIOUS
    <3>2. through = TalkOf(cmd, talk.data, 7, 0, FALSE, talk.memory, talk.timeSet, talk.mustDrop,
                           talk.ok)
      BY <1>c, <3>1 DEF TalkWith
    <3>3. Clock!ByteThrough(TalkWith(0), Heard) = through
      BY <1>1, <1>10, <1>c, <3>1 DEF Clock!ByteThrough, TalkWith, TalkOf
    <3>4. 7 + 1 = 8 /\ 7 + 1 < 8 + 8 * Clock!Bytes(cmd)
      BY <1>7
    <3>5. talk' = Clock!Advanced(through)
      BY <1>7, <3>3
    <3>6. talk' = [through EXCEPT !.bits = @ + 1]
      BY <3>2, <3>4, <3>5 DEF Clock!Advanced, TalkOf
    <3> QED
      BY <3>2, <3>4, <3>6 DEF TalkOf
  <2>10. Holds(chip', talk')
    BY <2>7, <2>8, ClockFacts DEF Holds, ChipOf, TalkOf
  <2>12. chip' \in ChipType /\ talk' \in TalkType
    <3>1. chip' \in ChipType
      BY <2>7, ClockFacts, ChipValues DEF ChipOf, ChipType
    <3>2. talk' \in TalkType
      BY <2>8, ClockFacts, ChipValues DEF TalkOf, TalkType
    <3> QED
      BY <3>1, <3>2
  <2>13. InData(chip', talk', cmd, 1, 0)
    <3>1. /\ chip'.mode = "write" /\ chip'.bitIndex = 0 /\ chip'.command = 0 /\ chip'.address = addr
          /\ chip'.dataShift = 0 /\ chip'.burst = burst /\ talk'.data = talk.data
      BY <2>7, <2>8 DEF ChipOf, TalkOf
    <3>2. addr + 1 - 1 = addr
      OBVIOUS
    <3>3. talk.data[1] \in ByteValue
      <4>1. talk.data \in [1..Clock!Bytes(cmd) -> ByteValue]
        BY <1>10, <1>c, RaiseFacts DEF Transfer
      <4> QED
        BY <1>2, <4>1
    <3>4. talk.data[1] % 2^0 = 0
      BY <1>8, <3>3
    <3> QED
      BY <1>10, <2>4, <2>5, <3>1, <3>2, <3>4 DEF InData
  <2>14. Transfer(chip', talk')
    <3>1. /\ talk'.command = cmd /\ talk'.bits = 8 /\ ~talk'.low /\ talk'.data = talk.data
          /\ ~talk'.mustDrop /\ chip'.ce
      BY <2>7, <2>8, RaiseFacts DEF ChipOf, TalkOf
    <3>2. 8 \div 8 = 1 /\ 8 % 8 = 0 /\ ~(8 < 8)
      OBVIOUS
    <3> QED
      BY <1>7, <1>c, <2>13, <3>1, <3>2, RaiseFacts DEF Transfer
  <2>15. talk'.command # None /\ talk'.ok
    BY <2>8, <1>c, RaiseFacts, ClockFacts DEF TalkOf
  <2> QED
    BY <2>10, <2>12, <2>14, <2>15, RaiseFacts, ClockFacts DEF ClockInv
<1> QED
  BY <1>9, <1>10

(* A bit written before the last is put in its place.                      *)
LEMMA WriteBitEarly ==
  ASSUME NEW c, NEW bit, c.bitIndex < 7
  PROVE  Clock!WriteBit(c, bit)
           = [c EXCEPT !.dataShift = c.dataShift + bit * 2^c.bitIndex, !.bitIndex = @ + 1]
BY DEF Clock!WriteBit

(* A bit of a byte, but its last.                                          *)
LEMMA DataBitStep ==
  ASSUME ClockInv, Clock!RaiseClock, talk.bits >= 8, talk.bits % 8 < 7 PROVE ClockInv'
<1>c. PICK cmd \in ChipCommand : cmd = talk.command
  BY RaiseFacts
<1>1. talk.bits \in Nat /\ Transfer(chip, talk)
  BY RaiseFacts, ClockFacts
<1>2. PICK n \in Nat : n = talk.bits
  BY <1>1
<1>3. PICK p \in 0..6 : p = n % 8
  BY <1>2, BitPlace
<1>4. PICK k \in Nat : k = n \div 8
  BY <1>2, BitPlace
<1>5. /\ n >= 8 /\ n = 8 * k + p /\ k >= 1 /\ (n + 1) % 8 = p + 1 /\ (n + 1) \div 8 = k
      /\ p < 7 /\ p \in 0..7 /\ p + 1 \in 0..7 /\ 2^p \in 1..128 /\ n + 1 >= 8 /\ n + 1 \in Nat
  <2>1. n >= 8 /\ n % 8 < 7
    BY <1>2
  <2>2. n = 8 * k + p /\ k >= 1 /\ (n + 1) % 8 = p + 1 /\ (n + 1) \div 8 = k
    BY <1>3, <1>4, <2>1, BitPlace
  <2>3. p < 7 /\ p \in 0..7 /\ p + 1 \in 0..7
    BY <1>3
  <2>4. 2^p \in 1..128
    BY <2>3, PowerType
  <2> QED
    BY <2>1, <2>2, <2>3, <2>4
<1>6. Clock!Bytes(cmd) \in 1..7
  BY CommandAddress
<1>7. k \in 1..Clock!Bytes(cmd) /\ n + 1 < 8 + 8 * Clock!Bytes(cmd)
  <2>1. n < 8 + 8 * Clock!Bytes(cmd)
    BY <1>1, <1>2, <1>c DEF Transfer
  <2> QED
    BY <1>5, <1>6, <2>1
<1>8. InData(chip, talk, cmd, k, p)
  BY <1>1, <1>2, <1>3, <1>4, <1>5, <1>c DEF Transfer
<1>9. /\ chip.bitIndex = p /\ chip.burst = Clock!IsBurst(cmd) /\ chip.command = 0
      /\ chip.address = Clock!AddressOf(cmd) + k - 1
      /\ chip.mode = IF Clock!Reads(cmd) THEN "read" ELSE "write"
  BY <1>8 DEF InData
<1>10. talk' = Clock!Advanced(TalkWith(Heard))
  BY <1>2, <1>3, RaiseFacts
<1>11. talk' = TalkOf(cmd, talk.data, n + 1, Heard, FALSE, talk.memory, talk.timeSet,
                      talk.mustDrop, talk.ok)
  BY <1>2, <1>7, <1>10, <1>c DEF Clock!Advanced, TalkWith, TalkOf
<1>12. PICK shift \in ByteValue : shift = chip.dataShift
  BY ClockFacts
<1>13. PICK out \in 0..1, shift1 \in ByteValue :
         /\ chip' = ChipOf(chip.registers, chip.ram, chip.timeFrozen, TRUE, TRUE, out, chip.mode,
                           p + 1, 0, chip.address, shift1, chip.burst)
         /\ Clock!Reads(cmd) => out = Clock!BitAt(shift, p) /\ shift1 = shift
         /\ ~Clock!Reads(cmd) => shift1 = talk.data[k] % 2^(p + 1)
  <2>1. chip' = [Clock!HandleClockRise(chip, Clock!DataOut, now) EXCEPT !.ce = TRUE, !.clk = TRUE]
    BY RaiseFacts
  <2>2. CASE Clock!Reads(cmd)
    <3>1. PICK out \in 0..1 : out = Clock!BitAt(shift, p)
      BY <1>5, NextBit DEF ByteValue
    <3>2. (p + 1) % 8 = p + 1
      OBVIOUS
    <3>3. Clock!HandleClockRise(chip, Clock!DataOut, now)
            = [chip EXCEPT !.ioOut = out, !.bitIndex = p + 1]
      <4>1. chip.mode = "read" /\ chip.bitIndex = p /\ chip.bitIndex < 7
        BY <1>5, <1>9, <2>2
      <4>2. Clock!HandleClockRise(chip, Clock!DataOut, now) = Clock!ReadBit(chip)
        BY <4>1 DEF Clock!HandleClockRise
      <4>3. Clock!ReadBit(chip)
              = [chip EXCEPT !.ioOut = Clock!BitAt(chip.dataShift, chip.bitIndex),
                             !.bitIndex = (@ + 1) % 8]
        BY <4>1 DEF Clock!ReadBit
      <4> QED
        BY <1>12, <3>1, <3>2, <4>1, <4>2, <4>3
    <3>4. chip' = ChipOf(chip.registers, chip.ram, chip.timeFrozen, TRUE, TRUE, out, chip.mode,
                         p + 1, 0, chip.address, shift, chip.burst)
      BY <1>9, <1>12, <2>1, <3>3, ClockFacts DEF ChipOf
    <3> QED
      BY <2>2, <3>1, <3>4
  <2>3. CASE ~Clock!Reads(cmd)
    <3>1. talk.data \in [1..Clock!Bytes(cmd) -> ByteValue]
      BY <1>1, <1>c, <2>3 DEF Transfer
    <3>2. PICK x \in 0..255 : x = talk.data[k]
      BY <1>7, <3>1 DEF ByteValue
    <3>3. talk.data # <<>>
      BY <1>6, <3>1
    <3>4. Clock!DataOut = Clock!BitAt(x, p) /\ shift = x % 2^p
      <4>1. ~(talk.bits < 8)
        BY <1>2, <1>5
      <4>2. Clock!DataOut = Clock!BitAt(talk.data[talk.bits \div 8], talk.bits % 8)
        BY <3>3, <4>1 DEF Clock!DataOut
      <4> QED
        BY <1>2, <1>3, <1>4, <1>8, <1>12, <2>3, <3>2, <4>2 DEF InData
    <3>5. (x % 2^p) + Clock!BitAt(x, p) * 2^p = x % 2^(p + 1)
      BY <1>5, NextBit
    <3>6. PICK shift1 \in ByteValue : shift1 = x % 2^(p + 1)
      <4>1. x % 2^(p + 1) \in 0..127
        BY <1>5, NextBit
      <4> QED
        BY <4>1 DEF ByteValue
    <3>7. Clock!HandleClockRise(chip, Clock!DataOut, now)
            = [chip EXCEPT !.dataShift = shift1, !.bitIndex = p + 1]
      <4>1. chip.mode = "write" /\ chip.bitIndex = p /\ chip.bitIndex < 7
        BY <1>5, <1>9, <2>3
      <4>2. Clock!HandleClockRise(chip, Clock!DataOut, now) = Clock!WriteBit(chip, Clock!BitAt(x, p))
        BY <3>4, <4>1 DEF Clock!HandleClockRise
      <4>3. chip.dataShift + Clock!BitAt(x, p) * 2^chip.bitIndex = shift1
        BY <1>12, <3>4, <3>5, <3>6, <4>1
      <4>4. Clock!WriteBit(chip, Clock!BitAt(x, p))
              = [chip EXCEPT !.dataShift = shift1, !.bitIndex = @ + 1]
        BY <4>1, <4>3, WriteBitEarly
      <4> QED
        BY <4>1, <4>2, <4>4
    <3>8. chip' = ChipOf(chip.registers, chip.ram, chip.timeFrozen, TRUE, TRUE, chip.ioOut,
                         chip.mode, p + 1, 0, chip.address, shift1, chip.burst)
      BY <1>9, <2>1, <3>7, ClockFacts, ZenonT(40) DEF ChipOf
    <3>9. chip.ioOut \in 0..1
      BY ClockFacts
    <3> QED
      BY <2>3, <3>2, <3>6, <3>8, <3>9
  <2> QED
    BY <2>2, <2>3
<1>14. Heard \in Int /\ Heard = talk.heard + out * 2^p
  <2>1. Heard = talk.heard + out * 2^p /\ talk.heard \in Int
    BY <1>2, <1>3, <1>13, ClockFacts DEF Heard, ChipOf
  <2> QED
    BY <1>5, <2>1
<1>15. chip' \in ChipType
  BY <1>5, <1>13, ClockFacts, ChipValues DEF ChipOf, ChipType
<1>16. talk' \in TalkType
  BY <1>5, <1>11, <1>14, ClockFacts, ChipValues DEF TalkOf, TalkType
<1>17. Holds(chip', talk')
  BY <1>11, <1>13, ClockFacts DEF Holds, ChipOf, TalkOf
<1>18. InData(chip', talk', cmd, k, p + 1)
  <2>1. /\ chip'.mode = chip.mode /\ chip'.bitIndex = p + 1 /\ chip'.command = 0
        /\ chip'.address = chip.address /\ chip'.dataShift = shift1 /\ chip'.burst = chip.burst
        /\ talk'.heard = Heard /\ talk'.memory = talk.memory /\ talk'.data = talk.data
    BY <1>11, <1>13 DEF ChipOf, TalkOf
  <2>2. CASE Clock!Reads(cmd)
    <3>1. shift = talk.memory[chip.address] /\ talk.heard = shift % 2^p
      BY <1>8, <1>12, <2>2 DEF InData
    <3>2. (shift % 2^p) + Clock!BitAt(shift, p) * 2^p = shift % 2^(p + 1)
      BY <1>5, NextBit DEF ByteValue
    <3>3. Heard = shift % 2^(p + 1) /\ shift1 = shift
      BY <1>13, <1>14, <2>2, <3>1, <3>2
    <3> QED
      BY <1>9, <2>1, <2>2, <3>1, <3>3 DEF InData
  <2>3. CASE ~Clock!Reads(cmd)
    BY <1>9, <1>13, <2>1, <2>3 DEF InData
  <2> QED
    BY <2>2, <2>3
<1>19. Transfer(chip', talk')
  <2>1. /\ talk'.command = cmd /\ talk'.bits = n + 1 /\ ~talk'.low /\ talk'.data = talk.data
        /\ ~talk'.mustDrop /\ chip'.ce
    BY <1>11, <1>13, RaiseFacts DEF ChipOf, TalkOf
  <2>2. ~(n + 1 < 8)
    BY <1>5
  <2> QED
    BY <1>1, <1>5, <1>7, <1>c, <1>18, <2>1, <2>2 DEF Transfer
<1>20. talk'.command # None /\ talk'.ok
  BY <1>11, <1>c, RaiseFacts, ClockFacts DEF TalkOf
<1> QED
  BY <1>15, <1>16, <1>17, <1>19, <1>20, RaiseFacts, ClockFacts DEF ClockInv

(* A whole byte has gone over the lines.                                   *)
Ended(cmd, addr, regs, ram, frozen, memory, out, shift) ==
  /\ Clock!ByteThrough(TalkWith(0), Heard)
       = TalkOf(cmd, talk.data, talk.bits, 0, FALSE, memory, frozen, talk.mustDrop, talk.ok)
  /\ \A r \in 0..31 : regs[r] = memory[r] /\ ram[r] = memory[32 + r]
  /\ chip.burst =>
       chip' = ChipOf(regs, ram, frozen, TRUE, TRUE, out, chip.mode, 0, 0, addr + 1, shift, chip.burst)
  /\ ~chip.burst =>
       chip' = ChipOf(regs, ram, frozen, TRUE, TRUE, out, "command", 0, 0, addr, shift, chip.burst)
  /\ shift = IF ~Clock!Reads(cmd) THEN 0
             ELSE IF chip.burst THEN memory[addr + 1] ELSE chip.dataShift

(* The last bit of a byte read: the program has the byte, and a burst goes *)
(* on with the next.                                                       *)
LEMMA ReadEnds ==
  ASSUME ClockInv, Clock!RaiseClock, NEW cmd \in ChipCommand, cmd = talk.command,
         NEW k \in Nat, k = talk.bits \div 8, k >= 1, talk.bits % 8 = 7,
         InData(chip, talk, cmd, k, 7), Clock!Reads(cmd),
         NEW addr \in 0..63, addr = chip.address, chip.burst => addr + 1 \in 0..63,
         chip.burst => Clock!NextBurstAddress(addr) = addr + 1
  PROVE  \E out \in 0..1, shift \in ByteValue :
           Ended(cmd, addr, chip.registers, chip.ram, chip.timeFrozen, talk.memory, out, shift)
<1>1. /\ chip.mode = "read" /\ chip.bitIndex = 7 /\ chip.command = 0
      /\ chip.address = Clock!AddressOf(cmd) + k - 1
      /\ chip.dataShift = talk.memory[addr] /\ talk.heard = chip.dataShift % 2^7
  BY DEF InData
<1>2. PICK x \in 0..255 : x = chip.dataShift
  BY ClockFacts DEF ByteValue
<1>3. PICK out \in 0..1 : out = Clock!BitAt(x, 7)
  BY NextBit
<1>4. (x % 2^7) + out * 2^7 = x
  <2>1. x \in 0..255 /\ 7 \in 0..7
    BY <1>2
  <2>2. (x % 2^7) + Clock!BitAt(x, 7) * 2^7 = x
    BY <2>1, NextBit
  <2> QED
    BY <1>3, <2>2
<1>5. PICK shift : shift = IF chip.burst THEN Clock!ReadRegister(chip, addr + 1) ELSE chip.dataShift
  OBVIOUS
<1>6. shift = (IF chip.burst THEN talk.memory[addr + 1] ELSE chip.dataShift) /\ shift \in ByteValue
  <2>1. CASE chip.burst
    <3>1. PICK next \in 0..63 : next = addr + 1
      BY <2>1
    <3>2. Clock!ReadRegister(chip, next) = talk.memory[next]
      BY ReadsMemory, ClockFacts
    <3> QED
      BY <1>5, <2>1, <3>1, <3>2, ClockFacts
  <2>2. CASE ~chip.burst
    BY <1>5, <2>2, ClockFacts
  <2> QED
    BY <2>1, <2>2
<1>7. Clock!HandleClockRise(chip, Clock!DataOut, now) = Clock!ReadBit(chip)
  BY <1>1 DEF Clock!HandleClockRise
<1>8. chip' = [Clock!ReadBit(chip) EXCEPT !.ce = TRUE, !.clk = TRUE]
  BY <1>7, RaiseFacts
<1>9. ~(chip.bitIndex < 7) /\ (chip.bitIndex + 1) % 8 = 0
  BY <1>1
<1>10. ASSUME chip.burst
       PROVE  chip' = ChipOf(chip.registers, chip.ram, chip.timeFrozen, TRUE, TRUE, out, chip.mode,
                             0, 0, addr + 1, shift, chip.burst)
  <2>1. PICK next : next = addr + 1
    OBVIOUS
  <2>2. Clock!ReadBit(chip) = [chip EXCEPT !.ioOut = out, !.bitIndex = 0, !.address = next,
                                           !.dataShift = shift]
    BY <1>1, <1>2, <1>3, <1>5, <1>9, <1>10, <2>1 DEF Clock!ReadBit
  <2> QED
    BY <1>1, <1>8, <2>1, <2>2, ClockFacts, ZenonT(40) DEF ChipOf
<1>11. ASSUME ~chip.burst
       PROVE  chip' = ChipOf(chip.registers, chip.ram, chip.timeFrozen, TRUE, TRUE, out, "command",
                             0, 0, addr, shift, chip.burst)
  <2>1. Clock!ReadBit(chip) = [chip EXCEPT !.ioOut = out, !.bitIndex = 0, !.mode = "command"]
    BY <1>1, <1>2, <1>3, <1>9, <1>11 DEF Clock!ReadBit
  <2>2. shift = chip.dataShift
    BY <1>6, <1>11
  <2> QED
    BY <1>1, <1>8, <2>1, <2>2, ClockFacts, ZenonT(40) DEF ChipOf
<1>12. Heard = talk.memory[addr]
  <2>1. chip'.ioOut = out
    BY <1>10, <1>11 DEF ChipOf
  <2> QED
    BY <1>1, <1>2, <1>4, <2>1 DEF Heard
<1>13. Clock!ByteThrough(TalkWith(0), Heard)
         = TalkOf(cmd, talk.data, talk.bits, 0, FALSE, talk.memory, chip.timeFrozen, talk.mustDrop,
                  talk.ok)
  <2>1. PICK t : t = TalkWith(0)
    OBVIOUS
  <2>2. t = TalkOf(cmd, talk.data, talk.bits, 0, FALSE, talk.memory, chip.timeFrozen,
                   talk.mustDrop, talk.ok)
    BY <2>1, ClockFacts DEF TalkWith, Holds
  <2>3. /\ t.bits \div 8 = k /\ k # 0 /\ t.command = cmd /\ t.memory = talk.memory /\ t.ok = talk.ok
        /\ Clock!AddressOf(cmd) + k - 1 = addr
    BY <1>1, <2>2 DEF TalkOf
  <2>4. Clock!ByteThrough(t, Heard) = [t EXCEPT !.ok = @ /\ Heard = talk.memory[addr]]
    BY <2>3 DEF Clock!ByteThrough
  <2>5. (talk.ok /\ Heard = talk.memory[addr]) = talk.ok
    BY <1>12, ClockFacts
  <2>6. [t EXCEPT !.ok = @ /\ Heard = talk.memory[addr]] = [t EXCEPT !.ok = talk.ok]
    BY <2>3, <2>5
  <2>7. ASSUME NEW u, u = [t EXCEPT !.ok = talk.ok]
       PROVE  u = TalkOf(cmd, talk.data, talk.bits, 0, FALSE, talk.memory, chip.timeFrozen,
                         talk.mustDrop, talk.ok)
    BY <2>2, <2>7, ClockFacts DEF TalkOf
  <2>8. PICK u : u = Clock!ByteThrough(t, Heard)
    OBVIOUS
  <2>9. u = [t EXCEPT !.ok = talk.ok]
    BY <2>4, <2>6, <2>8
  <2> QED
    BY <2>1, <2>7, <2>8, <2>9
<1>14. \A r \in 0..31 : /\ chip.registers[r] = talk.memory[r]
                       /\ chip.ram[r] = talk.memory[32 + r]
  BY ClockFacts DEF Holds
<1> QED
  BY <1>3, <1>6, <1>10, <1>11, <1>13, <1>14 DEF Ended

(* What a byte written does to the chip and to what it should hold.        *)
Wrote(cmd, addr, x, regs, ram, frozen, memory) ==
  /\ Clock!WriteRegister(chip, addr, x)
       = ChipOf(regs, ram, frozen, chip.ce, chip.clk, chip.ioOut, chip.mode, chip.bitIndex,
                chip.command, chip.address, chip.dataShift, chip.burst)
  /\ Clock!ByteThrough(TalkWith(0), Heard)
       = TalkOf(cmd, talk.data, talk.bits, 0, FALSE, memory, frozen, talk.mustDrop, talk.ok)
  /\ \A r \in 0..31 : regs[r] = memory[r] /\ ram[r] = memory[32 + r]

(* The chip's memory after a byte written is the program's idea of it.     *)
LEMMA WriteHolds ==
  ASSUME ClockInv, NEW cmd \in ChipCommand, cmd = talk.command, ~Clock!Reads(cmd),
         NEW k \in Nat, k = talk.bits \div 8, k >= 1,
         NEW x \in ByteValue, x = talk.data[k],
         NEW addr \in 0..63, addr = Clock!AddressOf(cmd) + k - 1
  PROVE  \E regs \in [0..31 -> ByteValue], ram \in [0..31 -> ByteValue], frozen \in BOOLEAN,
            memory \in [0..63 -> ByteValue] :
           Wrote(cmd, addr, x, regs, ram, frozen, memory)
<1>1. PICK written : written = Clock!WriteRegister(chip, addr, x)
  OBVIOUS
<1>2. PICK through : through = Clock!ByteThrough(TalkWith(0), Heard)
  OBVIOUS
<1>3. PICK t : t = TalkWith(0)
  OBVIOUS
<1>4. t = TalkOf(cmd, talk.data, talk.bits, 0, FALSE, talk.memory, chip.timeFrozen,
                 talk.mustDrop, talk.ok)
  BY <1>3, ClockFacts DEF TalkWith, Holds
<1>5. /\ t.bits \div 8 = k /\ k # 0 /\ t.command = cmd /\ t.memory = talk.memory
      /\ t.data = talk.data /\ t.timeSet = chip.timeFrozen
  BY <1>4 DEF TalkOf
<1>6. \A r \in 0..31 : /\ chip.registers[r] = talk.memory[r]
                      /\ chip.ram[r] = talk.memory[32 + r]
  BY ClockFacts DEF Holds
<1>7. PICK stored \in BOOLEAN : stored <=> addr = 7 \/ talk.memory[7] < 128
  OBVIOUS
<1>8. through = IF stored THEN [t EXCEPT !.memory[addr] = x, !.timeSet = @ \/ addr \in 0..6] ELSE t
  BY <1>2, <1>3, <1>5, <1>7 DEF Clock!ByteThrough, Clock!Control, Clock!TimeRegister
<1>9. (Clock!IsWriteProtected(chip) /\ addr # 7) <=> ~stored
  <2>1. 7 \in 0..31
    OBVIOUS
  <2>2. chip.registers[7] = talk.memory[7]
    BY <1>6, <2>1
  <2>3. talk.memory[7] \in 0..255
    <3>1. 7 \in 0..63
      OBVIOUS
    <3>2. talk.memory \in [0..63 -> ByteValue]
      BY ClockFacts
    <3>3. talk.memory[7] \in ByteValue
      BY <3>1, <3>2
    <3> QED
      BY <3>3 DEF ByteValue
  <2> QED
    BY <1>7, <2>2, <2>3 DEF Clock!IsWriteProtected, Clock!Control
<1>10. CASE ~stored
  <2>1. written = chip
    BY <1>1, <1>9, <1>10 DEF Clock!WriteRegister, Clock!Control
  <2>2. through = t
    BY <1>8, <1>10
  <2>3. Wrote(cmd, addr, x, chip.registers, chip.ram, chip.timeFrozen, talk.memory)
    <3>1. Clock!WriteRegister(chip, addr, x) = chip
      BY <1>1, <2>1
    <3>2. Clock!ByteThrough(TalkWith(0), Heard) = t
      BY <1>2, <2>2
    <3> QED
      BY <1>4, <1>6, <3>1, <3>2, ClockFacts, Zenon DEF Wrote
  <2>4. PICK frozen \in BOOLEAN : frozen = chip.timeFrozen
    BY ClockFacts
  <2>5. /\ Wrote(cmd, addr, x, chip.registers, chip.ram, frozen, talk.memory)
        /\ chip.registers \in [0..31 -> ByteValue] /\ chip.ram \in [0..31 -> ByteValue]
        /\ talk.memory \in [0..63 -> ByteValue]
    BY <2>3, <2>4, ClockFacts
  <2> QED
    BY <2>4, <2>5, Zenon
<1>11. CASE stored /\ addr \in 32..63
  <2>1. PICK ram \in [0..31 -> ByteValue] : ram = [chip.ram EXCEPT ![addr - 32] = x]
    BY ClockFacts
  <2>2. PICK memory \in [0..63 -> ByteValue] : memory = [talk.memory EXCEPT ![addr] = x]
    BY ClockFacts
  <2>3. written = [chip EXCEPT !.ram = ram]
    <3>1. written = [chip EXCEPT !.ram[addr - 32] = x]
      BY <1>1, <1>9, <1>11 DEF Clock!WriteRegister, Clock!Control, Clock!IsRam, Clock!RamOffset,
         Clock!RamSize
    <3> QED
      BY <2>1, <3>1
  <2>4. written = ChipOf(chip.registers, ram, chip.timeFrozen, chip.ce, chip.clk, chip.ioOut,
                         chip.mode, chip.bitIndex, chip.command, chip.address, chip.dataShift,
                         chip.burst)
    BY <2>3, ClockFacts DEF ChipOf
  <2>5. through = TalkOf(cmd, talk.data, talk.bits, 0, FALSE, memory, chip.timeFrozen,
                         talk.mustDrop, talk.ok)
    <3>1. (chip.timeFrozen \/ addr \in 0..6) = chip.timeFrozen
      BY <1>11, ClockFacts
    <3>2. through = [t EXCEPT !.memory = memory, !.timeSet = chip.timeFrozen]
      BY <1>5, <1>8, <1>11, <2>2, <3>1
    <3> QED
      BY <1>4, <3>2, ClockFacts DEF TalkOf
  <2>6. \A r \in 0..31 : chip.registers[r] = memory[r] /\ ram[r] = memory[32 + r]
    <3> TAKE r \in 0..31
    <3>1. /\ r \in 0..63 /\ 32 + r \in 0..63 /\ r # addr /\ (32 + r = addr <=> r = addr - 32)
      BY <1>11
    <3>2. memory[r] = talk.memory[r]
      BY <2>2, <3>1, ClockFacts
    <3>3. ram[r] = memory[32 + r]
      BY <1>6, <2>1, <2>2, <3>1, ClockFacts
    <3> QED
      BY <1>6, <3>2, <3>3
  <2>7. Wrote(cmd, addr, x, chip.registers, ram, chip.timeFrozen, memory)
    BY <1>1, <1>2, <2>4, <2>5, <2>6, Zenon DEF Wrote
  <2> QED
    <3>1. PICK frozen \in BOOLEAN : frozen = chip.timeFrozen
      BY ClockFacts
    <3>2. PICK regs \in [0..31 -> ByteValue] : regs = chip.registers
      BY ClockFacts
    <3>3. Wrote(cmd, addr, x, regs, ram, frozen, memory)
      BY <2>7, <3>1, <3>2
    <3>4. /\ regs \in [0..31 -> ByteValue] /\ ram \in [0..31 -> ByteValue]
          /\ frozen \in BOOLEAN /\ memory \in [0..63 -> ByteValue]
      BY <2>1, <2>2, <3>1, <3>2
    <3> QED
      BY <3>3, <3>4, Zenon
<1>12. CASE stored /\ addr \notin 32..63
  <2>0. addr \in 0..31
    BY <1>12
  <2>1. PICK regs \in [0..31 -> ByteValue] : regs = [chip.registers EXCEPT ![addr] = x]
    BY ClockFacts
  <2>2. PICK memory \in [0..63 -> ByteValue] : memory = [talk.memory EXCEPT ![addr] = x]
    BY ClockFacts
  <2>7. PICK frozen \in BOOLEAN : frozen = (chip.timeFrozen \/ addr \in 0..6)
    OBVIOUS
  <2>3. written = [chip EXCEPT !.registers = regs, !.timeFrozen = frozen]
    <3>1. written = [chip EXCEPT !.registers[addr] = x, !.timeFrozen = @ \/ addr \in 0..6]
      BY <1>1, <1>9, <1>12 DEF Clock!WriteRegister, Clock!Control, Clock!IsRam, Clock!RamOffset,
         Clock!RamSize, Clock!TimeRegister
    <3> QED
      BY <2>1, <2>7, <3>1
  <2>4. written = ChipOf(regs, chip.ram, frozen, chip.ce, chip.clk, chip.ioOut,
                         chip.mode, chip.bitIndex, chip.command, chip.address, chip.dataShift,
                         chip.burst)
    BY <2>3, ClockFacts DEF ChipOf
  <2>5. through = TalkOf(cmd, talk.data, talk.bits, 0, FALSE, memory, frozen,
                         talk.mustDrop, talk.ok)
    <3>2. through = [t EXCEPT !.memory = memory, !.timeSet = frozen]
      BY <1>5, <1>8, <1>12, <2>2, <2>7
    <3> QED
      BY <1>4, <3>2, ClockFacts DEF TalkOf
  <2>6. \A r \in 0..31 : regs[r] = memory[r] /\ chip.ram[r] = memory[32 + r]
    <3> TAKE r \in 0..31
    <3>1. /\ r \in 0..63 /\ 32 + r \in 0..63 /\ 32 + r # addr
      BY <1>12
    <3>2. memory[32 + r] = talk.memory[32 + r]
      BY <2>2, <3>1, ClockFacts
    <3>3. regs[r] = memory[r]
      BY <1>6, <2>0, <2>1, <2>2, <3>1, ClockFacts
    <3> QED
      BY <1>6, <3>2, <3>3
  <2>8. Wrote(cmd, addr, x, regs, chip.ram, frozen, memory)
    BY <1>1, <1>2, <2>4, <2>5, <2>6, Zenon DEF Wrote
  <2> QED
    BY <2>1, <2>2, <2>7, <2>8, ClockFacts, Zenon
<1> QED
  BY <1>10, <1>11, <1>12

(* The last bit of a byte written: the chip stores it, and a burst goes on *)
(* with the next.                                                          *)
LEMMA WriteEnds ==
  ASSUME ClockInv, Clock!RaiseClock, NEW cmd \in ChipCommand, cmd = talk.command,
         NEW k \in Nat, k = talk.bits \div 8, k >= 1, talk.bits % 8 = 7, ~(talk.bits < 8),
         InData(chip, talk, cmd, k, 7), ~Clock!Reads(cmd),
         NEW x \in ByteValue, x = talk.data[k], talk.data # <<>>,
         NEW addr \in 0..63, addr = chip.address,
         chip.burst => Clock!NextBurstAddress(addr) = addr + 1
  PROVE  \E regs \in [0..31 -> ByteValue], ram \in [0..31 -> ByteValue], frozen \in BOOLEAN,
            memory \in [0..63 -> ByteValue], out \in 0..1, shift \in ByteValue :
           Ended(cmd, addr, regs, ram, frozen, memory, out, shift)
<1>1. /\ chip.mode = "write" /\ chip.bitIndex = 7 /\ chip.command = 0
      /\ chip.address = Clock!AddressOf(cmd) + k - 1 /\ chip.dataShift = x % 2^7
  BY DEF InData
<1>2. (x % 2^7) + Clock!BitAt(x, 7) * 2^7 = x
  <2>1. x \in 0..255
    BY Zenon DEF ByteValue
  <2>2. 7 \in 0..7
    OBVIOUS
  <2> QED
    BY <2>1, <2>2, NextBit
<1>3. addr = Clock!AddressOf(cmd) + k - 1
  BY <1>1
<1>4. PICK regs \in [0..31 -> ByteValue], ram \in [0..31 -> ByteValue], frozen \in BOOLEAN,
          memory \in [0..63 -> ByteValue] :
        Wrote(cmd, addr, x, regs, ram, frozen, memory)
  BY <1>3, WriteHolds
<1>5. PICK out \in 0..1 : out = chip.ioOut
  BY ClockFacts
<1>6. PICK shift \in ByteValue : shift = 0
  BY ChipValues
<1>7. PICK written : written = Clock!WriteRegister(chip, addr, x)
  OBVIOUS
<1>8. written = ChipOf(regs, ram, frozen, chip.ce, chip.clk, chip.ioOut, chip.mode, chip.bitIndex,
                       chip.command, chip.address, chip.dataShift, chip.burst)
  BY <1>4, <1>7 DEF Wrote
<1>9. PICK bit : bit = Clock!BitAt(x, 7)
  OBVIOUS
<1>10. Clock!DataOut = bit
  BY <1>9 DEF Clock!DataOut
<1>11. Clock!HandleClockRise(chip, Clock!DataOut, now) = Clock!WriteBit(chip, bit)
  BY <1>1, <1>10 DEF Clock!HandleClockRise
<1>12. chip' = [Clock!WriteBit(chip, bit) EXCEPT !.ce = TRUE, !.clk = TRUE]
  BY <1>11, RaiseFacts
<1>13. ~(chip.bitIndex < 7) /\ chip.dataShift + bit * 2^chip.bitIndex = x
  BY <1>1, <1>2, <1>9
<1>14. ASSUME chip.burst
       PROVE  chip' = ChipOf(regs, ram, frozen, TRUE, TRUE, out, chip.mode,
                             0, 0, addr + 1, shift, chip.burst)
  <2>1. PICK next : next = addr + 1
    OBVIOUS
  <2>2. Clock!NextBurstAddress(written.address) = next
    BY <1>8, <1>14, <2>1 DEF ChipOf
  <2>3. Clock!WriteBit(chip, bit)
          = [written EXCEPT !.address = next, !.dataShift = shift, !.bitIndex = 0]
    BY <1>6, <1>7, <1>13, <1>14, <2>2 DEF Clock!WriteBit
  <2> QED
    BY <1>1, <1>5, <1>8, <1>12, <2>1, <2>3, ClockFacts DEF ChipOf
<1>15. ASSUME ~chip.burst
       PROVE  chip' = ChipOf(regs, ram, frozen, TRUE, TRUE, out, "command",
                             0, 0, addr, shift, chip.burst)
  <2>1. Clock!WriteBit(chip, bit)
          = [written EXCEPT !.mode = "command", !.bitIndex = 0, !.dataShift = shift]
    BY <1>6, <1>7, <1>13, <1>15 DEF Clock!WriteBit
  <2> QED
    BY <1>1, <1>5, <1>8, <1>12, <2>1, ClockFacts DEF ChipOf
<1>16. Ended(cmd, addr, regs, ram, frozen, memory, out, shift)
  <2>1. /\ Clock!ByteThrough(TalkWith(0), Heard)
             = TalkOf(cmd, talk.data, talk.bits, 0, FALSE, memory, frozen, talk.mustDrop, talk.ok)
        /\ \A r \in 0..31 : regs[r] = memory[r] /\ ram[r] = memory[32 + r]
    BY <1>4 DEF Wrote
  <2>2. shift = IF ~Clock!Reads(cmd) THEN 0
                ELSE IF chip.burst THEN memory[addr + 1] ELSE chip.dataShift
    BY <1>6
  <2> QED
    BY <1>14, <1>15, <2>1, <2>2, Zenon DEF Ended
<1>17. /\ regs \in [0..31 -> ByteValue] /\ ram \in [0..31 -> ByteValue] /\ frozen \in BOOLEAN
       /\ memory \in [0..63 -> ByteValue] /\ out \in 0..1 /\ shift \in ByteValue
  BY <1>4, <1>5, <1>6
<1> QED
  BY <1>16, <1>17, Zenon

(* The last bit of a byte.                                                 *)
LEMMA DataByteStep ==
  ASSUME ClockInv, Clock!RaiseClock, talk.bits >= 8, talk.bits % 8 = 7 PROVE ClockInv'
<1>c. PICK cmd \in ChipCommand : cmd = talk.command
  BY RaiseFacts
<1>1. talk.bits \in Nat /\ Transfer(chip, talk)
  BY RaiseFacts, ClockFacts
<1>2. PICK n \in Nat : n = talk.bits
  BY <1>1
<1>4. PICK k \in Nat : k = n \div 8
  BY <1>2, BitPlace
<1>5. /\ n >= 8 /\ n % 8 = 7 /\ n = 8 * k + 7 /\ k >= 1 /\ (n + 1) % 8 = 0 /\ (n + 1) \div 8 = k + 1
      /\ n + 1 = 8 * (k + 1) /\ n + 1 \in Nat /\ ~(n + 1 < 8) /\ k + 1 \in Nat
  <2>1. n >= 8 /\ n % 8 = 7
    BY <1>2
  <2>2. n = 8 * k + 7 /\ k >= 1 /\ (n + 1) % 8 = 0 /\ (n + 1) \div 8 = k + 1
    BY <1>4, <2>1, BitPlace
  <2> QED
    BY <2>1, <2>2
<1>6. /\ Clock!Bytes(cmd) \in 1..7 /\ Clock!IsBurst(cmd) \in BOOLEAN
      /\ ~Clock!IsBurst(cmd) => Clock!Bytes(cmd) = 1
      /\ Clock!AddressOf(cmd) \in 0..63 /\ (Clock!IsBurst(cmd) => Clock!AddressOf(cmd) \in {0, 32})
  BY CommandAddress
<1>7. k \in 1..Clock!Bytes(cmd)
  <2>1. n < 8 + 8 * Clock!Bytes(cmd)
    BY <1>1, <1>2, <1>c DEF Transfer
  <2> QED
    BY <1>5, <1>6, <2>1
<1>8. InData(chip, talk, cmd, k, 7)
  BY <1>1, <1>2, <1>4, <1>5, <1>c DEF Transfer
<1>9. /\ chip.bitIndex = 7 /\ chip.burst = Clock!IsBurst(cmd) /\ chip.command = 0
      /\ chip.address = Clock!AddressOf(cmd) + k - 1
      /\ chip.mode = IF Clock!Reads(cmd) THEN "read" ELSE "write"
  BY <1>8 DEF InData
<1>10. PICK addr \in 0..63 : addr = chip.address
  BY ClockFacts
<1>11. /\ addr = Clock!AddressOf(cmd) + k - 1
       /\ chip.burst => addr + 1 \in 0..63 /\ Clock!NextBurstAddress(addr) = addr + 1
  <2>1. addr = Clock!AddressOf(cmd) + k - 1
    BY <1>9, <1>10
  <2>2. ASSUME chip.burst
        PROVE  addr + 1 \in 0..63 /\ Clock!NextBurstAddress(addr) = addr + 1
    <3>1. addr \in 0..6 \/ addr \in 32..38
      BY <1>6, <1>7, <1>9, <2>1, <2>2
    <3>2. CASE addr \in 0..6
      BY <3>2 DEF Clock!NextBurstAddress, Clock!Registers
    <3>3. CASE addr \in 32..38
      BY <3>3 DEF Clock!NextBurstAddress, Clock!Registers, Clock!RamOffset, Clock!RamSize
    <3> QED
      BY <3>1, <3>2, <3>3
  <2> QED
    BY <2>1, <2>2
<1>12. ~Clock!Reads(cmd) => /\ talk.data \in [1..Clock!Bytes(cmd) -> ByteValue] /\ talk.data # <<>>
                           /\ talk.data[k] \in ByteValue
  <2>1. SUFFICES ASSUME ~Clock!Reads(cmd)
                 PROVE  /\ talk.data \in [1..Clock!Bytes(cmd) -> ByteValue] /\ talk.data # <<>>
                        /\ talk.data[k] \in ByteValue
    OBVIOUS
  <2>2. talk.data \in [1..Clock!Bytes(cmd) -> ByteValue]
    BY <1>1, <1>c, <2>1 DEF Transfer
  <2> QED
    BY <1>6, <1>7, <2>2
<1>13. \E regs \in [0..31 -> ByteValue], ram \in [0..31 -> ByteValue], frozen \in BOOLEAN,
         memory \in [0..63 -> ByteValue], out \in 0..1, shift \in ByteValue :
          Ended(cmd, addr, regs, ram, frozen, memory, out, shift)
  <2>0. k = talk.bits \div 8 /\ ~(talk.bits < 8)
    BY <1>2, <1>4, <1>5
  <2>1. CASE Clock!Reads(cmd)
    <3>1. PICK out \in 0..1, shift \in ByteValue :
            Ended(cmd, addr, chip.registers, chip.ram, chip.timeFrozen, talk.memory, out, shift)
      BY <1>c, <1>5, <1>8, <1>10, <1>11, <2>0, <2>1, ReadEnds
    <3>2. PICK frozen \in BOOLEAN : frozen = chip.timeFrozen
      BY ClockFacts
    <3>3. Ended(cmd, addr, chip.registers, chip.ram, frozen, talk.memory, out, shift)
      BY <3>1, <3>2
    <3>4. /\ chip.registers \in [0..31 -> ByteValue] /\ chip.ram \in [0..31 -> ByteValue]
          /\ frozen \in BOOLEAN /\ talk.memory \in [0..63 -> ByteValue]
          /\ out \in 0..1 /\ shift \in ByteValue
      BY <3>1, <3>2, ClockFacts
    <3> QED
      BY <3>3, <3>4, Zenon
  <2>2. CASE ~Clock!Reads(cmd)
    <3>1. PICK x \in ByteValue : x = talk.data[k]
      BY <1>12, <2>2
    <3> QED
      BY <1>c, <1>5, <1>8, <1>10, <1>11, <1>12, <2>0, <2>2, <3>1, WriteEnds
  <2> QED
    BY <2>1, <2>2
<1>14. PICK regs \in [0..31 -> ByteValue], ram \in [0..31 -> ByteValue], frozen \in BOOLEAN,
           memory \in [0..63 -> ByteValue], out \in 0..1, shift \in ByteValue :
         Ended(cmd, addr, regs, ram, frozen, memory, out, shift)
  BY <1>13
<1>15. PICK through : through = Clock!ByteThrough(TalkWith(0), Heard)
  OBVIOUS
<1>16. through = TalkOf(cmd, talk.data, n, 0, FALSE, memory, frozen, talk.mustDrop, talk.ok)
  BY <1>2, <1>14, <1>15 DEF Ended
<1>17. talk' = Clock!Advanced(through)
  <2>1. ~(talk.bits % 8 < 7)
    OBVIOUS
  <2> QED
    BY <1>15, <2>1, RaiseFacts
<1>18. chip' \in ChipType /\ chip'.ce
  <2>1. CASE chip.burst
    <3>1. chip' = ChipOf(regs, ram, frozen, TRUE, TRUE, out, chip.mode, 0, 0, addr + 1, shift,
                         chip.burst)
      BY <1>14, <2>1 DEF Ended
    <3>2. addr + 1 \in 0..63
      BY <1>11, <2>1
    <3> QED
      BY <1>14, <3>1, <3>2, ClockFacts, ChipValues DEF ChipOf, ChipType
  <2>2. CASE ~chip.burst
    <3>1. chip' = ChipOf(regs, ram, frozen, TRUE, TRUE, out, "command", 0, 0, addr, shift, chip.burst)
      BY <1>14, <2>2 DEF Ended
    <3> QED
      BY <1>10, <1>14, <3>1, ClockFacts, ChipValues DEF ChipOf, ChipType
  <2> QED
    BY <2>1, <2>2
<1>19. /\ chip'.registers = regs /\ chip'.ram = ram /\ chip'.timeFrozen = frozen
       /\ chip'.bitIndex = 0 /\ chip'.command = 0 /\ chip'.dataShift = shift
       /\ chip'.burst = chip.burst
       /\ chip.burst => chip'.address = addr + 1 /\ chip'.mode = chip.mode
       /\ ~chip.burst => chip'.mode = "command"
  BY <1>14 DEF Ended, ChipOf
<1>20. CASE k < Clock!Bytes(cmd)
  <2>1. chip.burst
    BY <1>5, <1>6, <1>9, <1>20
  <2>2. n + 1 < 8 + 8 * Clock!Bytes(cmd)
    BY <1>5, <1>6, <1>20
  <2>3. talk' = TalkOf(cmd, talk.data, n + 1, 0, FALSE, memory, frozen, talk.mustDrop, talk.ok)
    <3>1. talk' = [through EXCEPT !.bits = @ + 1]
      BY <1>16, <1>17, <2>2 DEF Clock!Advanced, TalkOf
    <3> QED
      BY <1>16, <3>1 DEF TalkOf
  <2>4. talk' \in TalkType
    BY <1>5, <1>14, <2>3, ClockFacts, ChipValues DEF TalkOf, TalkType
  <2>5. /\ talk'.command = cmd /\ talk'.data = talk.data /\ talk'.bits = n + 1 /\ talk'.heard = 0
        /\ ~talk'.low /\ talk'.memory = memory /\ talk'.timeSet = frozen /\ ~talk'.mustDrop
        /\ talk'.ok /\ talk'.command # None
    BY <1>c, <2>3, RaiseFacts, ClockFacts DEF TalkOf
  <2>6. Holds(chip', talk')
    <3>1. \A r \in 0..31 : regs[r] = memory[r] /\ ram[r] = memory[32 + r]
      BY <1>14 DEF Ended
    <3> QED
      BY <1>19, <2>5, <3>1 DEF Holds
  <2>7. InData(chip', talk', cmd, k + 1, 0)
    <3>1. addr + 1 = Clock!AddressOf(cmd) + (k + 1) - 1
      BY <1>6, <1>11
    <3>2. CASE Clock!Reads(cmd)
      <4>1. shift = memory[addr + 1]
        BY <1>14, <2>1, <3>2 DEF Ended
      <4>2. shift % 2^0 = 0
        BY <1>14, NoBits
      <4> QED
        BY <1>9, <1>19, <2>1, <2>5, <3>1, <3>2, <4>1, <4>2 DEF InData
    <3>3. CASE ~Clock!Reads(cmd)
      <4>1. shift = 0
        BY <1>14, <3>3 DEF Ended
      <4>2. talk.data[k + 1] \in ByteValue
        <5>1. k + 1 \in 1..Clock!Bytes(cmd)
          BY <1>5, <1>6, <1>20
        <5>2. talk.data \in [1..Clock!Bytes(cmd) -> ByteValue]
          BY <1>12, <3>3
        <5> QED
          BY <5>1, <5>2
      <4>3. talk.data[k + 1] % 2^0 = 0
        BY <4>2, NoBits
      <4> QED
        BY <1>9, <1>19, <2>1, <2>5, <3>1, <3>3, <4>1, <4>3 DEF InData
    <3> QED
      BY <3>2, <3>3
  <2>8. Transfer(chip', talk')
    BY <1>1, <1>5, <1>c, <1>18, <2>2, <2>5, <2>7 DEF Transfer
  <2> QED
    BY <1>18, <2>4, <2>5, <2>6, <2>8, RaiseFacts, ClockFacts DEF ClockInv
<1>21. CASE ~(k < Clock!Bytes(cmd))
  <2>1. ~(n + 1 < 8 + 8 * Clock!Bytes(cmd))
    BY <1>5, <1>6, <1>7, <1>21
  <2>2. talk' = TalkOf(None, <<>>, 0, 0, FALSE, memory, frozen, chip.burst, talk.ok)
    <3>1. PICK burst \in BOOLEAN : burst = Clock!IsBurst(cmd) /\ burst = chip.burst
      BY <1>6, <1>9
    <3>2. talk' = [through EXCEPT !.command = None, !.data = <<>>, !.bits = 0, !.mustDrop = burst]
      BY <1>16, <1>17, <2>1, <3>1 DEF Clock!Advanced, TalkOf
    <3> QED
      BY <1>16, <3>1, <3>2 DEF TalkOf
  <2>3. talk' \in TalkType
    <3>1. 0 \in Int /\ talk.ok \in BOOLEAN /\ chip.burst \in BOOLEAN
      BY ClockFacts
    <3> QED
      BY <1>14, <2>2, <3>1, TalkOver, Zenon
  <2>4. /\ talk'.command = None /\ talk'.bits = 0 /\ ~talk'.low /\ talk'.memory = memory
        /\ talk'.timeSet = frozen /\ talk'.mustDrop = chip.burst /\ talk'.ok
    BY <2>2, ClockFacts DEF TalkOf
  <2>5. Holds(chip', talk')
    <3>1. \A r \in 0..31 : regs[r] = memory[r] /\ ram[r] = memory[32 + r]
      BY <1>14 DEF Ended
    <3> QED
      BY <1>19, <2>4, <3>1 DEF Holds
  <2>6. Idle(chip', talk')
    BY <1>19, <2>4 DEF Idle, Ready
  <2> QED
    BY <1>18, <2>3, <2>4, <2>5, <2>6, RaiseFacts, ClockFacts DEF ClockInv
<1> QED
  BY <1>20, <1>21

(* Raising the clock keeps the invariant, whichever bit it moves.          *)
LEMMA RaiseClockStep == ClockInv /\ Clock!RaiseClock => ClockInv'
<1> SUFFICES ASSUME ClockInv, Clock!RaiseClock PROVE ClockInv'
  OBVIOUS
<1>1. talk.bits \in Nat
  BY ClockFacts
<1>2. talk.bits < 7 \/ talk.bits = 7 \/ talk.bits >= 8
  BY <1>1
<1>3. talk.bits % 8 < 7 \/ talk.bits % 8 = 7
  BY <1>1
<1> QED
  BY <1>2, <1>3, CommandBitStep, CommandEndStep, DataBitStep, DataByteStep

(* Every step of the board keeps the clock invariant.                      *)
LEMMA ClockInvStep == ClockInv /\ [Next]_vars => ClockInv'
<1> SUFFICES ASSUME ClockInv, [Next]_vars PROVE ClockInv'
  OBVIOUS
<1>1. CASE ClockStep
  <2>1. ASSUME NEW cmd \in ChipCommand,
               NEW data \in IF Clock!Reads(cmd) THEN {<<>>} ELSE [1..Clock!Bytes(cmd) -> ChipByte],
               Clock!SendCommand(cmd, data)
        PROVE  ClockInv'
    BY <2>1, SendCommandStep
  <2>2. CASE Clock!LowerClock
    BY <2>2, LowerClockStep
  <2>3. CASE Clock!RaiseClock
    BY <2>3, RaiseClockStep
  <2>4. CASE Clock!Disable \/ Clock!TimePasses
    BY <2>4, DisableStep
  <2> QED
    BY <1>1, <2>1, <2>2, <2>3, <2>4 DEF ClockStep, Clock!ChipStep
<1>2. CASE Reset
  BY <1>2, DisableStep DEF Reset
<1>3. CASE KeypadStep \/ MatrixStep \/ CardStep \/ MemoryStep \/ UNCHANGED vars
  <2>1. chip' = chip /\ now' = now /\ talk' = talk
    BY <1>3 DEF KeypadStep, MatrixStep, CardStep, MemoryStep, vars, chipVars
  <2> QED
    BY <2>1, ZenonT(40) DEF ClockInv, ChipType, TalkType, Holds, Transfer, Idle, Ready, InCommand, InData
<1> QED
  BY <1>1, <1>2, <1>3 DEF Next

(* A program talks to the clock chip bit by bit, cutting transfers short   *)
(* where it likes, while time passes and the board is reset under it: each *)
(* is always where the other believes it to be (ds1302.ts:45-67, 93-226).  *)
THEOREM ClockChipTalks == Spec => []ClockInv
<1>1. Init => ClockInv
  BY ClockInitInv
<1>2. ClockInv /\ [Next]_vars => ClockInv'
  BY ClockInvStep
<1> QED
  BY <1>1, <1>2, PTL DEF Spec

(* The clock chip holds what was written to it in whole bytes while it was *)
(* not protected, and a program that reads hears that, a burst being of    *)
(* one moment (ds1302.ts:45-67, 172-226).                                  *)
THEOREM ChipAnswers == Spec => []ClockChipAnswers
<1>1. ASSUME ClockInv PROVE ClockChipAnswers
  <2>1. talk.ok /\ Holds(chip, talk)
    BY <1>1 DEF ClockInv
  <2>2. \A a \in 0..63 : Clock!ReadRegister(chip, a) = talk.memory[a]
    BY <2>1, ReadsMemory
  <2> QED
    BY <2>1, <2>2 DEF ClockChipAnswers, Clock!ClockChipAnswers
<1> QED
  BY <1>1, ClockChipTalks, PTL

-----------------------------------------------------------------------------
\* The SD card.

CardType ==
  [csActive : BOOLEAN, clk : BOOLEAN, inShift : ByteValue, inBit : 0..7,
   outShift : ByteValue, outBit : 0..7, ioOut : 0..1,
   command : Seq(ByteValue), queue : Seq(ByteValue), pending : Seq(ByteValue),
   delay : 0..1, app : BOOLEAN, tries : 0..1, ready : BOOLEAN,
   write : Card!WriteState \cup {None}, highCapacity : BOOLEAN,
   image : [1..ImageSize -> ByteValue]]

ExchangeType == [out : Seq(ByteValue), in : Seq(ByteValue)]

ProgramType ==
  [plan : Seq(ExchangeType), out : Seq(ByteValue), in : Seq(ByteValue), bit : 0..7,
   heard : Nat, low : BOOLEAN, tries : 0..1, first : BOOLEAN, ok : {TRUE},
   known : [ready : BOOLEAN, inits : 0..1, app : BOOLEAN, image : [1..ImageSize -> ByteValue]]]

(* The first b bits of a byte.                                             *)
Bits(x, b) == x \div 2^(8 - b)

(* What the program is sending and what the card is.                       *)
Sent(p) == IF p.out = <<>> THEN 255 ELSE Head(p.out)
Shown(c) == Card!Answering(c).outShift

(* Card and program are at the same bit of the same bytes, and the clock   *)
(* is low where the program has just lowered it.                           *)
InStep(c, p) ==
  /\ c.inBit = p.bit /\ c.outBit = p.bit
  /\ c.inShift = Bits(Sent(p), p.bit) /\ p.heard = Bits(Shown(c), p.bit)
  /\ p.low => c.csActive /\ ~c.clk

Silent(c) == c.pending = <<>> /\ c.delay = 0 /\ c.queue = <<>> /\ c.outShift = 255

(* The card is as the program knows it, once image is in it.               *)
Knows(c, known, image) ==
  /\ c.ready = known.ready /\ c.tries = known.inits /\ c.app = known.app
  /\ image = known.image

Stores(c, known, block) ==
  /\ c.write \in Card!WriteState
  /\ Knows(c, known, Card!WithBlockAt(c.image, c.write.start, block))

BlockOut(block) == <<254>> \o block \o <<255, 255>>

(* What follows the answer: nothing, or a block of data.                   *)
Ahead(c, p) ==
  \/ p.plan = <<>> /\ c.write = None /\ Knows(c, p.known, c.image)
  \/ \E block \in CardBlock :
       /\ p.plan = <<Card!Exchange(BlockOut(block), <<5, 255>>)>>
       /\ Stores(c, p.known, block)
       /\ c.write.awaitingToken /\ c.write.buffer = <<>> /\ c.write.crc = 2

\* The phases of an exchange.
Resting(c, p) ==
  /\ p.plan = <<>> /\ p.out = <<>> /\ p.in = <<>> /\ p.bit = 0 /\ ~p.low
  /\ Silent(c) /\ c.command = <<>> /\ c.write = None /\ Knows(c, p.known, c.image)

Obeys(c, p, cmd, arg) ==
  LET h == Card!HandleCommand(c, cmd, arg) IN h.pending = p.in /\ Ahead(h, p)

Opening(c, p) == p.out # <<>> /\ p.first /\ p.tries = 0 /\ Silent(c)

Commands == {0, 8, 9, 10, 13, 16, 17, 24, 41, 55, 58}

Commanding(c, p) ==
  /\ Opening(c, p) /\ c.write = None
  /\ \E cmd \in Commands, arg \in ByteValue :
       c.command \o p.out = Card!Frame(cmd, arg) /\ Obeys(c, p, cmd, arg)

(* The card has the first bytes of a block, and the program the others.    *)
Midway(w, out, block) ==
  \/ w.awaitingToken /\ w.buffer = <<>> /\ w.crc = 2 /\ out = BlockOut(block)
  \/ /\ ~w.awaitingToken /\ Len(w.buffer) <= BlockSize /\ w.crc = 2
     /\ w.buffer \o out = block \o <<255, 255>>
  \/ ~w.awaitingToken /\ w.buffer = block /\ w.crc = 1 /\ out = <<255>>

Storing(c, p) ==
  /\ Opening(c, p) /\ c.command = <<>> /\ p.plan = <<>> /\ p.in = <<5, 255>>
  /\ \E block \in CardBlock : Stores(c, p.known, block) /\ Midway(c.write, p.out, block)

Hearing(c, p) ==
  /\ p.out = <<>> /\ p.in # <<>> /\ c.command = <<>> /\ Ahead(c, p)
  /\ p.first => Head(p.in) # 255

Waiting(c, p) ==
  /\ Hearing(c, p) /\ p.first
  /\ c.pending = p.in /\ c.queue = <<>> /\ c.outShift = 255
  /\ IF c.delay = 1 THEN p.bit = 0 /\ p.tries = 0
     ELSE p.tries = IF p.bit = 0 THEN 1 ELSE 0

Answering(c, p) ==
  /\ Hearing(c, p)
  /\ c.pending = <<>> /\ c.delay = 0 /\ c.outShift = Head(p.in) /\ c.queue = Tail(p.in)
  /\ p.first => p.bit > 0 /\ p.tries = 1

Phase(c, p) ==
  \/ Resting(c, p) \/ Commanding(c, p) \/ Storing(c, p) \/ Waiting(c, p) \/ Answering(c, p)

CardInv ==
  /\ card \in CardType /\ program \in ProgramType
  /\ InStep(card, program) /\ Phase(card, program)

(* Bits of a byte from its highest.                                        *)
LEMMA FirstBits ==
  ASSUME NEW x \in ByteValue
  PROVE  /\ Bits(x, 0) = 0
         /\ \A b \in 0..6 : /\ Bits(x, b) \in 0..127 /\ Card!BitOf(x, b) \in 0..1
                            /\ Bits(x, b + 1) = 2 * Bits(x, b) + Card!BitOf(x, b)
                            /\ Bits(x, b + 1) \in 0..127
         /\ Bits(x, 7) \in 0..127 /\ Card!BitOf(x, 7) \in 0..1
         /\ 2 * Bits(x, 7) + Card!BitOf(x, 7) = x
<1>1. x \in 0..255
  BY DEF ByteValue
<1>2. Bits(x, 0) = 0
  BY <1>1, Powers DEF Bits
<1>3. ASSUME NEW b \in 0..6
      PROVE  /\ Bits(x, b) \in 0..127 /\ Card!BitOf(x, b) \in 0..1
             /\ Bits(x, b + 1) = 2 * Bits(x, b) + Card!BitOf(x, b)
             /\ Bits(x, b + 1) \in 0..127
  <2>1. CASE b = 0
    BY <1>1, <2>1, Powers DEF Bits, Card!BitOf
  <2>2. CASE b = 1
    BY <1>1, <2>2, Powers DEF Bits, Card!BitOf
  <2>3. CASE b = 2
    BY <1>1, <2>3, Powers DEF Bits, Card!BitOf
  <2>4. CASE b = 3
    BY <1>1, <2>4, Powers DEF Bits, Card!BitOf
  <2>5. CASE b = 4
    BY <1>1, <2>5, Powers DEF Bits, Card!BitOf
  <2>6. CASE b = 5
    BY <1>1, <2>6, Powers DEF Bits, Card!BitOf
  <2>7. CASE b = 6
    BY <1>1, <2>7, Powers DEF Bits, Card!BitOf
  <2> QED
    BY <2>1, <2>2, <2>3, <2>4, <2>5, <2>6, <2>7
<1>4. /\ Bits(x, 7) \in 0..127 /\ Card!BitOf(x, 7) \in 0..1
      /\ 2 * Bits(x, 7) + Card!BitOf(x, 7) = x
  BY <1>1, Powers DEF Bits, Card!BitOf
<1> QED
  BY <1>2, <1>3, <1>4

(* A byte goes from the program to the card: together they have what they  *)
(* had.                                                                    *)
LEMMA MoveHead ==
  ASSUME NEW S, NEW s \in Seq(S), NEW t \in Seq(S), t # <<>>
  PROVE  /\ Append(s, Head(t)) \o Tail(t) = s \o t
         /\ Head(t) \in S /\ Tail(t) \in Seq(S) /\ Append(s, Head(t)) \in Seq(S)
         /\ Len(Append(s, Head(t))) = Len(s) + 1
         /\ Len(Tail(t)) = Len(t) - 1 /\ Len(t) > 0
         /\ Tail(t) = <<>> => Append(s, Head(t)) = s \o t
<1>1. PICK n \in Nat : n = Len(t) /\ n > 0
  BY EmptySeq
<1>2. PICK m \in Nat : m = Len(s)
  OBVIOUS
<1>3. /\ Head(t) = t[1] /\ t[1] \in S
      /\ Tail(t) \in Seq(S) /\ Len(Tail(t)) = n - 1
      /\ \A i \in 1..(n - 1) : Tail(t)[i] = t[i + 1]
  BY <1>1
<1>4. /\ Append(s, Head(t)) \in Seq(S) /\ Len(Append(s, Head(t))) = m + 1
      /\ \A i \in 1..m : Append(s, Head(t))[i] = s[i]
      /\ Append(s, Head(t))[m + 1] = t[1]
  BY <1>2, <1>3
<1>5. Append(s, Head(t)) \o Tail(t) = s \o t
  <2> DEFINE u == Append(s, Head(t)) \o Tail(t)
             v == s \o t
  <2>1. u \in Seq(S) /\ v \in Seq(S) /\ Len(u) = n + m /\ Len(v) = n + m
    BY <1>1, <1>2, <1>3, <1>4
  <2>2. ASSUME NEW i \in 1..(n + m) PROVE u[i] = v[i]
    <3>1. CASE i <= m
      BY <3>1, <1>1, <1>2, <1>3, <1>4
    <3>2. CASE i = m + 1
      BY <3>2, <1>1, <1>2, <1>3, <1>4
    <3>3. CASE i > m + 1
      <4>1. u[i] = Tail(t)[i - (m + 1)] /\ i - (m + 1) \in 1..(n - 1)
        BY <3>3, <1>3, <1>4
      <4>2. v[i] = t[i - m]
        BY <3>3, <1>1, <1>2
      <4>3. i - (m + 1) + 1 = i - m
        BY <1>2
      <4> QED
        BY <4>1, <4>2, <4>3, <1>3
    <3> QED
      BY <3>1, <3>2, <3>3, <1>1, <1>2
  <2> HIDE DEF u, v
  <2>3. u = v
    BY <2>1, <2>2, SeqEqual
  <2> QED
    BY <2>3 DEF u, v
<1>6. Tail(t) = <<>> => Append(s, Head(t)) = s \o t
  BY <1>4, <1>5, ConcatEmptySeq
<1> QED
  BY <1>1, <1>2, <1>3, <1>4, <1>5, <1>6

(* What the constants give of a block.                                     *)
LEMMA CardFacts ==
  /\ None \notin Card!WriteState
  /\ BlockSize \in Nat \ {0} /\ ImageSize \in Nat
  /\ CardArg \subseteq ByteValue
  /\ \A block \in CardBlock : block \in [1..BlockSize -> ByteValue] /\ block \in Seq(ByteValue)
                                /\ Len(block) = BlockSize
<1>1. /\ None \notin Card!WriteState
      /\ BlockSize \in Nat \ {0} /\ ImageSize \in Nat
      /\ CardArg \subseteq 0..255
      /\ CardBlock \subseteq [1..BlockSize -> 0..255]
  BY BoardAssumption
<1> QED
  BY <1>1 DEF ByteValue

(* The parts of an answer are bytes.                                       *)
LEMMA Answers ==
  ASSUME NEW c \in CardType, NEW start \in Nat, NEW cmd \in Commands
  PROVE  /\ Card!BlockAt(c.image, start) \in [1..BlockSize -> ByteValue]
         /\ Card!Information(c.highCapacity, cmd) \in Seq(ByteValue)
<1>1. Card!BlockAt(c.image, start) \in [1..BlockSize -> ByteValue]
  <2>1. c.image \in [1..ImageSize -> ByteValue] /\ 0 \in ByteValue
    BY DEF CardType, ByteValue
  <2>2. \A i \in 1..BlockSize :
          (IF start + i \in DOMAIN c.image THEN c.image[start + i] ELSE 0) \in ByteValue
    BY <2>1
  <2> QED
    BY <2>2 DEF Card!BlockAt
<1>2. Card!Information(c.highCapacity, cmd) \in Seq(ByteValue)
  <2>1. <<64, 14>> \in Seq(ByteValue) /\ <<0, 14>> \in Seq(ByteValue) /\ <<3, 68>> \in Seq(ByteValue)
    BY DEF ByteValue
  <2> QED
    BY <2>1 DEF Card!Information
<1> QED
  BY <1>1, <1>2

(* A packet of data begins with a zero.                                    *)
LEMMA Packet ==
  ASSUME NEW block \in Seq(ByteValue)
  PROVE  /\ Card!DataPacket(block) \in Seq(ByteValue)
         /\ Card!DataPacket(block) # <<>> /\ Head(Card!DataPacket(block)) = 0
<1>1. <<0, 254>> \in Seq(ByteValue) /\ <<255, 255>> \in Seq(ByteValue)
  BY DEF ByteValue
<1>2. <<0, 254>> \o block \in Seq(ByteValue) /\ Len(<<0, 254>> \o block) = 2 + Len(block)
      /\ (<<0, 254>> \o block)[1] = 0
  BY <1>1
<1>3. Card!DataPacket(block) \in Seq(ByteValue) /\ Len(Card!DataPacket(block)) = 4 + Len(block)
      /\ Card!DataPacket(block)[1] = 0
  BY <1>1, <1>2 DEF Card!DataPacket
<1>4. Len(block) \in Nat
  OBVIOUS
<1> QED
  BY <1>3, <1>4, HeadTailProperties, EmptySeq

(* An answer begins with a byte that is not FF, the sign that none has     *)
(* begun.                                                                  *)
Reply(bytes) == bytes \in Seq(ByteValue) /\ bytes # <<>> /\ Head(bytes) # 255

(* The short answers are answers.                                          *)
LEMMA ShortReplies ==
  /\ \A x \in {0, 1, 5} : Reply(<<x>>) /\ Reply(<<x, 255>>) /\ Reply(<<x, 0>>)
  /\ Reply(<<1, 0, 0, 1, 170>>)
  /\ \A x \in {0, 1}, y \in {128, 192} : Reply(<<x, y, 0, 0, 0>>)
BY DEF Reply, ByteValue

(* The card's register fields, which a command reads and writes.           *)
Registers(c, d) ==
  /\ c.app = d.app /\ c.tries = d.tries /\ c.ready = d.ready /\ c.write = d.write
  /\ c.highCapacity = d.highCapacity /\ c.image = d.image

(* What a command changes.                                                 *)
Handled(c, h) ==
  /\ h \in CardType /\ Reply(h.pending) /\ h.delay = 1
  /\ h.csActive = c.csActive /\ h.clk = c.clk /\ h.inShift = c.inShift /\ h.inBit = c.inBit
  /\ h.outShift = c.outShift /\ h.outBit = c.outBit /\ h.ioOut = c.ioOut
  /\ h.command = c.command /\ h.queue = c.queue
  /\ h.highCapacity = c.highCapacity /\ h.image = c.image

(* What a command may change before it answers.                            *)
Registered(c, d) ==
  /\ d.csActive = c.csActive /\ d.clk = c.clk /\ d.inShift = c.inShift /\ d.inBit = c.inBit
  /\ d.outShift = c.outShift /\ d.outBit = c.outBit /\ d.ioOut = c.ioOut
  /\ d.command = c.command /\ d.queue = c.queue
  /\ d.highCapacity = c.highCapacity /\ d.image = c.image

(* An answer goes where answers wait.                                      *)
LEMMA RespondHandles ==
  ASSUME NEW c \in CardType, NEW d \in CardType, Registered(c, d), NEW bytes, Reply(bytes)
  PROVE  Handled(c, Card!Respond(d, bytes))
<1> SUFFICES ASSUME NEW h, h = [d EXCEPT !.pending = bytes, !.delay = 1] PROVE Handled(c, h)
  BY DEF Card!Respond
<1>1. DOMAIN h = DOMAIN d
  OBVIOUS
<1>2. \A f \in DOMAIN d : f \notin {"pending", "delay"} => h[f] = d[f]
  OBVIOUS
<1>3. h.pending = bytes /\ h.delay = 1
  BY DEF CardType
<1>6. h.pending \in Seq(ByteValue) /\ h.delay \in 0..1
  BY <1>3 DEF Reply
<1>4. h \in CardType
  BY <1>1, <1>2, <1>6 DEF CardType
<1>5. Registered(d, h)
  BY <1>1, <1>2 DEF Registered, CardType
<1> QED
  BY <1>3, <1>4, <1>5 DEF Handled, Registered

(* The registers take their values.                                        *)
LEMMA SetRegisters ==
  ASSUME NEW c \in CardType, NEW ready \in BOOLEAN, NEW write \in Card!WriteState \cup {None},
         NEW d, \/ d = [c EXCEPT !.ready = FALSE, !.tries = 0, !.app = FALSE]
                \/ d = [c EXCEPT !.app = FALSE, !.tries = 1, !.ready = ready]
                \/ d = [c EXCEPT !.app = TRUE]
                \/ d = [c EXCEPT !.write = write]
  PROVE  d \in CardType /\ Registered(c, d)
<1>1. DOMAIN d = DOMAIN c
  OBVIOUS
<1>2. \A f \in DOMAIN c : f \notin {"ready", "tries", "app", "write"} => d[f] = c[f]
  OBVIOUS
<1>3. /\ d.ready \in BOOLEAN /\ d.tries \in 0..1 /\ d.app \in BOOLEAN
      /\ d.write \in Card!WriteState \cup {None}
  <2>1. CASE d = [c EXCEPT !.ready = FALSE, !.tries = 0, !.app = FALSE]
    BY <2>1 DEF CardType
  <2>2. CASE d = [c EXCEPT !.app = FALSE, !.tries = 1, !.ready = ready]
    BY <2>2 DEF CardType
  <2>3. CASE d = [c EXCEPT !.app = TRUE]
    BY <2>3 DEF CardType
  <2>4. CASE d = [c EXCEPT !.write = write]
    BY <2>4 DEF CardType
  <2> QED
    BY <2>1, <2>2, <2>3, <2>4
<1>4. Registered(c, d)
  BY <1>1, <1>2 DEF Registered, CardType
<1>5. d \in CardType
  BY <1>1, <1>2, <1>3 DEF CardType
<1> QED
  BY <1>4, <1>5

(* Every command is answered, and touches no line and no queue.            *)
LEMMA HandleCommand ==
  ASSUME NEW c \in CardType, NEW cmd \in Commands, NEW arg \in ByteValue
  PROVE  Handled(c, Card!HandleCommand(c, cmd, arg))
<1> DEFINE h == Card!HandleCommand(c, cmd, arg)
           start == Card!Start(c, arg)
<1>3. ASSUME NEW bytes, Reply(bytes) PROVE Handled(c, Card!Respond(c, bytes))
  <2>1. Registered(c, c)
    BY DEF Registered
  <2> QED
    BY <2>1, <1>3, RespondHandles
<1>4. c.ready \in BOOLEAN /\ Card!Status(c.ready) \in {0, 1}
  BY DEF CardType, Card!Status
<1>c. c.tries \in 0..1 /\ c.app \in BOOLEAN /\ c.write \in Card!WriteState \cup {None}
  BY DEF CardType
<1>5. start \in Nat
  BY CardFacts DEF Card!Start, ByteValue
<1>6. CASE cmd = 0
  <2>1. h = Card!Respond([c EXCEPT !.ready = FALSE, !.tries = 0, !.app = FALSE], <<1>>)
    BY <1>6 DEF Card!HandleCommand
  <2>2. ASSUME NEW d, d = [c EXCEPT !.ready = FALSE, !.tries = 0, !.app = FALSE]
        PROVE  Handled(c, Card!Respond(d, <<1>>))
    <3>1. d \in CardType /\ Registered(c, d)
      BY <2>2, <1>c, SetRegisters
    <3> QED
      BY <3>1, RespondHandles, ShortReplies
  <2> QED
    BY <2>1, <2>2
<1>7. CASE cmd \in {8, 58, 13}
  <2>1. h = Card!Respond(c, <<1, 0, 0, 1, 170>>)
        \/ h = Card!Respond(c, <<Card!Status(c.ready), IF c.highCapacity THEN 192 ELSE 128, 0, 0, 0>>)
        \/ h = Card!Respond(c, <<Card!Status(c.ready), 0>>)
    <3>1. CASE cmd = 8
      BY <3>1 DEF Card!HandleCommand
    <3>2. CASE cmd = 58
      BY <3>2 DEF Card!HandleCommand
    <3>3. CASE cmd = 13
      BY <3>3 DEF Card!HandleCommand
    <3> QED
      BY <1>7, <3>1, <3>2, <3>3
  <2> QED
    BY <2>1, <1>3, <1>4, ShortReplies
<1>8. CASE cmd = 55
  <2>1. h = Card!Respond([c EXCEPT !.app = TRUE], <<Card!Status(c.ready)>>)
    BY <1>8 DEF Card!HandleCommand
  <2> QED
    BY <2>1, <1>4, <1>c, SetRegisters, RespondHandles, ShortReplies, ZenonT(40)
<1>9. CASE cmd = 41
  <2>1. h = Card!Initialised(c)
    BY <1>9 DEF Card!HandleCommand
  <2>2. CASE ~c.app
    BY <2>1, <2>2, <1>3, ShortReplies DEF Card!Initialised
  <2>3. CASE c.app
    <3>1. PICK x \in {0, 1}, ready \in BOOLEAN :
            h = Card!Respond([c EXCEPT !.app = FALSE, !.tries = 1, !.ready = ready], <<x>>)
      BY <2>1, <2>3, <1>4 DEF Card!Initialised
    <3>2. ASSUME NEW d, d = [c EXCEPT !.app = FALSE, !.tries = 1, !.ready = ready]
          PROVE  Handled(c, Card!Respond(d, <<x>>))
      <4>1. d \in CardType /\ Registered(c, d)
        BY <3>2, <1>c, SetRegisters
      <4> QED
        BY <4>1, RespondHandles, ShortReplies
    <3> QED
      BY <3>1, <3>2
  <2> QED
    BY <2>2, <2>3
<1>10. CASE cmd \in {9, 10, 17} /\ c.ready
  <2>1. PICK block \in Seq(ByteValue) : h = Card!Respond(c, Card!DataPacket(block))
    <3>1. CASE cmd = 17
      <4>1. Card!BlockAt(c.image, start) \in Seq(ByteValue)
        BY <1>5, Answers, CardFacts
      <4> QED
        BY <3>1, <1>10, <4>1 DEF Card!HandleCommand
    <3>2. CASE cmd \in {9, 10}
      BY <3>2, <1>10, <1>5, Answers DEF Card!HandleCommand
    <3> QED
      BY <3>1, <3>2, <1>10
  <2>2. Reply(Card!DataPacket(block))
    BY Packet DEF Reply
  <2> QED
    BY <2>1, <2>2, <1>3
<1>11. CASE cmd = 24 /\ c.ready
  <2>1. h = Card!Respond([c EXCEPT !.write = Card!OpenWrite(start)], <<0>>)
    BY <1>11 DEF Card!HandleCommand
  <2>2. Card!OpenWrite(start) \in Card!WriteState
    BY <1>5 DEF Card!OpenWrite, Card!WriteState
  <2> HIDE DEF start
  <2> QED
    BY <2>1, <2>2, <1>4, <1>c, SetRegisters, RespondHandles, ShortReplies
<1>12. CASE cmd = 16 \/ (cmd \in {9, 10, 17, 24} /\ ~c.ready)
  <2>1. h = Card!Respond(c, <<Card!Status(c.ready)>>)
    BY <1>12 DEF Card!HandleCommand
  <2> QED
    BY <2>1, <1>3, <1>4, ShortReplies
<1> QED
  <2> HIDE DEF h
  <2>1. CASE cmd \notin {9, 10, 17, 24}
    <3>1. cmd = 0 \/ cmd \in {8, 58, 13} \/ cmd = 55 \/ cmd = 41 \/ cmd = 16
      BY <2>1 DEF Commands
    <3> QED
      BY <3>1, <1>6, <1>7, <1>8, <1>9, <1>12
  <2>2. CASE cmd \in {9, 10, 17, 24} /\ ~c.ready
    BY <2>2, <1>12
  <2>3. CASE cmd \in {9, 10, 17} /\ c.ready
    BY <2>3, <1>10
  <2>4. CASE cmd = 24 /\ c.ready
    BY <2>4, <1>11
  <2> QED
    BY <1>4, <2>1, <2>2, <2>3, <2>4

(* What it does depends on the registers only.                             *)
LEMMA HandleAlike ==
  ASSUME NEW c \in CardType, NEW d \in CardType, Registers(c, d),
         NEW cmd \in Commands, NEW arg \in ByteValue
  PROVE  /\ Registers(Card!HandleCommand(c, cmd, arg), Card!HandleCommand(d, cmd, arg))
         /\ Card!HandleCommand(c, cmd, arg).pending = Card!HandleCommand(d, cmd, arg).pending
<1>1. Card!Start(c, arg) = Card!Start(d, arg)
  BY DEF Card!Start, Registers
<1>2. ASSUME NEW bytes PROVE Registers(Card!Respond(c, bytes), Card!Respond(d, bytes))
                            /\ Card!Respond(c, bytes).pending = Card!Respond(d, bytes).pending
  BY DEF Registers, Card!Respond, CardType
<1>3. CASE cmd = 0
  <2>1. /\ Card!HandleCommand(c, cmd, arg) = Card!Respond([c EXCEPT !.ready = FALSE, !.tries = 0, !.app = FALSE],
                                                      <<1>>)
        /\ Card!HandleCommand(d, cmd, arg) = Card!Respond([d EXCEPT !.ready = FALSE, !.tries = 0, !.app = FALSE],
                                                      <<1>>)
    BY <1>3 DEF Card!HandleCommand
  <2> QED
    BY <2>1 DEF Card!Respond, CardType, Registers
<1>4. CASE cmd = 55
  <2>1. /\ Card!HandleCommand(c, cmd, arg) = Card!Respond([c EXCEPT !.app = TRUE], <<Card!Status(c.ready)>>)
        /\ Card!HandleCommand(d, cmd, arg) = Card!Respond([d EXCEPT !.app = TRUE], <<Card!Status(d.ready)>>)
    BY <1>4 DEF Card!HandleCommand
  <2> QED
    BY <2>1 DEF Card!Respond, CardType, Registers
<1>5. CASE cmd = 41
  <2>1. /\ Card!HandleCommand(c, cmd, arg) = Card!Initialised(c)
        /\ Card!HandleCommand(d, cmd, arg) = Card!Initialised(d)
    BY <1>5 DEF Card!HandleCommand
  <2>2. /\ c.app = d.app /\ c.ready = d.ready /\ c.tries = d.tries
        /\ c.app \in BOOLEAN /\ c.ready \in BOOLEAN
    BY DEF Registers, CardType
  <2>3. CASE ~c.app
    BY <2>1, <2>2, <2>3, <1>2 DEF Card!Initialised
  <2>4. CASE c.app
    <3> DEFINE set(e) == [e EXCEPT !.app = FALSE, !.tries = 1, !.ready = c.ready \/ c.tries >= 1]
               bytes == <<IF c.tries >= 1 THEN 0 ELSE 1>>
    <3>1. /\ Card!HandleCommand(c, cmd, arg) = Card!Respond(set(c), bytes)
          /\ Card!HandleCommand(d, cmd, arg) = Card!Respond(set(d), bytes)
      BY <2>1, <2>2, <2>4 DEF Card!Initialised
    <3> QED
      BY <3>1 DEF Card!Respond, CardType, Registers
  <2> QED
    BY <2>2, <2>3, <2>4
<1>6. CASE cmd = 24 /\ c.ready
  <2>1. /\ Card!HandleCommand(c, cmd, arg) = Card!Respond([c EXCEPT !.write = Card!OpenWrite(Card!Start(c, arg))],
                                                      <<0>>)
        /\ Card!HandleCommand(d, cmd, arg) = Card!Respond([d EXCEPT !.write = Card!OpenWrite(Card!Start(d, arg))],
                                                      <<0>>)
    BY <1>6 DEF Card!HandleCommand, Registers
  <2> QED
    BY <2>1, <1>1 DEF Card!Respond, CardType, Registers
<1>7. CASE cmd \in {8, 13, 16, 58} \/ (cmd \in {9, 10, 17, 24} /\ ~c.ready)
  <2>1. PICK bytes : /\ Card!HandleCommand(c, cmd, arg) = Card!Respond(c, bytes)
                     /\ Card!HandleCommand(d, cmd, arg) = Card!Respond(d, bytes)
    <3>1. CASE cmd = 8
      BY <3>1 DEF Card!HandleCommand
    <3>2. CASE cmd = 13
      BY <3>2 DEF Card!HandleCommand, Registers
    <3>3. CASE cmd = 58
      BY <3>3 DEF Card!HandleCommand, Registers
    <3>4. CASE cmd = 16 \/ (cmd \in {9, 10, 17, 24} /\ ~c.ready)
      <4>1. /\ Card!HandleCommand(c, cmd, arg) = Card!Respond(c, <<Card!Status(c.ready)>>)
            /\ Card!HandleCommand(d, cmd, arg) = Card!Respond(d, <<Card!Status(c.ready)>>)
        <5>1. CASE cmd = 16
          BY <5>1 DEF Card!HandleCommand, Registers
        <5>2. CASE cmd \in {9, 10, 17, 24} /\ ~c.ready
          <6>1. ~d.ready /\ d.ready = c.ready
            BY <5>2 DEF Registers
          <6> QED
            BY <5>2, <6>1 DEF Card!HandleCommand
        <5> QED
          BY <3>4, <5>1, <5>2
      <4> QED
        BY <4>1
    <3> QED
      BY <1>7, <3>1, <3>2, <3>3, <3>4
  <2> QED
    BY <2>1, <1>2
<1>8. CASE cmd \in {9, 10, 17} /\ c.ready
  <2>1. PICK bytes : /\ Card!HandleCommand(c, cmd, arg) = Card!Respond(c, bytes)
                     /\ Card!HandleCommand(d, cmd, arg) = Card!Respond(d, bytes)
    <3>1. CASE cmd = 17
      BY <1>8, <1>1, <3>1 DEF Card!HandleCommand, Registers
    <3>2. CASE cmd \in {9, 10}
      BY <1>8, <3>2 DEF Card!HandleCommand, Registers
    <3> QED
      BY <1>8, <3>1, <3>2
  <2> QED
    BY <2>1, <1>2
<1>9. CASE cmd \notin {9, 10, 17, 24}
  <2>1. cmd = 0 \/ cmd = 55 \/ cmd = 41 \/ cmd \in {8, 13, 16, 58}
    BY <1>9 DEF Commands
  <2> QED
    BY <2>1, <1>3, <1>4, <1>5, <1>7
<1>10. CASE cmd \in {9, 10, 17, 24} /\ ~c.ready
  BY <1>10, <1>7
<1>11. c.ready \in BOOLEAN
  BY DEF CardType
<1> QED
  BY <1>6, <1>8, <1>9, <1>10, <1>11

(* What follows an answer depends on the registers only, as do the answers *)
(* themselves.                                                             *)
LEMMA AheadAlike ==
  ASSUME NEW c, NEW d, Registers(c, d),
         NEW p, NEW q, p.plan = q.plan, p.known = q.known, Ahead(c, p)
  PROVE  Ahead(d, q)
BY DEF Ahead, Registers, Knows, Stores

(* Nor does what it will do with a command depend on them.                 *)
LEMMA ObeysAlike ==
  ASSUME NEW c \in CardType, NEW d \in CardType, Registers(c, d),
         NEW p, NEW q, p.plan = q.plan, p.known = q.known, p.in = q.in,
         NEW cmd \in Commands, NEW arg \in ByteValue, Obeys(c, p, cmd, arg)
  PROVE  Obeys(d, q, cmd, arg)
<1> DEFINE h == Card!HandleCommand(c, cmd, arg)
           k == Card!HandleCommand(d, cmd, arg)
<1>1. Registers(h, k) /\ h.pending = k.pending
  BY HandleAlike
<1>2. h.pending = p.in /\ Ahead(h, p)
  BY DEF Obeys
<1> HIDE DEF h, k
<1>3. k.pending = q.in /\ Ahead(k, q)
  BY <1>1, <1>2, AheadAlike
<1> QED
  BY <1>3 DEF Obeys, k

(* All of the card but its lines, all of the program but its clock.        *)
Unmoved(c, d) ==
  /\ Registers(c, d) /\ d.command = c.command /\ d.queue = c.queue
  /\ d.pending = c.pending /\ d.delay = c.delay
  /\ d.inShift = c.inShift /\ d.outShift = c.outShift
  /\ d.inBit = c.inBit /\ d.outBit = c.outBit

Unheard(p, q) ==
  /\ q.plan = p.plan /\ q.out = p.out /\ q.in = p.in /\ q.bit = p.bit /\ q.heard = p.heard
  /\ q.tries = p.tries /\ q.first = p.first /\ q.known = p.known

(* What the card shows does not depend on its lines.                       *)
LEMMA ShownAlike ==
  ASSUME NEW c \in CardType, NEW d \in CardType, Unmoved(c, d)
  PROVE  Shown(d) = Shown(c)
<1>1. CASE c.outBit # 0 \/ c.pending = <<>>
  BY <1>1 DEF Shown, Card!Answering, Unmoved
<1>2. CASE c.outBit = 0 /\ c.pending # <<>> /\ c.delay > 0
  <2>1. Shown(c) = c.outShift /\ Shown(d) = d.outShift
    BY <1>2 DEF Shown, Card!Answering, Unmoved, CardType
  <2> QED
    BY <2>1 DEF Unmoved
<1>3. CASE c.outBit = 0 /\ c.pending # <<>> /\ ~(c.delay > 0)
  <2>1. Shown(c) = Head(c.queue \o c.pending) /\ Shown(d) = Head(d.queue \o d.pending)
    BY <1>3 DEF Shown, Card!Answering, Card!EnqueueResponse, Unmoved, CardType
  <2> QED
    BY <2>1 DEF Unmoved
<1> QED
  BY <1>1, <1>2, <1>3

(* Lines and clock leave the phase as it is.                               *)
LEMMA PhaseAlike ==
  ASSUME NEW c \in CardType, NEW d \in CardType, Unmoved(c, d),
         NEW p, NEW q, Unheard(p, q), Phase(c, p), InStep(c, p),
         Resting(c, p) => ~q.low, q.low => d.csActive /\ ~d.clk
  PROVE  Phase(d, q) /\ InStep(d, q)
<1>1. Registers(c, d)
  BY DEF Unmoved
<1>2. Ahead(c, p) => Ahead(d, q)
  BY <1>1, AheadAlike DEF Unheard
<1>3. ASSUME Resting(c, p) PROVE Phase(d, q)
  BY <1>3 DEF Phase, Resting, Silent, Knows, Unmoved, Unheard, Registers
<1>4. ASSUME Commanding(c, p) PROVE Phase(d, q)
  <2>1. PICK cmd \in Commands, arg \in ByteValue :
          c.command \o p.out = Card!Frame(cmd, arg) /\ Obeys(c, p, cmd, arg)
    BY <1>4 DEF Commanding
  <2>2. Obeys(d, q, cmd, arg)
    BY <1>1, <2>1, ObeysAlike DEF Unheard
  <2>3. d.command \o q.out = Card!Frame(cmd, arg)
    BY <2>1 DEF Unmoved, Unheard
  <2>4. Opening(d, q) /\ d.write = None
    BY <1>4 DEF Commanding, Opening, Silent, Unmoved, Unheard, Registers
  <2> QED
    BY <2>2, <2>3, <2>4 DEF Phase, Commanding
<1>5. ASSUME Storing(c, p) PROVE Phase(d, q)
  <2>1. Opening(d, q) /\ d.command = <<>> /\ q.plan = <<>> /\ q.in = <<5, 255>>
    BY <1>5 DEF Storing, Opening, Silent, Unmoved, Unheard
  <2>2. \A block \in CardBlock : Stores(c, p.known, block) /\ Midway(c.write, p.out, block)
                                 => Stores(d, q.known, block) /\ Midway(d.write, q.out, block)
    BY DEF Stores, Knows, Unmoved, Unheard, Registers
  <2> QED
    BY <1>5, <2>1, <2>2 DEF Phase, Storing
<1>6. ASSUME Waiting(c, p) PROVE Phase(d, q)
  BY <1>2, <1>6 DEF Phase, Waiting, Hearing, Unmoved, Unheard
<1>7. ASSUME Answering(c, p) PROVE Phase(d, q)
  BY <1>2, <1>7 DEF Phase, Answering, Hearing, Unmoved, Unheard
<1>8. Phase(d, q)
  BY <1>3, <1>4, <1>5, <1>6, <1>7 DEF Phase
<1>9. InStep(d, q)
  <2>1. Shown(d) = Shown(c) /\ Sent(q) = Sent(p)
    BY ShownAlike DEF Sent, Unheard
  <2> QED
    BY <2>1 DEF InStep, Unmoved, Unheard
<1> QED
  BY <1>8, <1>9

(* The program's record, but for one field or two.                         *)
LEMMA ProgramClock ==
  ASSUME NEW low \in BOOLEAN, CardInv, program' = [program EXCEPT !.low = low]
  PROVE  program' \in ProgramType /\ Unheard(program, program') /\ program'.low = low
<1>1. program \in ProgramType
  BY DEF CardInv
<1>2. program' \in ProgramType
  BY <1>1 DEF ProgramType
<1> QED
  BY <1>1, <1>2 DEF ProgramType, Unheard

(* The select drops.                                                       *)
LEMMA DeselectStep == CardInv /\ Card!Deselect => CardInv'
<1> SUFFICES ASSUME CardInv, Card!Deselect PROVE CardInv'
  OBVIOUS
<1>1. card \in CardType /\ Phase(card, program) /\ InStep(card, program)
  BY DEF CardInv
<1>2. PICK clk \in BOOLEAN : card' = [card EXCEPT !.csActive = FALSE, !.clk = clk]
  BY DEF Card!Deselect, Card!Write
<1>3. card' \in CardType /\ Unmoved(card, card')
  <2> SUFFICES ASSUME NEW d, d = [card EXCEPT !.csActive = FALSE, !.clk = clk]
               PROVE  d \in CardType /\ Unmoved(card, d)
    BY <1>2
  <2>1. DOMAIN d = DOMAIN card
    OBVIOUS
  <2>2. \A f \in DOMAIN card : f \notin {"csActive", "clk"} => d[f] = card[f]
    OBVIOUS
  <2>3. d.csActive \in BOOLEAN /\ d.clk \in BOOLEAN
    BY <1>1 DEF CardType
  <2>4. d \in CardType
    BY <1>1, <2>1, <2>2, <2>3 DEF CardType
  <2>5. Unmoved(card, d)
    BY <1>1, <2>1, <2>2 DEF Unmoved, Registers, CardType
  <2> QED
    BY <2>4, <2>5
<1>4. program' \in ProgramType /\ Unheard(program, program') /\ ~program'.low
  BY ProgramClock DEF Card!Deselect
<1>5. Phase(card', program') /\ InStep(card', program')
  BY <1>1, <1>3, <1>4, PhaseAlike
<1> QED
  BY <1>3, <1>4, <1>5 DEF CardInv

(* Nothing waits for a delay but an answer.                                *)
LEMMA NoDelay ==
  ASSUME NEW c \in CardType, NEW p, Phase(c, p), c.pending = <<>> PROVE c.delay = 0
BY DEF Phase, Resting, Commanding, Storing, Waiting, Answering, Opening, Silent, Hearing, CardType

(* What is being sent is a byte.                                           *)
LEMMA SentByte == ASSUME NEW p \in ProgramType PROVE Sent(p) \in ByteValue
<1>1. p.out \in Seq(ByteValue) /\ 255 \in ByteValue
  BY DEF ProgramType, ByteValue
<1> QED
  BY <1>1, HeadTailProperties DEF Sent

(* A card as it is switched on, or selected.                               *)
LEMMA IdleCardType ==
  ASSUME NEW highCapacity \in BOOLEAN PROVE Card!IdleCard(highCapacity) \in CardType
<1>1. Card!Zeros(ImageSize) \in [1..ImageSize -> ByteValue] /\ 255 \in ByteValue /\ 0 \in ByteValue
  BY CardFacts DEF Card!Zeros, ByteValue
<1> QED
  BY <1>1 DEF Card!IdleCard, CardType

(* Selecting a card forgets nothing: what it clears is clear.              *)
LEMMA SelectedCard ==
  ASSUME NEW c \in CardType, NEW p \in ProgramType, Phase(c, p), InStep(c, p)
  PROVE  Card!Selected(c) \in CardType /\ Unmoved(c, Card!Selected(c))
<1>1. CASE Card!Selected(c) = c
  BY <1>1 DEF Unmoved, Registers
<1>2. CASE Card!Selected(c) # c
  <2> DEFINE d == Card!BeginTransaction(c)
  <2>1. ~Card!HasActiveTransaction(c) /\ Card!Selected(c) = d
    BY <1>2 DEF Card!Selected
  <2>2. /\ c.command = <<>> /\ c.pending = <<>> /\ c.queue = <<>>
        /\ c.outShift = 255 /\ c.outBit = 0 /\ c.write = None
    BY <2>1 DEF Card!HasActiveTransaction
  <2>3. c.delay = 0
    BY <2>2, NoDelay
  <2>4. c.inBit = 0 /\ p.bit = 0
    BY <2>2 DEF InStep
  <2>5. c.inShift = 0
    BY <2>4, SentByte, FirstBits DEF InStep
  <2>6. Unmoved(c, d)
    BY <2>2, <2>3, <2>4, <2>5 DEF Card!BeginTransaction, Card!IdleCard, Unmoved, Registers
  <2>7. d \in CardType
    <3>1. PICK e \in CardType : e = Card!IdleCard(c.highCapacity)
      BY IdleCardType DEF CardType
    <3> SUFFICES ASSUME NEW k, k = [e EXCEPT !.csActive = TRUE, !.clk = c.clk, !.app = c.app,
                                             !.tries = c.tries, !.ready = c.ready, !.image = c.image]
                 PROVE  k \in CardType
      BY <3>1 DEF Card!BeginTransaction
    <3>2. DOMAIN k = DOMAIN e
      OBVIOUS
    <3>3. \A f \in DOMAIN e :
            f \notin {"csActive", "clk", "app", "tries", "ready", "image"} => k[f] = e[f]
      OBVIOUS
    <3>4. /\ k.csActive = TRUE /\ k.clk = c.clk /\ k.app = c.app /\ k.tries = c.tries
          /\ k.ready = c.ready /\ k.image = c.image
      BY DEF CardType
    <3>5. /\ k.csActive \in BOOLEAN /\ k.clk \in BOOLEAN /\ k.app \in BOOLEAN
          /\ k.tries \in 0..1 /\ k.ready \in BOOLEAN /\ k.image \in [1..ImageSize -> ByteValue]
      BY <3>4 DEF CardType
    <3> QED
      BY <3>2, <3>3, <3>5 DEF CardType
  <2> QED
    BY <2>1, <2>6, <2>7
<1> QED
  BY <1>1, <1>2

(* The program lowers the clock, and selects the card again if need be.    *)
LEMMA LowerCardClock == CardInv /\ Card!LowerClock => CardInv'
<1> SUFFICES ASSUME CardInv, Card!LowerClock PROVE CardInv'
  OBVIOUS
<1>1. /\ card \in CardType /\ Phase(card, program) /\ InStep(card, program)
      /\ program \in ProgramType
  BY DEF CardInv
<1>2. PICK s \in CardType : s = Card!Selected(card) /\ Unmoved(card, s)
  BY <1>1, SelectedCard
<1>3. card' = [s EXCEPT !.csActive = TRUE, !.clk = FALSE]
  BY <1>2 DEF Card!LowerClock, Card!Write
<1>4. card' \in CardType /\ Unmoved(s, card') /\ card'.csActive /\ ~card'.clk
  <2> SUFFICES ASSUME NEW d, d = [s EXCEPT !.csActive = TRUE, !.clk = FALSE]
               PROVE  d \in CardType /\ Unmoved(s, d) /\ d.csActive /\ ~d.clk
    BY <1>3
  <2>1. DOMAIN d = DOMAIN s
    OBVIOUS
  <2>2. \A f \in DOMAIN s : f \notin {"csActive", "clk"} => d[f] = s[f]
    OBVIOUS
  <2>3. d.csActive = TRUE /\ d.clk = FALSE
    BY DEF CardType
  <2>4. d.csActive \in BOOLEAN /\ d.clk \in BOOLEAN
    BY <2>3
  <2>5. d \in CardType
    BY <2>1, <2>2, <2>4 DEF CardType
  <2>6. Unmoved(s, d)
    BY <2>1, <2>2 DEF Unmoved, Registers, CardType
  <2> QED
    BY <2>3, <2>5, <2>6
<1>5. Unmoved(card, card')
  BY <1>2, <1>4 DEF Unmoved, Registers
<1>6. program' \in ProgramType /\ Unheard(program, program')
  BY ProgramClock DEF Card!LowerClock
<1>7. ~Resting(card, program)
  BY DEF Card!LowerClock, Card!AtRest, Resting
<1>8. Phase(card', program') /\ InStep(card', program')
  BY <1>1, <1>4, <1>5, <1>6, <1>7, PhaseAlike
<1> QED
  BY <1>4, <1>6, <1>8 DEF CardInv

KnownType == [ready : BOOLEAN, inits : 0..1, app : BOOLEAN, image : [1..ImageSize -> ByteValue]]

(* Card and program begin at rest.                                         *)
LEMMA CardInitInv == Init => CardInv
<1> SUFFICES ASSUME Init PROVE CardInv
  OBVIOUS
<1>1. PICK highCapacity \in BOOLEAN :
        card = Card!IdleCard(highCapacity) /\ program = Card!IdleProgram
  BY DEF Init, Card!CardInit
<1>2. card \in CardType
  BY <1>1, IdleCardType
<1>3. program \in ProgramType
  <2>1. Card!Zeros(ImageSize) \in [1..ImageSize -> ByteValue]
    BY CardFacts DEF Card!Zeros, ByteValue
  <2> QED
    BY <1>1, <2>1 DEF Card!IdleProgram, ProgramType
<1>4. Resting(card, program)
  BY <1>1 DEF Card!IdleCard, Card!IdleProgram, Resting, Silent, Knows
<1>5. InStep(card, program)
  <2>1. Shown(card) = 255 /\ Sent(program) = 255 /\ 255 \in ByteValue
    BY <1>1 DEF Card!IdleCard, Card!IdleProgram, Shown, Card!Answering, Sent, ByteValue
  <2>2. /\ card.inBit = 0 /\ card.outBit = 0 /\ program.bit = 0 /\ card.inShift = 0
        /\ program.heard = 0 /\ ~program.low
    BY <1>1 DEF Card!IdleCard, Card!IdleProgram
  <2> QED
    BY <2>1, <2>2, FirstBits DEF InStep
<1> QED
  BY <1>2, <1>3, <1>4, <1>5 DEF CardInv, Phase

(* A program that has nothing to do is at rest, and so is the card.        *)
LEMMA RestFacts ==
  ASSUME CardInv, Card!AtRest
  PROVE  /\ Resting(card, program) /\ card \in CardType /\ program \in ProgramType
         /\ InStep(card, program)
         /\ card.ready = program.known.ready /\ card.tries = program.known.inits
         /\ card.app = program.known.app /\ card.image = program.known.image
         /\ card.write = None
BY DEF CardInv, Phase, Resting, Commanding, Storing, Waiting, Answering, Opening, Hearing,
       Card!AtRest, Knows

(* The frame of a command, in bytes.                                       *)
LEMMA FrameBytes ==
  ASSUME NEW cmd \in Commands, NEW arg \in ByteValue
  PROVE  /\ Card!Frame(cmd, arg) \in Seq(ByteValue) /\ Len(Card!Frame(cmd, arg)) = 6
         /\ Card!Frame(cmd, arg)[1] = 64 + cmd /\ Card!Frame(cmd, arg)[2] = 0
         /\ Card!Frame(cmd, arg)[3] = 0 /\ Card!Frame(cmd, arg)[4] = 0
         /\ Card!Frame(cmd, arg)[5] = arg
         /\ (64 + cmd) % 64 = cmd /\ (64 + cmd) \div 64 = 1
<1>1. cmd \in 0..58
  BY DEF Commands
<1>2. /\ 64 + cmd \in ByteValue /\ 0 \in ByteValue /\ 255 \in ByteValue
      /\ (64 + cmd) % 64 = cmd /\ (64 + cmd) \div 64 = 1
  BY <1>1 DEF ByteValue
<1> QED
  BY <1>2 DEF Card!Frame

(* A command begins: the program sends its frame, and what it expects is   *)
(* what the card will do.                                                  *)
LEMMA BeginStep ==
  ASSUME CardInv, Card!AtRest, NEW cmd \in Commands, NEW arg \in ByteValue,
         NEW in, NEW rest \in Seq(ExchangeType), NEW known \in KnownType,
         card' = card,
         program' = [program EXCEPT !.plan = rest, !.out = Card!Frame(cmd, arg), !.in = in,
                                    !.first = TRUE, !.tries = 0, !.known = known],
         Card!HandleCommand(card, cmd, arg).pending = in,
         Ahead(Card!HandleCommand(card, cmd, arg), program')
  PROVE  CardInv'
<1>1. Resting(card, program) /\ card \in CardType /\ program \in ProgramType /\ InStep(card, program)
  BY RestFacts
<1>2. in \in Seq(ByteValue) /\ in # <<>>
  BY <1>1, HandleCommand DEF Handled, Reply
<1>3. Card!Frame(cmd, arg) \in Seq(ByteValue) /\ Card!Frame(cmd, arg) # <<>>
  BY FrameBytes, EmptySeq
<1>4. /\ program'.plan = rest /\ program'.out = Card!Frame(cmd, arg) /\ program'.in = in
      /\ program'.first = TRUE /\ program'.tries = 0 /\ program'.known = known
      /\ program'.bit = program.bit /\ program'.heard = program.heard
      /\ program'.low = program.low
  BY <1>1 DEF ProgramType
<1>5. program' \in ProgramType
  <2> SUFFICES ASSUME NEW q, q = [program EXCEPT !.plan = rest, !.out = Card!Frame(cmd, arg),
                                    !.in = in, !.first = TRUE, !.tries = 0, !.known = known]
               PROVE  q \in ProgramType
    OBVIOUS
  <2>1. DOMAIN q = DOMAIN program
    OBVIOUS
  <2>2. \A f \in DOMAIN program :
          f \notin {"plan", "out", "in", "first", "tries", "known"} => q[f] = program[f]
    OBVIOUS
  <2>3. /\ q.plan \in Seq(ExchangeType) /\ q.out \in Seq(ByteValue) /\ q.in \in Seq(ByteValue)
        /\ q.first \in BOOLEAN /\ q.tries \in 0..1 /\ q.known \in KnownType
    BY <1>1, <1>2, <1>3 DEF ProgramType
  <2> QED
    BY <1>1, <2>1, <2>2, <2>3 DEF ProgramType, KnownType
<1>6. Commanding(card', program')
  <2>1. card'.command \o program'.out = Card!Frame(cmd, arg)
    <3>1. card'.command = <<>>
      BY <1>1 DEF Resting
    <3> QED
      BY <3>1, <1>3, <1>4, ConcatEmptySeq
  <2>2. Obeys(card', program', cmd, arg)
    BY <1>4 DEF Obeys
  <2>3. Opening(card', program') /\ card'.write = None
    BY <1>1, <1>3, <1>4 DEF Opening, Resting, Silent
  <2> QED
    BY <2>1, <2>2, <2>3 DEF Commanding
<1>7. InStep(card', program')
  <2>1. /\ program'.bit = 0 /\ program.bit = 0 /\ card.inBit = 0 /\ card.outBit = 0
        /\ card.inShift = 0 /\ program'.heard = program.heard
        /\ program.heard = Bits(Shown(card), 0) /\ ~program'.low
    BY <1>1, <1>4, SentByte, FirstBits DEF InStep, Resting
  <2>2. Bits(Sent(program'), 0) = 0
    BY <1>5, SentByte, FirstBits
  <2>3. Shown(card') = Shown(card)
    BY <1>1, ShownAlike DEF Unmoved, Registers
  <2> QED
    BY <2>1, <2>2, <2>3 DEF InStep
<1> QED
  BY <1>1, <1>5, <1>6, <1>7 DEF CardInv, Phase

(* A command that is all there is to its exchange.                         *)
LEMMA FollowStep ==
  ASSUME CardInv, Card!AtRest, NEW cmd \in Commands, NEW arg \in ByteValue,
         NEW in, NEW known \in KnownType,
         Card!Follow(<<Card!Exchange(Card!Frame(cmd, arg), in)>>, known),
         Card!HandleCommand(card, cmd, arg).pending = in,
         Card!HandleCommand(card, cmd, arg).write = None,
         Knows(Card!HandleCommand(card, cmd, arg), known, card.image)
  PROVE  CardInv'
<1>1. /\ card' = card
      /\ program' = [program EXCEPT !.plan = <<>>, !.out = Card!Frame(cmd, arg), !.in = in,
                                    !.first = TRUE, !.tries = 0, !.known = known]
  <2> DEFINE x == Card!Exchange(Card!Frame(cmd, arg), in)
  <2>1. x.out = Card!Frame(cmd, arg) /\ x.in = in
    BY DEF Card!Exchange
  <2> HIDE DEF x
  <2>2. Head(<<x>>) = x /\ Tail(<<x>>) = <<>>
    OBVIOUS
  <2>3. /\ card' = card
        /\ program' = [program EXCEPT !.plan = Tail(<<x>>), !.out = Head(<<x>>).out,
                         !.in = Head(<<x>>).in, !.first = TRUE, !.tries = 0, !.known = known]
    BY DEF Card!Follow, x, cardVars
  <2> QED
    BY <2>1, <2>2, <2>3
<1>2. Card!HandleCommand(card, cmd, arg).image = card.image
  BY RestFacts, HandleCommand DEF Handled
<1>3. Ahead(Card!HandleCommand(card, cmd, arg), program')
  <2>1. program'.plan = <<>> /\ program'.known = known
    BY <1>1, RestFacts DEF ProgramType
  <2> QED
    BY <1>2, <2>1 DEF Ahead
<1>4. <<>> \in Seq(ExchangeType)
  OBVIOUS
<1> QED
  BY <1>1, <1>3, <1>4, BeginStep

(* Every answer of the card that tells what the program knows already.     *)
LEMMA AskStep ==
  ASSUME CardInv, Card!AtRest, NEW cmd \in Commands, NEW arg \in ByteValue, NEW in,
         Card!Follow(<<Card!Exchange(Card!Frame(cmd, arg), in)>>, program.known),
         Card!HandleCommand(card, cmd, arg) = Card!Respond(card, in)
  PROVE  CardInv'
<1> DEFINE h == Card!HandleCommand(card, cmd, arg)
<1>1. card \in CardType /\ program \in ProgramType
  BY RestFacts
<1>2. h.pending = in /\ h.write = card.write /\ h.ready = card.ready /\ h.tries = card.tries
      /\ h.app = card.app
  BY <1>1 DEF Card!Respond, CardType
<1>3. program.known \in KnownType
  BY <1>1 DEF ProgramType, KnownType
<1> HIDE DEF h
<1>4. h.write = None /\ Knows(h, program.known, card.image)
  BY <1>2, RestFacts DEF Knows
<1> QED
  BY <1>2, <1>3, <1>4, FollowStep DEF h

(* The program forgets the initialisation.                                 *)
LEMMA KnownReset ==
  ASSUME NEW k \in KnownType, NEW m, m = [k EXCEPT !.ready = FALSE, !.inits = 0, !.app = FALSE]
  PROVE  /\ m \in KnownType /\ m.ready = FALSE /\ m.inits = 0 /\ m.app = FALSE
         /\ m.image = k.image
<1>1. m.ready = FALSE /\ m.inits = 0 /\ m.app = FALSE /\ m.image = k.image
  BY DEF KnownType
<1>2. DOMAIN m = DOMAIN k
  OBVIOUS
<1>3. m.ready \in BOOLEAN /\ m.inits \in 0..1 /\ m.app \in BOOLEAN
  BY <1>1
<1>4. m \in KnownType
  BY <1>1, <1>2, <1>3 DEF KnownType
<1> QED
  BY <1>1, <1>4

(* The initialisation: CMD0, CMD55 and ACMD41.                             *)
LEMMA InitialiseStep ==
  CardInv /\ (Card!GoIdle \/ Card!AppCommand \/ Card!SendOpCond) => CardInv'
<1> SUFFICES ASSUME CardInv, Card!GoIdle \/ Card!AppCommand \/ Card!SendOpCond PROVE CardInv'
  OBVIOUS
<1>1. Card!AtRest
  BY DEF Card!GoIdle, Card!AppCommand, Card!SendOpCond
<1>2. PICK k \in KnownType : k = program.known
  BY <1>1, RestFacts DEF ProgramType, KnownType
<1>3. /\ card \in CardType /\ card.write = None /\ card.ready = k.ready
      /\ card.tries = k.inits /\ card.app = k.app /\ card.image = k.image
  BY <1>1, <1>2, RestFacts
<1>4. 0 \in ByteValue /\ 0 \in Commands /\ 55 \in Commands /\ 41 \in Commands
  BY DEF ByteValue, Commands
<1>5. CASE Card!GoIdle
  <2> DEFINE h == Card!HandleCommand(card, 0, 0)
  <2> DEFINE known == [k EXCEPT !.ready = FALSE, !.inits = 0, !.app = FALSE]
  <2>1. /\ known \in KnownType /\ known.ready = FALSE /\ known.inits = 0 /\ known.app = FALSE
        /\ known.image = k.image
    <3>1. ASSUME NEW m, m = [k EXCEPT !.ready = FALSE, !.inits = 0, !.app = FALSE]
          PROVE  /\ m \in KnownType /\ m.ready = FALSE /\ m.inits = 0 /\ m.app = FALSE
                 /\ m.image = k.image
      BY <3>1, KnownReset
    <3> QED
      BY <3>1
  <2>2. Card!Follow(<<Card!Exchange(Card!Frame(0, 0), <<1>>)>>, known)
    BY <1>2, <1>5 DEF Card!GoIdle
  <2> HIDE DEF known
  <2>3. h = Card!Respond([card EXCEPT !.ready = FALSE, !.tries = 0, !.app = FALSE], <<1>>)
    BY DEF Card!HandleCommand
  <2>4. h.pending = <<1>> /\ h.write = card.write /\ h.ready = FALSE /\ h.tries = 0 /\ h.app = FALSE
    BY <1>3, <2>3 DEF Card!Respond, CardType
  <2> HIDE DEF h
  <2>5. h.write = None /\ Knows(h, known, card.image)
    BY <1>3, <2>1, <2>4 DEF Knows
  <2> QED
    BY <1>1, <1>4, <2>1, <2>2, <2>4, <2>5, FollowStep DEF h
<1>6. CASE Card!AppCommand
  <2> DEFINE h == Card!HandleCommand(card, 55, 0)
  <2>1. PICK known \in KnownType :
          known.ready = k.ready /\ known.inits = k.inits /\ known.app = TRUE /\ known.image = k.image
          /\ known = [k EXCEPT !.app = TRUE]
    BY DEF KnownType
  <2>2. Card!Follow(<<Card!Exchange(Card!Frame(55, 0), <<Card!Status(card.ready)>>)>>, known)
    BY <1>2, <1>3, <1>6, <2>1 DEF Card!AppCommand
  <2>3. h = Card!Respond([card EXCEPT !.app = TRUE], <<Card!Status(card.ready)>>)
    BY DEF Card!HandleCommand
  <2>4. /\ h.pending = <<Card!Status(card.ready)>> /\ h.write = card.write
        /\ h.ready = card.ready /\ h.tries = card.tries /\ h.app = TRUE
    BY <1>3, <2>3 DEF Card!Respond, CardType
  <2> HIDE DEF h
  <2>5. h.write = None /\ Knows(h, known, card.image)
    BY <1>3, <2>1, <2>4 DEF Knows
  <2> QED
    BY <1>1, <1>4, <2>2, <2>4, <2>5, FollowStep DEF h
<1>7. CASE Card!SendOpCond
  <2> DEFINE h == Card!HandleCommand(card, 41, 0)
             done == k.app /\ k.inits = 1
             known == [k EXCEPT !.app = FALSE, !.ready = @ \/ done,
                                !.inits = IF k.app THEN 1 ELSE @]
             in == <<IF ~k.app THEN 5 ELSE Card!Status(done)>>
  <2>1. /\ known \in KnownType /\ known.app = FALSE /\ known.image = k.image
        /\ known.inits = (IF k.app THEN 1 ELSE k.inits)
        /\ known.ready = (k.ready \/ done)
    <3>1. PICK ready \in BOOLEAN : ready = (k.ready \/ done)
      OBVIOUS
    <3>2. PICK inits \in 0..1 : inits = IF k.app THEN 1 ELSE k.inits
      BY DEF KnownType
    <3>3. known = [k EXCEPT !.app = FALSE, !.ready = ready, !.inits = inits]
      BY <3>1, <3>2 DEF KnownType
    <3> HIDE DEF known
    <3>4. known \in KnownType
      BY <3>3 DEF KnownType
    <3>5. /\ known.ready = ready /\ known.inits = inits /\ known.app = FALSE
          /\ known.image = k.image
      BY <3>3 DEF KnownType
    <3> QED
      BY <3>1, <3>2, <3>4, <3>5
  <2>2. Card!Follow(<<Card!Exchange(Card!Frame(41, 0), in)>>, known)
    BY <1>2, <1>7 DEF Card!SendOpCond
  <2>3. h = Card!Initialised(card)
    BY DEF Card!HandleCommand
  <2> HIDE DEF known
  <2>4. CASE ~k.app
    <3>1. h = Card!Respond(card, <<5>>) /\ in = <<5>>
      BY <1>3, <2>3, <2>4 DEF Card!Initialised
    <3>2. /\ h.pending = <<5>> /\ h.write = card.write
          /\ h.ready = card.ready /\ h.tries = card.tries /\ h.app = card.app
      BY <1>3, <3>1 DEF Card!Respond, CardType
    <3>3. known.ready = k.ready /\ known.inits = k.inits /\ known.app = k.app
      BY <2>1, <2>4 DEF KnownType
    <3> HIDE DEF h
    <3>4. h.write = None /\ Knows(h, known, card.image)
      BY <1>3, <2>1, <3>2, <3>3 DEF Knows
    <3> QED
      BY <1>1, <1>4, <2>1, <2>2, <3>1, <3>2, <3>4, FollowStep DEF h
  <2>5. CASE k.app
    <3>1. card.tries >= 1 <=> k.inits = 1
      BY <1>3 DEF KnownType
    <3>2. /\ h = Card!Respond([card EXCEPT !.app = FALSE, !.tries = 1,
                                           !.ready = card.ready \/ card.tries >= 1], in)
      BY <1>3, <2>3, <2>5, <3>1 DEF Card!Initialised, Card!Status
    <3>3. /\ h.pending = in /\ h.write = card.write
          /\ h.ready = (card.ready \/ card.tries >= 1) /\ h.tries = 1 /\ h.app = FALSE
      BY <1>3, <3>2 DEF Card!Respond, CardType
    <3>4. known.ready = (card.ready \/ card.tries >= 1) /\ known.inits = 1
      BY <1>3, <2>1, <2>5, <3>1 DEF KnownType
    <3> HIDE DEF h
    <3>5. h.write = None /\ Knows(h, known, card.image)
      BY <1>3, <2>1, <3>3, <3>4 DEF Knows
    <3> QED
      BY <1>1, <1>4, <2>1, <2>2, <3>3, <3>5, FollowStep DEF h
  <2> QED
    BY <2>4, <2>5
<1> QED
  BY <1>5, <1>6, <1>7

(* Questions, and reading a block.                                         *)
LEMMA AskingStep ==
  ASSUME CardInv, NEW cmd \in {8, 9, 10, 13, 16, 58}, Card!Ask(cmd) PROVE CardInv'
<1>1. /\ Card!AtRest /\ 0 \in ByteValue
      /\ Card!Follow(<<Card!Exchange(Card!Frame(cmd, 0), Card!AsksOnly(cmd))>>, program.known)
  BY DEF Card!Ask, ByteValue
<1>2. program.known.ready = card.ready
  BY <1>1, RestFacts
<1>3. Card!HandleCommand(card, cmd, 0) = Card!Respond(card, Card!AsksOnly(cmd))
  <2>1. CASE cmd = 8
    BY <2>1 DEF Card!HandleCommand, Card!AsksOnly
  <2>2. CASE cmd = 58
    BY <2>2, <1>2 DEF Card!HandleCommand, Card!AsksOnly
  <2>3. CASE cmd = 13
    BY <2>3, <1>2 DEF Card!HandleCommand, Card!AsksOnly
  <2>4. CASE cmd = 16
    BY <2>4, <1>2 DEF Card!HandleCommand, Card!AsksOnly
  <2>5. CASE cmd \in {9, 10} /\ card.ready
    BY <2>5, <1>2 DEF Card!HandleCommand, Card!AsksOnly
  <2>6. CASE cmd \in {9, 10} /\ ~card.ready
    BY <2>6, <1>2 DEF Card!HandleCommand, Card!AsksOnly
  <2> QED
    BY <2>1, <2>2, <2>3, <2>4, <2>5, <2>6
<1>4. cmd \in Commands
  BY DEF Commands
<1> QED
  BY <1>1, <1>3, <1>4, AskStep

(* Reading a block.                                                        *)
LEMMA ReadBlockStep ==
  ASSUME CardInv, NEW arg \in CardArg, Card!ReadBlock(arg) PROVE CardInv'
<1> DEFINE in == IF program.known.ready
                   THEN Card!DataPacket(Card!BlockAt(program.known.image, Card!Address(arg)))
                   ELSE <<1>>
<1>1. /\ Card!AtRest /\ arg \in ByteValue /\ 17 \in Commands
      /\ Card!Follow(<<Card!Exchange(Card!Frame(17, arg), in)>>, program.known)
  BY CardFacts DEF Card!ReadBlock, Commands
<1>2. program.known.ready = card.ready /\ program.known.image = card.image
  BY <1>1, RestFacts
<1>3. Card!HandleCommand(card, 17, arg) = Card!Respond(card, in)
  <2>1. CASE card.ready
    BY <2>1, <1>2 DEF Card!HandleCommand, Card!Address, Card!Start
  <2>2. CASE ~card.ready
    BY <2>2, <1>2 DEF Card!HandleCommand, Card!Status
  <2> QED
    BY <2>1, <2>2
<1> QED
  BY <1>1, <1>3, AskStep

(* A block takes its place in the image.                                   *)
LEMMA ImageType ==
  ASSUME NEW image \in [1..ImageSize -> ByteValue], NEW start \in Nat, NEW block \in CardBlock
  PROVE  Card!WithBlockAt(image, start, block) \in [1..ImageSize -> ByteValue]
<1>1. block \in [1..BlockSize -> ByteValue]
  BY CardFacts
<1>2. \A i \in 1..ImageSize :
        (IF i - start \in 1..BlockSize THEN block[i - start] ELSE image[i]) \in ByteValue
  BY <1>1
<1>3. DOMAIN image = 1..ImageSize
  OBVIOUS
<1> QED
  BY <1>2, <1>3 DEF Card!WithBlockAt

(* What the program sends of a block is bytes, and so is the answer.       *)
LEMMA BlockBytes ==
  ASSUME NEW block \in CardBlock
  PROVE  Card!Exchange(BlockOut(block), <<5, 255>>) \in ExchangeType
<1>1. <<254>> \in Seq(ByteValue) /\ <<255, 255>> \in Seq(ByteValue) /\ <<5, 255>> \in Seq(ByteValue)
  BY DEF ByteValue
<1>2. BlockOut(block) \in Seq(ByteValue)
  BY <1>1, CardFacts DEF BlockOut
<1> QED
  BY <1>1, <1>2 DEF Card!Exchange, ExchangeType

(* Writing a block: the command, and the block behind its answer.          *)
LEMMA WriteBlockStep ==
  ASSUME CardInv, NEW arg \in CardArg, NEW block \in CardBlock, Card!WriteBlock(arg, block)
  PROVE  CardInv'
<1>1. Card!AtRest /\ arg \in ByteValue /\ 24 \in Commands
  BY CardFacts DEF Card!WriteBlock, Commands
<1>2. PICK k \in KnownType : k = program.known
  BY <1>1, RestFacts DEF ProgramType, KnownType
<1>3. /\ card \in CardType /\ card.write = None /\ card.ready = k.ready
      /\ card.tries = k.inits /\ card.app = k.app /\ card.image = k.image
  BY <1>1, <1>2, RestFacts
<1>4. CASE ~card.ready
  <2>1. Card!Follow(<<Card!Exchange(Card!Frame(24, arg), <<1>>)>>, program.known)
    BY <1>2, <1>3, <1>4 DEF Card!WriteBlock
  <2>2. Card!HandleCommand(card, 24, arg) = Card!Respond(card, <<1>>)
    BY <1>4 DEF Card!HandleCommand, Card!Status
  <2> QED
    BY <1>1, <2>1, <2>2, AskStep
<1>5. CASE card.ready
  <2> DEFINE start == Card!Start(card, arg)
             image == Card!WithBlockAt(k.image, start, block)
             known == [k EXCEPT !.image = image]
             x == Card!Exchange(Card!Frame(24, arg), <<0>>)
             y == Card!Exchange(BlockOut(block), <<5, 255>>)
             h == Card!HandleCommand(card, 24, arg)
  <2>1. Card!Follow(<<x, y>>, known)
    BY <1>2, <1>3, <1>5 DEF Card!WriteBlock, BlockOut, Card!Address, Card!Start
  <2>2. start \in Nat
    BY <1>1, CardFacts DEF Card!Start, ByteValue
  <2>3. image \in [1..ImageSize -> ByteValue]
    BY <2>2, ImageType DEF KnownType
  <2>4. h = Card!Respond([card EXCEPT !.write = Card!OpenWrite(start)], <<0>>)
    BY <1>5 DEF Card!HandleCommand
  <2> HIDE DEF start, image
  <2>5. /\ known \in KnownType /\ known.image = image /\ known.ready = k.ready
        /\ known.inits = k.inits /\ known.app = k.app
    BY <2>3 DEF KnownType
  <2>6. /\ h.pending = <<0>> /\ h.write = Card!OpenWrite(start) /\ h.ready = card.ready
        /\ h.tries = card.tries /\ h.app = card.app /\ h.image = card.image
    BY <1>3, <2>4 DEF Card!Respond, CardType
  <2>7. x.out = Card!Frame(24, arg) /\ x.in = <<0>>
    BY DEF Card!Exchange
  <2>8. y \in ExchangeType
    BY BlockBytes
  <2>9. <<y>> \in Seq(ExchangeType)
    BY <2>8
  <2> HIDE DEF known, h, x
  <2>10. Head(<<x, y>>) = x /\ Tail(<<x, y>>) = <<y>>
    OBVIOUS
  <2>11. /\ card' = card
         /\ program' = [program EXCEPT !.plan = <<y>>, !.out = Card!Frame(24, arg),
                          !.in = <<0>>, !.first = TRUE, !.tries = 0, !.known = known]
    BY <2>1, <2>7, <2>10 DEF Card!Follow, cardVars
  <2>12. program'.plan = <<y>> /\ program'.known = known
    BY <1>1, <2>11, RestFacts DEF ProgramType
  <2>13. Ahead(h, program')
    <3>1. /\ h.write \in Card!WriteState /\ h.write.start = start /\ h.write.awaitingToken
          /\ h.write.buffer = <<>> /\ h.write.crc = 2
      BY <2>2, <2>6 DEF Card!OpenWrite, Card!WriteState
    <3>2. Stores(h, known, block)
      BY <1>3, <2>5, <2>6, <3>1 DEF Stores, Knows, image
    <3> QED
      BY <2>12, <3>1, <3>2 DEF Ahead
  <2> HIDE DEF y
  <2> QED
    BY <1>1, <2>5, <2>6, <2>9, <2>11, <2>13, BeginStep DEF h
<1>6. card.ready \in BOOLEAN
  BY <1>3 DEF CardType
<1> QED
  BY <1>4, <1>5, <1>6

(* What ShiftOut finds: the answer takes its place at the start of a byte. *)
LEMMA AnsweringCases ==
  ASSUME NEW c \in CardType
  PROVE  /\ c.outBit # 0 \/ c.pending = <<>> => Card!Answering(c) = c
         /\ c.outBit = 0 /\ c.pending # <<>> /\ c.delay = 1 =>
              Card!Answering(c) = [c EXCEPT !.delay = 0]
         /\ c.outBit = 0 /\ c.pending # <<>> /\ c.delay = 0 =>
              Card!Answering(c) = [c EXCEPT !.pending = <<>>, !.queue = Tail(c.queue \o c.pending),
                                            !.outShift = Head(c.queue \o c.pending)]
<1>1. c.outBit # 0 \/ c.pending = <<>> => Card!Answering(c) = c
  BY DEF Card!Answering
<1>2. ASSUME c.outBit = 0, c.pending # <<>>, c.delay = 1
      PROVE  Card!Answering(c) = [c EXCEPT !.delay = 0]
  BY <1>2 DEF Card!Answering
<1>3. ASSUME c.outBit = 0, c.pending # <<>>, c.delay = 0
      PROVE  Card!Answering(c) = [c EXCEPT !.pending = <<>>, !.queue = Tail(c.queue \o c.pending),
                                           !.outShift = Head(c.queue \o c.pending)]
  BY <1>3 DEF Card!Answering, Card!EnqueueResponse
<1> QED
  BY <1>1, <1>2, <1>3

(* It changes no line, no register, and not what is coming in.             *)
LEMMA AnsweringType ==
  ASSUME NEW c \in CardType
  PROVE  LET a == Card!Answering(c) IN
           /\ a \in CardType /\ Registers(c, a) /\ a.command = c.command
           /\ a.inShift = c.inShift /\ a.inBit = c.inBit /\ a.outBit = c.outBit
           /\ a.csActive = c.csActive /\ a.clk = c.clk /\ a.ioOut = c.ioOut
<1>1. c.delay \in 0..1
  BY DEF CardType
<1>2. CASE c.outBit # 0 \/ c.pending = <<>>
  BY <1>2, AnsweringCases DEF Registers
<1>3. CASE c.outBit = 0 /\ c.pending # <<>> /\ c.delay = 1
  <2> SUFFICES ASSUME NEW a, a = [c EXCEPT !.delay = 0]
               PROVE  /\ a \in CardType /\ Registers(c, a) /\ a.command = c.command
                      /\ a.inShift = c.inShift /\ a.inBit = c.inBit /\ a.outBit = c.outBit
                      /\ a.csActive = c.csActive /\ a.clk = c.clk /\ a.ioOut = c.ioOut
    BY <1>3, AnsweringCases
  <2>1. a \in CardType
    <3>1. DOMAIN a = DOMAIN c
      OBVIOUS
    <3>2. \A f \in DOMAIN c : f \notin {"delay"} => a[f] = c[f]
      OBVIOUS
    <3>3. a.delay \in 0..1
      BY DEF CardType
    <3> QED
      BY <3>1, <3>2, <3>3 DEF CardType
  <2> QED
    BY <2>1 DEF CardType, Registers
<1>4. CASE c.outBit = 0 /\ c.pending # <<>> /\ c.delay = 0
  <2> DEFINE q == c.queue \o c.pending
  <2> SUFFICES ASSUME NEW a, a = [c EXCEPT !.pending = <<>>, !.queue = Tail(q), !.outShift = Head(q)]
               PROVE  /\ a \in CardType /\ Registers(c, a) /\ a.command = c.command
                      /\ a.inShift = c.inShift /\ a.inBit = c.inBit /\ a.outBit = c.outBit
                      /\ a.csActive = c.csActive /\ a.clk = c.clk /\ a.ioOut = c.ioOut
    BY <1>4, AnsweringCases
  <2>1. c.queue \in Seq(ByteValue) /\ c.pending \in Seq(ByteValue)
    BY DEF CardType
  <2>2. q \in Seq(ByteValue) /\ q # <<>>
    BY <1>4, <2>1, ConcatEqualIffEmpty, ConcatProperties
  <2> HIDE DEF q
  <2>3. Head(q) \in ByteValue /\ Tail(q) \in Seq(ByteValue)
    BY <2>2, HeadTailProperties
  <2>a. <<>> \in Seq(ByteValue)
    OBVIOUS
  <2>4. DOMAIN a = DOMAIN c
    OBVIOUS
  <2>5. \A f \in DOMAIN c : f \notin {"pending", "queue", "outShift"} => a[f] = c[f]
    OBVIOUS
  <2>6. a.pending \in Seq(ByteValue) /\ a.queue \in Seq(ByteValue) /\ a.outShift \in ByteValue
    BY <2>3, <2>a DEF CardType
  <2>7. a \in CardType
    BY <2>4, <2>5, <2>6 DEF CardType
  <2> QED
    BY <2>4, <2>5, <2>7 DEF CardType, Registers
<1> QED
  BY <1>1, <1>2, <1>3, <1>4

(* The byte of a silent line is all ones.                                  *)
LEMMA AllOnes == ASSUME NEW b \in 0..7 PROVE Card!BitOf(255, b) = 1
<1>1. CASE b = 0
  BY <1>1, Powers DEF Card!BitOf
<1>2. CASE b = 1
  BY <1>2, Powers DEF Card!BitOf
<1>3. CASE b = 2
  BY <1>3, Powers DEF Card!BitOf
<1>4. CASE b = 3
  BY <1>4, Powers DEF Card!BitOf
<1>5. CASE b = 4
  BY <1>5, Powers DEF Card!BitOf
<1>6. CASE b = 5
  BY <1>6, Powers DEF Card!BitOf
<1>7. CASE b = 6
  BY <1>7, Powers DEF Card!BitOf
<1>8. CASE b = 7
  BY <1>8, Powers DEF Card!BitOf
<1> QED
  BY <1>1, <1>2, <1>3, <1>4, <1>5, <1>6, <1>7, <1>8

(* The clock rises: what it finds.                                         *)
LEMMA RiseFacts ==
  ASSUME CardInv, Card!RaiseClock
  PROVE  /\ card \in CardType /\ program \in ProgramType /\ Phase(card, program)
         /\ InStep(card, program) /\ ~Resting(card, program)
         /\ Card!DataOut = Card!BitOf(Sent(program), program.bit)
         /\ card' = [Card!ShiftOut(Card!ShiftIn(card, Card!DataOut)) EXCEPT
                       !.csActive = TRUE, !.clk = TRUE]
         /\ card.inBit = program.bit /\ card.outBit = program.bit /\ program.bit \in 0..7
         /\ card.inShift = Bits(Sent(program), program.bit)
         /\ program.heard = Bits(Shown(card), program.bit)
<1>1. /\ card \in CardType /\ program \in ProgramType /\ Phase(card, program)
      /\ InStep(card, program) /\ program.low
  BY DEF CardInv, Card!RaiseClock
<1>2. ~Resting(card, program)
  BY <1>1 DEF Resting
<1>3. card.csActive /\ ~card.clk
  BY <1>1 DEF InStep
<1>4. Card!Selected(card) = card
  BY <1>3 DEF Card!Selected
<1>5. card' = [Card!ShiftOut(Card!ShiftIn(card, Card!DataOut)) EXCEPT !.csActive = TRUE, !.clk = TRUE]
  BY <1>3, <1>4 DEF Card!RaiseClock, Card!Write
<1>6. program.bit \in 0..7
  BY <1>1 DEF ProgramType
<1>7. Card!DataOut = Card!BitOf(Sent(program), program.bit)
  BY <1>6, AllOnes DEF Card!DataOut, Sent
<1> QED
  BY <1>1, <1>2, <1>5, <1>6, <1>7 DEF InStep

(* A bit within a byte goes in and out.                                    *)
LEMMA EarlyBit ==
  ASSUME CardInv, Card!RaiseClock, NEW b \in 0..6, b = program.bit
  PROVE  LET a == Card!Answering(card) IN
           /\ card' \in CardType /\ Registers(card, card') /\ card'.command = card.command
           /\ card'.pending = a.pending /\ card'.delay = a.delay /\ card'.queue = a.queue
           /\ card'.outShift = a.outShift /\ card'.inBit = b + 1 /\ card'.outBit = b + 1
           /\ card'.inShift = Bits(Sent(program), b + 1)
           /\ card'.csActive /\ card'.ioOut = Card!BitOf(a.outShift, b)
<1> DEFINE a == Card!Answering(card)
           x == Bits(Sent(program), b + 1)
<1>1. card \in CardType /\ card.inBit = b /\ card.outBit = b
  BY RiseFacts
<1>2. Sent(program) \in ByteValue
  BY RiseFacts, SentByte
<1>3. (2 * card.inShift + Card!DataOut) % 256 = x /\ x \in 0..127
  BY <1>2, RiseFacts, FirstBits
<1>4. x \in ByteValue
  BY <1>3 DEF ByteValue
<1> HIDE DEF x
<1>5. PICK d : d = Card!ShiftIn(card, Card!DataOut)
  OBVIOUS
<1>6. d = [card EXCEPT !.inShift = x, !.inBit = b + 1]
  <2>1. card.inBit < 7
    BY <1>1
  <2>2. d = [card EXCEPT !.inShift = (2 * card.inShift + Card!DataOut) % 256, !.inBit = @ + 1]
    BY <1>5, <2>1 DEF Card!ShiftIn
  <2> QED
    BY <1>1, <1>3, <2>2
<1>7. d \in CardType
  <2>1. b + 1 \in 0..7
    OBVIOUS
  <2> QED
    BY <1>1, <1>4, <1>6, <2>1 DEF CardType
<1>8. /\ d.inShift = x /\ d.inBit = b + 1 /\ d.outBit = b /\ Registers(card, d)
      /\ d.command = card.command /\ d.queue = card.queue /\ d.pending = card.pending
      /\ d.delay = card.delay /\ d.outShift = card.outShift
  BY <1>1, <1>6 DEF CardType, Registers
<1>9. PICK e : e = Card!Answering(d)
  OBVIOUS
<1>10. /\ e \in CardType /\ Registers(d, e) /\ e.command = d.command
       /\ e.inShift = x /\ e.inBit = b + 1 /\ e.outBit = b
  BY <1>7, <1>8, <1>9, AnsweringType
<1>11. /\ e.pending = a.pending /\ e.delay = a.delay /\ e.queue = a.queue
       /\ e.outShift = a.outShift
  <2>1. card.delay \in 0..1
    BY <1>1 DEF CardType
  <2>2. CASE card.outBit # 0 \/ card.pending = <<>>
    <3>1. a = card /\ e = d
      BY <1>1, <1>7, <1>8, <1>9, <2>2, AnsweringCases
    <3> QED
      BY <1>8, <3>1
  <2>3. CASE card.outBit = 0 /\ card.pending # <<>> /\ card.delay = 1
    <3>1. a = [card EXCEPT !.delay = 0] /\ e = [d EXCEPT !.delay = 0]
      BY <1>1, <1>7, <1>8, <1>9, <2>3, AnsweringCases
    <3> HIDE DEF a
    <3> QED
      BY <1>1, <1>7, <1>8, <3>1 DEF CardType
  <2>4. CASE card.outBit = 0 /\ card.pending # <<>> /\ card.delay = 0
    <3>1. PICK q : q = card.queue \o card.pending
      OBVIOUS
    <3>2. a = [card EXCEPT !.pending = <<>>, !.queue = Tail(q), !.outShift = Head(q)]
      BY <1>1, <2>4, <3>1, AnsweringCases
    <3>3. d.queue \o d.pending = q
      BY <1>8, <3>1
    <3>4. d.outBit = 0 /\ d.pending # <<>> /\ d.delay = 0
      BY <1>1, <1>8, <2>4
    <3>5. e = [d EXCEPT !.pending = <<>>, !.queue = Tail(q), !.outShift = Head(q)]
      BY <1>7, <1>9, <3>3, <3>4, AnsweringCases
    <3> HIDE DEF a
    <3> QED
      BY <1>1, <1>7, <1>8, <3>2, <3>5 DEF CardType
  <2> QED
    BY <2>1, <2>2, <2>3, <2>4
<1> HIDE DEF a
<1>12. PICK y : y = Card!BitOf(e.outShift, b)
  OBVIOUS
<1>13. y \in 0..1
  BY <1>10, <1>12, FirstBits DEF CardType
<1>14. Card!ShiftOut(d) = [e EXCEPT !.ioOut = y, !.outBit = b + 1]
  <2>1. e.outBit < 7
    BY <1>10
  <2>2. Card!ShiftOut(d) = [[e EXCEPT !.ioOut = y] EXCEPT !.outBit = @ + 1]
    BY <1>9, <1>10, <1>12, <2>1 DEF Card!ShiftOut
  <2>3. [e EXCEPT !.ioOut = y].outBit = b
    BY <1>10 DEF CardType
  <2> QED
    BY <2>2, <2>3
<1>15. card' = [[e EXCEPT !.ioOut = y, !.outBit = b + 1] EXCEPT !.csActive = TRUE, !.clk = TRUE]
  BY <1>5, <1>14, RiseFacts
<1>16. /\ card' \in CardType /\ Registers(e, card') /\ card'.command = e.command
       /\ card'.pending = e.pending /\ card'.delay = e.delay /\ card'.queue = e.queue
       /\ card'.outShift = e.outShift /\ card'.inBit = e.inBit /\ card'.outBit = b + 1
       /\ card'.inShift = e.inShift /\ card'.csActive /\ card'.ioOut = y
  <2>1. SUFFICES ASSUME NEW k, k = [[e EXCEPT !.ioOut = y, !.outBit = b + 1] EXCEPT
                                       !.csActive = TRUE, !.clk = TRUE]
        PROVE  /\ k \in CardType /\ Registers(e, k) /\ k.command = e.command
               /\ k.pending = e.pending /\ k.delay = e.delay /\ k.queue = e.queue
               /\ k.outShift = e.outShift /\ k.inBit = e.inBit /\ k.outBit = b + 1
               /\ k.inShift = e.inShift /\ k.csActive /\ k.ioOut = y
    BY <1>15
  <2>2. DOMAIN k = DOMAIN e
    BY <2>1
  <2>3. \A f \in DOMAIN e : f \notin {"ioOut", "outBit", "csActive", "clk"} => k[f] = e[f]
    BY <2>1
  <2>4. k.ioOut = y /\ k.outBit = b + 1 /\ k.csActive = TRUE /\ k.clk = TRUE
    BY <1>10, <2>1 DEF CardType
  <2>5. k.ioOut \in 0..1 /\ k.outBit \in 0..7 /\ k.csActive \in BOOLEAN /\ k.clk \in BOOLEAN
    <3>1. b + 1 \in 0..7 /\ TRUE \in BOOLEAN
      OBVIOUS
    <3> QED
      BY <1>13, <2>4, <3>1
  <2>6. k \in CardType
    BY <1>10, <2>1, <2>2, <2>3, <2>5 DEF CardType
  <2> QED
    BY <1>10, <2>2, <2>3, <2>4, <2>6, ZenonT(40) DEF CardType, Registers
<1> QED
  BY <1>8, <1>10, <1>11, <1>12, <1>16 DEF Registers, a, x

(* A command or a block that is being sent depends on nothing that a bit   *)
(* changes.                                                                *)
LEMMA OpeningAlike ==
  ASSUME NEW c \in CardType, NEW d \in CardType, Registers(c, d), d.command = c.command, Silent(d),
         NEW p, NEW q, q.plan = p.plan, q.out = p.out, q.in = p.in, q.tries = p.tries,
         q.first = p.first, q.known = p.known
  PROVE  /\ Commanding(c, p) => Commanding(d, q)
         /\ Storing(c, p) => Storing(d, q)
<1>1. ASSUME Commanding(c, p) PROVE Commanding(d, q)
  <2>1. PICK cmd \in Commands, arg \in ByteValue :
          c.command \o p.out = Card!Frame(cmd, arg) /\ Obeys(c, p, cmd, arg)
    BY <1>1 DEF Commanding
  <2>2. Obeys(d, q, cmd, arg)
    BY <2>1, ObeysAlike
  <2>3. d.command \o q.out = Card!Frame(cmd, arg)
    BY <2>1
  <2>4. Opening(d, q) /\ d.write = None
    BY <1>1 DEF Commanding, Opening, Registers
  <2> QED
    BY <2>2, <2>3, <2>4 DEF Commanding
<1>2. ASSUME Storing(c, p) PROVE Storing(d, q)
  <2>1. Opening(d, q) /\ d.command = <<>> /\ q.plan = <<>> /\ q.in = <<5, 255>>
    BY <1>2 DEF Storing, Opening
  <2>2. \A block \in CardBlock : Stores(c, p.known, block) /\ Midway(c.write, p.out, block)
                                 => Stores(d, q.known, block) /\ Midway(d.write, q.out, block)
    BY DEF Stores, Knows, Registers
  <2> QED
    BY <1>2, <2>1, <2>2 DEF Storing
<1> QED
  BY <1>1, <1>2

(* A bit within a byte: nothing else happens, but that an answer that is   *)
(* due takes the place of the byte.                                        *)
LEMMA EarlyStep ==
  ASSUME CardInv, Card!RaiseClock, program.bit < 7 PROVE CardInv'
<1> DEFINE a == Card!Answering(card)
<1>1. /\ card \in CardType /\ program \in ProgramType /\ Phase(card, program)
      /\ ~Resting(card, program) /\ card.inBit = program.bit /\ card.outBit = program.bit
      /\ program.bit \in 0..7
  BY RiseFacts
<1>2. PICK b \in 0..6 : b = program.bit
  BY <1>1
<1>3. /\ card' \in CardType /\ Registers(card, card') /\ card'.command = card.command
      /\ card'.pending = a.pending /\ card'.delay = a.delay /\ card'.queue = a.queue
      /\ card'.outShift = a.outShift /\ card'.inBit = b + 1 /\ card'.outBit = b + 1
      /\ card'.inShift = Bits(Sent(program), b + 1)
      /\ card'.csActive /\ card'.ioOut = Card!BitOf(a.outShift, b)
  BY <1>2, EarlyBit
<1>4. Shown(card) = a.outShift /\ a.outShift \in ByteValue
  BY <1>1, AnsweringType DEF Shown, CardType
<1>5. PICK heard : heard = 2 * program.heard + Card!BitOf(a.outShift, b)
  OBVIOUS
<1>6. heard = Bits(a.outShift, b + 1) /\ heard \in Nat
  <2>1. program.heard = Bits(a.outShift, b)
    BY <1>2, <1>4, RiseFacts
  <2>2. b + 1 \in 1..7 /\ b \in 0..6
    OBVIOUS
  <2> HIDE DEF a
  <2> QED
    BY <1>4, <1>5, <2>1, <2>2, FirstBits
<1> HIDE DEF a
<1>7. program' = [[program EXCEPT !.low = FALSE] EXCEPT !.bit = b + 1, !.heard = heard]
  <2>1. Card!Read(card') = Card!BitOf(a.outShift, b)
    BY <1>3 DEF Card!Read
  <2>2. [program EXCEPT !.low = FALSE].bit = b /\ b < 7 /\ [program EXCEPT !.low = FALSE].heard = program.heard
    BY <1>1, <1>2 DEF ProgramType
  <2> QED
    BY <1>2, <1>5, <2>1, <2>2 DEF Card!RaiseClock
<1>8. /\ program' \in ProgramType /\ program'.bit = b + 1 /\ program'.heard = heard /\ ~program'.low
      /\ program'.plan = program.plan /\ program'.out = program.out /\ program'.in = program.in
      /\ program'.tries = program.tries /\ program'.first = program.first
      /\ program'.known = program.known
  <2>1. SUFFICES ASSUME NEW q, q = [[program EXCEPT !.low = FALSE] EXCEPT !.bit = b + 1, !.heard = heard]
        PROVE  /\ q \in ProgramType /\ q.bit = b + 1 /\ q.heard = heard /\ ~q.low
               /\ q.plan = program.plan /\ q.out = program.out /\ q.in = program.in
               /\ q.tries = program.tries /\ q.first = program.first /\ q.known = program.known
    BY <1>7
  <2>2. DOMAIN q = DOMAIN program
    BY <2>1
  <2>3. \A f \in DOMAIN program : f \notin {"low", "bit", "heard"} => q[f] = program[f]
    BY <2>1
  <2>4. q.bit = b + 1 /\ q.heard = heard /\ q.low = FALSE
    BY <1>1, <2>1 DEF ProgramType
  <2>5. q.bit \in 0..7 /\ q.heard \in Nat /\ q.low \in BOOLEAN
    <3>1. b + 1 \in 0..7
      OBVIOUS
    <3> QED
      BY <1>6, <2>4, <3>1
  <2>6. q \in ProgramType
    BY <1>1, <2>1, <2>2, <2>3, <2>5 DEF ProgramType
  <2> QED
    BY <1>1, <2>2, <2>3, <2>4, <2>6 DEF ProgramType
<1>9. InStep(card', program')
  <2>1. Sent(program') = Sent(program)
    BY <1>8 DEF Sent
  <2>2. Shown(card') = a.outShift
    <3>1. card'.outBit # 0
      BY <1>3
    <3>2. Card!Answering(card') = card'
      BY <1>3, <3>1, AnsweringCases
    <3> QED
      BY <1>3, <3>2 DEF Shown
  <2> QED
    BY <1>3, <1>6, <1>8, <2>1, <2>2 DEF InStep
<1>10. Phase(card', program')
  <2>1. ASSUME Opening(card, program) PROVE Silent(card')
    <3>1. a = card
      BY <1>1, <2>1, AnsweringCases DEF Opening, Silent, a
    <3> QED
      BY <1>3, <2>1, <3>1 DEF Opening, Silent
  <2>2. CASE Commanding(card, program)
    BY <1>1, <1>3, <1>8, <2>1, <2>2, OpeningAlike DEF Commanding, Phase
  <2>3. CASE Storing(card, program)
    BY <1>1, <1>3, <1>8, <2>1, <2>3, OpeningAlike DEF Storing, Phase
  <2>4. ASSUME Hearing(card, program) PROVE Hearing(card', program')
    BY <1>3, <1>8, <2>4, AheadAlike DEF Hearing
  <2>5. CASE Waiting(card, program)
    <3>1. /\ Hearing(card', program') /\ program'.first
          /\ card.pending = program.in /\ card.pending # <<>> /\ card.queue = <<>>
          /\ card.outShift = 255 /\ card.delay \in 0..1
      BY <1>1, <1>8, <2>4, <2>5 DEF Waiting, Hearing, CardType
    <3>2. CASE card.outBit # 0
      <4>1. a = card
        BY <1>1, <3>2, AnsweringCases DEF a
      <4>2. card.delay = 0 /\ program.tries = 0
        BY <1>1, <2>5, <3>1, <3>2 DEF Waiting
      <4> QED
        BY <1>3, <1>8, <3>1, <4>1, <4>2 DEF Waiting, Phase
    <3>3. CASE card.outBit = 0 /\ card.delay = 1
      <4>1. a = [card EXCEPT !.delay = 0]
        BY <1>1, <3>1, <3>3, AnsweringCases DEF a
      <4>2. a.delay = 0 /\ a.pending = card.pending /\ a.queue = card.queue
            /\ a.outShift = card.outShift
        BY <1>1, <4>1 DEF CardType
      <4>3. program.tries = 0
        BY <2>5, <3>3 DEF Waiting
      <4> QED
        BY <1>3, <1>8, <3>1, <4>2, <4>3 DEF Waiting, Phase
    <3>4. CASE card.outBit = 0 /\ card.delay = 0
      <4>1. card.queue \o card.pending = program.in
        <5>1. program.in \in Seq(ByteValue)
          BY <1>1 DEF ProgramType
        <5> QED
          BY <3>1, <5>1, ConcatEmptySeq
      <4>2. a = [card EXCEPT !.pending = <<>>, !.queue = Tail(program.in),
                             !.outShift = Head(program.in)]
        <5>1. a = [card EXCEPT !.pending = <<>>, !.queue = Tail(card.queue \o card.pending),
                               !.outShift = Head(card.queue \o card.pending)]
          BY <1>1, <3>1, <3>4, AnsweringCases DEF a
        <5> QED
          BY <4>1, <5>1
      <4>3. a.delay = 0 /\ a.pending = <<>> /\ a.queue = Tail(program.in)
            /\ a.outShift = Head(program.in)
        BY <1>1, <3>4, <4>2 DEF CardType
      <4>4. program.tries = 1
        BY <1>1, <2>5, <3>4 DEF Waiting
      <4> QED
        BY <1>3, <1>8, <3>1, <4>3, <4>4 DEF Answering, Phase
    <3> QED
      BY <3>1, <3>2, <3>3, <3>4
  <2>6. CASE Answering(card, program)
    <3>1. a = card
      BY <1>1, <2>6, AnsweringCases DEF a, Answering
    <3> QED
      BY <1>3, <1>8, <2>4, <2>6, <3>1 DEF Answering, Phase
  <2> QED
    BY <1>1, <2>2, <2>3, <2>5, <2>6 DEF Phase
<1> QED
  BY <1>3, <1>8, <1>9, <1>10 DEF CardInv


(* The program's clock and counters at a byte's end, before it is taken.   *)
Cleared == [[program EXCEPT !.low = FALSE] EXCEPT !.bit = 0, !.heard = 0]

(* All of the program but what a byte moves.                               *)
Kept(p, q) ==
  /\ q \in ProgramType /\ q.bit = p.bit /\ q.heard = p.heard /\ q.low = p.low
  /\ q.known = p.known

(* Clearing them leaves the rest as it is.                                 *)
LEMMA ClearedProgram ==
  ASSUME program \in ProgramType
  PROVE  /\ Cleared \in ProgramType /\ Cleared.bit = 0 /\ Cleared.heard = 0 /\ Cleared.low = FALSE
         /\ Cleared.plan = program.plan /\ Cleared.out = program.out /\ Cleared.in = program.in
         /\ Cleared.tries = program.tries /\ Cleared.first = program.first
         /\ Cleared.known = program.known
<1> SUFFICES ASSUME NEW q, q = Cleared
    PROVE  /\ q \in ProgramType /\ q.bit = 0 /\ q.heard = 0 /\ q.low = FALSE
           /\ q.plan = program.plan /\ q.out = program.out /\ q.in = program.in
           /\ q.tries = program.tries /\ q.first = program.first
           /\ q.known = program.known
  OBVIOUS
<1>1. DOMAIN q = DOMAIN program
  BY DEF Cleared
<1>2. \A f \in DOMAIN program : f \notin {"low", "bit", "heard"} => q[f] = program[f]
  BY DEF Cleared
<1>3. q.low = FALSE /\ q.bit = 0 /\ q.heard = 0
  BY DEF ProgramType, Cleared
<1>4. q.low \in BOOLEAN /\ q.bit \in 0..7 /\ q.heard \in Nat
  <2>1. q.low \in BOOLEAN
    BY <1>3
  <2>2. q.bit \in 0..7 /\ q.heard \in Nat
    BY <1>3
  <2> QED
    BY <2>1, <2>2
<1>5. q \in ProgramType
  BY <1>1, <1>2, <1>4 DEF ProgramType, Cleared
<1> QED
  BY <1>1, <1>2, <1>3, <1>5 DEF ProgramType

(* A byte was sent.                                                        *)
LEMMA ByteSent ==
  ASSUME NEW p \in ProgramType, p.out # <<>>, p.in # <<>>, NEW byte,
         NEW q, q = Card!NextExchange(Card!ByteThrough(p, byte))
  PROVE  /\ Kept(p, q) /\ q.out = Tail(p.out)
         /\ q.plan = p.plan /\ q.in = p.in /\ q.first = p.first /\ q.tries = p.tries
<1> DEFINE rest == Tail(p.out)
<1>1. rest \in Seq(ByteValue)
  BY HeadTailProperties DEF ProgramType
<1>2. Card!ByteThrough(p, byte) = [p EXCEPT !.out = rest]
  BY DEF Card!ByteThrough
<1>3. [p EXCEPT !.out = rest].in = p.in
  BY DEF ProgramType
<1>4. q = [p EXCEPT !.out = rest]
  BY <1>2, <1>3 DEF Card!NextExchange
<1> HIDE DEF rest
<1>5. DOMAIN q = DOMAIN p
  BY <1>4
<1>6. \A f \in DOMAIN p : f \notin {"out"} => q[f] = p[f]
  BY <1>4
<1>7. q.out = rest
  BY <1>4 DEF ProgramType
<1>8. q \in ProgramType
  BY <1>1, <1>4, <1>5, <1>6, <1>7 DEF ProgramType
<1>9. q.out = Tail(p.out)
  BY <1>7 DEF rest
<1> QED
  BY <1>5, <1>6, <1>8, <1>9 DEF ProgramType, Kept

(* The answer has not begun.                                               *)
Unanswered(p) == p.out = <<>> /\ p.in # <<>> /\ p.first = TRUE /\ p.tries = 0

StillWaits(p, q) ==
  /\ Kept(p, q) /\ q.tries = 1
  /\ q.plan = p.plan /\ q.in = p.in /\ q.first = TRUE /\ q.out = p.out

(* The answer has not begun: the program waits for another byte.           *)
LEMMA ByteSilent ==
  ASSUME NEW p \in ProgramType, Unanswered(p)
  PROVE  StillWaits(p, Card!NextExchange(Card!ByteThrough(p, 255)))
<1> SUFFICES ASSUME NEW q, q = Card!NextExchange(Card!ByteThrough(p, 255)) PROVE StillWaits(p, q)
  OBVIOUS
<1> USE DEF Unanswered
<1>1. PICK n : n = Card!ByteThrough(p, 255)
  OBVIOUS
<1>2. n = [p EXCEPT !.tries = 1]
  <2>1. n = [p EXCEPT !.tries = @ + 1]
    BY <1>1 DEF Card!ByteThrough
  <2> QED
    BY <2>1
<1>2a. n.in = p.in
  BY <1>2 DEF ProgramType
<1>2b. q = n
  BY <1>1, <1>2a DEF Card!NextExchange
<1>3. q = [p EXCEPT !.tries = 1]
  BY <1>2, <1>2b
<1>4. DOMAIN q = DOMAIN p
  BY <1>3
<1>5. \A f \in DOMAIN p : f \notin {"tries"} => q[f] = p[f]
  BY <1>3
<1>6. q.tries = 1
  BY <1>3 DEF ProgramType
<1>7. q.tries \in 0..1
  BY <1>6
<1>8. q \in ProgramType
  BY <1>3, <1>4, <1>5, <1>7 DEF ProgramType
<1>9. Kept(p, q)
  <2>1. q.bit = p.bit /\ q.heard = p.heard
    BY <1>4, <1>5 DEF ProgramType
  <2>2. q.low = p.low
    BY <1>4, <1>5 DEF ProgramType
  <2>3. q.known = p.known
    BY <1>4, <1>5 DEF ProgramType
  <2> QED
    BY <1>8, <2>1, <2>2, <2>3 DEF Kept
<1>10. q.plan = p.plan /\ q.in = p.in /\ q.out = p.out
  BY <1>4, <1>5 DEF ProgramType
<1>11. q.first = TRUE
  BY <1>4, <1>5, SMTT(30) DEF ProgramType
<1> QED
  BY <1>6, <1>9, <1>10, <1>11 DEF StillWaits

(* A byte of the answer came; after the last, the next exchange begins if  *)
(* there is one.                                                           *)
Answered(p, byte) ==
  p.out = <<>> /\ p.in # <<>> /\ byte = Head(p.in) /\ (p.first => byte # 255)

HearsOn(p, q) ==
  /\ Kept(p, q) /\ q.in = Tail(p.in) /\ q.first = FALSE
  /\ q.out = <<>> /\ q.plan = p.plan

GoesOn(p, q, e) ==
  /\ Kept(p, q) /\ q.in = e.in /\ q.first = TRUE
  /\ q.out = e.out /\ q.plan = <<>> /\ q.tries = 0

(* The program takes the byte and goes on.                                 *)
LEMMA ByteHeard ==
  ASSUME NEW p \in ProgramType, NEW byte, Answered(p, byte)
  PROVE  LET q == Card!NextExchange(Card!ByteThrough(p, byte)) IN
           /\ (Tail(p.in) # <<>> \/ p.plan = <<>>) => HearsOn(p, q)
           /\ \A e \in ExchangeType : (Tail(p.in) = <<>> /\ p.plan = <<e>>) => GoesOn(p, q, e)
<1> SUFFICES ASSUME NEW q, q = Card!NextExchange(Card!ByteThrough(p, byte))
    PROVE  /\ (Tail(p.in) # <<>> \/ p.plan = <<>>) => HearsOn(p, q)
           /\ \A e \in ExchangeType : (Tail(p.in) = <<>> /\ p.plan = <<e>>) => GoesOn(p, q, e)
  OBVIOUS
<1> USE DEF Answered
<1>1. PICK rest \in Seq(ByteValue) : rest = Tail(p.in)
  BY HeadTailProperties DEF ProgramType
<1>2. PICK n : n = Card!ByteThrough(p, byte)
  OBVIOUS
<1>3. n = [p EXCEPT !.in = rest, !.first = FALSE, !.ok = @ /\ TRUE]
  BY <1>1, <1>2 DEF Card!ByteThrough
<1>4. DOMAIN n = DOMAIN p
  BY <1>3
<1>5. \A f \in DOMAIN p : f \notin {"in", "first", "ok"} => n[f] = p[f]
  BY <1>3
<1>6. n.in = rest /\ n.first = FALSE /\ n.ok = TRUE
  BY <1>3 DEF ProgramType
<1>7. n.in \in Seq(ByteValue) /\ n.first \in BOOLEAN /\ n.ok \in {TRUE}
  BY <1>1, <1>6
<1>8. n \in ProgramType
  BY <1>3, <1>4, <1>5, <1>7 DEF ProgramType
<1>9. /\ Kept(p, n) /\ n.in = rest /\ n.first = FALSE /\ n.out = <<>>
      /\ n.plan = p.plan /\ n.tries = p.tries
  BY <1>4, <1>5, <1>6, <1>8 DEF ProgramType, Kept
<1>10. ASSUME rest # <<>> \/ p.plan = <<>>
       PROVE  HearsOn(p, q)
  <2>1. q = n
    BY <1>2, <1>9, <1>10 DEF Card!NextExchange
  <2> QED
    BY <1>1, <1>9, <2>1 DEF HearsOn
<1>11. ASSUME NEW e \in ExchangeType, rest = <<>>, p.plan = <<e>>
       PROVE  GoesOn(p, q, e)
  <2>1. Head(n.plan) = e /\ Tail(n.plan) = <<>> /\ n.plan # <<>>
    BY <1>9, <1>11
  <2>2. q = [n EXCEPT !.plan = <<>>, !.out = e.out, !.in = e.in, !.first = TRUE, !.tries = 0]
    BY <1>2, <1>9, <1>11, <2>1 DEF Card!NextExchange
  <2>3. DOMAIN q = DOMAIN n
    BY <2>2
  <2>4. \A f \in DOMAIN n : f \notin {"plan", "out", "in", "first", "tries"} => q[f] = n[f]
    BY <2>2
  <2>5. q.plan = <<>> /\ q.out = e.out /\ q.in = e.in /\ q.first = TRUE /\ q.tries = 0
    BY <1>8, <2>2 DEF ProgramType
  <2>6. /\ q.plan \in Seq(ExchangeType) /\ q.out \in Seq(ByteValue) /\ q.in \in Seq(ByteValue)
        /\ q.first \in BOOLEAN /\ q.tries \in 0..1
    <3>1. <<>> \in Seq(ExchangeType)
      OBVIOUS
    <3>2. e.out \in Seq(ByteValue) /\ e.in \in Seq(ByteValue)
      BY DEF ExchangeType
    <3>3. q.first \in BOOLEAN
      BY <2>5
    <3>4. q.tries \in 0..1
      BY <2>5
    <3> QED
      BY <2>5, <3>1, <3>2, <3>3, <3>4
  <2>7. q \in ProgramType
    BY <1>8, <2>2, <2>3, <2>4, <2>6 DEF ProgramType
  <2>8. Kept(n, q)
    BY <1>8, <2>3, <2>4, <2>7 DEF ProgramType, Kept
  <2>9. Kept(p, q)
    BY <1>9, <2>8 DEF Kept
  <2> QED
    BY <2>5, <2>9 DEF GoesOn
<1> QED
  BY <1>1, <1>10, <1>11

(* The last bit of a byte: the byte goes in, and the next of the queue     *)
(* takes its place going out.                                              *)
Drained == [card EXCEPT !.inShift = 0, !.inBit = 0]

(* What the incoming byte leaves alone.                                    *)
Received(e) ==
  /\ e \in CardType /\ e.inShift = 0 /\ e.inBit = 0 /\ e.outBit = 7
  /\ e.outShift = card.outShift /\ e.queue = card.queue

(* The shift register is emptied, and the rest is as it was.               *)
LEMMA ReadyCard ==
  ASSUME CardInv, Card!RaiseClock, program.bit = 7
  PROVE  /\ Received(Drained) /\ Registers(card, Drained) /\ Drained.command = card.command
         /\ Drained.pending = card.pending /\ Drained.delay = card.delay
<1>1. card \in CardType /\ card.outBit = 7
  BY RiseFacts
<1> SUFFICES ASSUME NEW d, d = [card EXCEPT !.inShift = 0, !.inBit = 0]
             PROVE  /\ Received(d) /\ Registers(card, d) /\ d.command = card.command
                    /\ d.pending = card.pending /\ d.delay = card.delay
  BY DEF Drained
<1>2. DOMAIN d = DOMAIN card
  OBVIOUS
<1>3. \A f \in DOMAIN card : f \notin {"inShift", "inBit"} => d[f] = card[f]
  OBVIOUS
<1>4. d.inShift = 0 /\ d.inBit = 0
  BY <1>1 DEF CardType
<1>5. d.inShift \in ByteValue /\ d.inBit \in 0..7
  BY <1>4 DEF ByteValue
<1>6. d \in CardType
  BY <1>1, <1>2, <1>3, <1>5 DEF CardType
<1> QED
  BY <1>1, <1>2, <1>3, <1>4, <1>6 DEF CardType, Received, Registers

(* What becomes of the card, given what it makes of the byte.              *)
LEMMA LastBit ==
  ASSUME CardInv, Card!RaiseClock, program.bit = 7,
         NEW e, e = Card!ByteIn(Drained, Sent(program)), Received(e)
  PROVE  /\ card' \in CardType /\ Registers(e, card') /\ card'.command = e.command
         /\ card'.pending = e.pending /\ card'.delay = e.delay
         /\ card'.inShift = 0 /\ card'.inBit = 0 /\ card'.outBit = 0
         /\ card'.csActive /\ card'.ioOut = Card!BitOf(card.outShift, 7)
         /\ card.queue = <<>> => card'.outShift = 255 /\ card'.queue = <<>>
         /\ card.queue # <<>> => card'.outShift = Head(card.queue) /\ card'.queue = Tail(card.queue)
<1>1. card \in CardType /\ card.inBit = 7 /\ e \in CardType
  BY RiseFacts DEF Received
<1>2. Sent(program) \in ByteValue
  BY RiseFacts, SentByte
<1>3. (2 * card.inShift + Card!DataOut) % 256 = Sent(program)
  <2>1. 2 * card.inShift + Card!DataOut = Sent(program)
    BY <1>2, RiseFacts, FirstBits
  <2> QED
    BY <1>2, <2>1 DEF ByteValue
<1>4. Card!ShiftIn(card, Card!DataOut) = e
  BY <1>1, <1>3 DEF Card!ShiftIn, Drained
<1>5. PICK y : y = Card!BitOf(card.outShift, 7)
  OBVIOUS
<1>6. y \in 0..1
  BY <1>1, <1>5, FirstBits DEF CardType
<1>7. Card!Answering(e) = e
  <2>1. e.outBit # 0 /\ e \in CardType
    BY DEF Received
  <2> QED
    BY <2>1, AnsweringCases
<1>8. PICK x, queue : /\ card.queue = <<>> => x = 255 /\ queue = <<>>
                      /\ card.queue # <<>> => x = Head(card.queue) /\ queue = Tail(card.queue)
  BY HeadTailProperties
<1>9. x \in ByteValue /\ queue \in Seq(ByteValue)
  <2>1. card.queue \in Seq(ByteValue)
    BY <1>1 DEF CardType
  <2>2. CASE card.queue = <<>>
    BY <1>8, <2>1, <2>2 DEF ByteValue
  <2>3. CASE card.queue # <<>>
    BY <1>8, <2>1, <2>3, HeadTailProperties
  <2> QED
    BY <2>2, <2>3
<1>10. PICK n : n = [e EXCEPT !.ioOut = y]
  OBVIOUS
<1>11. PICK m : m = Card!ShiftOut(e)
  OBVIOUS
<1>11a. /\ m \in CardType /\ DOMAIN m = DOMAIN e
        /\ \A f \in DOMAIN e : f \notin {"ioOut", "outBit", "outShift", "queue"} => m[f] = e[f]
        /\ m.ioOut = y /\ m.outBit = 0 /\ m.outShift = x /\ m.queue = queue
  <2>1. /\ e.outBit = 7 /\ e.outShift = card.outShift /\ e.queue = card.queue
        /\ DOMAIN n = DOMAIN e
    BY <1>10 DEF Received
  <2>2. /\ \A f \in DOMAIN e : f \notin {"ioOut"} => n[f] = e[f]
        /\ n.ioOut = y
    BY <1>1, <1>10 DEF CardType
  <2>3. n.queue = card.queue
    BY <1>1, <2>1, <2>2 DEF CardType
  <2>4. ASSUME m = [n EXCEPT !.outBit = 0, !.outShift = 255], card.queue = <<>>
        PROVE  /\ DOMAIN m = DOMAIN e
               /\ \A f \in DOMAIN e : f \notin {"ioOut", "outBit", "outShift", "queue"} => m[f] = e[f]
               /\ m.ioOut = y /\ m.outBit = 0 /\ m.outShift = x /\ m.queue = queue
    <3>1. DOMAIN m = DOMAIN e
      BY <2>1, <2>4
    <3>2. \A f \in DOMAIN n : f \notin {"outBit", "outShift"} => m[f] = n[f]
      BY <2>4
    <3>3. m.outBit = 0 /\ m.outShift = 255
      BY <1>1, <2>1, <2>4 DEF CardType
    <3>4. x = 255 /\ queue = <<>>
      BY <1>8, <2>4
    <3> QED
      BY <1>1, <2>1, <2>2, <2>3, <2>4, <3>1, <3>2, <3>3, <3>4 DEF CardType
  <2>5. ASSUME m = [n EXCEPT !.outBit = 0, !.outShift = x, !.queue = queue]
        PROVE  /\ DOMAIN m = DOMAIN e
               /\ \A f \in DOMAIN e : f \notin {"ioOut", "outBit", "outShift", "queue"} => m[f] = e[f]
               /\ m.ioOut = y /\ m.outBit = 0 /\ m.outShift = x /\ m.queue = queue
    <3>1. DOMAIN m = DOMAIN e
      BY <2>1, <2>5
    <3>2. \A f \in DOMAIN n : f \notin {"outBit", "outShift", "queue"} => m[f] = n[f]
      BY <2>5
    <3>3. m.outBit = 0 /\ m.outShift = x /\ m.queue = queue
      BY <1>1, <2>1, <2>5 DEF CardType
    <3> QED
      BY <1>1, <2>1, <2>2, <3>1, <3>2, <3>3 DEF CardType
  <2>6. \/ m = [n EXCEPT !.outBit = 0, !.outShift = 255] /\ card.queue = <<>>
        \/ m = [n EXCEPT !.outBit = 0, !.outShift = x, !.queue = queue]
    <3>1. CASE card.queue = <<>>
      <4>1. m = [n EXCEPT !.outBit = 0, !.outShift = 255]
        BY <1>5, <1>7, <1>10, <1>11, <2>1, <3>1 DEF Card!ShiftOut
      <4> QED
        BY <3>1, <4>1
    <3>2. CASE card.queue # <<>>
      <4>1. m = [n EXCEPT !.outBit = 0, !.outShift = Head(card.queue), !.queue = Tail(card.queue)]
        BY <1>5, <1>7, <1>10, <1>11, <2>1, <3>2 DEF Card!ShiftOut
      <4> QED
        BY <1>8, <3>2, <4>1
    <3> QED
      BY <3>1, <3>2
  <2>7. /\ DOMAIN m = DOMAIN e
        /\ \A f \in DOMAIN e : f \notin {"ioOut", "outBit", "outShift", "queue"} => m[f] = e[f]
        /\ m.ioOut = y /\ m.outBit = 0 /\ m.outShift = x /\ m.queue = queue
    BY <2>4, <2>5, <2>6
  <2>8. m.ioOut \in 0..1 /\ m.outBit \in 0..7 /\ m.outShift \in ByteValue /\ m.queue \in Seq(ByteValue)
    BY <1>6, <1>9, <2>7
  <2>9. m \in CardType
    <3>1. m = [f \in DOMAIN m |-> m[f]]
      BY <2>6
    <3>2. /\ m.csActive = e.csActive /\ m.clk = e.clk /\ m.inShift = e.inShift /\ m.inBit = e.inBit
          /\ m.command = e.command /\ m.pending = e.pending /\ m.delay = e.delay
          /\ m.app = e.app /\ m.tries = e.tries /\ m.ready = e.ready /\ m.write = e.write
          /\ m.highCapacity = e.highCapacity /\ m.image = e.image
      BY <1>1, <2>7 DEF CardType
    <3>3. DOMAIN m = {"csActive", "clk", "inShift", "inBit", "outShift", "outBit", "ioOut", "command",
                      "queue", "pending", "delay", "app", "tries", "ready", "write", "highCapacity", "image"}
      BY <1>1, <2>7 DEF CardType
    <3> QED
      BY <1>1, <2>8, <3>1, <3>2, <3>3 DEF CardType
  <2> QED
    BY <2>7, <2>9
<1>12. PICK k : k = card'
  OBVIOUS
<1>13. k = [m EXCEPT !.csActive = TRUE, !.clk = TRUE]
  BY <1>4, <1>11, <1>12, RiseFacts
<1>14. DOMAIN k = DOMAIN m
  BY <1>13
<1>15. \A f \in DOMAIN m : f \notin {"csActive", "clk"} => k[f] = m[f]
  BY <1>13
<1>16. k.ioOut = y /\ k.outBit = 0 /\ k.outShift = x /\ k.queue = queue
  BY <1>11a, <1>13, <1>14, <1>15 DEF CardType
<1>17. k.csActive = TRUE /\ k.clk = TRUE
  BY <1>11a, <1>13 DEF CardType
<1>18. k \in CardType
  <2>1. k.csActive \in BOOLEAN /\ k.clk \in BOOLEAN
    BY <1>17
  <2> QED
    BY <1>11a, <1>13, <1>14, <1>15, <2>1, ZenonT(40) DEF CardType
<1>19. /\ Registers(e, k) /\ k.command = e.command
       /\ k.pending = e.pending /\ k.delay = e.delay /\ k.inShift = 0 /\ k.inBit = 0
  BY <1>1, <1>11a, <1>14, <1>15, ZenonT(40) DEF CardType, Registers, Received
<1>20. k.csActive
  BY <1>17
<1> QED
  BY <1>5, <1>8, <1>12, <1>16, <1>18, <1>19, <1>20

(* After a byte both are at the first bit of the next.                     *)
LEMMA LastInStep ==
  ASSUME card' \in CardType, card'.inBit = 0, card'.outBit = 0, card'.inShift = 0,
         program' \in ProgramType, program'.bit = 0, program'.heard = 0, program'.low = FALSE
  PROVE  InStep(card', program')
<1>1. Sent(program') \in ByteValue
  BY SentByte
<1>2. Shown(card') \in ByteValue
  BY AnsweringType DEF Shown, CardType
<1>3. Bits(Sent(program'), 0) = 0 /\ Bits(Shown(card'), 0) = 0
  BY <1>1, <1>2, FirstBits
<1> QED
  BY <1>3 DEF InStep

(* The program has heard the byte the card was sending.                    *)
LEMMA LastHeard ==
  ASSUME CardInv, Card!RaiseClock, program.bit = 7,
         card'.csActive, card'.ioOut = Card!BitOf(card.outShift, 7)
  PROVE  program' = Card!NextExchange(Card!ByteThrough(Cleared, card.outShift))
<1>1. card \in CardType /\ card.outBit = 7 /\ program \in ProgramType
  BY RiseFacts
<1>2. Shown(card) = card.outShift
  <2>1. card.outBit # 0
    BY <1>1
  <2>2. Card!Answering(card) = card
    BY <1>1, <2>1, AnsweringCases
  <2> QED
    BY <2>2 DEF Shown
<1>3. program.heard = Bits(card.outShift, 7)
  BY <1>2, RiseFacts
<1>4. card.outShift \in ByteValue
  BY <1>1 DEF CardType
<1>5. 2 * program.heard + Card!BitOf(card.outShift, 7) = card.outShift
  BY <1>3, <1>4, FirstBits
<1>6. Card!Read(card') = Card!BitOf(card.outShift, 7)
  BY DEF Card!Read
<1>7. [program EXCEPT !.low = FALSE].bit = 7
  BY <1>1 DEF ProgramType
<1>8. PICK heard : heard = 2 * program.heard + Card!Read(card')
  OBVIOUS
<1>9. heard = card.outShift
  BY <1>5, <1>6, <1>8
<1>10. ~([program EXCEPT !.low = FALSE].bit < 7)
  BY <1>7
<1>11. program' = Card!NextExchange(Card!ByteThrough(Cleared, heard))
  BY <1>8, <1>10 DEF Card!RaiseClock, Cleared
<1> QED
  BY <1>9, <1>11

(* A byte was sent to a card that was silent: what the card makes of it,   *)
(* and the program goes on.                                                *)
SentOn(e) ==
  /\ card' \in CardType /\ Registers(e, card') /\ card'.command = e.command
  /\ card'.pending = e.pending /\ card'.delay = e.delay
  /\ card'.outShift = 255 /\ card'.queue = <<>>
  /\ program' \in ProgramType /\ program'.out = Tail(program.out)
  /\ program'.plan = program.plan /\ program'.in = program.in
  /\ program'.first = program.first /\ program'.tries = program.tries
  /\ program'.known = program.known /\ program'.bit = 0
  /\ InStep(card', program')

(* What becomes of both when a byte was sent.                              *)
LEMMA SentLast ==
  ASSUME CardInv, Card!RaiseClock, program.bit = 7, program.out # <<>>, program.in # <<>>,
         card.queue = <<>>, NEW e, e = Card!ByteIn(Drained, Sent(program)), Received(e)
  PROVE  SentOn(e)
<1>1. program \in ProgramType
  BY RiseFacts
<1>2. /\ Cleared \in ProgramType /\ Cleared.bit = 0 /\ Cleared.heard = 0 /\ Cleared.low = FALSE
      /\ Cleared.plan = program.plan /\ Cleared.out = program.out /\ Cleared.in = program.in
      /\ Cleared.tries = program.tries /\ Cleared.first = program.first
      /\ Cleared.known = program.known
  BY <1>1, ClearedProgram
<1>3. /\ card' \in CardType /\ Registers(e, card') /\ card'.command = e.command
      /\ card'.pending = e.pending /\ card'.delay = e.delay
      /\ card'.inShift = 0 /\ card'.inBit = 0 /\ card'.outBit = 0
      /\ card'.csActive /\ card'.ioOut = Card!BitOf(card.outShift, 7)
      /\ card'.outShift = 255 /\ card'.queue = <<>>
  BY LastBit
<1>4. program' = Card!NextExchange(Card!ByteThrough(Cleared, card.outShift))
  BY <1>3, LastHeard
<1>5. /\ Kept(Cleared, program') /\ program'.out = Tail(program.out)
      /\ program'.plan = program.plan /\ program'.in = program.in
      /\ program'.first = program.first /\ program'.tries = program.tries
  <2>1. Cleared.out # <<>> /\ Cleared.in # <<>>
    BY <1>2
  <2>2. /\ Kept(Cleared, program') /\ program'.out = Tail(Cleared.out)
        /\ program'.plan = Cleared.plan /\ program'.in = Cleared.in
        /\ program'.first = Cleared.first /\ program'.tries = Cleared.tries
    BY <1>2, <1>4, <2>1, ByteSent
  <2>3. program'.first = program.first
    BY <1>2, <2>2
  <2> QED
    BY <1>2, <2>2, <2>3
<1>6. /\ program'.known = program.known /\ program'.bit = 0 /\ program'.heard = 0
      /\ program'.low = FALSE /\ program' \in ProgramType
  BY <1>2, <1>5 DEF Kept
<1>7. InStep(card', program')
  BY <1>3, <1>6, LastInStep
<1> QED
  BY <1>3, <1>5, <1>6, <1>7 DEF SentOn

(* A byte is kept as part of a command, or the command is taken.           *)
LEMMA SetCommand ==
  ASSUME CardInv, Card!RaiseClock, program.bit = 7, NEW bytes \in Seq(ByteValue),
         NEW d, d = [Drained EXCEPT !.command = bytes]
  PROVE  /\ Received(d) /\ Registers(card, d) /\ d.command = bytes
         /\ d.pending = card.pending /\ d.delay = card.delay
<1>1. Received(Drained) /\ Registers(card, Drained) /\ Drained.pending = card.pending /\ Drained.delay = card.delay
  BY ReadyCard
<1>2. Drained \in CardType
  BY <1>1 DEF Received
<1>3. DOMAIN d = DOMAIN Drained
  OBVIOUS
<1>4. \A f \in DOMAIN Drained : f \notin {"command"} => d[f] = Drained[f]
  OBVIOUS
<1>5. d.command = bytes
  BY <1>2 DEF CardType
<1>6. d \in CardType
  BY <1>2, <1>3, <1>4, <1>5 DEF CardType
<1> QED
  BY <1>1, <1>2, <1>3, <1>4, <1>5, <1>6 DEF CardType, Received, Registers

(* The highest bytes of the program's arguments are zero.                  *)
LEMMA FrameArgument ==
  ASSUME NEW cmd \in Commands, NEW arg \in ByteValue
  PROVE  Card!Argument(Card!Frame(cmd, arg)) = arg
<1>1. 2^24 \in Int /\ 2^16 \in Int /\ 2^8 \in Int
  OBVIOUS
<1>2. \A x \in Int : x * 0 = 0
  OBVIOUS
<1>3. arg \in Int
  BY DEF ByteValue
<1> QED
  BY <1>1, <1>2, <1>3, FrameBytes DEF Card!Argument

(* The last bit of a byte of a command.                                    *)
LEMMA CommandByte ==
  ASSUME CardInv, Card!RaiseClock, program.bit = 7, Commanding(card, program)
  PROVE  CardInv'
<1>1. card \in CardType /\ program \in ProgramType
  BY RiseFacts
<1>2. PICK cmd \in Commands, arg \in ByteValue :
        card.command \o program.out = Card!Frame(cmd, arg) /\ Obeys(card, program, cmd, arg)
  BY DEF Commanding
<1>3. /\ program.out # <<>> /\ program.first /\ program.tries = 0 /\ card.pending = <<>>
      /\ card.delay = 0 /\ card.queue = <<>> /\ card.outShift = 255 /\ card.write = None
  BY DEF Commanding, Opening, Silent
<1>4. program.in # <<>> /\ Head(program.in) # 255
  BY <1>1, <1>2, HandleCommand DEF Obeys, Handled, Reply
<1>5. card.command \in Seq(ByteValue) /\ program.out \in Seq(ByteValue)
  BY <1>1 DEF CardType, ProgramType
<1>6. PICK byte : byte = Head(program.out)
  OBVIOUS
<1>7. PICK bytes : bytes = Append(card.command, byte)
  OBVIOUS
<1>8. /\ bytes \o Tail(program.out) = Card!Frame(cmd, arg) /\ bytes \in Seq(ByteValue)
      /\ byte \in ByteValue /\ Len(bytes) = Len(card.command) + 1
      /\ Len(Tail(program.out)) = Len(program.out) - 1
      /\ Tail(program.out) = <<>> => bytes = Card!Frame(cmd, arg)
  <2>1. /\ Append(card.command, Head(program.out)) \o Tail(program.out)
             = card.command \o program.out
        /\ Head(program.out) \in ByteValue
        /\ Append(card.command, Head(program.out)) \in Seq(ByteValue)
        /\ Len(Append(card.command, Head(program.out))) = Len(card.command) + 1
        /\ Len(Tail(program.out)) = Len(program.out) - 1
        /\ Tail(program.out) = <<>> => Append(card.command, Head(program.out))
                                         = card.command \o program.out
    <3>1. PICK s \in Seq(ByteValue), t \in Seq(ByteValue) : s = card.command /\ t = program.out
      BY <1>5
    <3>2. t # <<>>
      BY <1>3, <3>1
    <3>3. Append(s, Head(t)) \o Tail(t) = s \o t
      BY <3>2, MoveHead
    <3>4. Head(t) \in ByteValue /\ Append(s, Head(t)) \in Seq(ByteValue)
      BY <3>2, MoveHead
    <3>5. Len(Append(s, Head(t))) = Len(s) + 1 /\ Len(Tail(t)) = Len(t) - 1
      BY <3>2, MoveHead
    <3>6. Tail(t) = <<>> => Append(s, Head(t)) = s \o t
      BY <3>2, MoveHead
    <3> QED
      BY <3>1, <3>3, <3>4, <3>5, <3>6, Zenon
  <2> QED
    BY <1>2, <1>6, <1>7, <2>1
<1>9. Tail(program.out) # <<>> => Len(bytes) < 6
  <2>1. Tail(program.out) \in Seq(ByteValue)
    BY <1>3, <1>5, HeadTailProperties
  <2>2. Len(bytes) + Len(Tail(program.out)) = 6
    <3>1. Len(bytes \o Tail(program.out)) = 6
      <4>1. PICK f : f = Card!Frame(cmd, arg)
        OBVIOUS
      <4>2. Len(f) = 6
        BY <4>1, FrameBytes
      <4>3. bytes \o Tail(program.out) = f
        BY <1>8, <4>1, Zenon
      <4> QED
        BY <4>2, <4>3, Zenon
    <3>2. Len(bytes \o Tail(program.out)) = Len(bytes) + Len(Tail(program.out))
      BY <1>8, <2>1, ConcatProperties
    <3> QED
      BY <3>1, <3>2
  <2>3. Len(Tail(program.out)) \in Nat /\ Len(bytes) \in Nat
    BY <1>8, <2>1, LenProperties
  <2>4. Tail(program.out) # <<>> => Len(Tail(program.out)) # 0
    BY <2>1, EmptySeq
  <2> QED
    BY <2>2, <2>3, <2>4
<1>10. card.command = <<>> => byte \div 64 = 1
  <2>1. ASSUME card.command = <<>> PROVE byte \div 64 = 1
    <3>1. program.out = Card!Frame(cmd, arg)
      BY <1>2, <1>5, <2>1, ConcatEmptySeq
    <3>2. byte = 64 + cmd
      BY <1>5, <1>6, <3>1, FrameBytes
    <3> QED
      BY <3>2, FrameBytes
  <2> QED
    BY <2>1
<1>11. Sent(program) = byte
  BY <1>3, <1>6 DEF Sent
<1>12. Drained.write = None /\ Drained.command = card.command
  BY <1>3, ReadyCard DEF Registers
<1>13. PICK e : e = Card!ByteIn(Drained, Sent(program))
  OBVIOUS
<1>15. Received(e) => SentOn(e)
  BY <1>3, <1>4, <1>13, SentLast
<1>16. CASE Tail(program.out) # <<>>
  <2>1. e = [Drained EXCEPT !.command = bytes]
    BY <1>7, <1>9, <1>10, <1>11, <1>12, <1>13, <1>16 DEF Card!ByteIn
  <2>2. /\ Received(e) /\ Registers(card, e) /\ e.command = bytes
        /\ e.pending = card.pending /\ e.delay = card.delay
    BY <1>8, <2>1, SetCommand
  <2>3. Registers(card, card')
    BY <1>15, <2>2 DEF Registers, SentOn
  <2>4. Obeys(card', program', cmd, arg)
    BY <1>1, <1>2, <1>15, <2>2, <2>3, ObeysAlike DEF SentOn
  <2>5. card'.write = None
    BY <1>3, <2>3 DEF Registers
  <2>6. Opening(card', program')
    BY <1>3, <1>15, <1>16, <2>2 DEF Opening, Silent, SentOn
  <2>7. Commanding(card', program')
    BY <1>8, <1>15, <2>2, <2>4, <2>5, <2>6 DEF Commanding, SentOn
  <2> QED
    BY <1>15, <2>2, <2>7 DEF CardInv, Phase, SentOn
<1>17. CASE Tail(program.out) = <<>>
  <2>1. PICK d : d = [Drained EXCEPT !.command = <<>>]
    OBVIOUS
  <2>2. e = Card!HandleCommand(d, cmd, arg)
    <3>1. bytes = Card!Frame(cmd, arg) /\ Len(bytes) = 6 /\ bytes[1] % 64 = cmd
      <4>1. bytes = Card!Frame(cmd, arg)
        BY <1>8, <1>17
      <4>2. bytes[1] = 64 + cmd /\ Len(bytes) = 6 /\ (64 + cmd) % 64 = cmd
        BY <4>1, FrameBytes
      <4> QED
        BY <4>1, <4>2
    <3>2. Card!Argument(bytes) = arg
      BY <3>1, FrameArgument
    <3> QED
      BY <1>7, <1>10, <1>11, <1>12, <1>13, <2>1, <3>1, <3>2 DEF Card!ByteIn
  <2>3. <<>> \in Seq(ByteValue)
    OBVIOUS
  <2>4. Received(d) /\ Registers(card, d) /\ d.command = <<>>
    BY <2>1, <2>3, SetCommand
  <2>5. d \in CardType
    BY <2>4 DEF Received
  <2>6. Handled(d, e)
    BY <2>2, <2>5, HandleCommand
  <2>7. Received(e) /\ e.command = <<>> /\ e.delay = 1
    BY <2>4, <2>6 DEF Received, Handled
  <2>8. Obeys(d, program, cmd, arg)
    BY <1>1, <1>2, <2>4, <2>5, ObeysAlike
  <2>9. e.pending = program.in /\ Ahead(e, program)
    BY <2>2, <2>8 DEF Obeys
  <2>10. Ahead(card', program')
    BY <1>15, <2>7, <2>9, AheadAlike DEF SentOn
  <2>11. Waiting(card', program')
    <3>1. program'.out = <<>> /\ program'.in # <<>> /\ Head(program'.in) # 255 /\ card'.command = <<>>
      <4>1. program'.out = <<>> /\ program'.in = program.in /\ card'.command = <<>>
        BY <1>15, <1>17, <2>7 DEF SentOn
      <4> QED
        BY <1>4, <4>1, Zenon
    <3>2. Hearing(card', program')
      BY <2>10, <3>1 DEF Hearing
    <3>3. card'.pending = program'.in /\ card'.queue = <<>> /\ card'.outShift = 255 /\ card'.delay = 1
      BY <1>15, <2>7, <2>9 DEF SentOn
    <3>4. program'.first
      BY <1>3, <1>15, <2>7 DEF SentOn
    <3>5. program'.bit = 0 /\ program'.tries = 0
      BY <1>3, <1>15, <2>7 DEF SentOn
    <3> QED
      BY <3>2, <3>3, <3>4, <3>5 DEF Waiting
  <2> QED
    BY <1>15, <2>7, <2>11 DEF CardInv, Phase, SentOn
<1> QED
  BY <1>16, <1>17

(* A byte of a block changes where the write stands and nothing else.      *)
LEMMA SetWrite ==
  ASSUME CardInv, Card!RaiseClock, program.bit = 7, NEW w \in Card!WriteState,
         NEW d, d = [Drained EXCEPT !.write = w]
  PROVE  /\ Received(d) /\ d.write = w /\ d.command = card.command
         /\ d.pending = card.pending /\ d.delay = card.delay
         /\ d.ready = card.ready /\ d.tries = card.tries /\ d.app = card.app
         /\ d.image = card.image
<1>1. /\ Received(Drained) /\ Registers(card, Drained) /\ Drained.command = card.command
      /\ Drained.pending = card.pending /\ Drained.delay = card.delay
  BY ReadyCard
<1>2. Drained \in CardType
  BY <1>1 DEF Received
<1>3. DOMAIN d = DOMAIN Drained
  OBVIOUS
<1>4. \A f \in DOMAIN Drained : f \notin {"write"} => d[f] = Drained[f]
  OBVIOUS
<1>5. d.write = w
  BY <1>2 DEF CardType
<1>6. d \in CardType
  BY <1>2, <1>3, <1>4, <1>5 DEF CardType
<1> QED
  BY <1>1, <1>2, <1>3, <1>4, <1>5, <1>6 DEF CardType, Received, Registers

(* Where two sequences are split at the same place, their parts are alike. *)
LEMMA SameParts ==
  ASSUME NEW s \in Seq(ByteValue), NEW t \in Seq(ByteValue),
         NEW u \in Seq(ByteValue), NEW v \in Seq(ByteValue),
         s \o t = u \o v, Len(s) = Len(u)
  PROVE  s = u /\ t = v
<1>1. PICK m \in Nat : m = Len(s) /\ m = Len(u)
  OBVIOUS
<1>2. PICK n \in Nat : n = Len(t)
  OBVIOUS
<1>3. Len(v) = n
  <2>1. \A x, y \in Seq(ByteValue) : Len(x \o y) = Len(x) + Len(y)
    BY ConcatProperties
  <2>2. Len(s \o t) = Len(s) + Len(t) /\ Len(u \o v) = Len(u) + Len(v)
    BY <2>1, Zenon
  <2>3. Len(s \o t) = Len(u \o v)
    BY Zenon
  <2>4. Len(v) \in Nat
    BY LenProperties
  <2> QED
    BY <1>1, <1>2, <2>2, <2>3, <2>4
<1>4. \A i \in 1..m : s[i] = u[i]
  <2>1. ASSUME NEW i \in 1..m PROVE s[i] = u[i]
    <3>1. (s \o t)[i] = s[i] /\ (u \o v)[i] = u[i]
      BY <1>1
    <3> QED
      BY <3>1
  <2> QED
    BY <2>1
<1>5. \A i \in 1..n : t[i] = v[i]
  <2>1. ASSUME NEW i \in 1..n PROVE t[i] = v[i]
    <3>1. m + i \in 1..(m + n) /\ m + i > m /\ (m + i) - m = i
      BY <1>1, <1>2
    <3>2. (s \o t)[m + i] = t[i]
      BY <1>1, <1>2, <3>1, SMTT(30)
    <3>3. (u \o v)[m + i] = v[i]
      BY <1>1, <1>2, <1>3, <3>1
    <3> QED
      BY <3>2, <3>3
  <2> QED
    BY <2>1
<1>6. s = u
  BY <1>1, <1>4, SeqEqual
<1>7. t = v
  BY <1>2, <1>3, <1>5, SeqEqual
<1> QED
  BY <1>6, <1>7

(* The last bit of a byte of a block, until the last but one.              *)
LEMMA StoreOn ==
  ASSUME CardInv, Card!RaiseClock, program.bit = 7, Storing(card, program),
         NEW block \in CardBlock, Stores(card, program.known, block),
         NEW w \in Card!WriteState, w.start = card.write.start,
         Card!ByteIn(Drained, Sent(program)) = [Drained EXCEPT !.write = w],
         Tail(program.out) # <<>>, Midway(w, Tail(program.out), block)
  PROVE  CardInv'
<1>1. /\ program.out # <<>> /\ program.first /\ program.tries = 0 /\ card.pending = <<>>
      /\ card.delay = 0 /\ card.queue = <<>> /\ card.command = <<>>
      /\ program.plan = <<>> /\ program.in = <<5, 255>>
  BY DEF Storing, Opening, Silent
<1>2. PICK e : e = [Drained EXCEPT !.write = w]
  OBVIOUS
<1>3. /\ Received(e) /\ e.write = w /\ e.command = card.command
      /\ e.pending = card.pending /\ e.delay = card.delay
      /\ e.ready = card.ready /\ e.tries = card.tries /\ e.app = card.app
      /\ e.image = card.image
  BY <1>2, SetWrite
<1>4. program.in # <<>>
  BY <1>1
<1>5. e = Card!ByteIn(Drained, Sent(program))
  BY <1>2
<1>6. SentOn(e)
  BY <1>1, <1>3, <1>4, <1>5, SentLast
<1>7. Opening(card', program')
  <2>1. program'.first
    BY <1>1, <1>6 DEF SentOn
  <2>2. Silent(card') /\ program'.out # <<>> /\ program'.tries = 0
    BY <1>1, <1>3, <1>6 DEF SentOn, Silent
  <2> QED
    BY <2>1, <2>2 DEF Opening
<1>8. Stores(card', program'.known, block)
  <2>1. card'.write = w /\ card'.image = card.image
    BY <1>3, <1>6 DEF SentOn, Registers
  <2>2. card'.ready = card.ready /\ card'.tries = card.tries /\ card'.app = card.app
    BY <1>3, <1>6 DEF SentOn, Registers
  <2>3. program'.known = program.known
    BY <1>6 DEF SentOn
  <2> QED
    BY <2>1, <2>2, <2>3 DEF Stores, Knows
<1>9. Midway(card'.write, program'.out, block)
  BY <1>3, <1>6 DEF SentOn, Registers
<1>10. card'.command = <<>> /\ program'.plan = <<>> /\ program'.in = <<5, 255>>
  BY <1>1, <1>3, <1>6 DEF SentOn
<1>11. Storing(card', program')
  BY <1>7, <1>8, <1>9, <1>10 DEF Storing
<1> QED
  BY <1>6, <1>11 DEF CardInv, Phase, SentOn

(* The last byte of a block: the block is stored, and the card answers.    *)
LEMMA StoreLast ==
  ASSUME CardInv, Card!RaiseClock, program.bit = 7, Storing(card, program),
         NEW block \in CardBlock, Stores(card, program.known, block), card.write.buffer = block,
         Card!ByteIn(Drained, Sent(program)) = Card!CommitWrite(Drained),
         Tail(program.out) = <<>>
  PROVE  CardInv'
<1>1. /\ program.out # <<>> /\ program.first /\ program.tries = 0 /\ card.pending = <<>>
      /\ card.delay = 0 /\ card.queue = <<>> /\ card.command = <<>>
      /\ program.plan = <<>> /\ program.in = <<5, 255>> /\ card.outShift = 255
  BY DEF Storing, Opening, Silent
<1>2. /\ Received(Drained) /\ Registers(card, Drained) /\ Drained.command = card.command
  BY ReadyCard
<1>3. Drained \in CardType /\ Drained.write = card.write /\ Drained.image = card.image
  BY <1>2 DEF Received, Registers
<1>4. card.write.start \in Nat
  BY DEF Stores, Card!WriteState
<1>5. PICK image : image = Card!WithBlockAt(Drained.image, card.write.start, block)
  OBVIOUS
<1>6. image \in [1..ImageSize -> ByteValue]
  <2>1. Drained.image \in [1..ImageSize -> ByteValue]
    BY <1>3 DEF CardType
  <2> QED
    BY <1>4, <1>5, <2>1, ImageType
<1>7. PICK d : d = [Drained EXCEPT !.image = image, !.write = None]
  OBVIOUS
<1>8. DOMAIN d = DOMAIN Drained
  BY <1>7
<1>9. \A f \in DOMAIN Drained : f \notin {"image", "write"} => d[f] = Drained[f]
  BY <1>7
<1>10. d.image = image /\ d.write = None
  BY <1>3, <1>7 DEF CardType
<1>11. d \in CardType
  <2>1. d.image \in [1..ImageSize -> ByteValue] /\ d.write \in Card!WriteState \cup {None}
    BY <1>6, <1>10
  <2> QED
    BY <1>3, <1>7, <1>8, <1>9, <2>1 DEF CardType
<1>12. PICK e : e = Card!ByteIn(Drained, Sent(program))
  OBVIOUS
<1>13. e = Card!Respond(d, <<5, 255>>)
  BY <1>3, <1>5, <1>7, <1>12 DEF Card!CommitWrite
<1>14. Reply(<<5, 255>>)
  BY ShortReplies
<1>15. Handled(d, e)
  <2>1. Registered(d, d)
    BY DEF Registered
  <2> QED
    BY <1>11, <1>13, <1>14, <2>1, RespondHandles
<1>16. e = [d EXCEPT !.pending = <<5, 255>>, !.delay = 1]
  BY <1>13 DEF Card!Respond
<1>17. /\ e.pending = <<5, 255>> /\ e.write = None /\ e.image = image
       /\ e.ready = card.ready /\ e.tries = card.tries /\ e.app = card.app
  <2>1. e.pending = <<5, 255>> /\ e.write = d.write /\ e.image = d.image
        /\ e.ready = d.ready /\ e.tries = d.tries /\ e.app = d.app
    BY <1>11, <1>16 DEF CardType
  <2>2. d.ready = Drained.ready /\ d.tries = Drained.tries /\ d.app = Drained.app
    BY <1>3, <1>8, <1>9 DEF CardType
  <2> QED
    BY <1>2, <1>10, <2>1, <2>2 DEF Registers
<1>18. Received(e) /\ e.command = <<>> /\ e.delay = 1
  <2>1. /\ d.inShift = Drained.inShift /\ d.inBit = Drained.inBit /\ d.outBit = Drained.outBit
        /\ d.outShift = Drained.outShift /\ d.queue = Drained.queue /\ d.command = Drained.command
    BY <1>3, <1>8, <1>9 DEF CardType
  <2> QED
    BY <1>1, <1>2, <1>15, <2>1 DEF Handled, Received
<1>19. SentOn(e)
  <2>1. program.in # <<>>
    BY <1>1
  <2> QED
    BY <1>1, <1>12, <1>18, <2>1, SentLast
<1>20. Ahead(card', program')
  <2>1. card'.write = None /\ card'.image = image
    BY <1>17, <1>19 DEF SentOn, Registers
  <2>2. card'.ready = card.ready /\ card'.tries = card.tries /\ card'.app = card.app
    BY <1>17, <1>19 DEF SentOn, Registers
  <2>3. program'.plan = <<>> /\ program'.known = program.known
    BY <1>1, <1>19 DEF SentOn
  <2>4. Knows(card, program.known, image)
    BY <1>3, <1>5 DEF Stores
  <2>5. Knows(card', program'.known, card'.image)
    BY <2>1, <2>2, <2>3, <2>4 DEF Knows
  <2> QED
    BY <2>1, <2>3, <2>5 DEF Ahead
<1>21. Hearing(card', program')
  <2>1. program'.out = <<>> /\ program'.in # <<>> /\ Head(program'.in) # 255 /\ card'.command = <<>>
    BY <1>1, <1>18, <1>19 DEF SentOn
  <2> QED
    BY <1>20, <2>1 DEF Hearing
<1>22. Waiting(card', program')
  <2>1. card'.pending = program'.in /\ card'.queue = <<>> /\ card'.outShift = 255 /\ card'.delay = 1
    BY <1>1, <1>17, <1>18, <1>19 DEF SentOn
  <2>2. program'.first
    BY <1>1, <1>19 DEF SentOn
  <2>3. program'.bit = 0 /\ program'.tries = 0
    BY <1>1, <1>19 DEF SentOn
  <2> QED
    BY <1>21, <2>1, <2>2, <2>3 DEF Waiting
<1> QED
  BY <1>19, <1>22 DEF CardInv, Phase, SentOn

(* The last bit of a byte of a block.                                      *)
LEMMA StoreByte ==
  ASSUME CardInv, Card!RaiseClock, program.bit = 7, Storing(card, program)
  PROVE  CardInv'
<1>1. PICK block \in CardBlock : Stores(card, program.known, block)
                                 /\ Midway(card.write, program.out, block)
  BY DEF Storing
<1>2. program.out # <<>> /\ program.out \in Seq(ByteValue)
  BY RiseFacts DEF Storing, Opening, ProgramType
<1>3. PICK byte : byte = Head(program.out)
  OBVIOUS
<1>4. Sent(program) = byte
  BY <1>2, <1>3 DEF Sent
<1>5. PICK w \in Card!WriteState : w = card.write
  BY <1>1 DEF Stores
<1>6. w # None
  BY <1>5, CardFacts
<1>7. Drained.write = w /\ Drained \in CardType
  BY <1>5, ReadyCard DEF Registers, Received
<1>8. Card!ByteIn(Drained, Sent(program)) = Card!ConsumeWriteByte(Drained, byte)
  BY <1>4, <1>6, <1>7 DEF Card!ByteIn
<1>9. block \in Seq(ByteValue) /\ Len(block) = BlockSize /\ BlockSize \in Nat \ {0}
  BY CardFacts
<1>10. <<255, 255>> \in Seq(ByteValue) /\ <<254>> \in Seq(ByteValue) /\ <<255>> \in Seq(ByteValue)
  BY DEF ByteValue
<1>11. block \o <<255, 255>> \in Seq(ByteValue) /\ Len(block \o <<255, 255>>) = BlockSize + 2
  BY <1>9, <1>10, ConcatProperties
<1>12. CASE w.awaitingToken /\ w.buffer = <<>> /\ w.crc = 2 /\ program.out = BlockOut(block)
  <2>1. byte = 254 /\ Tail(program.out) = block \o <<255, 255>>
    <3>1. PICK rest \in Seq(ByteValue) : rest = block \o <<255, 255>>
      BY <1>11
    <3>2. program.out = <<254>> \o rest
      <4>1. BlockOut(block) = <<254>> \o (block \o <<255, 255>>)
        BY <1>9, <1>10, ConcatAssociative DEF BlockOut
      <4> QED
        BY <1>12, <3>1, <4>1, Zenon
    <3>3. Head(program.out) = 254 /\ Tail(program.out) = rest
      BY <1>10, <3>2
    <3> QED
      BY <1>3, <3>1, <3>3
  <2>2. PICK v : v = [w EXCEPT !.awaitingToken = FALSE]
    OBVIOUS
  <2>3. v \in Card!WriteState /\ v.start = w.start /\ v.buffer = <<>> /\ v.crc = 2
    BY <1>12, <2>2 DEF Card!WriteState
  <2>4. ~v.awaitingToken
    BY <2>2 DEF Card!WriteState
  <2>5. Card!ConsumeWriteByte(Drained, byte) = [Drained EXCEPT !.write = v]
    <3>1. Drained.write.awaitingToken
      BY <1>7, <1>12
    <3>2. Card!ConsumeWriteByte(Drained, byte) = [Drained EXCEPT !.write.awaitingToken = FALSE]
      BY <2>1, <3>1 DEF Card!ConsumeWriteByte
    <3> QED
      BY <1>7, <2>2, <3>2
  <2>6. Tail(program.out) # <<>>
    BY <1>9, <1>11, <2>1
  <2>7. Midway(v, Tail(program.out), block)
    <3>1. v.buffer \o Tail(program.out) = block \o <<255, 255>>
      BY <1>11, <2>1, <2>3, ConcatEmptySeq
    <3>2. Len(v.buffer) <= BlockSize
      BY <1>9, <2>3
    <3> QED
      BY <2>3, <2>4, <3>1, <3>2 DEF Midway
  <2> QED
    BY <1>1, <1>5, <1>8, <2>3, <2>5, <2>6, <2>7, StoreOn
<1>13. CASE /\ ~w.awaitingToken /\ Len(w.buffer) <= BlockSize /\ w.crc = 2
            /\ w.buffer \o program.out = block \o <<255, 255>>
  <2>1. w.buffer \in Seq(ByteValue)
    BY DEF Card!WriteState, ByteValue
  <2>2. PICK m \in Nat, n \in Nat : m = Len(w.buffer) /\ n = Len(program.out)
    BY <1>2, <2>1, LenProperties
  <2>3. m + n = BlockSize + 2
    <3>1. Len(w.buffer \o program.out) = Len(w.buffer) + Len(program.out)
      BY <1>2, <2>1, ConcatProperties
    <3>2. Len(w.buffer \o program.out) = BlockSize + 2
      BY <1>11, <1>13, Zenon
    <3> QED
      BY <2>2, <3>1, <3>2
  <2>4. CASE m < BlockSize
    <3>1. PICK s \in Seq(ByteValue), t \in Seq(ByteValue) : s = w.buffer /\ t = program.out
      BY <1>2, <2>1
    <3>2. t # <<>>
      BY <1>2, <3>1
    <3>3. Append(s, Head(t)) \o Tail(t) = s \o t
      BY <3>2, MoveHead
    <3>4. Head(t) \in ByteValue /\ Append(s, Head(t)) \in Seq(ByteValue) /\ Tail(t) \in Seq(ByteValue)
      BY <3>2, MoveHead
    <3>5. Len(Append(s, Head(t))) = Len(s) + 1 /\ Len(Tail(t)) = Len(t) - 1
      BY <3>2, MoveHead
    <3>6. PICK buffer \in Seq(ByteValue) : buffer = Append(s, Head(t))
      BY <3>4
    <3>7. buffer \o Tail(program.out) = block \o <<255, 255>>
      BY <1>13, <3>1, <3>3, <3>6, Zenon
    <3>8. Len(buffer) = m + 1 /\ Tail(program.out) # <<>>
      <4>1. Len(buffer) = m + 1
        BY <2>2, <3>1, <3>5, <3>6
      <4>2. Len(Tail(t)) = n - 1
        BY <2>2, <3>1, <3>5
      <4>3. Len(Tail(t)) # 0
        <5>1. n - 1 # 0
          <6>1. BlockSize \in Nat /\ m \in Nat /\ n \in Nat
            BY <1>9
          <6>2. \A b \in Nat : m + n = b + 2 /\ m < b => n - 1 # 0
            BY <6>1
          <6> QED
            BY <2>3, <2>4, <6>1, <6>2
        <5> QED
          BY <4>2, <5>1, Zenon
      <4>4. Tail(t) # <<>>
        <5>1. Len(<<>>) = 0
          OBVIOUS
        <5> QED
          BY <4>3, <5>1, Zenon
      <4> QED
        BY <3>1, <4>1, <4>4
    <3>9. PICK v : v = [w EXCEPT !.buffer = buffer]
      OBVIOUS
    <3>10. v \in Card!WriteState /\ v.start = w.start /\ v.buffer = buffer /\ v.crc = 2
      BY <1>13, <3>9 DEF Card!WriteState, ByteValue
    <3>11. ~v.awaitingToken
      BY <1>13, <3>9 DEF Card!WriteState
    <3>12. Card!ConsumeWriteByte(Drained, byte) = [Drained EXCEPT !.write = v]
      <4>1. ~Drained.write.awaitingToken
        BY <1>7, <1>13
      <4>2. Len(Drained.write.buffer) < BlockSize
        BY <1>7, <2>2, <2>4
      <4>3. Card!ConsumeWriteByte(Drained, byte) = [Drained EXCEPT !.write.buffer = Append(@, byte)]
        BY <4>1, <4>2 DEF Card!ConsumeWriteByte
      <4>4. buffer = Append(w.buffer, byte)
        BY <1>3, <3>1, <3>6
      <4> QED
        BY <1>7, <3>9, <4>3, <4>4
    <3>13. Midway(v, Tail(program.out), block)
      <4>1. Len(v.buffer) <= BlockSize
        BY <1>9, <2>2, <2>4, <3>8, <3>10
      <4>2. v.buffer \o Tail(program.out) = block \o <<255, 255>>
        BY <3>7, <3>10, Zenon
      <4> QED
        BY <3>10, <3>11, <4>1, <4>2 DEF Midway
    <3> QED
      BY <1>1, <1>5, <1>8, <3>8, <3>10, <3>12, <3>13, StoreOn
  <2>5. CASE ~(m < BlockSize)
    <3>1. w.buffer = block /\ program.out = <<255, 255>>
      <4>1. Len(w.buffer) = Len(block)
        BY <1>9, <1>13, <2>2, <2>5
      <4>2. PICK end \in Seq(ByteValue) : end = <<255, 255>>
        BY <1>10
      <4>3. w.buffer \o program.out = block \o end
        BY <1>13, <4>2, Zenon
      <4>4. w.buffer = block /\ program.out = end
        BY <1>2, <1>9, <2>1, <4>1, <4>3, SameParts, Zenon
      <4> QED
        BY <4>2, <4>4
    <3>2. PICK v : v = [w EXCEPT !.crc = 1]
      OBVIOUS
    <3>3. v \in Card!WriteState /\ v.start = w.start /\ v.buffer = block /\ v.crc = 1
      BY <3>1, <3>2 DEF Card!WriteState
    <3>4. ~v.awaitingToken
      BY <1>13, <3>2 DEF Card!WriteState
    <3>5. Card!ConsumeWriteByte(Drained, byte) = [Drained EXCEPT !.write = v]
      <4>1. ~Drained.write.awaitingToken
        BY <1>7, <1>13
      <4>2. ~(Len(Drained.write.buffer) < BlockSize) /\ Drained.write.crc = 2
        BY <1>7, <1>13, <2>2, <2>5
      <4>3. Card!ConsumeWriteByte(Drained, byte) = [Drained EXCEPT !.write.crc = @ - 1]
        BY <4>1, <4>2 DEF Card!ConsumeWriteByte
      <4> QED
        BY <1>7, <3>2, <4>2, <4>3
    <3>6. Tail(program.out) = <<255>> /\ Tail(program.out) # <<>>
      BY <3>1
    <3>7. Midway(v, Tail(program.out), block)
      BY <3>3, <3>4, <3>6 DEF Midway
    <3> QED
      BY <1>1, <1>5, <1>8, <3>3, <3>5, <3>6, <3>7, StoreOn
  <2> QED
    BY <2>4, <2>5
<1>14. CASE ~w.awaitingToken /\ w.buffer = block /\ w.crc = 1 /\ program.out = <<255>>
  <2>1. ~Drained.write.awaitingToken
    BY <1>7, <1>14
  <2>2. ~(Len(Drained.write.buffer) < BlockSize) /\ Drained.write.crc = 1
    BY <1>7, <1>9, <1>14
  <2>3. Card!ConsumeWriteByte(Drained, byte) = Card!CommitWrite(Drained)
    BY <2>1, <2>2 DEF Card!ConsumeWriteByte
  <2>4. Tail(program.out) = <<>>
    BY <1>14
  <2>5. card.write.buffer = block
    BY <1>5, <1>14
  <2> QED
    BY <1>1, <1>8, <2>3, <2>4, <2>5, StoreLast
<1> QED
  BY <1>1, <1>5, <1>12, <1>13, <1>14 DEF Midway

(* While it answers, the card takes no notice of the ones it is sent.      *)
LEMMA IgnoredByte ==
  ASSUME CardInv, Card!RaiseClock, program.bit = 7, Hearing(card, program)
  PROVE  Card!ByteIn(Drained, Sent(program)) = Drained
<1>1. Sent(program) = 255 /\ card.command = <<>> /\ Ahead(card, program)
  BY DEF Hearing, Sent
<1>2. Drained \in CardType /\ Drained.command = <<>> /\ Drained.write = card.write
  BY <1>1, ReadyCard DEF Received, Registers
<1>3. CASE card.write = None
  <2>1. 255 \div 64 # 1
    OBVIOUS
  <2> QED
    BY <1>1, <1>2, <1>3, <2>1 DEF Card!ByteIn
<1>4. CASE card.write # None
  <2>1. card.write \in Card!WriteState /\ card.write.awaitingToken
    BY <1>1, <1>4 DEF Ahead, Stores
  <2>2. PICK w \in Card!WriteState : w = Drained.write /\ w.awaitingToken = TRUE
    BY <1>2, <2>1 DEF Card!WriteState
  <2>3. w = [w EXCEPT !.awaitingToken = TRUE]
    BY <2>2 DEF Card!WriteState
  <2>4. PICK byte : byte = 255
    OBVIOUS
  <2>5. Card!ByteIn(Drained, Sent(program)) = [Drained EXCEPT !.write = w]
    <3>1. Card!ByteIn(Drained, Sent(program)) = Card!ConsumeWriteByte(Drained, byte)
      BY <1>1, <1>2, <1>4, <2>4 DEF Card!ByteIn
    <3>2. Drained.write.awaitingToken
      BY <2>2
    <3>3. Card!ConsumeWriteByte(Drained, byte) = [Drained EXCEPT !.write.awaitingToken = TRUE]
      <4>1. PICK other : other = (byte # 254)
        OBVIOUS
      <4>2. other = TRUE
        <5>1. byte # 254
          BY <2>4
        <5> QED
          BY <4>1, <5>1
      <4>3. Card!ConsumeWriteByte(Drained, byte) = [Drained EXCEPT !.write.awaitingToken = other]
        BY <3>2, <4>1 DEF Card!ConsumeWriteByte
      <4> QED
        BY <4>2, <4>3
    <3> QED
      BY <2>2, <2>3, <3>1, <3>3
  <2>6. [Drained EXCEPT !.write = Drained.write] = Drained
    BY <1>2 DEF CardType
  <2> QED
    BY <2>2, <2>5, <2>6
<1> QED
  BY <1>3, <1>4

(* A byte that was not sent: what became of the card.                      *)
LEMMA HeardLast ==
  ASSUME CardInv, Card!RaiseClock, program.bit = 7, Hearing(card, program)
  PROVE  /\ card' \in CardType /\ Registers(card, card') /\ card'.command = <<>>
         /\ card'.pending = card.pending /\ card'.delay = card.delay
         /\ card'.inShift = 0 /\ card'.inBit = 0 /\ card'.outBit = 0
         /\ card.queue = <<>> => card'.outShift = 255 /\ card'.queue = <<>>
         /\ card.queue # <<>> => card'.outShift = Head(card.queue) /\ card'.queue = Tail(card.queue)
         /\ program' = Card!NextExchange(Card!ByteThrough(Cleared, card.outShift))
<1>1. /\ Received(Drained) /\ Registers(card, Drained) /\ Drained.command = <<>>
      /\ Drained.pending = card.pending /\ Drained.delay = card.delay
  BY ReadyCard DEF Hearing
<1>2. PICK e : e = Drained /\ e = Card!ByteIn(Drained, Sent(program)) /\ Received(e)
  BY <1>1, IgnoredByte
<1>3. /\ card' \in CardType /\ Registers(e, card') /\ card'.command = e.command
      /\ card'.pending = e.pending /\ card'.delay = e.delay
      /\ card'.inShift = 0 /\ card'.inBit = 0 /\ card'.outBit = 0
      /\ card'.csActive /\ card'.ioOut = Card!BitOf(card.outShift, 7)
      /\ card.queue = <<>> => card'.outShift = 255 /\ card'.queue = <<>>
      /\ card.queue # <<>> => card'.outShift = Head(card.queue) /\ card'.queue = Tail(card.queue)
  BY <1>2, LastBit
<1>4. program' = Card!NextExchange(Card!ByteThrough(Cleared, card.outShift))
  BY <1>3, LastHeard
<1>5. Registers(card, card')
  <2>1. Registers(e, card') /\ Registers(card, e)
    BY <1>1, <1>2, <1>3
  <2> QED
    BY <2>1 DEF Registers
<1>6. card'.command = <<>> /\ card'.pending = card.pending /\ card'.delay = card.delay
  <2>1. e.command = <<>> /\ e.pending = card.pending /\ e.delay = card.delay
    BY <1>1, <1>2, Zenon
  <2>2. card'.command = e.command /\ card'.pending = e.pending /\ card'.delay = e.delay
    BY <1>3
  <2> QED
    BY <2>1, <2>2, Zenon
<1> QED
  BY <1>3, <1>4, <1>5, <1>6, Zenon

(* The last bit of a byte before the answer.                               *)
LEMMA WaitByte ==
  ASSUME CardInv, Card!RaiseClock, program.bit = 7, Waiting(card, program) PROVE CardInv'
<1>1. card \in CardType /\ program \in ProgramType
  BY RiseFacts
<1>2. /\ Hearing(card, program) /\ program.first /\ card.pending = program.in
      /\ card.queue = <<>> /\ card.outShift = 255 /\ program.out = <<>> /\ program.in # <<>>
      /\ Ahead(card, program)
  BY DEF Waiting, Hearing
<1>3. card.delay = 0 /\ program.tries = 0
  BY <1>1 DEF Waiting, CardType
<1>4. /\ card' \in CardType /\ Registers(card, card') /\ card'.command = <<>>
      /\ card'.pending = card.pending /\ card'.delay = card.delay
      /\ card'.inShift = 0 /\ card'.inBit = 0 /\ card'.outBit = 0
      /\ card'.outShift = 255 /\ card'.queue = <<>>
      /\ program' = Card!NextExchange(Card!ByteThrough(Cleared, 255))
  BY <1>2, HeardLast
<1>5. /\ Cleared \in ProgramType /\ Cleared.bit = 0 /\ Cleared.heard = 0 /\ Cleared.low = FALSE
      /\ Cleared.plan = program.plan /\ Cleared.out = program.out /\ Cleared.in = program.in
      /\ Cleared.tries = program.tries /\ Cleared.first = program.first
      /\ Cleared.known = program.known
  BY <1>1, ClearedProgram
<1>6. /\ Kept(Cleared, program') /\ program'.tries = 1 /\ program'.plan = Cleared.plan
      /\ program'.in = Cleared.in /\ program'.first = TRUE /\ program'.out = Cleared.out
  <2>1. Cleared.first
    BY <1>2, <1>5
  <2>2. Cleared.out = <<>> /\ Cleared.in # <<>> /\ Cleared.tries = 0
    BY <1>2, <1>3, <1>5
  <2> QED
    <3>1. Unanswered(Cleared)
      BY <1>5, <2>1, <2>2 DEF Unanswered, ProgramType
    <3>2. StillWaits(Cleared, program')
      BY <1>4, <1>5, <3>1, ByteSilent
    <3> QED
      BY <3>2 DEF StillWaits
<1>7. /\ program' \in ProgramType /\ program'.bit = 0 /\ program'.heard = 0
      /\ program'.low = FALSE /\ program'.known = program.known
  BY <1>5, <1>6 DEF Kept
<1>8. InStep(card', program')
  BY <1>4, <1>7, LastInStep
<1>9. Ahead(card', program')
  BY <1>2, <1>4, <1>5, <1>6, <1>7, AheadAlike
<1>10. program'.first
  BY <1>2, <1>5, <1>6
<1>11. Hearing(card', program')
  <2>1. program.first => Head(program.in) # 255
    BY <1>2 DEF Hearing
  <2>2. Head(program.in) # 255
    BY <1>2, <2>1
  <2>3. program'.out = <<>> /\ program'.in # <<>> /\ Head(program'.in) # 255
    BY <1>2, <1>5, <1>6, <2>2
  <2> QED
    BY <1>4, <1>9, <2>3 DEF Hearing
<1>12. Waiting(card', program')
  <2>1. card'.pending = program'.in /\ card'.queue = <<>> /\ card'.outShift = 255
    BY <1>2, <1>4, <1>5, <1>6
  <2>2. card'.delay = 0 /\ program'.tries = 1 /\ program'.bit = 0
    BY <1>3, <1>4, <1>6, <1>7
  <2> QED
    BY <1>10, <1>11, <2>1, <2>2 DEF Waiting
<1> QED
  BY <1>4, <1>7, <1>8, <1>12 DEF CardInv, Phase

(* The last bit of a byte of the answer: the next one follows, or the      *)
(* block that goes with the command, or nothing.                           *)
LEMMA AnswerByte ==
  ASSUME CardInv, Card!RaiseClock, program.bit = 7, Answering(card, program) PROVE CardInv'
<1>1. card \in CardType /\ program \in ProgramType
  BY RiseFacts
<1>2. /\ Hearing(card, program) /\ card.pending = <<>> /\ card.delay = 0
      /\ card.outShift = Head(program.in) /\ card.queue = Tail(program.in)
      /\ program.out = <<>> /\ program.in # <<>> /\ Ahead(card, program)
  BY DEF Answering, Hearing
<1>3. PICK rest \in Seq(ByteValue) : rest = Tail(program.in)
  BY <1>1, <1>2, HeadTailProperties DEF ProgramType
<1>4. /\ card' \in CardType /\ Registers(card, card') /\ card'.command = <<>>
      /\ card'.pending = <<>> /\ card'.delay = 0
      /\ card'.inShift = 0 /\ card'.inBit = 0 /\ card'.outBit = 0
      /\ rest = <<>> => card'.outShift = 255 /\ card'.queue = <<>>
      /\ rest # <<>> => card'.outShift = Head(rest) /\ card'.queue = Tail(rest)
      /\ program' = Card!NextExchange(Card!ByteThrough(Cleared, card.outShift))
  BY <1>2, <1>3, HeardLast
<1>5. /\ Cleared \in ProgramType /\ Cleared.bit = 0 /\ Cleared.heard = 0 /\ Cleared.low = FALSE
      /\ Cleared.plan = program.plan /\ Cleared.out = program.out /\ Cleared.in = program.in
      /\ Cleared.tries = program.tries /\ Cleared.first = program.first
      /\ Cleared.known = program.known
  BY <1>1, ClearedProgram
<1>6. /\ (rest # <<>> \/ program.plan = <<>>) => HearsOn(Cleared, program')
      /\ \A x \in ExchangeType :
           (rest = <<>> /\ program.plan = <<x>>) => GoesOn(Cleared, program', x)
  <2>1. program.first => Head(program.in) # 255
    BY <1>2 DEF Hearing
  <2>2. Cleared.first => card.outShift # 255
    BY <1>2, <1>5, <2>1
  <2>3. Answered(Cleared, card.outShift)
    BY <1>2, <1>5, <2>2 DEF Answered
  <2>4. /\ (Tail(Cleared.in) # <<>> \/ Cleared.plan = <<>>) => HearsOn(Cleared, program')
        /\ \A x \in ExchangeType :
             (Tail(Cleared.in) = <<>> /\ Cleared.plan = <<x>>) => GoesOn(Cleared, program', x)
    BY <1>4, <1>5, <2>3, ByteHeard
  <2>5. Tail(Cleared.in) = rest /\ Cleared.plan = program.plan
    BY <1>3, <1>5
  <2> QED
    BY <2>4, <2>5, Zenon
<1>7. ASSUME Kept(Cleared, program')
      PROVE  /\ program' \in ProgramType /\ program'.bit = 0 /\ program'.low = FALSE
             /\ program'.known = program.known /\ InStep(card', program')
  <2>1. /\ program' \in ProgramType /\ program'.bit = 0 /\ program'.heard = 0
        /\ program'.low = FALSE /\ program'.known = program.known
    BY <1>5, <1>7 DEF Kept
  <2> QED
    BY <1>4, <2>1, LastInStep
<1>8. CASE rest # <<>>
  <2>1. /\ Kept(Cleared, program') /\ program'.in = rest /\ program'.first = FALSE
        /\ program'.out = <<>> /\ program'.plan = program.plan
    <3>1. HearsOn(Cleared, program')
      BY <1>6, <1>8
    <3> QED
      BY <1>3, <1>5, <3>1 DEF HearsOn
  <2>2. Ahead(card', program')
    BY <1>2, <1>4, <1>7, <2>1, AheadAlike
  <2>3. Answering(card', program')
    BY <1>4, <1>8, <2>1, <2>2 DEF Answering, Hearing
  <2> QED
    BY <1>4, <1>7, <2>1, <2>3 DEF CardInv, Phase
<1>9. CASE rest = <<>> /\ program.plan = <<>>
  <2>1. /\ Kept(Cleared, program') /\ program'.in = <<>> /\ program'.out = <<>>
        /\ program'.plan = <<>>
    <3>1. HearsOn(Cleared, program')
      BY <1>6, <1>9
    <3> QED
      BY <1>3, <1>5, <1>9, <3>1 DEF HearsOn
  <2>2. card.write = None /\ Knows(card, program.known, card.image)
    BY <1>2, <1>9 DEF Ahead
  <2>3. card'.write = None /\ Knows(card', program'.known, card'.image)
    BY <1>4, <1>7, <2>1, <2>2 DEF Knows, Registers
  <2>4. Resting(card', program')
    BY <1>4, <1>7, <1>9, <2>1, <2>3 DEF Resting, Silent
  <2> QED
    BY <1>4, <1>7, <2>1, <2>4 DEF CardInv, Phase
<1>10. CASE rest = <<>> /\ program.plan # <<>>
  <2>1. PICK block \in CardBlock :
          /\ program.plan = <<Card!Exchange(BlockOut(block), <<5, 255>>)>>
          /\ Stores(card, program.known, block)
          /\ card.write.awaitingToken /\ card.write.buffer = <<>> /\ card.write.crc = 2
    BY <1>2, <1>10 DEF Ahead
  <2>2. PICK x \in ExchangeType : x = Card!Exchange(BlockOut(block), <<5, 255>>)
    BY BlockBytes
  <2>3. x.out = BlockOut(block) /\ x.in = <<5, 255>>
    BY <2>2 DEF Card!Exchange
  <2>4. /\ Kept(Cleared, program') /\ program'.in = <<5, 255>> /\ program'.first = TRUE
        /\ program'.out = BlockOut(block) /\ program'.plan = <<>> /\ program'.tries = 0
    <3>1. program.plan = <<x>>
      BY <2>1, <2>2
    <3>2. GoesOn(Cleared, program', x)
      BY <1>6, <1>10, <3>1
    <3> QED
      BY <2>3, <3>2 DEF GoesOn
  <2>5. BlockOut(block) # <<>>
    <3>1. block \in Seq(ByteValue) /\ <<254>> \in Seq(ByteValue) /\ <<255, 255>> \in Seq(ByteValue)
      BY CardFacts DEF ByteValue
    <3>2. Len(BlockOut(block)) = 1 + Len(block) + 2 /\ Len(block) \in Nat
      BY <3>1, ConcatProperties, LenProperties DEF BlockOut
    <3>3. Len(BlockOut(block)) # 0
      BY <3>2
    <3>4. Len(<<>>) = 0
      OBVIOUS
    <3> QED
      BY <3>3, <3>4, Zenon
  <2>6. Opening(card', program')
    <3>1. Silent(card')
      BY <1>4, <1>10 DEF Silent
    <3>2. program'.first
      BY <2>4
    <3>3. program'.out # <<>> /\ program'.tries = 0
      BY <2>4, <2>5
    <3> QED
      BY <3>1, <3>2, <3>3 DEF Opening
  <2>7. card'.write = card.write
    BY <1>4 DEF Registers
  <2>8. Stores(card', program'.known, block)
    BY <1>4, <1>7, <2>1, <2>4 DEF Stores, Knows, Registers
  <2>9. Midway(card'.write, program'.out, block)
    BY <2>1, <2>4, <2>7, ZenonT(40) DEF Midway
  <2>10. Storing(card', program')
    BY <1>4, <2>4, <2>6, <2>8, <2>9 DEF Storing
  <2> QED
    BY <1>4, <1>7, <2>4, <2>10 DEF CardInv, Phase
<1> QED
  BY <1>8, <1>9, <1>10

(* A rise of the clock.                                                    *)
LEMMA RiseStep == CardInv /\ Card!RaiseClock => CardInv'
<1> SUFFICES ASSUME CardInv, Card!RaiseClock PROVE CardInv'
  OBVIOUS
<1>1. program.bit \in 0..7 /\ Phase(card, program) /\ ~Resting(card, program)
  BY RiseFacts
<1>2. CASE program.bit < 7
  BY <1>2, EarlyStep
<1>3. CASE program.bit = 7
  BY <1>1, <1>3, CommandByte, StoreByte, WaitByte, AnswerByte DEF Phase
<1> QED
  BY <1>1, <1>2, <1>3

(* The card and the program keep in step.                                  *)
LEMMA CardInvStep == CardInv /\ [Next]_vars => CardInv'
<1> SUFFICES ASSUME CardInv, [Next]_vars PROVE CardInv'
  OBVIOUS
<1>1. CASE Card!CardStep
  <2>1. CASE Card!GoIdle \/ Card!AppCommand \/ Card!SendOpCond
    BY <2>1, InitialiseStep
  <2>2. CASE \E cmd \in {8, 9, 10, 13, 16, 58} : Card!Ask(cmd)
    BY <2>2, AskingStep
  <2>3. CASE \E arg \in CardArg : Card!ReadBlock(arg)
    BY <2>3, ReadBlockStep
  <2>4. CASE \E arg \in CardArg, block \in CardBlock : Card!WriteBlock(arg, block)
    BY <2>4, WriteBlockStep
  <2>5. CASE Card!LowerClock
    BY <2>5, LowerCardClock
  <2>6. CASE Card!RaiseClock
    BY <2>6, RiseStep
  <2>7. CASE Card!Deselect
    BY <2>7, DeselectStep
  <2> QED
    BY <1>1, <2>1, <2>2, <2>3, <2>4, <2>5, <2>6, <2>7 DEF Card!CardStep
<1>2. CASE UNCHANGED cardVars
  BY <1>2 DEF CardInv, cardVars
<1> QED
  BY <1>1, <1>2 DEF Next, KeypadStep, MatrixStep, CardStep, MemoryStep, ClockStep, Reset, vars

(* Card and program are in one phase of an exchange, at the same bit of    *)
(* the same byte, and the card is what the program takes it for.           *)
THEOREM CardTalks == Spec => []CardInv
<1>1. Init => CardInv
  BY CardInitInv
<1>2. CardInv /\ [Next]_vars => CardInv'
  BY CardInvStep
<1> QED
  BY <1>1, <1>2, PTL DEF Spec

(* A program that waits for two bytes is answered, and rightly.            *)
THEOREM CardIsRight == ASSUME MaxTries > 1 PROVE Spec => []CardAnswers
<1>1. CardInv => CardAnswers
  <2> SUFFICES ASSUME CardInv PROVE CardAnswers
    OBVIOUS
  <2>1. program.ok = TRUE /\ program.tries \in 0..1
    BY DEF CardInv, ProgramType
  <2>2. MaxTries \in Nat
    BY BoardAssumption
  <2>3. program.tries < MaxTries
    BY <2>1, <2>2
  <2> QED
    BY <2>1, <2>3 DEF CardAnswers, Card!CardAnswers
<1> QED
  BY <1>1, CardTalks, PTL
=============================================================================
