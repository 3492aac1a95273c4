------------------------------- MODULE Ds1302 -------------------------------
(***************************************************************************)
(* The clock chip of the TEC-1G (tec1g/ds1302.ts): registers and RAM that  *)
(* the program reads and writes over three lines, enable, clock and data,  *)
(* a bit at a time.                                                        *)
(*                                                                         *)
(* The program is external: it sends a command, and data in or out; it     *)
(* drops the enable where it likes, which ends a transfer.                 *)
(***************************************************************************)
EXTENDS Integers, Sequences, FiniteSets, SequencesExt

CONSTANTS None,
          ChipCommand,  \* command bytes the program sends
          ChipByte,     \* bytes the program writes
          Instant,      \* moments of the host's clock: its seven time registers
          MaxBurst      \* bound: bytes of a burst

VARIABLES chip, now, talk

chipVars == <<chip, now, talk>>

Registers == 0..31
RamOffset == 32
RamSize == 32
TimeRegister == 0..6
Control == 7

IdleChip ==
  [registers |-> [r \in Registers |-> 0], ram |-> [r \in 0..RamSize - 1 |-> 0],
   ce |-> FALSE, clk |-> FALSE, ioOut |-> 1, mode |-> "idle",
   bitIndex |-> 0, command |-> 0, address |-> 0, dataShift |-> 0,
   burst |-> FALSE, timeFrozen |-> FALSE]

-----------------------------------------------------------------------------
\* Registers and RAM.

IsRam(addr) == addr \in RamOffset..(RamOffset + RamSize - 1)

ReadRegister(c, addr) == IF IsRam(addr) THEN c.ram[addr - RamOffset] ELSE c.registers[addr]

IsWriteProtected(c) == c.registers[Control] >= 128

(* A write to a time register stops the clock for good: nothing advances   *)
(* what the program has set.                                               *)
WriteRegister(c, addr, value) ==
  IF IsWriteProtected(c) /\ addr # Control THEN c
  ELSE IF IsRam(addr) THEN [c EXCEPT !.ram[addr - RamOffset] = value]
  ELSE [c EXCEPT !.registers[addr] = value, !.timeFrozen = @ \/ addr \in TimeRegister]

NextBurstAddress(addr) ==
  IF addr \in Registers THEN (addr + 1) % 32
  ELSE RamOffset + ((addr - RamOffset + 1) % RamSize)

(* Mutant: a clock that was set is still read from the host.               *)
RefreshedAlways(c, instant) ==
  [c EXCEPT !.registers = [r \in Registers |-> IF r \in TimeRegister THEN instant[r] ELSE @[r]]]

RefreshTimeRegisters(c, instant) ==
  IF c.timeFrozen THEN c
  ELSE [c EXCEPT !.registers = [r \in Registers |-> IF r \in TimeRegister THEN instant[r] ELSE @[r]]]

-----------------------------------------------------------------------------
\* The lines.

BitAt(byte, i) == (byte \div 2 ^ i) % 2

IsBurst(command) == command \div 2 \in {95, 127}
AddressOf(command) ==
  CASE command \div 2 = 95 -> 0 [] command \div 2 = 127 -> RamOffset
    [] OTHER -> (command \div 2) % 64

TakeCommand(c, command, instant) ==
  LET addr == AddressOf(command)
      taken == [c EXCEPT !.address = addr, !.burst = IsBurst(command),
                         !.bitIndex = 0, !.dataShift = 0, !.command = 0]
      read == RefreshTimeRegisters(taken, instant)
  IN IF command % 2 = 1
       THEN [read EXCEPT !.mode = "read", !.dataShift = ReadRegister(read, addr)]
       ELSE [taken EXCEPT !.mode = "write"]

CommandBit(c, bit, instant) ==
  LET command == c.command + bit * 2 ^ c.bitIndex IN
    IF c.bitIndex < 7 THEN [c EXCEPT !.command = command, !.bitIndex = @ + 1]
    ELSE TakeCommand(c, command, instant)

WriteBit(c, bit) ==
  LET data == c.dataShift + bit * 2 ^ c.bitIndex
      written == WriteRegister(c, c.address, data)
  IN IF c.bitIndex < 7 THEN [c EXCEPT !.dataShift = data, !.bitIndex = @ + 1]
     ELSE IF c.burst
       THEN [written EXCEPT !.address = NextBurstAddress(@), !.dataShift = 0, !.bitIndex = 0]
     ELSE [written EXCEPT !.mode = "command", !.bitIndex = 0, !.dataShift = 0]

ReadBit(c) ==
  LET out == [c EXCEPT !.ioOut = BitAt(c.dataShift, c.bitIndex), !.bitIndex = (@ + 1) % 8]
      next == NextBurstAddress(c.address)
  IN IF c.bitIndex < 7 THEN out
     ELSE IF c.burst THEN [out EXCEPT !.address = next, !.dataShift = ReadRegister(c, next)]
     ELSE [out EXCEPT !.mode = "command"]

HandleClockRise(c, bit, instant) ==
  CASE c.mode = "command" -> CommandBit(c, bit, instant)
    [] c.mode = "write" -> WriteBit(c, bit)
    [] c.mode = "read" -> ReadBit(c)
    [] OTHER -> c

ResetTransaction(c) ==
  [c EXCEPT !.mode = "idle", !.bitIndex = 0, !.command = 0, !.dataShift = 0,
            !.address = 0, !.ioOut = 1]

BeginTransaction(c) == [ResetTransaction(c) EXCEPT !.mode = "command", !.ce = TRUE]

(* The program writes the port.                                            *)
WritePort(c, ce, clk, bit, instant) ==
  IF ~ce THEN [ResetTransaction(c) EXCEPT !.ce = FALSE, !.clk = clk]
  ELSE LET begun == IF c.ce THEN c ELSE BeginTransaction(c)
           risen == IF ~c.clk /\ clk THEN HandleClockRise(begun, bit, instant) ELSE begun
       IN [risen EXCEPT !.ce = TRUE, !.clk = clk]

-----------------------------------------------------------------------------
\* The program's side.

IdleTalk ==
  [command |-> None,             \* the command being sent or served
   data |-> <<>>, bits |-> 0,    \* the bytes to write, the bits clocked so far
   heard |-> 0, low |-> FALSE,
   memory |-> [a \in 0..63 |-> 0],   \* what the chip should hold
   timeSet |-> FALSE,
   mustDrop |-> TRUE,           \* the enable, before the next command
   ok |-> TRUE]

ChipInit ==
  /\ chip = IdleChip
  /\ now \in Instant
  /\ talk = IdleTalk

Reads(command) == command % 2 = 1
Bytes(command) == IF IsBurst(command) THEN MaxBurst ELSE 1

SendCommand(command, data) ==
  /\ talk.command = None /\ ~talk.mustDrop
  /\ talk' = [talk EXCEPT !.command = command, !.data = data]
  /\ UNCHANGED <<chip, now>>

DataOut ==
  LET n == talk.bits IN
    IF n < 8 THEN BitAt(talk.command, n)
    ELSE IF talk.data = <<>> THEN 1 ELSE BitAt(talk.data[n \div 8], n % 8)

LowerClock ==
  /\ talk.command # None /\ ~talk.low
  /\ chip' = WritePort(chip, TRUE, FALSE, DataOut, now)
  /\ talk' = [talk EXCEPT !.low = TRUE]
  /\ UNCHANGED now

(* A whole byte has gone over the lines: a command to read the clock looks *)
(* at it, a byte is stored where it may be, a byte heard is what the chip  *)
(* should hold.                                                            *)
ByteThrough(t, heard) ==
  LET k == t.bits \div 8
      addr == AddressOf(t.command) + k - 1
      stored == ~Reads(t.command) /\ (addr = Control \/ t.memory[Control] < 128)
  IN IF k = 0
       THEN IF Reads(t.command) /\ ~t.timeSet
              THEN [t EXCEPT !.memory = [a \in 0..63 |-> IF a \in TimeRegister THEN now[a] ELSE @[a]]]
              ELSE t
     ELSE IF Reads(t.command) THEN [t EXCEPT !.ok = @ /\ heard = t.memory[addr]]
     ELSE IF stored
       THEN [t EXCEPT !.memory[addr] = t.data[k], !.timeSet = @ \/ addr \in TimeRegister]
       ELSE t

\* A burst lasts until the enable drops.
Advanced(t) ==
  IF t.bits + 1 < 8 + 8 * Bytes(t.command) THEN [t EXCEPT !.bits = @ + 1]
  ELSE [t EXCEPT !.command = None, !.data = <<>>, !.bits = 0, !.mustDrop = IsBurst(t.command)]

RaiseClock ==
  LET position == talk.bits % 8
      heard == talk.heard + chip'.ioOut * 2 ^ position
  IN /\ talk.low
     /\ chip' = WritePort(chip, TRUE, TRUE, DataOut, now)
     /\ talk' = IF position < 7
          THEN Advanced([talk EXCEPT !.low = FALSE, !.heard = heard])
          ELSE Advanced(ByteThrough([talk EXCEPT !.low = FALSE, !.heard = 0], heard))
     /\ UNCHANGED now

(* The enable drops, after a transfer or in it, the clock at either level. *)
Disable ==
  /\ chip.ce \/ talk.mustDrop
  /\ \E clk \in BOOLEAN : chip' = WritePort(chip, FALSE, clk, 1, now)
  /\ talk' = [talk EXCEPT !.command = None, !.data = <<>>, !.bits = 0,
                          !.heard = 0, !.low = FALSE, !.mustDrop = FALSE]
  /\ UNCHANGED now

(* A reset of the board restarts the program, wherever it was, and leaves  *)
(* the chip alone; the program begins by dropping the enable.              *)
ResetChipProgram ==
  /\ talk' = [talk EXCEPT !.command = None, !.data = <<>>, !.bits = 0,
                          !.heard = 0, !.low = FALSE, !.mustDrop = TRUE]
  /\ UNCHANGED <<chip, now>>

TimePasses ==
  /\ now' \in Instant \ {now}
  /\ UNCHANGED <<chip, talk>>

ChipStep ==
  \/ \E command \in ChipCommand :
       \E data \in IF Reads(command) THEN {<<>>} ELSE [1..Bytes(command) -> ChipByte] :
         SendCommand(command, data)
  \/ LowerClock \/ RaiseClock \/ Disable \/ TimePasses

-----------------------------------------------------------------------------
ChipTypeOK ==
  /\ chip.mode \in {"idle", "command", "read", "write"}
  /\ chip.bitIndex \in 0..7 /\ chip.address \in 0..63
  /\ chip.command \in 0..255 /\ chip.dataShift \in 0..255
  /\ now \in Instant /\ talk.command \in ChipCommand \cup {None}

(* The chip holds what was written to it in whole bytes while it was not   *)
(* protected, whatever transfers were cut short, and a program hears it;   *)
(* the bytes of a burst from a clock that was not set are of one moment,   *)
(* however time passes meanwhile (ds1302.ts:45-67, 172-226).               *)
ClockChipAnswers ==
  /\ talk.ok
  /\ \A a \in 0..63 : ReadRegister(chip, a) = talk.memory[a]
=============================================================================
