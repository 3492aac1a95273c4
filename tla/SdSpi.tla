------------------------------- MODULE SdSpi -------------------------------
(***************************************************************************)
(* The SD card of the TEC-1G (tec1g/sd-spi.ts), which the program talks to *)
(* by toggling the lines of a port: select, clock and data out, a bit at a *)
(* time, with the card's bit read back at each rise of the clock.          *)
(*                                                                         *)
(* The program is external: it sends a command's frame, clocks until a     *)
(* byte other than FF comes, and reads the whole answer.  It drops the     *)
(* select wherever it likes, as MON-3 does between bytes, and goes on      *)
(* where it was.                                                           *)
(***************************************************************************)
EXTENDS Integers, Sequences, FiniteSets

CONSTANTS None,
          BlockSize,   \* bytes of a block
          ImageSize,   \* bytes of the card's image
          CardArg,     \* arguments of the program's reads and writes
          CardBlock,   \* blocks the program writes
          MaxTries     \* bytes the program waits for an answer

VARIABLES card, program

cardVars == <<card, program>>

Zeros(n) == [i \in 1..n |-> 0]

IdleCard(highCapacity) ==
  [csActive |-> FALSE, clk |-> FALSE, inShift |-> 0, inBit |-> 0,
   outShift |-> 255, outBit |-> 0, ioOut |-> 1,
   command |-> <<>>,        \* commandBytes
   queue |-> <<>>,          \* outputQueue
   pending |-> <<>>,        \* pendingResponse, empty when there is none
   delay |-> 0, app |-> FALSE, tries |-> 0, ready |-> FALSE,
   write |-> None,          \* writeState
   highCapacity |-> highCapacity,
   image |-> Zeros(ImageSize)]

-----------------------------------------------------------------------------
\* What the card answers to a command.

Respond(c, bytes) == [c EXCEPT !.pending = bytes, !.delay = 1]

Status(ready) == IF ready THEN 0 ELSE 1

Start(c, arg) == IF c.highCapacity THEN arg * BlockSize ELSE arg

\* Bytes beyond the image read as zero, and are not written.
BlockAt(image, start) ==
  [i \in 1..BlockSize |-> IF start + i \in DOMAIN image THEN image[start + i] ELSE 0]

WithBlockAt(image, start, block) ==
  [i \in DOMAIN image |-> IF i - start \in 1..BlockSize THEN block[i - start] ELSE image[i]]

(* The first two bytes stand for the sixteen of CSD (9) and CID (10).      *)
Information(highCapacity, cmd) ==
  IF cmd = 9 THEN <<IF highCapacity THEN 64 ELSE 0, 14>> ELSE <<3, 68>>

DataPacket(block) == <<0, 254>> \o block \o <<255, 255>>

WriteState == [start : Nat, awaitingToken : BOOLEAN, buffer : Seq(0..255), crc : 1..2]

OpenWrite(start) == [start |-> start, awaitingToken |-> TRUE, buffer |-> <<>>, crc |-> 2]

Initialised(c) ==
  IF ~c.app THEN Respond(c, <<5>>)
  ELSE LET ready == c.ready \/ c.tries >= 1 IN
         Respond([c EXCEPT !.app = FALSE, !.tries = 1, !.ready = ready],
                 <<IF c.tries >= 1 THEN 0 ELSE 1>>)

HandleCommand(c, cmd, arg) ==
  CASE cmd = 0  -> Respond([c EXCEPT !.ready = FALSE, !.tries = 0, !.app = FALSE], <<1>>)
    [] cmd = 8  -> Respond(c, <<1, 0, 0, 1, 170>>)
    [] cmd = 55 -> Respond([c EXCEPT !.app = TRUE], <<Status(c.ready)>>)
    [] cmd = 41 -> Initialised(c)
    [] cmd = 58 -> Respond(c, <<Status(c.ready), IF c.highCapacity THEN 192 ELSE 128, 0, 0, 0>>)
    [] cmd = 13 -> Respond(c, <<Status(c.ready), 0>>)
    [] cmd \in {9, 10} /\ c.ready -> Respond(c, DataPacket(Information(c.highCapacity, cmd)))
    [] cmd = 17 /\ c.ready -> Respond(c, DataPacket(BlockAt(c.image, Start(c, arg))))
    [] cmd = 24 /\ c.ready -> Respond([c EXCEPT !.write = OpenWrite(Start(c, arg))], <<0>>)
    [] OTHER -> Respond(c, <<Status(c.ready)>>)

\* The four bytes after the command's, the highest first.
Argument(bytes) == 2^24 * bytes[2] + 2^16 * bytes[3] + 2^8 * bytes[4] + bytes[5]

-----------------------------------------------------------------------------
\* Bytes of a block being written.

CommitWrite(c) ==
  Respond([c EXCEPT !.image = WithBlockAt(@, c.write.start, c.write.buffer),
                    !.write = None],
          <<5, 255>>)

ConsumeWriteByte(c, byte) ==
  CASE c.write.awaitingToken -> [c EXCEPT !.write.awaitingToken = byte # 254]
    [] ~c.write.awaitingToken /\ Len(c.write.buffer) < BlockSize ->
         [c EXCEPT !.write.buffer = Append(@, byte)]
    [] OTHER ->
         IF c.write.crc = 1 THEN CommitWrite(c) ELSE [c EXCEPT !.write.crc = @ - 1]

-----------------------------------------------------------------------------
\* The bits.

(* Bytes that do not begin a command frame are skipped between frames.     *)
ByteIn(c, byte) ==
  IF c.write # None THEN ConsumeWriteByte(c, byte)
  ELSE IF c.command = <<>> /\ byte \div 64 # 1 THEN c
  ELSE LET bytes == Append(c.command, byte) IN
         IF Len(bytes) < 6 THEN [c EXCEPT !.command = bytes]
         ELSE HandleCommand([c EXCEPT !.command = <<>>], bytes[1] % 64, Argument(bytes))

ShiftIn(c, bit) ==
  LET shifted == (2 * c.inShift + bit) % 256 IN
    IF c.inBit < 7 THEN [c EXCEPT !.inShift = shifted, !.inBit = @ + 1]
    ELSE ByteIn([c EXCEPT !.inShift = 0, !.inBit = 0], shifted)

(* The answer takes the place of a byte that was about to be shifted out.  *)
EnqueueResponse(c) ==
  LET queued == c.queue \o c.pending IN
    [c EXCEPT !.pending = <<>>, !.queue = Tail(queued), !.outShift = Head(queued)]

Answering(c) ==
  IF c.outBit # 0 \/ c.pending = <<>> THEN c
  ELSE IF c.delay > 0 THEN [c EXCEPT !.delay = @ - 1]
  ELSE EnqueueResponse(c)

BitOf(byte, i) == (byte \div 2 ^ (7 - i)) % 2

ShiftOut(c) ==
  LET a == Answering(c)
      out == [a EXCEPT !.ioOut = BitOf(a.outShift, a.outBit)]
  IN CASE a.outBit < 7 -> [out EXCEPT !.outBit = @ + 1]
       [] a.outBit = 7 /\ a.queue = <<>> -> [out EXCEPT !.outBit = 0, !.outShift = 255]
       [] OTHER -> [out EXCEPT !.outBit = 0, !.outShift = Head(a.queue), !.queue = Tail(a.queue)]

(* Mutant: an answer that waits, or a byte half out, is no transaction.    *)
HasOpenTransaction(c) ==
  c.command # <<>> \/ c.queue # <<>> \/ c.outShift # 255 \/ c.write # None

HasActiveTransaction(c) ==
  \/ c.command # <<>> \/ c.pending # <<>> \/ c.queue # <<>>
  \/ c.outShift # 255 \/ c.outBit # 0
  \/ c.write # None

BeginTransaction(c) ==
  [IdleCard(c.highCapacity) EXCEPT !.csActive = TRUE, !.clk = c.clk, !.app = c.app,
     !.tries = c.tries, !.ready = c.ready, !.image = c.image]

Selected(c) ==
  IF ~c.csActive /\ ~HasActiveTransaction(c) THEN BeginTransaction(c) ELSE c

(* The program writes the port: select, clock, and data out.               *)
Write(c, cs, clk, bit) ==
  IF ~cs THEN [c EXCEPT !.csActive = FALSE, !.clk = clk]
  ELSE LET s == Selected(c)
           shifted == IF ~s.clk /\ clk THEN ShiftOut(ShiftIn(s, bit)) ELSE s
       IN [shifted EXCEPT !.csActive = TRUE, !.clk = clk]

Read(c) == IF c.csActive THEN c.ioOut ELSE 1

-----------------------------------------------------------------------------
\* The program's side: a plan of what it sends and what should come back.

\* known: whether initialisation is done, how far it is, and what is on the card.
IdleProgram ==
  [plan |-> <<>>,                     \* of [out, in]
   out |-> <<>>, in |-> <<>>,         \* bytes to send, then bytes to hear
   bit |-> 0, heard |-> 0, low |-> FALSE, tries |-> 0, first |-> TRUE,
   ok |-> TRUE,
   known |-> [ready |-> FALSE, inits |-> 0, app |-> FALSE, image |-> Zeros(ImageSize)]]

CardInit(highCapacity) ==
  /\ card = IdleCard(highCapacity)
  /\ program = IdleProgram

AtRest == program.plan = <<>> /\ program.out = <<>> /\ program.in = <<>>

Frame(cmd, arg) == <<64 + cmd, 0, 0, 0, arg, 255>>

Exchange(out, in) == [out |-> out, in |-> in]

Follow(plan, known) ==
  /\ program' = [program EXCEPT !.plan = Tail(plan), !.out = Head(plan).out, !.in = Head(plan).in,
                                !.first = TRUE, !.tries = 0, !.known = known]
  /\ UNCHANGED card

(* CMD0 and the initialisation loop: ACMD41 twice.                         *)
GoIdle ==
  /\ AtRest
  /\ Follow(<<Exchange(Frame(0, 0), <<1>>)>>,
            [program.known EXCEPT !.ready = FALSE, !.inits = 0, !.app = FALSE])

AppCommand ==
  /\ AtRest /\ ~program.known.app
  /\ Follow(<<Exchange(Frame(55, 0), <<Status(program.known.ready)>>)>>,
            [program.known EXCEPT !.app = TRUE])

SendOpCond ==
  LET known == program.known
      done == known.app /\ known.inits = 1
  IN /\ AtRest
     /\ Follow(<<Exchange(Frame(41, 0), <<IF ~known.app THEN 5 ELSE Status(done)>>)>>,
               [known EXCEPT !.app = FALSE, !.ready = @ \/ done, !.inits = IF known.app THEN 1 ELSE @])

(* After CMD55 a program sends the application command and nothing else.   *)
AsksOnly(cmd) ==
  LET status == Status(program.known.ready) IN
    CASE cmd = 8  -> <<1, 0, 0, 1, 170>>
      [] cmd = 58 -> <<status, IF card.highCapacity THEN 192 ELSE 128, 0, 0, 0>>
      [] cmd = 13 -> <<status, 0>>
      [] cmd = 16 -> <<status>>
      [] OTHER    -> IF program.known.ready
                       THEN DataPacket(Information(card.highCapacity, cmd)) ELSE <<status>>

Ask(cmd) ==
  /\ AtRest /\ ~program.known.app
  /\ Follow(<<Exchange(Frame(cmd, 0), AsksOnly(cmd))>>, program.known)

Address(arg) == IF card.highCapacity THEN arg * BlockSize ELSE arg

ReadBlock(arg) ==
  /\ AtRest /\ ~program.known.app
  /\ Follow(<<Exchange(Frame(17, arg),
                       IF program.known.ready
                         THEN DataPacket(BlockAt(program.known.image, Address(arg))) ELSE <<1>>)>>,
            program.known)

WriteBlock(arg, block) ==
  /\ AtRest /\ ~program.known.app
  /\ IF program.known.ready
       THEN Follow(<<Exchange(Frame(24, arg), <<0>>),
                     Exchange(<<254>> \o block \o <<255, 255>>, <<5, 255>>)>>,
                   [program.known EXCEPT !.image = WithBlockAt(@, Address(arg), block)])
       ELSE Follow(<<Exchange(Frame(24, arg), <<1>>)>>, program.known)

DataOut ==
  IF program.out = <<>> THEN 1 ELSE BitOf(Head(program.out), program.bit)

LowerClock ==
  /\ ~AtRest /\ ~program.low
  /\ card' = Write(card, TRUE, FALSE, DataOut)
  /\ program' = [program EXCEPT !.low = TRUE]

(* A byte is through: it was sent, or it is the answer's next, or the      *)
(* answer has not begun.                                                   *)
NextExchange(p) ==
  IF p.out # <<>> \/ p.in # <<>> \/ p.plan = <<>> THEN p
  ELSE [p EXCEPT !.plan = Tail(@), !.out = Head(p.plan).out, !.in = Head(p.plan).in,
                 !.first = TRUE, !.tries = 0]

ByteThrough(p, byte) ==
  CASE p.out # <<>> -> [p EXCEPT !.out = Tail(@)]
    [] p.out = <<>> /\ p.first /\ byte = 255 -> [p EXCEPT !.tries = @ + 1]
    [] OTHER -> [p EXCEPT !.in = Tail(@), !.first = FALSE, !.ok = @ /\ byte = Head(p.in)]

RaiseClock ==
  /\ program.low /\ program.tries < MaxTries
  /\ card' = Write(card, TRUE, TRUE, DataOut)
  /\ LET heard == 2 * program.heard + Read(card')
         p == [program EXCEPT !.low = FALSE]
     IN program' = IF p.bit < 7 THEN [p EXCEPT !.bit = @ + 1, !.heard = heard]
                   ELSE NextExchange(ByteThrough([p EXCEPT !.bit = 0, !.heard = 0], heard))

(* The select drops, with the clock line at either level.                  *)
Deselect ==
  /\ card.csActive
  /\ \E clk \in BOOLEAN : card' = Write(card, FALSE, clk, 1)
  /\ program' = [program EXCEPT !.low = FALSE]

CardStep ==
  \/ GoIdle \/ AppCommand \/ SendOpCond
  \/ \E cmd \in {8, 9, 10, 13, 16, 58} : Ask(cmd)
  \/ \E arg \in CardArg : ReadBlock(arg)
  \/ \E arg \in CardArg, block \in CardBlock : WriteBlock(arg, block)
  \/ LowerClock \/ RaiseClock \/ Deselect

-----------------------------------------------------------------------------
CardTypeOK ==
  /\ card.inShift \in 0..127 /\ card.inBit \in 0..7
  /\ card.outShift \in 0..255 /\ card.outBit = card.inBit
  /\ Len(card.command) < 6 /\ card.delay \in 0..1
  /\ card.write # None => card.write.crc \in 1..2 /\ Len(card.write.buffer) <= BlockSize
  /\ Len(card.image) = ImageSize

(* Every command is answered, in time and with what the card should say,   *)
(* wherever the select was dropped and taken again: at a bit, between two  *)
(* bytes of a frame, before or within an answer or a block; whatever the   *)
(* bytes of a block look like; and a block reads as it was last written    *)
(* (sd-spi.ts:82-88, 119-128; sd-spi.test.ts:100, 112).                    *)
CardAnswers == program.ok /\ program.tries < MaxTries
=============================================================================
