---------------------------- MODULE Tec1gSerial ----------------------------
(***************************************************************************)
(* The TEC-1G's serial port.  A Z80 program and the host exchange bytes    *)
(* over two lines without hardware support: the program toggles the bits   *)
(* of a port and watches another, and the emulator decodes the one line    *)
(* and drives the other with events on its cycle clock.                    *)
(*                                                                         *)
(* Time is counted in Z80 cycles and relative to now: an event carries the *)
(* cycles left until it is due, negative when it is late.  Events fire     *)
(* between instructions only, so up to MaxStretch - 1 cycles late.         *)
(***************************************************************************)
EXTENDS Integers, Sequences, FiniteSets, SequencesExt

CONSTANTS
  DataBits, StopBits,   \* of a frame: 8 and 2
  HalfBit,              \* cycles in half a bit of the emulator's
  TxBit, RxBit,         \* cycles in a bit of the program's, out and in
  MaxStretch,           \* longest instruction
  PollGap,              \* the program's polling period when it listens
  BootTime,             \* from a reset until the program transmits
  TxBytes,              \* bytes the program may send
  Texts,                \* sequences of bytes the host may queue
  MaxSent, MaxQueued, MaxResets   \* bounds of a behaviour

Bit == 2 * HalfBit
Level == {0, 1}
Byte == [1 .. DataBits -> Level]
FrameBits == 1 + DataBits + StopBits
NullByte == [i \in 1 .. DataBits |-> 0]

(* The first sample falls in the middle of the first data bit.             *)
FirstSample == 3 * HalfBit
FirstHeard == (3 * RxBit) \div 2

(***************************************************************************)
(* The clocks of the emulator and of the program differ, and each of the   *)
(* decoder's samples may be taken MaxStretch - 1 cycles after its time,    *)
(* from which the next is scheduled.  Still, over a frame, sample k falls  *)
(* in bit k on both lines.                                                 *)
(***************************************************************************)
ASSUME TimingAssumption ==
  /\ {DataBits, StopBits, HalfBit, TxBit, RxBit, MaxStretch, PollGap}
       \subseteq Nat \ {0}
  /\ \A k \in 0 .. DataBits + StopBits - 1 :
       /\ (k + 1) * TxBit < FirstSample + k * Bit
       /\ FirstSample + k * (Bit + MaxStretch - 1) <= (k + 2) * TxBit
  /\ \A k \in 0 .. DataBits :
       /\ (k + 1) * Bit <= FirstHeard + k * RxBit
       /\ FirstHeard + k * RxBit + PollGap - 1 < (k + 2) * Bit
  /\ BootTime \in Nat
  /\ BootTime >= FirstSample + (DataBits + StopBits) * (Bit + MaxStretch - 1)
ASSUME DataAssumption ==
  /\ TxBytes \subseteq Byte
  /\ Texts \subseteq Seq(Byte) \ {<<>>}
  /\ {MaxSent, MaxQueued, MaxResets} \subseteq Nat

VARIABLES
  events,    \* the cycle clock's queue
  tx,        \* the decoder of the program's output
  rx,        \* the driver of the program's input
  talker,    \* the program's sending routine
  hearer,    \* the program's receiving routine
  hostSent, hostGot,     \* history: from the program to the host
  progSent, progGot,     \* history: from the host to the program
  noise      \* history: a reset has cut a byte to the host short

program == <<talker, hearer>>
toHost == <<hostSent, hostGot, noise>>
toProgram == <<progSent, progGot>>
vars == <<events, tx, rx, talker, hearer, toHost, toProgram>>

-----------------------------------------------------------------------------
(* The cycle clock.  scheduleAt keeps the queue in order of time, so that  *)
(* the earliest event is served first; of two at the same time, this model *)
(* may serve either.                                                       *)

Event(at, does, level, token) ==
  [at |-> at, does |-> does, level |-> level, token |-> token]
SampleIn(cycles) == Event(cycles, "sample", 1, 0)

Due == \E e \in events : e.at <= 0
Served(e) == e.at <= 0 /\ \A f \in events : e.at <= f.at

-----------------------------------------------------------------------------
(* From the program to the host: BitbangUartDecoder. *)

(* Mutant: any falling edge starts a frame. *)
StartsFrameAgain(level) == level = 0 /\ tx.line = 1
StartsFrame(level) == level = 0 /\ tx.line = 1 /\ ~tx.receiving

RecordTxLevel(level) ==
  IF StartsFrame(level)
  THEN /\ tx' = [line |-> 0, receiving |-> TRUE, bits |-> <<>>]
       /\ events' = events \cup {SampleIn(FirstSample)}
  ELSE /\ tx' = [tx EXCEPT !.line = level]
       /\ UNCHANGED events

(* Mutant: a frame has one sample too many. *)
CompletePastStop(bits) == Len(bits) > DataBits + StopBits
Complete(bits) == Len(bits) = DataBits + StopBits
(* Bits arrive least significant first.                                    *)
(* Mutant: the first is taken for the most significant.                    *)
DataOfReversed(bits) == Reverse(SubSeq(bits, 1, DataBits))
DataOf(bits) == SubSeq(bits, 1, DataBits)

(* The byte handler does not look at the stop bits (framingOk). *)
HostReceives(byte) ==
  /\ noise' = FALSE
  /\ hostGot' = IF noise THEN hostGot ELSE Append(hostGot, byte)
  /\ UNCHANGED hostSent

SampleBit(e) ==
  LET bits == Append(tx.bits, tx.line)
  IN /\ e.does = "sample"
     /\ tx.receiving
     /\ tx' = [tx EXCEPT !.bits = bits, !.receiving = ~Complete(bits)]
     /\ IF Complete(bits)
        THEN events' = events \ {e} /\ HostReceives(DataOf(bits))
        ELSE events' = (events \ {e}) \cup {SampleIn(Bit)} /\ UNCHANGED toHost
     /\ UNCHANGED <<rx, program, toProgram>>

-----------------------------------------------------------------------------
(* From the host to the program: createTec1gSerialController. *)

FrameTime == FrameBits * Bit

Frame(byte, lead, token) ==
  (IF lead > 0 THEN {Event(lead, "level", 0, token)} ELSE {})
  \cup {Event(lead + i * Bit, "level", byte[i], token) : i \in 1 .. DataBits}
  \cup {Event(lead + (1 + DataBits) * Bit, "level", 1, token),
        Event(lead + FrameTime, "next", 1, token)}

(* The driver r goes on to its next byte. *)
StartNextSerialRx(r) ==
  IF r.bytes = <<>>
  THEN [r EXCEPT !.busy = FALSE, !.level = 1]
  ELSE [r EXCEPT !.busy = TRUE, !.bytes = Tail(@), !.lead = 0,
                 !.level = IF r.lead > 0 THEN 1 ELSE 0]
StartedFrame(r) ==
  IF r.bytes = <<>> THEN {} ELSE Frame(Head(r.bytes), r.lead, r.token)

(* A read of the keyboard port: it gives a queued text its start. *)
PortRead ==
  LET primed == [rx EXCEPT !.pending = FALSE, !.lead = 2 * Bit]
  IN IF rx.pending /\ ~rx.busy /\ rx.bytes # <<>>
     THEN rx' = StartNextSerialRx(primed)
          /\ events' = events \cup StartedFrame(primed)
     ELSE UNCHANGED <<rx, events>>

(* Events of before a reset carry a token of before the reset.             *)
(* Mutant: the token is not looked at.                                     *)
LiveOrStale(e) == TRUE
Live(e) == e.token = rx.token

RxLevelChange(e) ==
  /\ e.does = "level"
  /\ rx' = IF Live(e) THEN [rx EXCEPT !.level = e.level] ELSE rx
  /\ events' = events \ {e}
  /\ UNCHANGED <<tx, program, toHost, toProgram>>

RxFrameDone(e) ==
  /\ e.does = "next"
  /\ IF Live(e)
     THEN /\ rx' = StartNextSerialRx(rx)
          /\ events' = (events \ {e}) \cup StartedFrame(rx)
     ELSE UNCHANGED rx /\ events' = events \ {e}
  /\ UNCHANGED <<tx, program, toHost, toProgram>>

ServeEvent ==
  \E e \in events : Served(e) /\ (SampleBit(e) \/ RxLevelChange(e) \/ RxFrameDone(e))

-----------------------------------------------------------------------------
(* The host acts between instructions. *)

(* A text that finds the line free waits for the program to poll; one that *)
(* finds it busy follows the byte under way.                               *)
(* Mutant: only the first text does.                                       *)
PendingOnce == rx.pending \/ ~rx.primed
Pending == rx.pending \/ ~rx.busy

(* Before the first text since a reset goes a null byte. *)
QueueSerial(text) ==
  LET bytes == (IF rx.primed THEN <<>> ELSE <<NullByte>>) \o text
  IN /\ ~Due
     /\ Len(progSent) + Len(bytes) <= MaxQueued
     /\ rx' = [rx EXCEPT !.primed = TRUE, !.bytes = @ \o bytes,
                         !.pending = Pending]
     /\ progSent' = progSent \o bytes
     /\ UNCHANGED <<events, tx, program, toHost, progGot>>

(* A reset of the machine starts the program anew and empties the driver.  *)
(* The decoder and the cycle clock's events stay as they are.              *)
Reset ==
  /\ ~Due
  /\ rx.token < MaxResets
  /\ rx' = [level |-> 1, busy |-> FALSE, token |-> rx.token + 1, lead |-> 0,
            pending |-> FALSE, bytes |-> <<>>, primed |-> FALSE]
  /\ talker' = [left |-> <<1>>, wait |-> BootTime]
  /\ hearer' = [mode |-> "away", wait |-> 0, bits |-> <<>>]
  /\ hostSent' = hostGot
  /\ progSent' = progGot
  /\ noise' = tx.receiving
  /\ UNCHANGED <<events, tx, hostGot, progGot>>

-----------------------------------------------------------------------------
(* The Z80 program, which is external: it counts cycles exactly, sends a   *)
(* bit every TxBit cycles, and, once it listens, polls for a start bit     *)
(* every PollGap cycles and reads a bit every RxBit.                       *)

Levels(byte) == <<0>> \o byte \o [i \in 1 .. StopBits |-> 1]

Send(byte) ==
  /\ ~Due
  /\ talker = [left |-> <<>>, wait |-> 0]
  /\ Len(hostSent) < MaxSent
  /\ talker' = [left |-> Levels(byte), wait |-> 0]
  /\ hostSent' = Append(hostSent, byte)
  /\ UNCHANGED <<events, tx, rx, hearer, hostGot, noise, toProgram>>

WriteBit ==
  /\ ~Due
  /\ talker.wait = 0
  /\ talker.left # <<>>
  /\ RecordTxLevel(Head(talker.left))
  /\ talker' = [left |-> Tail(talker.left), wait |-> TxBit]
  /\ UNCHANGED <<rx, hearer, toHost, toProgram>>

Listen ==
  /\ ~Due
  /\ hearer.mode = "away"
  /\ hearer' = [hearer EXCEPT !.mode = "listening"]
  /\ UNCHANGED <<events, tx, rx, talker, toHost, toProgram>>

Poll ==
  /\ ~Due
  /\ hearer.mode = "listening" /\ hearer.wait = 0
  /\ PortRead
  /\ hearer' = IF rx'.level = 0
               THEN [mode |-> "receiving", wait |-> FirstHeard, bits |-> <<>>]
               ELSE [hearer EXCEPT !.wait = PollGap]
  /\ UNCHANGED <<tx, talker, toHost, toProgram>>

HearBit ==
  /\ ~Due
  /\ hearer.mode = "receiving" /\ hearer.wait = 0
  /\ Len(hearer.bits) < DataBits
  /\ PortRead
  /\ hearer' = [hearer EXCEPT !.bits = Append(@, rx'.level), !.wait = RxBit]
  /\ UNCHANGED <<tx, talker, toHost, toProgram>>

HearByte ==
  /\ ~Due
  /\ hearer.mode = "receiving" /\ hearer.wait = 0
  /\ Len(hearer.bits) = DataBits
  /\ progGot' = Append(progGot, hearer.bits)
  /\ hearer' = [mode |-> "listening", wait |-> 0, bits |-> <<>>]
  /\ UNCHANGED <<events, tx, rx, talker, toHost, progSent>>

(* An instruction takes its time, and no longer than until the program     *)
(* touches a port.                                                         *)
TalkerAllows(n) == (talker.left = <<>> /\ talker.wait = 0) \/ n <= talker.wait
HearerAllows(n) == hearer.mode = "away" \/ n <= hearer.wait
Less(wait, n) == IF wait > n THEN wait - n ELSE 0

RecordCycles(n) ==
  /\ ~Due
  /\ TalkerAllows(n) /\ HearerAllows(n)
  /\ events' = {[e EXCEPT !.at = @ - n] : e \in events}
  /\ talker' = [talker EXCEPT !.wait = Less(@, n)]
  /\ hearer' = [hearer EXCEPT !.wait = Less(@, n)]
  /\ UNCHANGED <<tx, rx, toHost, toProgram>>

-----------------------------------------------------------------------------
Init ==
  /\ events = {}
  /\ tx = [line |-> 1, receiving |-> FALSE, bits |-> <<>>]
  /\ rx = [level |-> 1, busy |-> FALSE, token |-> 0, lead |-> 0,
           pending |-> FALSE, bytes |-> <<>>, primed |-> FALSE]
  /\ talker = [left |-> <<>>, wait |-> 0]
  /\ hearer = [mode |-> "away", wait |-> 0, bits |-> <<>>]
  /\ hostSent = <<>> /\ hostGot = <<>> /\ noise = FALSE
  /\ progSent = <<>> /\ progGot = <<>>

Execute == WriteBit \/ Poll \/ HearBit \/ HearByte
           \/ \E n \in 1 .. MaxStretch : RecordCycles(n)

Next ==
  \/ ServeEvent
  \/ Execute
  \/ Listen
  \/ Reset
  \/ \E byte \in TxBytes : Send(byte)
  \/ \E text \in Texts : QueueSerial(text)

Spec == Init /\ [][Next]_vars

(***************************************************************************)
(* The emulator keeps executing instructions and serving events, and the   *)
(* program comes to read its input.  Nobody has to send or to reset.       *)
(***************************************************************************)
Fairness == WF_vars(ServeEvent) /\ WF_vars(Execute) /\ WF_vars(Listen)
FairSpec == Spec /\ Fairness

-----------------------------------------------------------------------------
(* Everything the emulator and the program hold has its type, and a frame  *)
(* never has more samples than bits.                                       *)
TypeOK ==
  /\ events \subseteq [at : Int, does : {"sample", "level", "next"},
                       level : Level, token : 0 .. MaxResets]
  /\ tx \in [line : Level, receiving : BOOLEAN, bits : Seq(Level)]
  /\ Len(tx.bits) <= DataBits + StopBits
  /\ rx \in [level : Level, busy : BOOLEAN, token : 0 .. MaxResets, lead : Nat,
             pending : BOOLEAN, bytes : Seq(Byte), primed : BOOLEAN]
  /\ talker \in [left : Seq(Level), wait : Nat]
  /\ hearer \in [mode : {"away", "listening", "receiving"}, wait : Nat,
                 bits : Seq(Level)]
  /\ {hostSent, hostGot, progSent, progGot} \subseteq Seq(Byte)
  /\ noise \in BOOLEAN

Samples == {e \in events : e.does = "sample"}

(* While the decoder is inside a frame, exactly one sample is scheduled,   *)
(* and otherwise none: a decoder that lost its sample would stay deaf for  *)
(* ever, and one with two would read bits twice.                           *)
DecoderIsServed ==
  Cardinality(Samples) = (IF tx.receiving THEN 1 ELSE 0)

(* The host receives the bytes the program sends, for every way the        *)
(* instruction boundaries may fall against the sample times.               *)
HostLink == INSTANCE SerialLink WITH sent <- hostSent, got <- hostGot
HostHearsProgram == HostLink!Spec

(* The program receives what the host queues, in order, a null byte first; *)
(* nothing queued before a reset arrives after it.                         *)
ProgramLink == INSTANCE SerialLink WITH sent <- progSent, got <- progGot, noise <- FALSE
ProgramHearsHost == ProgramLink!Spec

(* No byte waits for ever on either line once the program polls its input. *)
BytesArrive ==
  /\ progSent # progGot ~> progSent = progGot
  /\ hostSent # hostGot ~> hostSent = hostGot
=============================================================================
