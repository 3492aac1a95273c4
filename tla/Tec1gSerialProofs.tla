------------------------- MODULE Tec1gSerialProofs -------------------------
(***************************************************************************)
(* Theorems about Tec1gSerial, for every frame format, every bit time and  *)
(* instruction length that TimingAssumption allows, and any traffic.       *)
(***************************************************************************)
EXTENDS Tec1gSerial, FiniteSetTheorems, TLAPS

Stretch == Bit + MaxStretch - 1     \* the longest time between two samples
Earliest(k) == FirstSample + k * Bit
Latest(k) == FirstSample + k * Stretch

Written == FrameBits - Len(talker.left)
Age == Written * TxBit - talker.wait

(* One sample is scheduled in a frame, none outside.                       *)
SampleInv ==
  IF tx.receiving
  THEN /\ Len(tx.bits) < DataBits + StopBits
       /\ \E s \in Samples : Samples = {s}
       /\ \A s \in Samples : s.at \in 1 - MaxStretch .. FirstSample
  ELSE Samples = {}

(* All that was sent has been received.                                    *)
Quiet ==
  /\ hostSent = hostGot /\ ~noise /\ ~tx.receiving
  /\ \A i \in 1 .. Len(talker.left) : talker.left[i] = 1
  /\ talker.left = <<>> => tx.line = 1

(* The program has a byte to send.                                         *)
Ready ==
  \E byte \in Byte :
    /\ hostSent = Append(hostGot, byte) /\ ~noise /\ ~tx.receiving
    /\ talker = [left |-> Levels(byte), wait |-> 0]
    /\ tx.line = 1

(* A byte is on the line: the decoder has its first bits, the program has  *)
(* written no bit after the one that the next sample is for, and however   *)
(* late the samples were, the next is due inside that bit.                 *)
Sending ==
  \E byte \in Byte :
    /\ hostSent = Append(hostGot, byte) /\ ~noise /\ tx.receiving
    /\ Written \in 1 .. FrameBits
    /\ talker.wait <= TxBit
    /\ \A i \in 1 .. Len(talker.left) : talker.left[i] = Levels(byte)[Written + i]
    /\ tx.line = Levels(byte)[Written]
    /\ Written <= Len(tx.bits) + 2
    /\ \A i \in 1 .. Len(tx.bits) : tx.bits[i] = Levels(byte)[i + 1]
    /\ \A s \in Samples :
         Age + s.at \in Earliest(Len(tx.bits)) .. Latest(Len(tx.bits))

(* A reset has cut a byte short, and the program boots for longer than the *)
(* decoder takes to finish it.                                             *)
Cut ==
  /\ hostSent = hostGot /\ noise /\ tx.receiving
  /\ talker.left = <<1>>
  /\ \A s \in Samples :
       s.at + (DataBits + StopBits - 1 - Len(tx.bits)) * Stretch <= talker.wait

TxInv == SampleInv /\ (Quiet \/ Ready \/ Sending \/ Cut)

-----------------------------------------------------------------------------
(* What the assumptions say of the constants.                              *)
LEMMA Constants ==
  /\ DataBits \in Nat /\ DataBits > 0 /\ StopBits \in Nat /\ StopBits > 0
  /\ HalfBit \in Nat /\ HalfBit > 0 /\ TxBit \in Nat /\ TxBit > 0
  /\ RxBit \in Nat /\ RxBit > 0 /\ MaxStretch \in Nat /\ MaxStretch > 0
  /\ PollGap \in Nat /\ PollGap > 0
  /\ Bit \in Nat /\ Bit > 0 /\ FirstSample \in Nat /\ FirstSample >= Bit
  /\ FirstHeard \in Nat /\ BootTime \in Nat /\ MaxResets \in Nat
  /\ FrameBits \in Nat /\ FrameBits = 1 + DataBits + StopBits
  /\ Stretch \in Nat /\ Stretch = Bit + MaxStretch - 1
<1>1. /\ DataBits \in Nat \ {0} /\ StopBits \in Nat \ {0} /\ HalfBit \in Nat \ {0}
      /\ TxBit \in Nat \ {0} /\ RxBit \in Nat \ {0} /\ MaxStretch \in Nat \ {0}
      /\ PollGap \in Nat \ {0} /\ BootTime \in Nat
  BY TimingAssumption, Zenon DEF TimingAssumption
<1>2. MaxResets \in Nat
  BY DataAssumption, Zenon DEF DataAssumption
<1>3. (3 * RxBit) \div 2 \in Nat
  BY <1>1
<1>4. QED
  BY <1>1, <1>2, <1>3 DEF Bit, FirstSample, FirstHeard, FrameBits, Stretch

(* The sample times step by step.                                          *)
LEMMA Times ==
  ASSUME NEW k \in Nat
  PROVE  /\ Earliest(k) \in Nat /\ Latest(k) \in Nat
         /\ Earliest(k + 1) = Earliest(k) + Bit
         /\ Latest(k + 1) = Latest(k) + Stretch
         /\ Earliest(0) = FirstSample /\ Latest(0) = FirstSample
  BY Constants DEF Earliest, Latest

(* The timing assumption, in the terms of the invariant.                   *)
LEMMA Margins ==
  ASSUME NEW k \in 0 .. DataBits + StopBits - 1
  PROVE  /\ (k + 1) * TxBit < Earliest(k)
         /\ Latest(k) <= (k + 2) * TxBit
  BY TimingAssumption DEF TimingAssumption, Earliest, Latest, Stretch

(* A reset is followed by a silence longer than a whole frame.             *)
LEMMA BootCovers ==
  BootTime >= FirstSample + (DataBits + StopBits) * Stretch
  BY TimingAssumption DEF TimingAssumption, Stretch

(* Levels one after the other.                                             *)
LEMMA Joined ==
  ASSUME NEW s \in Seq(Level), NEW t \in Seq(Level)
  PROVE  /\ s \o t \in Seq(Level)
         /\ Len(s \o t) = Len(s) + Len(t)
         /\ \A i \in 1 .. Len(s) : (s \o t)[i] = s[i]
         /\ \A i \in Len(s) + 1 .. Len(s) + Len(t) : (s \o t)[i] = t[i - Len(s)]
  OBVIOUS

(* A frame is a start bit, the byte and the stop bits.                     *)
LEMMA LevelsOfByte ==
  ASSUME NEW byte \in Byte
  PROVE  /\ Levels(byte) \in Seq(Level)
         /\ Len(Levels(byte)) = FrameBits
         /\ Levels(byte)[1] = 0
         /\ \A i \in 1 .. DataBits : Levels(byte)[i + 1] = byte[i]
         /\ \A i \in DataBits + 2 .. FrameBits : Levels(byte)[i] = 1
<1> DEFINE stops == [i \in 1 .. StopBits |-> 1]
<1>1. byte \in Seq(Level) /\ Len(byte) = DataBits
  BY Constants DEF Byte
<1>2. stops \in Seq(Level) /\ Len(stops) = StopBits
  BY Constants DEF Level
<1>3. <<0>> \in Seq(Level)
  BY DEF Level
<1>4. ASSUME NEW i \in 1 .. StopBits
      PROVE  stops[i] = 1
  OBVIOUS
<1> HIDE DEF stops
<1> DEFINE start == <<0>> \o byte
<1>5. /\ start \in Seq(Level) /\ Len(start) = DataBits + 1
      /\ start[1] = 0
      /\ \A i \in 1 .. DataBits : start[i + 1] = byte[i]
  BY <1>1, <1>3, Constants
<1> HIDE DEF start
<1>6. DataBits \in Nat /\ StopBits \in Nat /\ FrameBits = (DataBits + 1) + StopBits
  BY Constants
<1>7. Levels(byte) = start \o stops
  BY DEF Levels, start, stops
<1>8. Levels(byte) \in Seq(Level) /\ Len(Levels(byte)) = FrameBits
  <2>1. start \in Seq(Level) /\ Len(start) = DataBits + 1
    BY <1>5
  <2>2. /\ start \o stops \in Seq(Level)
        /\ Len(start \o stops) = Len(start) + Len(stops)
    BY <1>2, <2>1, Joined
  <2>3. Len(start \o stops) = FrameBits
    BY <1>2, <1>6, <2>1, <2>2
  <2>4. QED
    BY <1>7, <2>2, <2>3
<1>9. \A i \in 1 .. DataBits + 1 : Levels(byte)[i] = start[i]
  <2>1. \A i \in 1 .. Len(start) : (start \o stops)[i] = start[i]
    BY <1>2, <1>5, Joined
  <2>2. QED
    BY <1>5, <1>7, <2>1
<1>10. ASSUME NEW i \in DataBits + 2 .. FrameBits
       PROVE  Levels(byte)[i] = 1
  <2>1. i - (DataBits + 1) \in 1 .. StopBits
    BY <1>6
  <2>2. i \in Len(start) + 1 .. Len(start) + Len(stops)
    BY <1>2, <1>5, <1>6
  <2>3. Levels(byte)[i] = stops[i - Len(start)]
    BY <1>2, <1>5, <1>7, <2>2, Joined
  <2>4. QED
    BY <1>4, <1>5, <2>1, <2>3
<1>11. Levels(byte)[1] = 0
  BY <1>5, <1>6, <1>9
<1>12. ASSUME NEW i \in 1 .. DataBits
       PROVE  Levels(byte)[i + 1] = byte[i]
  <2>1. i + 1 \in 1 .. DataBits + 1
    BY <1>6
  <2>2. QED
    BY <1>5, <1>9, <2>1
<1>13. QED
  BY <1>8, <1>10, <1>11, <1>12

(* A sequence of as many bits as a byte has is a byte.                     *)
LEMMA BitsAreByte ==
  ASSUME NEW bits \in Seq(Level), Len(bits) = DataBits
  PROVE  bits \in Byte
  BY DEF Byte

(* The data bits of the samples make a byte.                               *)
LEMMA DataInByte ==
  ASSUME NEW bits \in Seq(Level), Len(bits) >= DataBits
  PROVE  /\ DataOf(bits) \in Byte
         /\ \A i \in 1 .. DataBits : DataOf(bits)[i] = bits[i]
<1>1. /\ DataOf(bits) \in Seq(Level) /\ Len(DataOf(bits)) = DataBits
      /\ \A i \in 1 .. DataBits : DataOf(bits)[i] = bits[i]
  BY Constants DEF DataOf
<1>2. QED
  BY <1>1, BitsAreByte

-----------------------------------------------------------------------------
(* Types. *)

EventSet == [at : Int, does : {"sample", "level", "next"},
             level : Level, token : 0 .. MaxResets]

(* An event has the fields that it is made of.                             *)
LEMMA EventTyped ==
  ASSUME NEW at \in Int, NEW does \in {"sample", "level", "next"},
         NEW level \in Level, NEW token \in 0 .. MaxResets
  PROVE  /\ Event(at, does, level, token) \in EventSet
         /\ Event(at, does, level, token).at = at
         /\ Event(at, does, level, token).does = does
  BY DEF Event, EventSet

(* The sample that the decoder schedules is typed.                         *)
LEMMA SampleTyped ==
  ASSUME NEW cycles \in Int
  PROVE  /\ SampleIn(cycles) \in EventSet
         /\ SampleIn(cycles).at = cycles /\ SampleIn(cycles).does = "sample"
<1>1. 1 \in Level /\ 0 \in 0 .. MaxResets
  BY Constants DEF Level
<1>2. QED
  BY <1>1, EventTyped DEF SampleIn

(* A frame's events change the level or go on to the next byte.            *)
LEMMA FrameTyped ==
  ASSUME NEW byte \in Byte, NEW lead \in Nat, NEW token \in 0 .. MaxResets,
         NEW e \in Frame(byte, lead, token)
  PROVE  e \in EventSet /\ e.does # "sample"
<1>1. 0 \in Level /\ 1 \in Level
  BY DEF Level
<1>2. CASE lead > 0 /\ e = Event(lead, "level", 0, token)
  BY <1>2, <1>1, EventTyped
<1>3. ASSUME NEW i \in 1 .. DataBits,
             e = Event(lead + i * Bit, "level", byte[i], token)
      PROVE  e \in EventSet /\ e.does # "sample"
  <2>1. byte[i] \in Level /\ lead + i * Bit \in Int
    BY Constants DEF Byte
  <2>2. QED
    BY <2>1, <1>3, EventTyped
<1>4. CASE e = Event(lead + (1 + DataBits) * Bit, "level", 1, token)
  <2>1. lead + (1 + DataBits) * Bit \in Int
    BY Constants
  <2>2. QED
    BY <2>1, <1>4, <1>1, EventTyped
<1>5. CASE e = Event(lead + FrameTime, "next", 1, token)
  <2>1. lead + FrameTime \in Int
    BY Constants DEF FrameTime
  <2>2. QED
    BY <2>1, <1>5, <1>1, EventTyped
<1>6. QED
  BY <1>2, <1>3, <1>4, <1>5 DEF Frame

RxSet == [level : Level, busy : BOOLEAN, token : 0 .. MaxResets, lead : Nat,
          pending : BOOLEAN, bytes : Seq(Byte), primed : BOOLEAN]

(* Starting the next byte types the driver and its events.                 *)
LEMMA StartTyped ==
  ASSUME NEW r \in RxSet
  PROVE  /\ StartNextSerialRx(r) \in RxSet
         /\ \A e \in StartedFrame(r) : e \in EventSet /\ e.does # "sample"
<1>1. CASE r.bytes = <<>>
  BY <1>1 DEF StartNextSerialRx, StartedFrame, RxSet, Level
<1>2. CASE r.bytes # <<>>
  <2>1. Head(r.bytes) \in Byte /\ Tail(r.bytes) \in Seq(Byte)
    BY <1>2 DEF RxSet
  <2>2. StartNextSerialRx(r) \in RxSet
    BY <2>1, <1>2 DEF StartNextSerialRx, RxSet, Level
  <2>3. r.lead \in Nat /\ r.token \in 0 .. MaxResets
    BY DEF RxSet
  <2>4. QED
    BY <2>1, <2>2, <2>3, <1>2, FrameTyped DEF StartedFrame
<1>3. QED
  BY <1>1, <1>2

Inv == TypeOK /\ TxInv

(* The parts of TypeOK, named after the variables.                         *)
EventsOK == events \subseteq EventSet
TxOK == /\ tx \in [line : Level, receiving : BOOLEAN, bits : Seq(Level)]
        /\ Len(tx.bits) <= DataBits + StopBits
TalkerOK == talker \in [left : Seq(Level), wait : Nat]
HearerOK == hearer \in [mode : {"away", "listening", "receiving"}, wait : Nat,
                        bits : Seq(Level)]
HistoryOK == /\ hostSent \in Seq(Byte) /\ hostGot \in Seq(Byte)
             /\ progSent \in Seq(Byte) /\ progGot \in Seq(Byte)
             /\ noise \in BOOLEAN

(* TypeOK is its parts, before and after a step.                           *)
LEMMA TypeParts ==
  /\ TypeOK <=> /\ EventsOK /\ TxOK /\ rx \in RxSet /\ TalkerOK
                /\ HearerOK /\ HistoryOK
  /\ TypeOK' <=> /\ EventsOK' /\ TxOK' /\ rx' \in RxSet /\ TalkerOK'
                 /\ HearerOK' /\ HistoryOK'
  BY DEF TypeOK, EventsOK, EventSet, TxOK, RxSet, TalkerOK, HearerOK, HistoryOK

(* A step that leaves the decoder's sample, the decoder, the sender and    *)
(* their history alone keeps TxInv.                                        *)
LEMMA KeepsTx ==
  ASSUME TxInv, Samples' = Samples, UNCHANGED <<tx, talker, toHost>>
  PROVE  TxInv'
  BY DEF TxInv, SampleInv, Quiet, Ready, Sending, Cut, toHost, Written, Age,
         Earliest, Latest

(* A port read types its events, which are none of the decoder's.          *)
LEMMA PortReadTyped ==
  ASSUME TypeOK, PortRead
  PROVE  EventsOK' /\ rx' \in RxSet /\ Samples' = Samples
<1>1. EventsOK /\ rx \in RxSet
  BY TypeParts
<1>2. CASE UNCHANGED <<rx, events>>
  BY <1>1, <1>2 DEF EventsOK, Samples
<1>3. ASSUME NEW r \in RxSet, rx' = StartNextSerialRx(r),
             events' = events \cup StartedFrame(r)
      PROVE  EventsOK' /\ rx' \in RxSet /\ Samples' = Samples
  <2>1. \A e \in StartedFrame(r) : e \in EventSet /\ e.does # "sample"
    BY StartTyped
  <2>2. Samples' = Samples
    BY <2>1, <1>3 DEF Samples
  <2>3. QED
    BY <2>1, <2>2, <1>1, <1>3, StartTyped DEF EventsOK
<1>4. [rx EXCEPT !.pending = FALSE, !.lead = 2 * Bit] \in RxSet
  <2>1. 2 * Bit \in Nat
    BY Constants
  <2>2. QED
    BY <1>1, <2>1 DEF RxSet
<1>5. QED
  BY <1>2, <1>3, <1>4 DEF PortRead

-----------------------------------------------------------------------------
(* Steps that do not touch the line to the host. *)

(* An edge of the line to the program leaves the other line alone.         *)
LEMMA RxLevelChangeKeeps ==
  ASSUME Inv, NEW e \in events, RxLevelChange(e)
  PROVE  Inv'
<1>1. EventsOK' /\ Samples' = Samples
  BY TypeParts DEF Inv, RxLevelChange, EventsOK, Samples
<1>2. rx' \in RxSet
  BY TypeParts DEF Inv, RxLevelChange, EventsOK, EventSet, RxSet
<1>3. UNCHANGED <<tx, program, toHost, toProgram>>
  BY DEF RxLevelChange
<1>4. TxInv'
  BY <1>1, <1>3, KeepsTx DEF Inv, program
<1>5. QED
  BY <1>1, <1>2, <1>3, <1>4, TypeParts
     DEF Inv, program, toHost, toProgram, TxOK, TalkerOK, HearerOK, HistoryOK

(* So does the end of a frame to the program.                              *)
LEMMA RxFrameDoneKeeps ==
  ASSUME Inv, NEW e \in events, RxFrameDone(e)
  PROVE  Inv'
<1>1. EventsOK /\ rx \in RxSet
  BY TypeParts DEF Inv
<1>2. EventsOK' /\ rx' \in RxSet /\ Samples' = Samples
  <2>1. CASE Live(e)
    <3>1. \A f \in StartedFrame(rx) : f \in EventSet /\ f.does # "sample"
      BY <1>1, StartTyped
    <3>2. /\ rx' = StartNextSerialRx(rx)
          /\ events' = (events \ {e}) \cup StartedFrame(rx)
          /\ e.does = "next"
      BY <2>1 DEF RxFrameDone
    <3>3. Samples' = Samples
      BY <3>1, <3>2 DEF Samples
    <3>4. QED
      BY <1>1, <3>1, <3>2, <3>3, StartTyped DEF EventsOK
  <2>2. CASE ~Live(e)
    BY <1>1, <2>2 DEF RxFrameDone, EventsOK, Samples
  <2>3. QED
    BY <2>1, <2>2
<1>3. UNCHANGED <<tx, program, toHost, toProgram>>
  BY DEF RxFrameDone
<1>4. TxInv'
  BY <1>2, <1>3, KeepsTx DEF Inv, program
<1>5. QED
  BY <1>2, <1>3, <1>4, TypeParts
     DEF Inv, program, toHost, toProgram, TxOK, TalkerOK, HearerOK, HistoryOK

(* The host queues a text.                                                 *)
LEMMA QueueSerialKeeps ==
  ASSUME Inv, NEW text \in Texts, QueueSerial(text)
  PROVE  Inv'
<1> DEFINE bytes == (IF rx.primed THEN <<>> ELSE <<NullByte>>) \o text
<1>1. bytes \in Seq(Byte)
  <2>1. text \in Seq(Byte)
    BY DataAssumption DEF DataAssumption
  <2>2. NullByte \in Byte
    BY DEF NullByte, Byte, Level
  <2>3. QED
    BY <2>1, <2>2
<1>2. /\ rx' = [rx EXCEPT !.primed = TRUE, !.bytes = @ \o bytes, !.pending = Pending]
      /\ progSent' = progSent \o bytes
      /\ UNCHANGED <<events, tx, program, toHost, progGot>>
  BY DEF QueueSerial
<1> HIDE DEF bytes
<1>3. Samples' = Samples /\ UNCHANGED <<events, tx, talker, hearer, toHost>>
  BY <1>2 DEF Samples, program
<1>4. TxInv'
  BY <1>3, KeepsTx DEF Inv
<1>5. rx' \in RxSet
  <2>1. rx \in RxSet
    BY TypeParts DEF Inv
  <2>2. Pending \in BOOLEAN /\ rx.bytes \o bytes \in Seq(Byte)
    BY <2>1, <1>1 DEF Pending, RxSet
  <2>3. QED
    BY <2>1, <2>2, <1>2 DEF RxSet
<1>6. QED
  BY <1>1, <1>2, <1>3, <1>4, <1>5, TypeParts
     DEF Inv, toHost, EventsOK, TxOK, TalkerOK, HearerOK, HistoryOK

(* The program begins to listen.                                           *)
LEMMA ListenKeeps ==
  ASSUME Inv, Listen
  PROVE  Inv'
<1>1. Samples' = Samples /\ TxInv'
  BY KeepsTx DEF Inv, Listen, Samples
<1>2. QED
  BY <1>1, TypeParts
     DEF Inv, Listen, toHost, toProgram, EventsOK, TxOK, TalkerOK, HearerOK, HistoryOK

(* The program looks for a start bit.                                      *)
LEMMA PollKeeps ==
  ASSUME Inv, Poll
  PROVE  Inv'
<1>1. EventsOK' /\ rx' \in RxSet /\ TxInv'
  BY PortReadTyped, KeepsTx DEF Inv, Poll
<1>2. HearerOK'
  <2>1. HearerOK /\ FirstHeard \in Nat /\ PollGap \in Nat
    BY TypeParts, Constants DEF Inv
  <2>2. \/ hearer' = [mode |-> "receiving", wait |-> FirstHeard, bits |-> <<>>]
        \/ hearer' = [hearer EXCEPT !.wait = PollGap]
    BY DEF Poll
  <2>3. <<>> \in Seq(Level)
    OBVIOUS
  <2>4. CASE hearer' = [mode |-> "receiving", wait |-> FirstHeard, bits |-> <<>>]
    BY <2>1, <2>3, <2>4 DEF HearerOK
  <2>5. CASE hearer' = [hearer EXCEPT !.wait = PollGap]
    BY <2>1, <2>5 DEF HearerOK
  <2>6. QED
    BY <2>2, <2>4, <2>5
<1>3. QED
  BY <1>1, <1>2, TypeParts
     DEF Inv, Poll, toHost, toProgram, TxOK, TalkerOK, HistoryOK

(* The program reads a bit.                                                *)
LEMMA HearBitKeeps ==
  ASSUME Inv, HearBit
  PROVE  Inv'
<1>1. EventsOK' /\ rx' \in RxSet /\ TxInv'
  BY PortReadTyped, KeepsTx DEF Inv, HearBit
<1>2. rx'.level \in Level
  BY <1>1 DEF RxSet
<1>3. HearerOK'
  <2>1. HearerOK /\ RxBit \in Nat
    BY TypeParts, Constants DEF Inv
  <2>2. hearer' = [hearer EXCEPT !.bits = Append(@, rx'.level), !.wait = RxBit]
    BY DEF HearBit
  <2>3. Append(hearer.bits, rx'.level) \in Seq(Level)
    BY <2>1, <1>2 DEF HearerOK
  <2>4. QED
    BY <2>1, <2>2, <2>3 DEF HearerOK
<1>4. QED
  BY <1>1, <1>3, TypeParts
     DEF Inv, HearBit, toHost, toProgram, TxOK, TalkerOK, HistoryOK

(* The program takes the byte it has read.                                 *)
LEMMA HearByteKeeps ==
  ASSUME Inv, HearByte
  PROVE  Inv'
<1>1. Samples' = Samples /\ TxInv'
  BY KeepsTx DEF Inv, HearByte, Samples
<1>2. hearer.bits \in Byte
  BY BitsAreByte, TypeParts DEF Inv, HearByte, HearerOK
<1>3. HearerOK' /\ HistoryOK'
  BY <1>2, TypeParts DEF Inv, HearByte, HearerOK, HistoryOK, toHost
<1>4. QED
  BY <1>1, <1>3, TypeParts DEF Inv, HearByte, EventsOK, TxOK, TalkerOK

-----------------------------------------------------------------------------
(* Steps on the line to the host. *)

(* What the solver needs to know of products.                              *)
LEMMA Product ==
  ASSUME NEW a \in Int, NEW b \in Int, NEW c \in Nat
  PROVE  /\ a * c \in Int
         /\ (a + 1) * c = a * c + c
         /\ a <= b => a * c <= b * c
<1>1. ASSUME a <= b
      PROVE  a * c <= b * c
  <2>1. b - a \in Nat
    BY <1>1
  <2>2. (b - a) * c \in Nat
    BY <2>1
  <2>3. (b - a) * c = b * c - a * c
    OBVIOUS
  <2>4. QED
    BY <2>2, <2>3
<1>2. QED
  BY <1>1

(* The position and the age of the frame are integers.                     *)
LEMMA WrittenTyped ==
  ASSUME TalkerOK
  PROVE  Written \in Int /\ Age \in Int /\ talker.wait \in Nat
<1>1. Written \in Int /\ talker.wait \in Nat /\ TxBit \in Nat
  BY Constants DEF Written, TalkerOK
<1>2. QED
  BY <1>1, Product DEF Age

(* While a frame is read, there is one sample, and it is typed.            *)
LEMMA TheSample ==
  ASSUME Inv, tx.receiving
  PROVE  /\ Len(tx.bits) \in 0 .. DataBits + StopBits - 1
         /\ tx.bits \in Seq(Level)
         /\ \E s \in EventSet :
              /\ Samples = {s} /\ s \in events
              /\ s.at \in 1 - MaxStretch .. FirstSample
<1>1. EventsOK /\ TxOK /\ SampleInv
  BY TypeParts DEF Inv, TxInv
<1>2. Len(tx.bits) \in 0 .. DataBits + StopBits - 1 /\ tx.bits \in Seq(Level)
  BY <1>1, Constants DEF TxOK, SampleInv
<1>3. PICK s \in Samples : Samples = {s}
  BY <1>1 DEF SampleInv
<1>4. s \in events /\ s \in EventSet /\ s.at \in 1 - MaxStretch .. FirstSample
  BY <1>1, <1>3 DEF SampleInv, EventsOK, Samples
<1>5. QED
  BY <1>2, <1>3, <1>4

(* When the program is about to write and no event is due, the decoder has *)
(* taken its sample of the bit before.                                     *)
LEMMA SampledBeforeWrite ==
  ASSUME Inv, Sending, ~Due, talker.wait = 0
  PROVE  Written <= Len(tx.bits) + 1
<1>1. PICK byte \in Byte :
        /\ tx.receiving
        /\ Written <= Len(tx.bits) + 2
        /\ \A s \in Samples :
             Age + s.at \in Earliest(Len(tx.bits)) .. Latest(Len(tx.bits))
  BY DEF Sending
<1>2. PICK s \in EventSet : /\ Samples = {s} /\ s \in events
                            /\ s.at \in 1 - MaxStretch .. FirstSample
  BY <1>1, TheSample
<1>3. Len(tx.bits) \in 0 .. DataBits + StopBits - 1
  BY <1>1, TheSample
<1>4. s.at > 0 /\ s.at \in Int
  BY <1>2 DEF Due, EventSet
<1>5. Age + s.at <= (Len(tx.bits) + 2) * TxBit
  <2>1. Age + s.at <= Latest(Len(tx.bits)) /\ Age \in Int
    BY <1>1, <1>2, WrittenTyped, TypeParts DEF Inv
  <2> DEFINE k == Len(tx.bits)
  <2>2. Latest(k) <= (k + 2) * TxBit /\ Latest(k) \in Nat
    <3>1. k \in 0 .. DataBits + StopBits - 1 /\ k \in Nat
      BY <1>3, Constants
    <3> HIDE DEF k
    <3>2. QED
      BY <3>1, Margins, Times
  <2>3. (Len(tx.bits) + 2) * TxBit \in Int
    BY <1>3, Constants
  <2>4. QED
    BY <2>1, <2>2, <2>3, <1>4
<1>6. Age = Written * TxBit /\ Written \in Int
  BY WrittenTyped, TypeParts, Constants, Product DEF Inv, Age
<1>7. Written # Len(tx.bits) + 2
  BY <1>3, <1>4, <1>5, <1>6, Constants
<1>8. QED
  BY <1>1, <1>3, <1>6, <1>7

(* A byte is only ever sent when all before it has been received.          *)
LEMMA SendKeeps ==
  ASSUME Inv, NEW byte \in TxBytes, Send(byte)
  PROVE  Inv' /\ Quiet /\ Ready'
<1>1. byte \in Byte
  BY DataAssumption DEF DataAssumption
<1>2. /\ ~Due
      /\ talker = [left |-> <<>>, wait |-> 0]
      /\ talker' = [left |-> Levels(byte), wait |-> 0]
      /\ hostSent' = Append(hostSent, byte)
      /\ UNCHANGED <<events, tx, rx, hearer, hostGot, noise, toProgram>>
  BY DEF Send
<1>3. talker.left = <<>> /\ talker.wait = 0
  BY <1>2
<1>4. ~Ready
  BY <1>3, LevelsOfByte, Constants DEF Ready
<1>5. ~Cut
  BY <1>3 DEF Cut
<1>6. ~Sending
  <2>1. SUFFICES ASSUME Sending PROVE FALSE
    OBVIOUS
  <2>2. tx.receiving
    BY <2>1 DEF Sending
  <2>3. Written <= Len(tx.bits) + 1
    BY <2>1, <1>2, <1>3, SampledBeforeWrite
  <2>4. Len(tx.bits) \in 0 .. DataBits + StopBits - 1
    BY <2>2, TheSample
  <2>5. Written = FrameBits
    BY <1>3, Constants DEF Written
  <2>6. QED
    BY <2>3, <2>4, <2>5, Constants
<1>7. Quiet
  BY <1>4, <1>5, <1>6 DEF Inv, TxInv
<1>8. Ready'
  BY <1>1, <1>2, <1>3, <1>7 DEF Quiet, Ready
<1>9. SampleInv'
  BY <1>2 DEF Inv, TxInv, SampleInv, Samples
<1>10. TalkerOK' /\ HistoryOK'
  <2>1. Levels(byte) \in Seq(Level)
    BY <1>1, LevelsOfByte
  <2>2. TalkerOK'
    BY <1>2, <2>1 DEF TalkerOK
  <2>3. HistoryOK'
    BY <1>1, <1>2, TypeParts DEF Inv, HistoryOK, toProgram
  <2>4. QED
    BY <2>2, <2>3
<1>11. QED
  BY <1>2, <1>7, <1>8, <1>9, <1>10, TypeParts
     DEF Inv, TxInv, EventsOK, TxOK, HearerOK

(* The program writes the next bit; the first one starts a frame.          *)
LEMMA WriteBitKeeps ==
  ASSUME Inv, WriteBit
  PROVE  Inv'
<1> DEFINE level == Head(talker.left)
<1>1. /\ ~Due /\ talker.wait = 0 /\ talker.left # <<>>
      /\ talker' = [left |-> Tail(talker.left), wait |-> TxBit]
      /\ UNCHANGED <<rx, hearer, toHost, toProgram>>
      /\ RecordTxLevel(level)
  BY DEF WriteBit
<1>2. EventsOK /\ TxOK /\ TalkerOK /\ SampleInv /\ TxBit \in Nat
  BY TypeParts, Constants DEF Inv, TxInv
<1>3. /\ level \in Level /\ level = talker.left[1]
      /\ Len(talker.left) \in Nat /\ Len(talker.left) > 0
      /\ talker'.left \in Seq(Level) /\ talker'.wait = TxBit
      /\ Len(talker'.left) = Len(talker.left) - 1
      /\ \A i \in 1 .. Len(talker'.left) :
           i \in Int /\ i + 1 \in 1 .. Len(talker.left)
           /\ talker'.left[i] = talker.left[i + 1]
  BY <1>1, <1>2 DEF TalkerOK
<1>4. TalkerOK'
  BY <1>1, <1>2, <1>3 DEF TalkerOK
<1>5. Written' = Written + 1 /\ Written \in Int
  BY <1>2, <1>3, Constants DEF Written
<1>6. hostSent' = hostSent /\ hostGot' = hostGot /\ noise' = noise
  BY <1>1 DEF toHost
<1> HIDE DEF level
<1>7. CASE Quiet
  <2>1. level = 1 /\ ~tx.receiving
    BY <1>3, <1>7 DEF Quiet
  <2>2. tx' = [tx EXCEPT !.line = 1] /\ events' = events
    BY <1>1, <2>1 DEF RecordTxLevel, StartsFrame
  <2>3. SampleInv' /\ EventsOK' /\ TxOK'
    BY <1>2, <2>1, <2>2 DEF SampleInv, EventsOK, TxOK, Samples, Level
  <2>4. Quiet'
    <3>1. \A i \in 1 .. Len(talker'.left) : talker'.left[i] = 1
      BY <1>3, <1>7 DEF Quiet
    <3>2. tx'.line = 1 /\ ~tx'.receiving
      BY <1>2, <2>1, <2>2 DEF TxOK
    <3>3. QED
      BY <1>6, <1>7, <3>1, <3>2 DEF Quiet
  <2>5. QED
    BY <1>1, <1>4, <2>3, <2>4, TypeParts
       DEF Inv, TxInv, HearerOK, HistoryOK, toHost, toProgram
<1>8. CASE Ready
  <2>1. PICK byte \in Byte :
          /\ hostSent = Append(hostGot, byte) /\ ~noise /\ ~tx.receiving
          /\ talker = [left |-> Levels(byte), wait |-> 0]
          /\ tx.line = 1
    BY <1>8 DEF Ready
  <2>2. level = 0 /\ Len(talker.left) = FrameBits
    BY <1>3, <2>1, LevelsOfByte
  <2>3. /\ tx' = [line |-> 0, receiving |-> TRUE, bits |-> <<>>]
        /\ events' = events \cup {SampleIn(FirstSample)}
    BY <1>1, <2>1, <2>2 DEF RecordTxLevel, StartsFrame
  <2>4. /\ SampleIn(FirstSample) \in EventSet
        /\ SampleIn(FirstSample).at = FirstSample
        /\ Samples' = {SampleIn(FirstSample)}
    <3>1. Samples = {}
      BY <1>2, <2>1 DEF SampleInv
    <3>2. FirstSample \in Int
      BY Constants
    <3>3. /\ SampleIn(FirstSample) \in EventSet
          /\ SampleIn(FirstSample).at = FirstSample
          /\ SampleIn(FirstSample).does = "sample"
      BY <3>2, SampleTyped
    <3>4. QED
      BY <3>1, <3>3, <2>3 DEF Samples
  <2>5. EventsOK' /\ TxOK'
    BY <1>2, <2>3, <2>4, Constants DEF EventsOK, TxOK, Level
  <2>6. SampleInv'
    BY <2>3, <2>4, Constants DEF SampleInv
  <2>7. Written' = 1 /\ Age' = 0
    <3>1. Written' = 1
      BY <1>5, <2>2, Constants DEF Written
    <3>2. QED
      BY <3>1, <1>3, Constants DEF Age
  <2>8. Sending'
    <3>1. Len(tx'.bits) = 0
      BY <2>3
    <3>2. \A s \in Samples' : Age' + s.at \in Earliest(Len(tx'.bits)) .. Latest(Len(tx'.bits))
      <4>1. /\ Earliest(0) = FirstSample /\ Latest(0) = FirstSample
            /\ FirstSample \in Int
        BY Times, Constants
      <4>2. QED
        BY <2>4, <2>7, <3>1, <4>1
    <3>3. \A i \in 1 .. Len(talker'.left) : talker'.left[i] = Levels(byte)[Written' + i]
      <4>1. TAKE i \in 1 .. Len(talker'.left)
      <4>2. talker'.left[i] = Levels(byte)[i + 1] /\ i \in Int
        BY <1>3, <2>1
      <4>3. Written' + i = i + 1
        BY <2>7, <4>2
      <4>4. QED
        BY <4>2, <4>3
    <3>4. tx'.line = Levels(byte)[Written']
      BY <2>3, <2>7, LevelsOfByte
    <3>5. tx'.receiving /\ Written' \in 1 .. FrameBits /\ talker'.wait <= TxBit
          /\ Written' <= Len(tx'.bits) + 2
      BY <2>3, <2>7, <1>3, <3>1, Constants
    <3>6. \A i \in 1 .. Len(tx'.bits) : tx'.bits[i] = Levels(byte)[i + 1]
      BY <3>1
    <3>7. hostSent' = Append(hostGot', byte) /\ ~noise'
      BY <1>6, <2>1
    <3>8. QED
      BY <3>2, <3>3, <3>4, <3>5, <3>6, <3>7 DEF Sending, Earliest, Latest
  <2>9. QED
    BY <1>1, <1>4, <2>5, <2>6, <2>8, TypeParts
       DEF Inv, TxInv, HearerOK, HistoryOK, toHost, toProgram
<1>9. CASE Sending
  <2>1. PICK byte \in Byte :
          /\ hostSent = Append(hostGot, byte) /\ ~noise /\ tx.receiving
          /\ Written \in 1 .. FrameBits
          /\ \A i \in 1 .. Len(talker.left) : talker.left[i] = Levels(byte)[Written + i]
          /\ \A i \in 1 .. Len(tx.bits) : tx.bits[i] = Levels(byte)[i + 1]
          /\ \A s \in Samples :
               Age + s.at \in Earliest(Len(tx.bits)) .. Latest(Len(tx.bits))
    BY <1>9 DEF Sending
  <2>2. tx' = [tx EXCEPT !.line = level] /\ events' = events
    BY <1>1, <2>1 DEF RecordTxLevel, StartsFrame
  <2>3. tx'.receiving /\ tx'.bits = tx.bits /\ tx'.line = level /\ Samples' = Samples
    BY <1>2, <2>1, <2>2 DEF TxOK, Samples
  <2>4. SampleInv' /\ EventsOK' /\ TxOK'
    <3>1. SampleInv'
      BY <1>2, <2>1, <2>3 DEF SampleInv
    <3>2. QED
      BY <1>2, <1>3, <3>1, <2>2 DEF EventsOK, TxOK
  <2>5. Age' = Age
    <3>1. Age = Written * TxBit - talker.wait
      BY DEF Age
    <3>2. (Written + 1) * TxBit = Written * TxBit + TxBit /\ Written * TxBit \in Int
      BY <1>2, <1>5, Product
    <3>3. QED
      BY <1>1, <1>2, <1>3, <1>5, <3>1, <3>2 DEF Age
  <2>6. Written <= Len(tx.bits) + 1 /\ Len(tx.bits) \in Nat
    BY <1>1, <1>2, <1>9, SampledBeforeWrite DEF TxOK
  <2>7. Written' \in 1 .. FrameBits /\ Written' <= Len(tx'.bits) + 2
    <3>1. Written <= FrameBits - 1
      BY <1>3, Constants DEF Written
    <3>2. QED
      BY <1>5, <2>1, <2>3, <2>6, <3>1, Constants
  <2>8. /\ \A i \in 1 .. Len(talker'.left) : talker'.left[i] = Levels(byte)[Written' + i]
        /\ tx'.line = Levels(byte)[Written']
    <3>1. ASSUME NEW i \in 1 .. Len(talker'.left)
          PROVE  talker'.left[i] = Levels(byte)[Written' + i]
      <4>1. talker'.left[i] = Levels(byte)[Written + (i + 1)] /\ i \in Int
        BY <1>3, <2>1
      <4>2. Written' + i = Written + (i + 1)
        BY <1>5, <4>1
      <4>3. QED
        BY <4>1, <4>2
    <3>2. level = Levels(byte)[Written + 1]
      BY <1>3, <2>1
    <3>3. QED
      BY <1>5, <2>3, <3>1, <3>2
  <2>9. Sending'
    <3>1. \A s \in Samples' :
            Age' + s.at \in Earliest(Len(tx'.bits)) .. Latest(Len(tx'.bits))
      BY <2>1, <2>3, <2>5
    <3>2. \A i \in 1 .. Len(tx'.bits) : tx'.bits[i] = Levels(byte)[i + 1]
      BY <2>1, <2>3
    <3>3. talker'.wait <= TxBit /\ hostSent' = Append(hostGot', byte) /\ ~noise'
      BY <1>2, <1>3, <1>6, <2>1
    <3>4. QED
      BY <2>3, <2>7, <2>8, <3>1, <3>2, <3>3 DEF Sending, Earliest, Latest
  <2>10. QED
    BY <1>1, <1>4, <2>4, <2>9, TypeParts
       DEF Inv, TxInv, HearerOK, HistoryOK, toHost, toProgram
<1>10. CASE Cut
  <2>1. PICK s \in EventSet : Samples = {s} /\ s \in events
    BY <1>10, TheSample DEF Cut
  <2>2. s.at > 0 /\ s.at \in Int
    BY <1>1, <2>1 DEF Due, EventSet
  <2>3. DataBits + StopBits - 1 - Len(tx.bits) \in Nat
    BY <1>10, TheSample, Constants DEF Cut
  <2>4. (DataBits + StopBits - 1 - Len(tx.bits)) * Stretch \in Nat
    <3>1. Stretch \in Nat
      BY Constants
    <3>2. QED
      BY <2>3, <3>1
  <2>5. s.at + (DataBits + StopBits - 1 - Len(tx.bits)) * Stretch <= 0
    BY <1>1, <1>10, <2>1 DEF Cut
  <2>6. QED
    BY <2>2, <2>4, <2>5
<1>11. QED
  BY <1>7, <1>8, <1>9, <1>10 DEF Inv, TxInv

(* A sample is taken in the bit that it is for.                            *)
LEMMA SampledInItsBit ==
  ASSUME Inv, Sending, NEW e \in Samples, e.at <= 0
  PROVE  Written = Len(tx.bits) + 2
<1> DEFINE k == Len(tx.bits)
<1>1. /\ tx.receiving /\ Written <= k + 2
      /\ Age + e.at >= Earliest(k) /\ Age + e.at <= Latest(k)
  BY DEF Sending
<1>2. k \in 0 .. DataBits + StopBits - 1 /\ k \in Nat
  BY <1>1, TheSample, Constants
<1>3. Written \in Int /\ Age \in Int /\ talker.wait \in Nat /\ e.at \in Int
  BY WrittenTyped, TypeParts DEF Inv, Samples, EventsOK, EventSet
<1> HIDE DEF k
<1>4. Age > (k + 1) * TxBit
  <2>1. (k + 1) * TxBit < Earliest(k) /\ Earliest(k) \in Nat
    BY <1>2, Margins, Times
  <2>2. (k + 1) * TxBit \in Int
    BY <1>2, Constants
  <2>3. QED
    BY <1>1, <1>3, <2>1, <2>2
<1>5. Written * TxBit > (k + 1) * TxBit
  <2>1. Age = Written * TxBit - talker.wait
    BY DEF Age
  <2>2. (k + 1) * TxBit \in Int /\ Written * TxBit \in Int
    BY <1>2, <1>3, Constants
  <2>3. QED
    BY <1>3, <1>4, <2>1, <2>2
<1>6. ~(Written <= k + 1)
  <2>1. k + 1 \in Int /\ TxBit \in Nat
    BY <1>2, Constants
  <2>2. Written <= k + 1 => Written * TxBit <= (k + 1) * TxBit
    BY <1>3, <2>1, Product
  <2>3. Written * TxBit \in Int /\ (k + 1) * TxBit \in Int
    BY <1>3, <2>1, Product
  <2>4. QED
    BY <1>5, <2>2, <2>3
<1>7. QED
  BY <1>1, <1>2, <1>3, <1>6 DEF k

(* What a sample does, when the frame goes on and when it is complete.     *)
LEMMA SampleStep ==
  ASSUME Inv, NEW e \in events, Served(e), SampleBit(e)
  PROVE  /\ e \in Samples /\ Samples = {e} /\ e.at <= 0
         /\ e.at \in 1 - MaxStretch .. FirstSample
         /\ tx.receiving /\ tx.bits \in Seq(Level) /\ tx.line \in Level
         /\ Len(tx.bits) \in 0 .. DataBits + StopBits - 1
         /\ tx'.bits = Append(tx.bits, tx.line) /\ tx'.line = tx.line
         /\ tx'.bits \in Seq(Level) /\ Len(tx'.bits) = Len(tx.bits) + 1
         /\ tx' \in [line : Level, receiving : BOOLEAN, bits : Seq(Level)]
         /\ UNCHANGED <<rx, program, toProgram>>
         /\ \/ /\ Len(tx.bits) + 1 < DataBits + StopBits /\ tx'.receiving
               /\ events' = (events \ {e}) \cup {SampleIn(Bit)}
               /\ Samples' = {SampleIn(Bit)} /\ UNCHANGED toHost
            \/ /\ Len(tx.bits) + 1 = DataBits + StopBits /\ ~tx'.receiving
               /\ events' = events \ {e}
               /\ Samples' = {} /\ HostReceives(DataOf(tx'.bits))
<1>1. e.does = "sample" /\ tx.receiving /\ e.at <= 0
  BY DEF SampleBit, Served
<1>2. e \in Samples
  BY <1>1 DEF Samples
<1>3. Samples = {e} /\ e.at \in 1 - MaxStretch .. FirstSample
  BY <1>1, <1>2, TheSample
<1>4. Len(tx.bits) \in 0 .. DataBits + StopBits - 1 /\ tx.bits \in Seq(Level)
  BY <1>1, TheSample
<1>5. tx \in [line : Level, receiving : BOOLEAN, bits : Seq(Level)]
  BY TypeParts DEF Inv, TxOK
<1> DEFINE bits == Append(tx.bits, tx.line)
<1>6. bits \in Seq(Level) /\ Len(bits) = Len(tx.bits) + 1
  BY <1>4, <1>5
<1>7. tx' = [tx EXCEPT !.bits = bits, !.receiving = ~Complete(bits)]
  BY DEF SampleBit
<1>8. UNCHANGED <<rx, program, toProgram>>
  BY DEF SampleBit
<1>9. /\ Complete(bits) => events' = events \ {e} /\ HostReceives(DataOf(bits))
      /\ ~Complete(bits) => /\ events' = (events \ {e}) \cup {SampleIn(Bit)}
                            /\ UNCHANGED toHost
  BY DEF SampleBit
<1> HIDE DEF bits
<1>10. Complete(bits) \in BOOLEAN
  BY DEF Complete
<1>11. /\ tx'.bits = bits /\ tx'.line = tx.line /\ tx'.receiving = ~Complete(bits)
       /\ tx' \in [line : Level, receiving : BOOLEAN, bits : Seq(Level)]
  BY <1>5, <1>6, <1>7, <1>10
<1>12. CASE Complete(bits)
  <2>1. Samples' = {}
    BY <1>3, <1>9, <1>12 DEF Samples
  <2>2. Len(tx.bits) + 1 = DataBits + StopBits
    BY <1>6, <1>12 DEF Complete
  <2>3. QED
    BY <1>1, <1>2, <1>3, <1>4, <1>5, <1>6, <1>8, <1>9, <1>11, <1>12, <2>1, <2>2 DEF bits
<1>13. CASE ~Complete(bits)
  <2>1. SampleIn(Bit).does = "sample"
    BY SampleTyped, Constants
  <2>2. Samples' = {SampleIn(Bit)}
    BY <1>3, <1>9, <1>13, <2>1 DEF Samples
  <2>3. Len(tx.bits) + 1 < DataBits + StopBits
    BY <1>4, <1>6, <1>13, Constants DEF Complete
  <2>4. QED
    BY <1>1, <1>2, <1>3, <1>4, <1>5, <1>6, <1>8, <1>9, <1>11, <1>13, <2>2, <2>3 DEF bits
<1>14. QED
  BY <1>12, <1>13

(* A sample that does not complete its frame. *)
LEMMA SampleGoesOn ==
  ASSUME Inv, NEW e \in events, Served(e), SampleBit(e), tx'.receiving
  PROVE  Inv'
<1> DEFINE k == Len(tx.bits)
<1>1. /\ e \in Samples /\ Samples = {e} /\ e.at <= 0
      /\ e.at \in 1 - MaxStretch .. FirstSample
      /\ tx.receiving /\ tx.bits \in Seq(Level)
      /\ k \in 0 .. DataBits + StopBits - 1
      /\ tx'.bits = Append(tx.bits, tx.line) /\ tx'.line = tx.line
      /\ tx'.bits \in Seq(Level) /\ Len(tx'.bits) = k + 1
      /\ tx' \in [line : Level, receiving : BOOLEAN, bits : Seq(Level)]
      /\ UNCHANGED <<rx, program, toProgram, toHost>>
      /\ k + 1 < DataBits + StopBits
      /\ events' = (events \ {e}) \cup {SampleIn(Bit)}
      /\ Samples' = {SampleIn(Bit)}
  BY SampleStep
<1>2. k \in Nat /\ e.at \in Int /\ Bit \in Nat /\ FirstSample \in Nat
      /\ Stretch \in Nat /\ MaxStretch \in Nat /\ Stretch = Bit + MaxStretch - 1
      /\ FirstSample >= Bit /\ MaxStretch > 0 /\ e.at >= 1 - MaxStretch
      /\ DataBits \in Nat /\ StopBits \in Nat
  BY <1>1, Constants
<1>3. SampleIn(Bit) \in EventSet /\ SampleIn(Bit).at = Bit
  BY <1>2, SampleTyped
<1>4. EventsOK' /\ TxOK'
  BY <1>1, <1>2, <1>3, TypeParts DEF Inv, EventsOK, TxOK
<1>5. TalkerOK' /\ HearerOK' /\ HistoryOK' /\ rx' \in RxSet
  BY <1>1, TypeParts DEF Inv, program, toHost, toProgram, TalkerOK, HearerOK, HistoryOK
<1>6. SampleInv'
  BY <1>1, <1>2, <1>3 DEF SampleInv
<1>7. /\ talker' = talker /\ hostSent' = hostSent /\ hostGot' = hostGot /\ noise' = noise
      /\ Written' = Written /\ Age' = Age
  BY <1>1 DEF program, toHost, Written, Age
<1>8. CASE Sending
  <2>1. PICK byte \in Byte :
          /\ hostSent = Append(hostGot, byte) /\ ~noise
          /\ Written \in 1 .. FrameBits /\ talker.wait <= TxBit
          /\ \A i \in 1 .. Len(talker.left) : talker.left[i] = Levels(byte)[Written + i]
          /\ tx.line = Levels(byte)[Written]
          /\ \A i \in 1 .. Len(tx.bits) : tx.bits[i] = Levels(byte)[i + 1]
          /\ \A s \in Samples : Age + s.at \in Earliest(k) .. Latest(k)
    BY <1>8 DEF Sending
  <2>2. Written = k + 2
    BY <1>1, <1>8, SampledInItsBit
  <2>3. Age + Bit \in Earliest(k + 1) .. Latest(k + 1)
    <3>1. Age + e.at >= Earliest(k) /\ Age + e.at <= Latest(k) /\ Age \in Int
      BY <1>1, <2>1, WrittenTyped, TypeParts DEF Inv
    <3> HIDE DEF k
    <3>2. /\ Earliest(k) \in Nat /\ Latest(k) \in Nat
          /\ Earliest(k + 1) = Earliest(k) + Bit
          /\ Latest(k + 1) = Latest(k) + Stretch
      BY <1>2, Times
    <3>3. QED
      BY <1>1, <1>2, <3>1, <3>2
  <2>4. \A i \in 1 .. Len(tx'.bits) : tx'.bits[i] = Levels(byte)[i + 1]
    <3>1. TAKE i \in 1 .. Len(tx'.bits)
    <3>2. CASE i = k + 1
      <4>1. tx'.bits[i] = tx.line
        BY <1>1, <3>2
      <4>2. Written = i + 1
        BY <1>2, <2>2, <3>2
      <4>3. QED
        BY <2>1, <4>1, <4>2
    <3>3. CASE i \in 1 .. k
      BY <1>1, <2>1, <3>3
    <3>4. QED
      BY <1>1, <1>2, <3>2, <3>3
  <2>5. Written' <= Len(tx'.bits) + 2
    BY <1>1, <1>2, <1>7, <2>2
  <2>6. \A s \in Samples' :
          Age' + s.at \in Earliest(Len(tx'.bits)) .. Latest(Len(tx'.bits))
    BY <1>1, <1>3, <1>7, <2>3
  <2>7. Sending'
    BY <1>1, <1>7, <2>1, <2>4, <2>5, <2>6 DEF Sending, Earliest, Latest
  <2>8. QED
    BY <1>4, <1>5, <1>6, <2>7, TypeParts DEF Inv, TxInv
<1>9. CASE Cut
  <2>1. e.at + (DataBits + StopBits - 1 - k) * Stretch <= talker.wait
    BY <1>1, <1>9 DEF Cut
  <2>2. talker.wait \in Nat
    BY WrittenTyped, TypeParts DEF Inv
  <2> HIDE DEF k
  <2> DEFINE m == DataBits + StopBits - 1 - (k + 1)
  <2>3. m \in Int /\ DataBits + StopBits - 1 - k = m + 1
    BY <1>2
  <2>4. (m + 1) * Stretch = m * Stretch + Stretch /\ m * Stretch \in Int
    BY <1>2, <2>3, Product
  <2> HIDE DEF m
  <2>5. Bit + m * Stretch <= talker.wait
    BY <1>2, <2>1, <2>2, <2>3, <2>4
  <2>6. \A s \in Samples' :
          s.at + (DataBits + StopBits - 1 - Len(tx'.bits)) * Stretch <= talker'.wait
    BY <1>1, <1>3, <1>7, <2>5 DEF m
  <2>7. Cut'
    BY <1>1, <1>7, <1>9, <2>6 DEF Cut, Stretch
  <2>8. QED
    BY <1>4, <1>5, <1>6, <2>7, TypeParts DEF Inv, TxInv
<1>10. ~Quiet /\ ~Ready
  BY <1>1 DEF Quiet, Ready
<1>11. QED
  BY <1>8, <1>9, <1>10 DEF Inv, TxInv

(* What the frame's end comes to, without the step.                        *)
LEMMA FrameEnd ==
  ASSUME NEW left \in Nat, NEW k \in Nat,
         FrameBits - left = k + 2, k + 1 = DataBits + StopBits
  PROVE  left = 0
  BY Constants

(* A byte more makes a sequence of bytes.                                  *)
LEMMA AppendTyped ==
  ASSUME NEW bytes \in Seq(Byte), NEW byte \in Byte
  PROVE  Append(bytes, byte) \in Seq(Byte)
  OBVIOUS

(* Bytes are equal when their bits are.                                    *)
LEMMA BytesEqual ==
  ASSUME NEW a \in Byte, NEW b \in Byte, \A i \in 1 .. DataBits : a[i] = b[i]
  PROVE  a = b
<1>1. a = [i \in 1 .. DataBits |-> a[i]] /\ b = [i \in 1 .. DataBits |-> b[i]]
  BY DEF Byte
<1>2. QED
  BY <1>1

(* A sample that completes its frame: the host receives the byte sent.     *)
LEMMA SampleCompletes ==
  ASSUME Inv, NEW e \in events, Served(e), SampleBit(e), ~tx'.receiving
  PROVE  /\ Inv'
         /\ ~noise => hostGot' = hostSent /\ \E byte \in Byte : hostSent = Append(hostGot, byte)
         /\ HostReceives(DataOf(tx'.bits))
<1> DEFINE k == Len(tx.bits)
<1>1. /\ e \in Samples /\ Samples = {e} /\ e.at <= 0
      /\ tx.receiving /\ tx.bits \in Seq(Level)
      /\ k \in 0 .. DataBits + StopBits - 1
      /\ tx'.bits = Append(tx.bits, tx.line) /\ tx'.line = tx.line
      /\ tx'.bits \in Seq(Level) /\ Len(tx'.bits) = k + 1
      /\ tx' \in [line : Level, receiving : BOOLEAN, bits : Seq(Level)]
      /\ UNCHANGED <<rx, program, toProgram>>
      /\ k + 1 = DataBits + StopBits
      /\ events' = events \ {e}
      /\ Samples' = {} /\ HostReceives(DataOf(tx'.bits))
  BY SampleStep
<1>2. k \in Nat /\ DataBits \in Nat /\ StopBits \in Nat /\ DataBits > 0 /\ StopBits > 0
      /\ FrameBits = 1 + DataBits + StopBits
  BY <1>1, Constants
<1>20. k + 1 = DataBits + StopBits
  BY <1>1
<1>21. tx'.bits \in Seq(Level) /\ Len(tx'.bits) >= DataBits
  BY <1>1, <1>2
<1>3. EventsOK' /\ TxOK' /\ SampleInv'
  BY <1>1, <1>2, TypeParts DEF Inv, EventsOK, TxOK, SampleInv
<1>4. TalkerOK' /\ HearerOK' /\ rx' \in RxSet
  BY <1>1, TypeParts DEF Inv, program, TalkerOK, HearerOK
<1>5. talker' = talker /\ hostSent' = hostSent /\ noise' = FALSE
  BY <1>1 DEF program, HostReceives
<1>6. DataOf(tx'.bits) \in Byte
  BY <1>21, DataInByte
<1>7. HistoryOK'
  <2>1. HistoryOK
    BY TypeParts DEF Inv
  <2>2. hostGot' \in Seq(Byte)
    <3>1. hostGot' = hostGot \/ hostGot' = Append(hostGot, DataOf(tx'.bits))
      BY <1>1 DEF HostReceives
    <3>2. hostGot \in Seq(Byte)
      BY <2>1 DEF HistoryOK
    <3>3. Append(hostGot, DataOf(tx'.bits)) \in Seq(Byte)
      BY <1>6, <3>2, AppendTyped
    <3>4. QED
      BY <3>1, <3>2, <3>3
  <2>3. QED
    BY <1>1, <1>5, <2>1, <2>2 DEF HistoryOK, toProgram
<1>8. CASE Sending
  <2>1. PICK byte \in Byte :
          /\ hostSent = Append(hostGot, byte) /\ ~noise
          /\ tx.line = Levels(byte)[Written]
          /\ \A i \in 1 .. Len(tx.bits) : tx.bits[i] = Levels(byte)[i + 1]
    BY <1>8 DEF Sending
  <2>2. Written = k + 2
    BY <1>1, <1>8, SampledInItsBit
  <2>3. Len(talker.left) = 0 /\ talker.left = <<>>
    <3>1. Len(talker.left) \in Nat /\ talker.left \in Seq(Level)
      BY TypeParts DEF Inv, TalkerOK
    <3>2. Len(talker.left) = 0
      <4>1. FrameBits - Len(talker.left) = k + 2
        BY <2>2 DEF Written
      <4>2. k \in Nat
        BY <1>2
      <4>3. QED
        BY <1>20, <3>1, <4>1, <4>2, FrameEnd
    <3>3. QED
      BY <3>1, <3>2
  <2>4. tx.line = 1
    <3>1. Written = FrameBits /\ FrameBits \in DataBits + 2 .. FrameBits
      BY <1>2, <1>20, <2>2
    <3>2. QED
      BY <2>1, <3>1, LevelsOfByte
  <2>5. DataOf(tx'.bits) = byte
    <3>1. ASSUME NEW i \in 1 .. DataBits
          PROVE  DataOf(tx'.bits)[i] = byte[i]
      <4>1. DataOf(tx'.bits)[i] = tx'.bits[i]
        BY <1>21, DataInByte
      <4>2. tx'.bits[i] = tx.bits[i] /\ i \in 1 .. k
        BY <1>1, <1>2
      <4>3. QED
        BY <4>1, <4>2, <2>1, LevelsOfByte
    <3>2. QED
      BY <3>1, <1>6, <2>1, BytesEqual
  <2>6. hostGot' = hostSent
    BY <1>1, <2>1, <2>5 DEF HostReceives
  <2>7. Quiet'
    BY <1>1, <1>5, <2>3, <2>4, <2>6 DEF Quiet
  <2>8. QED
    BY <1>1, <1>3, <1>4, <1>7, <2>1, <2>6, <2>7, TypeParts DEF Inv, TxInv
<1>9. CASE Cut
  <2>1. noise /\ hostSent = hostGot /\ talker.left = <<1>>
    BY <1>9 DEF Cut
  <2>2. hostGot' = hostGot
    BY <1>1, <2>1 DEF HostReceives
  <2>3. Quiet'
    BY <1>1, <1>5, <2>1, <2>2 DEF Quiet
  <2>4. QED
    BY <1>1, <1>3, <1>4, <1>7, <2>1, <2>3, TypeParts DEF Inv, TxInv
<1>10. ~Quiet /\ ~Ready
  BY <1>1 DEF Quiet, Ready
<1>11. QED
  BY <1>8, <1>9, <1>10 DEF Inv, TxInv

-----------------------------------------------------------------------------
(* Time. *)

(* A wait grows shorter, and exactly so when it is long enough.            *)
LEMMA LessTyped ==
  ASSUME NEW wait \in Nat, NEW n \in Nat
  PROVE  /\ Less(wait, n) \in Nat
         /\ n <= wait => Less(wait, n) = wait - n
  BY DEF Less

(* Time passes for the events as it does for the program.                  *)
LEMMA RecordCyclesKeeps ==
  ASSUME Inv, NEW n \in 1 .. MaxStretch, RecordCycles(n)
  PROVE  Inv'
<1> DEFINE Sooner(e) == [e EXCEPT !.at = @ - n]
<1>1. /\ ~Due /\ TalkerAllows(n)
      /\ events' = {Sooner(e) : e \in events}
      /\ talker' = [talker EXCEPT !.wait = Less(@, n)]
      /\ hearer' = [hearer EXCEPT !.wait = Less(@, n)]
      /\ UNCHANGED <<tx, rx, toHost, toProgram>>
  BY DEF RecordCycles
<1>2. /\ EventsOK /\ TxOK /\ rx \in RxSet /\ TalkerOK /\ HearerOK /\ HistoryOK
      /\ SampleInv
  BY TypeParts DEF Inv, TxInv
<1>3. n \in Nat /\ n > 0 /\ n <= MaxStretch /\ MaxStretch \in Nat
  BY Constants
<1>4. ASSUME NEW e \in EventSet
      PROVE  /\ Sooner(e) \in EventSet /\ Sooner(e).at = e.at - n
             /\ Sooner(e).does = e.does
  BY <1>3 DEF EventSet
<1> HIDE DEF Sooner
<1>5. EventsOK'
  BY <1>1, <1>2, <1>4 DEF EventsOK
<1>6. Samples' = {Sooner(s) : s \in Samples}
  BY <1>1, <1>2, <1>4 DEF EventsOK, Samples
<1>7. /\ TalkerOK' /\ talker'.left = talker.left
      /\ n <= talker.wait => talker'.wait = talker.wait - n
  <2>1. talker.wait \in Nat
    BY <1>2 DEF TalkerOK
  <2>2. Less(talker.wait, n) \in Nat
        /\ (n <= talker.wait => Less(talker.wait, n) = talker.wait - n)
    BY <2>1, <1>3, LessTyped
  <2>3. QED
    BY <2>2, <1>1, <1>2 DEF TalkerOK
<1>8. HearerOK'
  <2>1. Less(hearer.wait, n) \in Nat
    BY <1>2, <1>3, LessTyped DEF HearerOK
  <2>2. QED
    BY <2>1, <1>1, <1>2 DEF HearerOK
<1>9. TxOK' /\ HistoryOK' /\ rx' \in RxSet
      /\ tx' = tx /\ hostSent' = hostSent /\ hostGot' = hostGot /\ noise' = noise
  BY <1>1, <1>2 DEF TxOK, HistoryOK, toHost, toProgram
<1>10. ASSUME NEW s \in Samples
       PROVE  s \in EventSet /\ s.at \in Int /\ s.at > 0
  BY <1>1, <1>2 DEF Due, Samples, EventsOK, EventSet
<1>11. SampleInv'
  <2>1. CASE tx.receiving
    <3>1. PICK s \in Samples : Samples = {s}
      BY <2>1, <1>2 DEF SampleInv
    <3>2. Samples' = {Sooner(s)}
      BY <1>6, <3>1
    <3>3. s.at <= FirstSample /\ FirstSample \in Int
      BY <2>1, <1>2, <3>1, Constants DEF SampleInv
    <3>4. Sooner(s).at \in 1 - MaxStretch .. FirstSample
      BY <1>3, <1>4, <1>10, <3>3
    <3>5. QED
      BY <2>1, <1>2, <1>9, <3>2, <3>4 DEF SampleInv
  <2>2. CASE ~tx.receiving
    BY <2>2, <1>2, <1>6, <1>9 DEF SampleInv
  <2>3. QED
    BY <2>1, <2>2
<1>12. CASE Quiet
  <2>1. Quiet'
    BY <1>7, <1>9, <1>12 DEF Quiet
  <2>2. QED
    BY <2>1, <1>5, <1>7, <1>8, <1>9, <1>11, TypeParts DEF Inv, TxInv
<1>13. CASE Ready
  <2>1. PICK byte \in Byte : talker = [left |-> Levels(byte), wait |-> 0]
    BY <1>13 DEF Ready
  <2>2. Len(talker.left) > 0 /\ talker.wait = 0
    BY <2>1, LevelsOfByte, Constants
  <2>3. talker.left # <<>> /\ ~(n <= talker.wait)
    BY <2>2, <1>3
  <2>4. QED
    BY <2>3, <1>1 DEF TalkerAllows
<1>14. CASE Sending
  <2>1. n <= talker.wait
    <3>1. SUFFICES ASSUME talker.left = <<>>, talker.wait = 0
                   PROVE  FALSE
      BY <1>1 DEF TalkerAllows
    <3>2. Written <= Len(tx.bits) + 1
      BY <1>1, <1>14, <3>1, SampledBeforeWrite
    <3>3. Len(tx.bits) \in 0 .. DataBits + StopBits - 1
      BY <1>14, TheSample DEF Sending
    <3>4. Written = FrameBits
      BY <3>1, Constants DEF Written
    <3>5. QED
      BY <3>2, <3>3, <3>4, Constants
  <2>2. talker'.wait = talker.wait - n /\ talker.wait \in Nat
    BY <1>2, <1>7, <2>1 DEF TalkerOK
  <2>3. Written' = Written /\ Age' = Age + n /\ Age \in Int
    <3>1. Written' = Written
      BY <1>7 DEF Written
    <3>2. Written * TxBit \in Int /\ Age \in Int
      BY <1>2, WrittenTyped, Constants, Product
    <3>3. QED
      BY <3>1, <3>2, <2>2, <1>3 DEF Age
  <2>4. ASSUME NEW s \in Samples
        PROVE  Age' + Sooner(s).at = Age + s.at
    BY <2>3, <1>3, <1>4, <1>10
  <2>5. PICK byte \in Byte :
          /\ hostSent = Append(hostGot, byte) /\ ~noise /\ tx.receiving
          /\ Written \in 1 .. FrameBits
          /\ talker.wait <= TxBit
          /\ \A i \in 1 .. Len(talker.left) : talker.left[i] = Levels(byte)[Written + i]
          /\ tx.line = Levels(byte)[Written]
          /\ Written <= Len(tx.bits) + 2
          /\ \A i \in 1 .. Len(tx.bits) : tx.bits[i] = Levels(byte)[i + 1]
          /\ \A s \in Samples :
               Age + s.at \in Earliest(Len(tx.bits)) .. Latest(Len(tx.bits))
    BY <1>14 DEF Sending
  <2>6. \A s \in Samples' :
          Age' + s.at \in Earliest(Len(tx.bits)) .. Latest(Len(tx.bits))
    BY <1>6, <2>4, <2>5
  <2>7. talker'.wait <= TxBit
    BY <1>3, <2>2, <2>5, Constants
  <2>8. Sending'
    BY <1>7, <1>9, <2>3, <2>5, <2>6, <2>7 DEF Sending, Earliest, Latest
  <2>9. QED
    BY <2>8, <1>5, <1>7, <1>8, <1>9, <1>11, TypeParts DEF Inv, TxInv
<1>15. CASE Cut
  <2>1. talker.left # <<>>
    BY <1>15 DEF Cut
  <2>2. talker'.wait = talker.wait - n /\ talker.wait \in Nat
    BY <1>1, <1>2, <1>7, <2>1 DEF TalkerAllows, TalkerOK
  <2> DEFINE rest == (DataBits + StopBits - 1 - Len(tx.bits)) * Stretch
  <2>3. rest \in Int
    <3>1. DataBits + StopBits - 1 - Len(tx.bits) \in Int /\ Stretch \in Nat
      BY <1>2, Constants DEF TxOK
    <3>2. QED
      BY <3>1, Product
  <2>4. \A s \in Samples : s.at + rest <= talker.wait
    BY <1>15 DEF Cut
  <2> HIDE DEF rest
  <2>5. \A s \in Samples' : s.at + rest <= talker'.wait
    <3>1. ASSUME NEW s \in Samples
          PROVE  Sooner(s).at + rest <= talker'.wait
      BY <1>3, <1>4, <1>10, <2>2, <2>3, <2>4
    <3>2. QED
      BY <3>1, <1>6
  <2>6. Cut'
    BY <1>7, <1>9, <1>15, <2>5 DEF Cut, rest, Stretch
  <2>7. QED
    BY <2>6, <1>5, <1>7, <1>8, <1>9, <1>11, TypeParts DEF Inv, TxInv
<1>16. QED
  BY <1>12, <1>13, <1>14, <1>15 DEF Inv, TxInv

-----------------------------------------------------------------------------
(* Resets. *)

(* A frame has no more samples to come than it has bits.                   *)
LEMMA SamplesLeft ==
  ASSUME NEW len \in 0 .. DataBits + StopBits - 1
  PROVE  (DataBits + StopBits - 1 - len) * Stretch + FirstSample <= BootTime
<1>1. /\ DataBits + StopBits - 1 - len \in Int /\ DataBits + StopBits \in Int
      /\ DataBits + StopBits - 1 - len <= DataBits + StopBits
      /\ Stretch \in Nat /\ FirstSample \in Nat /\ BootTime \in Nat
  BY Constants
<1>2. /\ (DataBits + StopBits) * Stretch \in Int
      /\ (DataBits + StopBits - 1 - len) * Stretch \in Int
      /\ (DataBits + StopBits - 1 - len) * Stretch <= (DataBits + StopBits) * Stretch
  BY <1>1, Product
<1>3. QED
  BY <1>1, <1>2, BootCovers

(* A reset leaves everything typed.                                        *)
LEMMA ResetTyped ==
  ASSUME Inv, Reset
  PROVE  TypeOK'
<1>1. /\ EventsOK' /\ TxOK' /\ HistoryOK
      /\ rx \in RxSet /\ tx.receiving \in BOOLEAN
  BY TypeParts DEF Inv, Reset, EventsOK, TxOK
<1>2. rx' \in RxSet
  <2>1. rx.token + 1 \in 0 .. MaxResets /\ 1 \in Level /\ <<>> \in Seq(Byte)
    BY <1>1, Constants DEF Reset, RxSet, Level
  <2>2. QED
    BY <2>1 DEF Reset, RxSet
<1>3. TalkerOK'
  <2>1. <<1>> \in Seq(Level) /\ BootTime \in Nat
    BY Constants DEF Level
  <2>2. QED
    BY <2>1 DEF Reset, TalkerOK
<1>4. HearerOK'
  BY DEF Reset, HearerOK
<1>5. HistoryOK'
  BY <1>1 DEF Reset, HistoryOK
<1>6. QED
  BY <1>1, <1>2, <1>3, <1>4, <1>5, TypeParts

(* A reset leaves the decoder in the frame it was in, and the program      *)
(* quiet until the decoder is out of it.                                   *)
LEMMA ResetKeeps ==
  ASSUME Inv, Reset
  PROVE  Inv'
<1>1. /\ UNCHANGED <<events, tx, hostGot>> /\ hostSent' = hostGot
      /\ noise' = tx.receiving
      /\ talker' = [left |-> <<1>>, wait |-> BootTime]
  BY DEF Reset
<1>2. SampleInv'
  BY <1>1 DEF Inv, TxInv, SampleInv, Samples
<1>3. CASE tx.receiving
  <2>1. PICK s \in EventSet : Samples = {s} /\ s.at \in 1 - MaxStretch .. FirstSample
    BY <1>3, TheSample
  <2>2. Len(tx.bits) \in 0 .. DataBits + StopBits - 1
    BY <1>3, TheSample
  <2> DEFINE rest == (DataBits + StopBits - 1 - Len(tx.bits)) * Stretch
  <2>3. rest + FirstSample <= BootTime
    BY <2>2, SamplesLeft
  <2>4. rest \in Int
    <3>1. DataBits + StopBits - 1 - Len(tx.bits) \in Int /\ Stretch \in Nat
      BY <2>2, Constants
    <3>2. QED
      BY <3>1, Product
  <2> HIDE DEF rest
  <2>6. s.at + rest <= BootTime
    <3>1. s.at \in Int /\ s.at <= FirstSample /\ FirstSample \in Int /\ BootTime \in Int
      BY <2>1, Constants
    <3>2. QED
      BY <3>1, <2>3, <2>4
  <2>7. Samples' = Samples
    BY <1>1 DEF Samples
  <2>8. Cut'
    BY <1>1, <1>3, <2>1, <2>6, <2>7 DEF Cut, rest, Stretch
  <2>9. QED
    BY <2>8, <1>2, ResetTyped DEF Inv, TxInv
<1>4. CASE ~tx.receiving
  <2>1. talker'.left = <<1>> /\ noise' = FALSE
    BY <1>1, <1>4, ResetTyped, TypeParts DEF HistoryOK
  <2>2. \A i \in 1 .. Len(talker'.left) : talker'.left[i] = 1
    BY <2>1
  <2>3. Quiet'
    BY <1>1, <1>4, <2>1, <2>2 DEF Quiet
  <2>4. QED
    BY <2>3, <1>2, ResetTyped DEF Inv, TxInv
<1>5. QED
  BY <1>3, <1>4

-----------------------------------------------------------------------------
(* The invariant. *)

(* The invariant holds when the machine is switched on,                    *)
LEMMA InitInv ==
  ASSUME Init
  PROVE  Inv
<1>1. TypeOK
  <2>1. EventsOK /\ TalkerOK /\ HearerOK
    BY DEF Init, EventsOK, TalkerOK, HearerOK
  <2>2. TxOK
    BY Constants DEF Init, TxOK, Level
  <2>3. rx \in RxSet
    BY Constants DEF Init, RxSet, Level
  <2>4. HistoryOK
    <3>1. <<>> \in Seq(Byte)
      OBVIOUS
    <3>2. QED
      BY <3>1, Zenon DEF Init, HistoryOK
  <2>5. QED
    BY <2>1, <2>2, <2>3, <2>4, TypeParts
<1>2. TxInv
  BY DEF Init, TxInv, SampleInv, Quiet, Samples
<1>3. QED
  BY <1>1, <1>2 DEF Inv

(* when a sample is taken,                                                 *)
LEMMA SampleKeeps ==
  ASSUME Inv, NEW e \in events, Served(e), SampleBit(e)
  PROVE  Inv'
BY SampleGoesOn, SampleCompletes

(* when nothing happens,                                                   *)
LEMMA StutterKeeps ==
  ASSUME Inv, UNCHANGED vars
  PROVE  Inv'
<1>1. Samples' = Samples /\ TxInv'
  BY KeepsTx DEF Inv, vars, program, Samples
<1>2. QED
  BY <1>1, TypeParts
     DEF Inv, vars, program, toHost, toProgram, EventsOK, TxOK, TalkerOK,
         HearerOK, HistoryOK

(* and so after every step.                                                *)
LEMMA StepKeeps ==
  ASSUME Inv, [Next]_vars
  PROVE  Inv'
<1>1. CASE ServeEvent
  BY <1>1, SampleKeeps, RxLevelChangeKeeps, RxFrameDoneKeeps DEF ServeEvent
<1>2. CASE Execute
  BY <1>2, WriteBitKeeps, PollKeeps, HearBitKeeps, HearByteKeeps, RecordCyclesKeeps
     DEF Execute
<1>3. CASE Listen
  BY <1>3, ListenKeeps
<1>4. CASE Reset
  BY <1>4, ResetKeeps
<1>5. ASSUME NEW byte \in TxBytes, Send(byte)
      PROVE  Inv'
  BY <1>5, SendKeeps
<1>6. ASSUME NEW text \in Texts, QueueSerial(text)
      PROVE  Inv'
  BY <1>6, QueueSerialKeeps
<1>7. CASE UNCHANGED vars
  BY <1>7, StutterKeeps
<1>8. QED
  BY <1>1, <1>2, <1>3, <1>4, <1>5, <1>6, <1>7 DEF Next

(* However long the instructions and however they fall against the sample  *)
(* times, the decoder's next sample is due inside the bit that it is for.  *)
THEOREM InvariantHolds == Spec => []Inv
<1>1. Init => Inv
  BY InitInv
<1>2. Inv /\ [Next]_vars => Inv'
  BY StepKeeps
<1>3. QED
  BY <1>1, <1>2, PTL DEF Spec

(* The types, and never more samples in a frame than it has bits: the      *)
(* decoder reads no bit past the stop bits (BitbangUartDecoder.sampleBit). *)
THEOREM TypeCorrect == Spec => []TypeOK
<1>1. Inv => TypeOK
  BY DEF Inv
<1>2. QED
  BY <1>1, InvariantHolds, PTL

(* The decoder has exactly one sample scheduled inside a frame and none    *)
(* outside (startFrame, sampleBit and what they pass to scheduleAt).       *)
THEOREM DecoderServed == Spec => []DecoderIsServed
<1>1. Inv => DecoderIsServed
  <2>1. SUFFICES ASSUME Inv PROVE DecoderIsServed
    OBVIOUS
  <2>2. CASE tx.receiving
    <3>1. PICK s : Samples = {s}
      BY <2>1, <2>2, TheSample
    <3>2. Cardinality(Samples) = 1
      BY <3>1, FS_Singleton
    <3>3. QED
      BY <2>2, <3>2 DEF DecoderIsServed
  <2>3. CASE ~tx.receiving
    <3>1. Samples = {}
      BY <2>1, <2>3 DEF Inv, TxInv, SampleInv
    <3>2. Cardinality(Samples) = 0
      BY <3>1, FS_EmptySet
    <3>3. QED
      BY <2>3, <3>2 DEF DecoderIsServed
  <2>4. QED
    BY <2>2, <2>3
<1>2. QED
  BY <1>1, InvariantHolds, PTL

-----------------------------------------------------------------------------
(* The host hears what the program sends. *)

(* A byte more makes a longer sequence that begins alike.                  *)
LEMMA AppendExtends ==
  ASSUME NEW bytes \in Seq(Byte), NEW byte \in Byte
  PROVE  /\ IsPrefix(bytes, Append(bytes, byte))
         /\ Append(bytes, byte) # bytes
         /\ Len(bytes) < Len(Append(bytes, byte))
         /\ Append(bytes, byte)[Len(bytes) + 1] = byte
<1> DEFINE more == Append(bytes, byte)
<1>1. /\ more \in Seq(Byte) /\ Len(bytes) \in Nat /\ Len(more) = Len(bytes) + 1
      /\ \A i \in 1 .. Len(bytes) : more[i] = bytes[i]
      /\ more[Len(bytes) + 1] = byte
  OBVIOUS
<1> HIDE DEF more
<1>2. SubSeq(more, 1, Len(bytes)) = SubSeq(bytes, 1, Len(bytes))
  <2>1. /\ SubSeq(more, 1, Len(bytes)) \in Seq(Byte)
        /\ Len(SubSeq(more, 1, Len(bytes))) = Len(bytes)
        /\ \A i \in 1 .. Len(bytes) : SubSeq(more, 1, Len(bytes))[i] = more[i]
    BY <1>1
  <2>2. /\ SubSeq(bytes, 1, Len(bytes)) \in Seq(Byte)
        /\ Len(SubSeq(bytes, 1, Len(bytes))) = Len(bytes)
        /\ \A i \in 1 .. Len(bytes) : SubSeq(bytes, 1, Len(bytes))[i] = bytes[i]
    BY <1>1
  <2>3. QED
    BY <1>1, <2>1, <2>2
<1>3. more # bytes
  BY <1>1
<1>4. Len(bytes) < Len(more)
  BY <1>1
<1>5. IsPrefix(bytes, more)
  BY <1>1, <1>2, <1>4 DEF IsPrefix
<1>6. QED
  BY <1>1, <1>3, <1>4, <1>5 DEF more

(* A sample does nothing on the link, or delivers, or hears noise.         *)
LEMMA SampleOnLink ==
  ASSUME Inv, NEW e \in events, Served(e), SampleBit(e)
  PROVE  [HostLink!Next]_(HostLink!vars)
<1>1. CASE tx'.receiving
  BY <1>1, SampleStep DEF toHost, HostLink!vars
<1>2. CASE ~tx'.receiving
  <2>1. /\ HostReceives(DataOf(tx'.bits))
        /\ ~noise => hostGot' = hostSent /\ \E byte \in Byte : hostSent = Append(hostGot, byte)
    BY <1>2, SampleCompletes
  <2>2. CASE noise
    BY <2>1, <2>2 DEF HostReceives, HostLink!Next, HostLink!HearNoise
  <2>3. CASE ~noise
    <3>1. PICK byte \in Byte : hostSent = Append(hostGot, byte)
      BY <2>1, <2>3
    <3>2. hostGot \in Seq(Byte) /\ noise \in BOOLEAN
      BY TypeParts DEF Inv, HistoryOK
    <3>3. /\ Len(hostGot) < Len(hostSent)
          /\ hostSent[Len(hostGot) + 1] = byte
      BY <3>1, <3>2, AppendExtends
    <3>4. hostGot' = Append(hostGot, byte) /\ hostSent' = hostSent
      BY <2>1, <2>3, <3>1 DEF HostReceives
    <3>5. noise' = noise
      BY <2>1, <2>3, <3>2 DEF HostReceives
    <3>6. HostLink!Deliver
      BY <3>3, <3>4, <3>5 DEF HostLink!Deliver
    <3>7. QED
      BY <3>6 DEF HostLink!Next
  <2>4. QED
    BY <2>2, <2>3
<1>3. QED
  BY <1>1, <1>2

(* The program's sending is the link's.                                    *)
LEMMA SendOnLink ==
  ASSUME Inv, NEW byte \in TxBytes, Send(byte)
  PROVE  HostLink!Send
<1>1. byte \in Byte
  BY DataAssumption DEF DataAssumption
<1>2. hostSent \in Seq(Byte)
  BY TypeParts DEF Inv, HistoryOK
<1>3. hostSent' = Append(hostSent, byte) /\ UNCHANGED <<hostGot, noise>>
  BY DEF Send
<1>4. IsPrefix(hostSent, hostSent') /\ hostSent # hostSent'
  BY <1>1, <1>2, <1>3, AppendExtends
<1>5. HostLink!IsPrefix(hostSent, hostSent')
  BY <1>4 DEF IsPrefix, HostLink!IsPrefix
<1>6. QED
  BY <1>3, <1>4, <1>5, Zenon DEF HostLink!Send

(* A reset of the machine is one of the link.                              *)
LEMMA ResetOnLink ==
  ASSUME Inv, Reset
  PROVE  HostLink!Reset
<1>1. hostSent' = hostGot /\ hostGot' = hostGot /\ noise' = tx.receiving
  BY DEF Reset
<1>2. tx.receiving \in BOOLEAN
  BY TypeParts DEF Inv, TxOK
<1>3. noise => tx.receiving
  BY DEF Inv, TxInv, Quiet, Ready, Sending, Cut
<1>4. QED
  BY <1>1, <1>2, <1>3 DEF HostLink!Reset

(* Every step is one of the link or none.                                  *)
LEMMA StepOnLink ==
  ASSUME Inv, [Next]_vars
  PROVE  [HostLink!Next]_(HostLink!vars)
<1>1. CASE ServeEvent
  BY <1>1, SampleOnLink DEF ServeEvent, RxLevelChange, RxFrameDone, toHost, HostLink!vars
<1>2. CASE Execute
  BY <1>2 DEF Execute, WriteBit, Poll, HearBit, HearByte, RecordCycles, toHost, HostLink!vars
<1>3. CASE Listen
  BY <1>3 DEF Listen, toHost, HostLink!vars
<1>4. CASE Reset
  BY <1>4, ResetOnLink DEF HostLink!Next
<1>5. ASSUME NEW byte \in TxBytes, Send(byte)
      PROVE  HostLink!Next
  BY <1>5, SendOnLink DEF HostLink!Next
<1>6. ASSUME NEW text \in Texts, QueueSerial(text)
      PROVE  UNCHANGED HostLink!vars
  BY <1>6 DEF QueueSerial, toHost, HostLink!vars
<1>7. CASE UNCHANGED vars
  BY <1>7 DEF vars, toHost, HostLink!vars
<1>8. QED
  BY <1>1, <1>2, <1>3, <1>4, <1>5, <1>6, <1>7 DEF Next

(* The decoded line to the host implements SerialLink: every byte that the *)
(* program transmits reaches the byte handler unchanged, once and in       *)
(* order, for every clock skew, instruction length and polling pattern     *)
(* that the timing assumption allows.                                      *)
THEOREM HostRefinement == Spec => HostHearsProgram
<1>1. Init => HostLink!Init
  BY DEF Init, HostLink!Init
<1>2. Inv /\ [Next]_vars => [HostLink!Next]_(HostLink!vars)
  BY StepOnLink
<1>3. QED
  BY <1>1, <1>2, InvariantHolds, PTL DEF Spec, HostHearsProgram, HostLink!Spec

-----------------------------------------------------------------------------
(* The line to the program. *)

(* The driver's clock: when edge i of a frame is due, and to which level.  *)
EdgeAt(i) == i * Bit
LineLevel(byte, i) == IF i = 0 THEN 0 ELSE IF i <= DataBits THEN byte[i] ELSE 1

(* The events of the driver that are not of before a reset, and those of   *)
(* a frame that began t cycles ago whose first j edges are past.           *)
Driving == {e \in events : e.does # "sample" /\ e.token = rx.token}
Remaining(byte, j, t) ==
  {Event(EdgeAt(i) - t, "level", LineLevel(byte, i), rx.token) : i \in j .. DataBits + 1}
  \cup {Event(FrameTime - t, "next", 1, rx.token)}

OnLine(byte, j, t) ==
  /\ rx.busy /\ Driving = Remaining(byte, j, t)
  /\ rx.level = IF j = 0 THEN 1 ELSE LineLevel(byte, j - 1)
  /\ j > 0 => EdgeAt(j - 1) <= t

(* The phases of a byte to the program.                                    *)
Resting ==
  /\ ~rx.busy /\ Driving = {} /\ rx.level = 1
  /\ hearer.mode # "receiving"
  /\ progSent = progGot \o rx.bytes

(* The program polls in the first PollGap cycles of the start bit.         *)
Expecting(byte, t) ==
  /\ hearer.mode = "listening" /\ t + hearer.wait < PollGap
  /\ progSent = progGot \o (<<byte>> \o rx.bytes)

Receiving(byte, t) ==
  /\ hearer.mode = "receiving" /\ Len(hearer.bits) <= DataBits
  /\ \A i \in 1 .. Len(hearer.bits) : hearer.bits[i] = byte[i]
  /\ t + hearer.wait - (FirstHeard + Len(hearer.bits) * RxBit) \in 0 .. PollGap - 1
  /\ progSent = progGot \o (<<byte>> \o rx.bytes)

(* The byte is heard, and the program polls again before the next begins.  *)
Heard(t) ==
  /\ hearer.mode = "listening"
  /\ EdgeAt(DataBits + 1) <= t /\ t + hearer.wait < FrameTime + PollGap
  /\ progSent = progGot \o rx.bytes

RxInv ==
  /\ rx.lead = 0
  /\ \A e \in events : e.does # "sample" => e.token <= rx.token
  /\ \/ Resting
     \/ \E byte \in Byte, j \in 0 .. DataBits + 2, t \in Int :
          /\ OnLine(byte, j, t)
          /\ Expecting(byte, t) \/ Receiving(byte, t) \/ Heard(t)

(* When the edges of a frame are due.                                      *)
LEMMA EdgeTimes ==
  ASSUME NEW i \in Int
  PROVE  /\ EdgeAt(i) \in Int /\ EdgeAt(i + 1) = EdgeAt(i) + Bit
         /\ EdgeAt(0) = 0
         /\ \A k \in Int : i < k => EdgeAt(i) + Bit <= EdgeAt(k)
<1>1. Bit \in Nat
  BY Constants
<1>2. /\ i * Bit \in Int /\ (i + 1) * Bit = i * Bit + Bit
      /\ \A k \in Int : i + 1 <= k => (i + 1) * Bit <= k * Bit
  BY <1>1, Product
<1>3. 0 * Bit = 0
  BY <1>1
<1>4. \A k \in Int : i < k => i + 1 <= k
  OBVIOUS
<1> QED
  BY <1>2, <1>3, <1>4 DEF EdgeAt

(* The last edge of a frame is followed by its stop bits.                  *)
LEMMA FrameLength ==
  /\ FrameTime \in Nat
  /\ \A i \in Int : i <= DataBits + 1 => EdgeAt(i) + Bit <= FrameTime
<1>1. FrameBits \in Int /\ DataBits \in Int /\ FrameBits > DataBits + 1 /\ Bit \in Nat
  BY Constants
<1>2. FrameTime = EdgeAt(FrameBits)
  BY DEF FrameTime, EdgeAt
<1>3. FrameBits * Bit \in Nat
  BY <1>1, Constants
<1>4. FrameTime \in Nat
  BY <1>3 DEF FrameTime
<1>5. ASSUME NEW i \in Int, i <= DataBits + 1 PROVE EdgeAt(i) + Bit <= EdgeAt(FrameBits)
  BY <1>1, <1>5, EdgeTimes
<1> QED
  BY <1>2, <1>4, <1>5

(* The timing assumption: what is read as bit k comes in bit k.            *)
LEMMA HearingMargins ==
  ASSUME NEW k \in 0 .. DataBits
  PROVE  /\ FirstHeard + k * RxBit \in Nat
         /\ EdgeAt(k + 1) <= FirstHeard + k * RxBit
         /\ FirstHeard + k * RxBit + PollGap - 1 < EdgeAt(k + 1) + Bit
<1>1. /\ (k + 1) * Bit <= FirstHeard + k * RxBit
      /\ FirstHeard + k * RxBit + PollGap - 1 < (k + 2) * Bit
  BY TimingAssumption DEF TimingAssumption
<1>2. k \in Nat /\ k + 1 \in Int /\ Bit \in Nat /\ RxBit \in Nat /\ FirstHeard \in Nat
  BY Constants
<1>3. (k + 2) * Bit = (k + 1) * Bit + Bit
  BY <1>2, Product
<1>4. k * RxBit \in Nat
  BY <1>2
<1> QED
  BY <1>1, <1>2, <1>3, <1>4 DEF EdgeAt

(* The program polls more often than the line may change.                  *)
LEMMA PollsEachBit == PollGap \in Nat \ {0} /\ PollGap <= Bit
<1>1. 0 \in 0 .. DataBits /\ Bit \in Nat /\ PollGap \in Nat \ {0}
  BY Constants
<1>2. /\ EdgeAt(0 + 1) <= FirstHeard + 0 * RxBit
      /\ FirstHeard + 0 * RxBit + PollGap - 1 < EdgeAt(0 + 1) + Bit
      /\ FirstHeard + 0 * RxBit \in Nat
  BY <1>1, HearingMargins
<1>3. EdgeAt(0 + 1) \in Int
  BY EdgeTimes
<1> QED
  BY <1>1, <1>2, <1>3

(* Levels of a frame.                                                      *)
LEMMA LineLevels ==
  ASSUME NEW byte \in Byte
  PROVE  /\ \A i \in Nat : LineLevel(byte, i) \in Level
         /\ LineLevel(byte, 0) = 0 /\ LineLevel(byte, DataBits + 1) = 1
         /\ \A i \in 1 .. DataBits : LineLevel(byte, i) = byte[i]
<1>1. \A i \in 1 .. DataBits : byte[i] \in Level
  BY DEF Byte
<1>2. DataBits \in Nat /\ 0 \in Level /\ 1 \in Level
  BY Constants DEF Level
<1> QED
  BY <1>1, <1>2 DEF LineLevel

(* An event's fields.                                                      *)
LEMMA EventFields ==
  ASSUME NEW at, NEW does, NEW level, NEW token
  PROVE  /\ Event(at, does, level, token).at = at
         /\ Event(at, does, level, token).does = does
         /\ Event(at, does, level, token).level = level
         /\ Event(at, does, level, token).token = token
BY DEF Event

(* What a frame puts on the clock are its edges, from its lead on.         *)
LEMMA FrameEdges ==
  ASSUME NEW byte \in Byte, NEW lead \in Nat, NEW token,
         NEW first \in 0 .. 1, first = IF lead > 0 THEN 0 ELSE 1
  PROVE  Frame(byte, lead, token) =
           {Event(EdgeAt(i) - (0 - lead), "level", LineLevel(byte, i), token) :
              i \in first .. DataBits + 1}
           \cup {Event(FrameTime - (0 - lead), "next", 1, token)}
<1> DEFINE At(i) == Event(EdgeAt(i) - (0 - lead), "level", LineLevel(byte, i), token)
<1>0. DataBits \in Nat /\ DataBits > 0 /\ FrameTime \in Nat
  BY Constants, FrameLength
<1>1. At(0) = Event(lead, "level", 0, token)
  BY EdgeTimes, LineLevels
<1>2. ASSUME NEW i \in 1 .. DataBits
      PROVE  At(i) = Event(lead + i * Bit, "level", byte[i], token)
  <2>1. EdgeAt(i) - (0 - lead) = lead + i * Bit
    <3>1. EdgeAt(i) \in Int
      BY EdgeTimes
    <3> QED
      BY <3>1 DEF EdgeAt
  <2> QED
    BY <2>1, LineLevels
<1>3. At(DataBits + 1) = Event(lead + (1 + DataBits) * Bit, "level", 1, token)
  <2>1. EdgeAt(DataBits + 1) \in Int /\ EdgeAt(DataBits + 1) = (1 + DataBits) * Bit
    <3>1. DataBits + 1 = 1 + DataBits /\ DataBits + 1 \in Int
      BY <1>0
    <3> QED
      BY <3>1, EdgeTimes DEF EdgeAt
  <2>2. EdgeAt(DataBits + 1) - (0 - lead) = lead + (1 + DataBits) * Bit
    BY <2>1
  <2> QED
    BY <2>2, LineLevels
<1>4. FrameTime - (0 - lead) = lead + FrameTime
  BY <1>0
<1>5. Frame(byte, lead, token) =
        (IF lead > 0 THEN {At(0)} ELSE {}) \cup {At(i) : i \in 1 .. DataBits}
        \cup {At(DataBits + 1), Event(FrameTime - (0 - lead), "next", 1, token)}
  BY <1>1, <1>2, <1>3, <1>4 DEF Frame
<1> HIDE DEF At
<1>6. \A i : i \in first .. DataBits + 1
               <=> (lead > 0 /\ i = 0) \/ i \in 1 .. DataBits \/ i = DataBits + 1
  BY <1>0
<1>7. {At(i) : i \in first .. DataBits + 1} =
        (IF lead > 0 THEN {At(0)} ELSE {}) \cup {At(i) : i \in 1 .. DataBits} \cup {At(DataBits + 1)}
  BY <1>6
<1>8. Frame(byte, lead, token) = {At(i) : i \in first .. DataBits + 1}
                                 \cup {Event(FrameTime - (0 - lead), "next", 1, token)}
  BY <1>5, <1>7
<1> QED
  BY <1>8 DEF At

(* All of a frame's edges in their order.                                  *)
LEMMA EdgeOrder ==
  /\ DataBits \in Nat /\ FrameTime \in Nat /\ Bit \in Nat \ {0}
  /\ \A i \in Int : EdgeAt(i) \in Int
  /\ \A i \in Int : i <= DataBits + 1 => EdgeAt(i) + Bit <= FrameTime
  /\ \A i, k \in Int : i < k => EdgeAt(i) + Bit <= EdgeAt(k)
<1>1. DataBits \in Nat /\ Bit \in Nat \ {0}
  BY Constants
<1>2. FrameTime \in Nat /\ \A i \in Int : i <= DataBits + 1 => EdgeAt(i) + Bit <= FrameTime
  BY FrameLength
<1>3. \A i \in Int : EdgeAt(i) \in Int
  BY EdgeTimes
<1>4. ASSUME NEW i \in Int PROVE \A k \in Int : i < k => EdgeAt(i) + Bit <= EdgeAt(k)
  BY EdgeTimes
<1> QED
  BY <1>1, <1>2, <1>3, <1>4

-----------------------------------------------------------------------------
(* Steps that leave the line to the program alone. *)

(* Nothing depends on the decoder's events.                                *)
LEMMA KeepsRx ==
  ASSUME RxInv, Driving' = Driving, UNCHANGED <<rx, hearer, toProgram>>,
         \A e \in events' : e.does # "sample" => e \in events
  PROVE  RxInv'
<1>1. UNCHANGED <<progSent, progGot>>
  BY DEF toProgram
<1>2. /\ rx'.lead = 0
      /\ \A e \in events' : e.does # "sample" => e.token <= rx'.token
  BY DEF RxInv
<1>3. CASE Resting
  <2>1. Resting'
    BY <1>1, <1>3 DEF Resting
  <2> QED
    BY <1>2, <2>1 DEF RxInv
<1>4. CASE ~Resting
  <2>1. PICK byte \in Byte, j \in 0 .. DataBits + 2, t \in Int :
          OnLine(byte, j, t) /\ (Expecting(byte, t) \/ Receiving(byte, t) \/ Heard(t))
    BY <1>4 DEF RxInv
  <2>2. OnLine(byte, j, t)'
    BY <2>1 DEF OnLine, Remaining, LineLevel, EdgeAt
  <2>3. (Expecting(byte, t) \/ Receiving(byte, t) \/ Heard(t))'
    BY <1>1, <2>1 DEF Expecting, Receiving, Heard, EdgeAt
  <2> QED
    BY <1>2, <2>2, <2>3 DEF RxInv
<1> QED
  BY <1>3, <1>4

(* The decoder's steps and the program's writing.                          *)
LEMMA DecoderOffLine ==
  ASSUME Inv, RxInv,
         (\E e \in events : SampleBit(e)) \/ WriteBit \/ (\E byte \in TxBytes : Send(byte))
         \/ UNCHANGED vars
  PROVE  RxInv'
<1>1. \A c \in Int : SampleIn(c).does = "sample"
  BY SampleTyped
<1>2. FirstSample \in Int /\ Bit \in Int
  BY Constants
<1>3. CASE \E e \in events : SampleBit(e)
  <2>1. PICK e \in events : SampleBit(e)
    BY <1>3
  <2>2. e.does = "sample" /\ events' \in {events \ {e}, (events \ {e}) \cup {SampleIn(Bit)}}
        /\ UNCHANGED <<rx, hearer, toProgram>>
    BY <2>1 DEF SampleBit, program
  <2>3. Driving' = Driving /\ \A x \in events' : x.does # "sample" => x \in events
    BY <1>1, <1>2, <2>2 DEF Driving
  <2> QED
    BY <2>2, <2>3, KeepsRx
<1>4. CASE WriteBit
  <2>1. events' \in {events, events \cup {SampleIn(FirstSample)}}
        /\ UNCHANGED <<rx, hearer, toProgram>>
    BY <1>4 DEF WriteBit, RecordTxLevel
  <2>2. Driving' = Driving /\ \A x \in events' : x.does # "sample" => x \in events
    BY <1>1, <1>2, <2>1 DEF Driving
  <2> QED
    BY <2>1, <2>2, KeepsRx
<1>5. CASE (\E byte \in TxBytes : Send(byte)) \/ UNCHANGED vars
  <2>1. UNCHANGED <<events, rx, hearer, toProgram>>
    BY <1>5 DEF Send, vars, program
  <2>2. Driving' = Driving
    BY <2>1 DEF Driving
  <2> QED
    BY <2>1, <2>2, KeepsRx
<1> QED
  BY <1>3, <1>4, <1>5

(* The program turns to its input.                                         *)
LEMMA ListenOnLine ==
  ASSUME Inv, RxInv, Listen PROVE RxInv'
<1>1. UNCHANGED <<events, rx, toProgram>> /\ hearer.mode = "away"
  BY DEF Listen
<1>2. HearerOK
  BY TypeParts DEF Inv
<1>3. hearer'.mode = "listening"
  BY <1>2 DEF Listen, HearerOK
<1>4. Resting
  BY <1>1 DEF RxInv, Expecting, Receiving, Heard
<1>5. Resting'
  BY <1>1, <1>3, <1>4 DEF Resting, Driving, toProgram
<1> QED
  BY <1>1, <1>5 DEF RxInv

(* A reset leaves only events of before it, which it has disowned.         *)
LEMMA ResetOnLine ==
  ASSUME Inv, RxInv, Reset PROVE RxInv'
<1>1. EventsOK /\ rx \in RxSet /\ HistoryOK
  BY TypeParts DEF Inv
<1>2. rx.token \in Nat /\ rx'.token = rx.token + 1 /\ events' = events
  BY <1>1, Constants DEF Reset, RxSet
<1>3. \A e \in events : e.does # "sample" => e.token \in Nat /\ e.token <= rx.token
  BY <1>1, Constants DEF RxInv, EventsOK, EventSet
<1>4. \A e \in events' : e.does # "sample" => e.token <= rx'.token /\ e.token # rx'.token
  BY <1>2, <1>3
<1>5. Driving' = {}
  BY <1>4 DEF Driving
<1>6. /\ rx'.busy = FALSE /\ rx'.level = 1 /\ rx'.lead = 0 /\ rx'.bytes = <<>>
      /\ hearer'.mode = "away" /\ progSent' = progGot /\ progGot' = progGot
  BY DEF Reset
<1>7. progSent' = progGot' \o rx'.bytes
  BY <1>1, <1>6 DEF HistoryOK
<1>8. Resting'
  BY <1>5, <1>6, <1>7 DEF Resting
<1> QED
  BY <1>4, <1>6, <1>8 DEF RxInv

(* Sequences of bytes one after the other.                                 *)
LEMMA BytesJoined ==
  ASSUME NEW a \in Seq(Byte), NEW b \in Seq(Byte), NEW c \in Seq(Byte)
  PROVE  (a \o b) \o c = a \o (b \o c)
OBVIOUS

(* What the host queues comes after what waits.                            *)
LEMMA QueueOnLine ==
  ASSUME Inv, RxInv, NEW text \in Texts, QueueSerial(text) PROVE RxInv'
<1> DEFINE more == (IF rx.primed THEN <<>> ELSE <<NullByte>>) \o text
<1>1. rx \in RxSet /\ HistoryOK
  BY TypeParts DEF Inv
<1>2. more \in Seq(Byte)
  <2>1. text \in Seq(Byte) /\ NullByte \in Byte
    BY DataAssumption DEF DataAssumption, NullByte, Byte, Level
  <2> QED
    BY <2>1
<1>3. /\ rx' = [rx EXCEPT !.primed = TRUE, !.bytes = rx.bytes \o more, !.pending = Pending]
      /\ progSent' = progSent \o more
      /\ UNCHANGED <<events, hearer, progGot>>
  BY DEF QueueSerial, program
<1> HIDE DEF more
<1>4. /\ rx'.bytes = rx.bytes \o more /\ rx'.token = rx.token /\ rx'.lead = rx.lead
      /\ rx'.busy = rx.busy /\ rx'.level = rx.level
  BY <1>1, <1>3 DEF RxSet
<1>5. Driving' = Driving
  BY <1>3, <1>4 DEF Driving
<1>6. rx.bytes \in Seq(Byte) /\ progGot \in Seq(Byte)
  BY <1>1 DEF RxSet, HistoryOK
<1>7. ASSUME progSent = progGot \o rx.bytes PROVE progSent' = progGot' \o rx'.bytes
  <2>1. (progGot \o rx.bytes) \o more = progGot \o (rx.bytes \o more)
    BY <1>2, <1>6, BytesJoined
  <2> QED
    BY <1>3, <1>4, <1>7, <2>1
<1>8. ASSUME NEW byte \in Byte, progSent = progGot \o (<<byte>> \o rx.bytes)
      PROVE  progSent' = progGot' \o (<<byte>> \o rx'.bytes)
  <2>1. <<byte>> \in Seq(Byte) /\ <<byte>> \o rx.bytes \in Seq(Byte)
    BY <1>6
  <2>2. progSent' = progGot \o ((<<byte>> \o rx.bytes) \o more)
    BY <1>2, <1>3, <1>6, <1>8, <2>1, BytesJoined
  <2>3. (<<byte>> \o rx.bytes) \o more = <<byte>> \o (rx.bytes \o more)
    BY <1>2, <1>6, <2>1, BytesJoined
  <2> QED
    BY <1>3, <1>4, <2>2, <2>3
<1>9. CASE Resting
  <2>1. Resting'
    BY <1>3, <1>4, <1>5, <1>7, <1>9 DEF Resting
  <2> QED
    BY <1>3, <1>4, <2>1 DEF RxInv
<1>10. CASE ~Resting
  <2>1. PICK byte \in Byte, j \in 0 .. DataBits + 2, t \in Int :
          OnLine(byte, j, t) /\ (Expecting(byte, t) \/ Receiving(byte, t) \/ Heard(t))
    BY <1>10 DEF RxInv
  <2>2. OnLine(byte, j, t)'
    BY <1>4, <1>5, <2>1 DEF OnLine, Remaining, LineLevel, EdgeAt
  <2>3. (Expecting(byte, t) \/ Receiving(byte, t) \/ Heard(t))'
    BY <1>3, <1>7, <1>8, <2>1 DEF Expecting, Receiving, Heard, EdgeAt
  <2> QED
    BY <1>3, <1>4, <2>2, <2>3 DEF RxInv
<1> QED
  BY <1>9, <1>10

(* At first nothing is under way.                                          *)
LEMMA InitOnLine == Init => RxInv
<1> SUFFICES ASSUME Init PROVE RxInv
  OBVIOUS
<1>1. Driving = {}
  BY DEF Init, Driving
<1>2. /\ rx.busy = FALSE /\ rx.level = 1 /\ rx.lead = 0 /\ rx.bytes = <<>>
      /\ hearer.mode = "away" /\ progSent = <<>> /\ progGot = <<>> /\ events = {}
  BY DEF Init
<1>3. progSent = progGot \o rx.bytes
  BY <1>2
<1>4. Resting
  BY <1>1, <1>2, <1>3 DEF Resting
<1> QED
  BY <1>2, <1>4 DEF RxInv

-----------------------------------------------------------------------------
(* Steps of the driver. *)

(* Between bytes the driver has no edge on the clock.                      *)
LEMMA OnClock ==
  ASSUME Inv, RxInv, NEW e \in events
  PROVE  /\ e \in EventSet /\ e.at \in Int
         /\ e.does = "level" \/ e.does = "next" => (Live(e) <=> e \in Driving)
<1>1. e \in EventSet
  BY TypeParts DEF Inv, EventsOK
<1>2. e.at \in Int
  BY <1>1 DEF EventSet
<1>3. e.does = "level" \/ e.does = "next" => (Live(e) <=> e \in Driving)
  BY DEF Live, Driving
<1> QED
  BY <1>1, <1>2, <1>3

(* The first of a frame's edges that remain, or its end after all of them, *)
(* is the driver's next event.                                             *)
LEMMA NextEdge ==
  ASSUME Inv, RxInv, NEW e \in Driving, Served(e),
         NEW byte \in Byte, NEW j \in 0 .. DataBits + 2, NEW t \in Int,
         Driving = Remaining(byte, j, t)
  PROVE  /\ e.does = "level" => /\ j \in 0 .. DataBits + 1
                                /\ e = Event(EdgeAt(j) - t, "level", LineLevel(byte, j), rx.token)
                                /\ EdgeAt(j) <= t
         /\ e.does = "next" => /\ j = DataBits + 2
                               /\ e = Event(FrameTime - t, "next", 1, rx.token)
                               /\ FrameTime <= t
<1> DEFINE At(i) == Event(EdgeAt(i) - t, "level", LineLevel(byte, i), rx.token)
           End == Event(FrameTime - t, "next", 1, rx.token)
<1>1. /\ Driving = {At(i) : i \in j .. DataBits + 1} \cup {End}
      /\ Driving \subseteq events
  BY DEF Remaining, Driving
<1>2. \A i : At(i).at = EdgeAt(i) - t /\ At(i).does = "level"
  BY EventFields
<1>3. End.at = FrameTime - t /\ End.does = "next"
  BY EventFields
<1>4. e.at <= 0 /\ \A f \in Driving : e.at <= f.at
  BY <1>1 DEF Served
<1>5. /\ FrameTime \in Nat /\ DataBits \in Nat /\ Bit \in Nat \ {0}
      /\ \A i \in Int : EdgeAt(i) \in Int
      /\ \A i \in Int : i <= DataBits + 1 => EdgeAt(i) + Bit <= FrameTime
      /\ \A i, k \in Int : i < k => EdgeAt(i) + Bit <= EdgeAt(k)
  BY EdgeOrder
<1> HIDE DEF At, End
<1>6. ASSUME NEW i \in j .. DataBits + 1, e = At(i)
      PROVE  i = j /\ EdgeAt(j) <= t
  <2>1. i \in Int /\ j \in Int /\ j <= i /\ j \in j .. DataBits + 1
    BY <1>5
  <2>2. EdgeAt(i) - t <= 0 /\ EdgeAt(i) - t <= EdgeAt(j) - t
    BY <1>1, <1>2, <1>4, <1>6, <2>1
  <2>3. ~(j < i)
    BY <1>5, <2>1, <2>2
  <2> QED
    BY <1>5, <2>1, <2>2, <2>3
<1>7. CASE e = End
  <2>1. FrameTime <= t
    BY <1>3, <1>4, <1>5, <1>7
  <2>2. ~(j <= DataBits + 1)
    <3> SUFFICES ASSUME j <= DataBits + 1 PROVE FALSE
      OBVIOUS
    <3>1. j \in Int /\ j \in j .. DataBits + 1
      BY <1>5
    <3>2. FrameTime - t <= EdgeAt(j) - t
      BY <1>1, <1>2, <1>3, <1>4, <1>7, <3>1
    <3> QED
      BY <1>5, <3>1, <3>2
  <2>3. j = DataBits + 2
    BY <1>5, <2>2
  <2> QED
    BY <1>3, <1>7, <2>1, <2>3 DEF End
<1>8. CASE \E i \in j .. DataBits + 1 : e = At(i)
  <2>1. e = At(j) /\ EdgeAt(j) <= t /\ j \in 0 .. DataBits + 1
    <3>1. PICK i \in j .. DataBits + 1 : e = At(i)
      BY <1>8
    <3>2. i = j /\ EdgeAt(j) <= t
      BY <1>6, <3>1
    <3> QED
      BY <1>5, <3>1, <3>2
  <2> QED
    BY <1>2, <2>1 DEF At
<1> QED
  BY <1>1, <1>7, <1>8

(* An edge that is past is off the clock.                                  *)
LEMMA EdgePasses ==
  ASSUME NEW byte \in Byte, NEW j \in 0 .. DataBits + 1, NEW t \in Int
  PROVE  Remaining(byte, j, t) \ {Event(EdgeAt(j) - t, "level", LineLevel(byte, j), rx.token)}
           = Remaining(byte, j + 1, t)
<1> DEFINE At(i) == Event(EdgeAt(i) - t, "level", LineLevel(byte, i), rx.token)
           End == Event(FrameTime - t, "next", 1, rx.token)
<1>1. /\ \A i : At(i).at = EdgeAt(i) - t /\ At(i).does = "level"
      /\ End.does = "next"
  BY EventFields
<1>2. /\ DataBits \in Nat /\ Bit \in Nat \ {0}
      /\ \A i \in Int : EdgeAt(i) \in Int
      /\ \A i, k \in Int : i < k => EdgeAt(i) + Bit <= EdgeAt(k)
  BY EdgeOrder
<1>3. /\ Remaining(byte, j, t) = {At(i) : i \in j .. DataBits + 1} \cup {End}
      /\ Remaining(byte, j + 1, t) = {At(i) : i \in j + 1 .. DataBits + 1} \cup {End}
  BY DEF Remaining
<1> HIDE DEF At, End
<1>4. /\ j \in j .. DataBits + 1
      /\ \A i \in j .. DataBits + 1 : i = j \/ i \in j + 1 .. DataBits + 1
      /\ \A i \in j + 1 .. DataBits + 1 : i \in j .. DataBits + 1
  <2>1. PICK last \in Nat : last = DataBits + 1
    BY <1>2
  <2>2. j \in 0 .. last
    BY <2>1
  <2>3. /\ j \in j .. last /\ \A i \in j .. last : i = j \/ i \in j + 1 .. last
        /\ \A i \in j + 1 .. last : i \in j .. last
    BY <2>1, <2>2
  <2> QED
    BY <2>1, <2>3
<1>5. \A i \in j + 1 .. DataBits + 1 : At(i) # At(j)
  <2> SUFFICES ASSUME NEW i \in j + 1 .. DataBits + 1 PROVE At(i).at # At(j).at
    OBVIOUS
  <2>1. i \in Int /\ j \in Int /\ j < i
    BY <1>2
  <2> QED
    BY <1>1, <1>2, <2>1
<1>6. End # At(j)
  BY <1>1
<1>7. ({At(i) : i \in j .. DataBits + 1} \cup {End}) \ {At(j)}
        = {At(i) : i \in j + 1 .. DataBits + 1} \cup {End}
  BY <1>4, <1>5, <1>6
<1>8. Remaining(byte, j, t) \ {At(j)} = Remaining(byte, j + 1, t)
  BY <1>3, <1>7
<1> QED
  BY <1>8 DEF At

(* A change of level is the frame's next edge, or one of before a reset.   *)
LEMMA EdgeOnLine ==
  ASSUME Inv, RxInv, NEW e \in events, Served(e), RxLevelChange(e) PROVE RxInv'
<1>1. e.does = "level" /\ events' = events \ {e} /\ UNCHANGED <<hearer, toProgram>>
  BY DEF RxLevelChange, program
<1>2. CASE ~Live(e)
  <2>1. rx' = rx
    BY <1>2 DEF RxLevelChange
  <2>2. e \notin Driving
    BY <1>2 DEF Driving, Live
  <2>3. Driving' = Driving
    BY <1>1, <2>1, <2>2 DEF Driving
  <2> QED
    BY <1>1, <2>1, <2>3, KeepsRx
<1>3. CASE Live(e)
  <2>1. e \in Driving /\ rx \in RxSet
    BY <1>1, <1>3, TypeParts DEF Driving, Live, Inv
  <2>2. PICK byte \in Byte, j \in 0 .. DataBits + 2, t \in Int :
          OnLine(byte, j, t) /\ (Expecting(byte, t) \/ Receiving(byte, t) \/ Heard(t))
    BY <2>1 DEF RxInv, Resting
  <2>3. Driving = Remaining(byte, j, t)
    BY <2>2 DEF OnLine
  <2>4. /\ j \in 0 .. DataBits + 1
        /\ e = Event(EdgeAt(j) - t, "level", LineLevel(byte, j), rx.token)
        /\ EdgeAt(j) <= t
    BY <1>1, <2>1, <2>3, NextEdge
  <2>5. rx' = [rx EXCEPT !.level = LineLevel(byte, j)]
    BY <1>3, <2>4, EventFields DEF RxLevelChange
  <2>6. /\ rx'.level = LineLevel(byte, j) /\ rx'.token = rx.token /\ rx'.busy = rx.busy
        /\ rx'.bytes = rx.bytes /\ rx'.lead = rx.lead
    BY <2>1, <2>5 DEF RxSet
  <2>7. Driving' = Driving \ {e}
    BY <1>1, <2>6 DEF Driving
  <2>8. Driving' = Remaining(byte, j + 1, t)
    BY <2>3, <2>4, <2>7, EdgePasses
  <2>9. j + 1 \in 0 .. DataBits + 2 /\ j + 1 # 0 /\ (j + 1) - 1 = j
    BY <2>4, Constants
  <2>10. OnLine(byte, j + 1, t)'
    <3>1. Driving' = Remaining(byte, j + 1, t)'
      BY <2>6, <2>8 DEF Remaining, LineLevel, EdgeAt
    <3>2. EdgeAt((j + 1) - 1) <= t /\ rx'.level = LineLevel(byte, (j + 1) - 1)
      BY <2>4, <2>6, <2>9
    <3> QED
      BY <2>2, <2>6, <2>9, <3>1, <3>2 DEF OnLine, LineLevel, EdgeAt
  <2>11. (Expecting(byte, t) \/ Receiving(byte, t) \/ Heard(t))'
    BY <1>1, <2>2, <2>6 DEF Expecting, Receiving, Heard, EdgeAt, toProgram
  <2>12. /\ rx'.lead = 0
         /\ \A x \in events' : x.does # "sample" => x.token <= rx'.token
    BY <1>1, <2>6 DEF RxInv
  <2> QED
    BY <2>9, <2>10, <2>11, <2>12 DEF RxInv
<1> QED
  BY <1>2, <1>3

(* A new frame: what begins a byte puts its edges on an empty clock.       *)
LEMMA FrameBegins ==
  ASSUME NEW r \in RxSet, r.bytes # <<>>, rx' = StartNextSerialRx(r), rx.token = r.token,
         NEW rest, \A e \in rest : e.does = "sample" \/ e.token # r.token,
         events' = rest \cup StartedFrame(r),
         NEW first \in 0 .. 1, first = IF r.lead > 0 THEN 0 ELSE 1
  PROVE  /\ Head(r.bytes) \in Byte /\ Tail(r.bytes) \in Seq(Byte)
         /\ r.bytes = <<Head(r.bytes)>> \o Tail(r.bytes)
         /\ rx'.bytes = Tail(r.bytes) /\ rx'.lead = 0 /\ rx'.token = r.token
         /\ first \in 0 .. DataBits + 2 /\ 0 - r.lead \in Int
         /\ OnLine(Head(r.bytes), first, 0 - r.lead)'
<1>1. /\ r.bytes \in Seq(Byte) /\ r.lead \in Nat /\ r.token \in 0 .. MaxResets
  BY DEF RxSet
<1>2. PICK byte : byte = Head(r.bytes)
  OBVIOUS
<1>3. byte \in Byte /\ Tail(r.bytes) \in Seq(Byte) /\ r.bytes = <<byte>> \o Tail(r.bytes)
  BY <1>1, <1>2
<1>4. /\ rx'.busy = TRUE /\ rx'.bytes = Tail(r.bytes) /\ rx'.lead = 0
      /\ rx'.level = (IF first = 0 THEN 1 ELSE 0) /\ rx'.token = r.token
  BY DEF StartNextSerialRx, RxSet
<1>5. StartedFrame(r) = {Event(EdgeAt(i) - (0 - r.lead), "level", LineLevel(byte, i), r.token) :
                           i \in first .. DataBits + 1}
                        \cup {Event(FrameTime - (0 - r.lead), "next", 1, r.token)}
  BY <1>1, <1>2, <1>3, FrameEdges DEF StartedFrame
<1>6. \A e \in StartedFrame(r) : e.does # "sample" /\ e.token = r.token
  <2>1. \A at, level, does : /\ Event(at, does, level, r.token).token = r.token
                             /\ Event(at, does, level, r.token).does = does
    BY EventFields
  <2> QED
    BY <1>5, <2>1
<1>7. Driving' = StartedFrame(r)
  BY <1>4, <1>6 DEF Driving
<1>8. OnLine(byte, first, 0 - r.lead)'
  <2>1. Driving' = Remaining(byte, first, 0 - r.lead)'
    BY <1>4, <1>5, <1>7 DEF Remaining, EdgeAt, LineLevel
  <2>2. rx'.level = IF first = 0 THEN 1 ELSE LineLevel(byte, first - 1)
    <3>1. first # 0 => first - 1 = 0
      OBVIOUS
    <3> QED
      BY <1>3, <1>4, <3>1, LineLevels
  <2>3. first > 0 => EdgeAt(first - 1) <= 0 - r.lead
    <3>1. first > 0 => first - 1 = 0 /\ 0 - r.lead = 0
      BY <1>1
    <3>2. EdgeAt(0) = 0
      BY EdgeTimes
    <3> QED
      BY <3>1, <3>2
  <2> QED
    BY <1>4, <2>1, <2>2, <2>3 DEF OnLine, EdgeAt, LineLevel
<1>9. first \in 0 .. DataBits + 2 /\ 0 - r.lead \in Int
  BY <1>1, Constants
<1> QED
  BY <1>2, <1>3, <1>4, <1>8, <1>9

(* The end of a frame comes when the byte was heard; the next begins, or   *)
(* the line rests.                                                         *)
LEMMA FrameDoneOnLine ==
  ASSUME Inv, RxInv, NEW e \in events, Served(e), RxFrameDone(e) PROVE RxInv'
<1>1. e.does = "next" /\ UNCHANGED <<hearer, progSent, progGot>>
  BY DEF RxFrameDone, program, toProgram
<1>2. CASE ~Live(e)
  <2>1. rx' = rx /\ events' = events \ {e}
    BY <1>2 DEF RxFrameDone
  <2>2. e \notin Driving
    BY <1>2 DEF Driving, Live
  <2>3. Driving' = Driving
    BY <2>1, <2>2 DEF Driving
  <2> QED
    BY <1>1, <2>1, <2>3, KeepsRx DEF toProgram
<1>3. CASE Live(e)
  <2>1. e \in Driving /\ rx \in RxSet /\ HistoryOK /\ HearerOK
    BY <1>1, <1>3, TypeParts DEF Driving, Live, Inv
  <2>2. PICK byte \in Byte, j \in 0 .. DataBits + 2, t \in Int :
          OnLine(byte, j, t) /\ (Expecting(byte, t) \/ Receiving(byte, t) \/ Heard(t))
    BY <2>1 DEF RxInv, Resting
  <2>3. Driving = Remaining(byte, j, t)
    BY <2>2 DEF OnLine
  <2>4. /\ j = DataBits + 2 /\ FrameTime <= t
        /\ e = Event(FrameTime - t, "next", 1, rx.token)
    BY <1>1, <2>1, <2>3, NextEdge
  <2>5. Driving = {e}
    <3>1. j .. DataBits + 1 = {}
      BY <2>4, Constants
    <3> QED
      BY <2>3, <2>4, <3>1 DEF Remaining
  <2>6. Heard(t)
    <3>1. hearer.wait \in Nat /\ Len(hearer.bits) \in Nat
      BY <2>1 DEF HearerOK
    <3>2. /\ FrameTime \in Nat /\ Bit \in Nat /\ PollGap \in Nat /\ PollGap <= Bit
          /\ Bit <= FrameTime
      <4>1. 0 <= DataBits + 1 /\ 0 \in Int /\ Bit \in Nat
        BY Constants
      <4>2. EdgeAt(0) = 0
        BY EdgeTimes
      <4>3. EdgeAt(0) + Bit <= FrameTime /\ FrameTime \in Nat
        BY <4>1, FrameLength
      <4> QED
        BY <4>1, <4>2, <4>3, PollsEachBit
    <3>3. ~Expecting(byte, t)
      BY <2>4, <3>1, <3>2 DEF Expecting
    <3>4. ~Receiving(byte, t)
      <4> SUFFICES ASSUME Receiving(byte, t) PROVE FALSE
        OBVIOUS
      <4>1. PICK m \in 0 .. DataBits : m = Len(hearer.bits)
        BY <3>1, Constants DEF Receiving
      <4>2. PICK h \in Nat : h = FirstHeard + m * RxBit
        BY HearingMargins
      <4>3. t + hearer.wait - h \in 0 .. PollGap - 1
        BY <4>1, <4>2 DEF Receiving
      <4>4. h + PollGap - 1 < FrameTime
        <5>1. h + PollGap - 1 < EdgeAt(m + 1) + Bit
          BY <4>2, HearingMargins
        <5>2. m + 1 \in Int /\ m + 1 <= DataBits + 1
          BY Constants
        <5>3. EdgeAt(m + 1) + Bit <= FrameTime /\ EdgeAt(m + 1) \in Int
          BY <5>2, FrameLength, EdgeTimes
        <5> QED
          BY <3>2, <5>1, <5>3
      <4> QED
        BY <2>4, <3>1, <3>2, <4>3, <4>4
    <3> QED
      BY <2>2, <3>3, <3>4
  <2>7. /\ rx' = StartNextSerialRx(rx)
        /\ events' = (events \ {e}) \cup StartedFrame(rx)
    BY <1>3 DEF RxFrameDone
  <2>8. \A x \in events \ {e} : x.does = "sample" \/ x.token # rx.token
    BY <2>5 DEF Driving
  <2>9. rx.lead = 0 /\ \A x \in events : x.does # "sample" => x.token <= rx.token
    BY DEF RxInv
  <2>10. /\ hearer.mode = "listening" /\ hearer.wait \in Nat /\ hearer.wait < PollGap
         /\ progSent = progGot \o rx.bytes
    <3>1. hearer.wait \in Nat /\ PollGap \in Nat /\ FrameTime \in Nat
      BY <2>1, Constants, FrameLength DEF HearerOK
    <3> QED
      BY <2>4, <2>6, <3>1 DEF Heard
  <2>11. CASE rx.bytes = <<>>
    <3>1. /\ rx'.busy = FALSE /\ rx'.level = 1 /\ rx'.lead = 0 /\ rx'.token = rx.token
          /\ rx'.bytes = rx.bytes
      BY <2>1, <2>7, <2>9, <2>11 DEF StartNextSerialRx, RxSet
    <3>2. events' = events \ {e}
      BY <2>7, <2>11 DEF StartedFrame
    <3>3. Driving' = {}
      BY <2>8, <3>1, <3>2 DEF Driving
    <3>4. Resting'
      BY <1>1, <2>10, <3>1, <3>3 DEF Resting
    <3> QED
      BY <2>9, <3>1, <3>2, <3>4 DEF RxInv
  <2>12. CASE rx.bytes # <<>>
    <3>0. PICK r \in RxSet : r = rx
      BY <2>1
    <3>1. 1 \in 0 .. 1 /\ 0 - r.lead = 0 /\ 1 = IF r.lead > 0 THEN 0 ELSE 1
      BY <2>9, <3>0
    <3>a. PICK next : next = Head(r.bytes)
      OBVIOUS
    <3>b. /\ r.bytes # <<>> /\ rx' = StartNextSerialRx(r) /\ rx.token = r.token
          /\ \A x \in events \ {e} : x.does = "sample" \/ x.token # r.token
          /\ events' = (events \ {e}) \cup StartedFrame(r)
      BY <2>7, <2>8, <2>12, <3>0
    <3>2. /\ next \in Byte /\ r.bytes = <<next>> \o rx'.bytes
          /\ rx'.lead = 0 /\ rx'.token = rx.token
          /\ 1 \in 0 .. DataBits + 2
          /\ OnLine(next, 1, 0)'
      BY <3>0, <3>1, <3>a, <3>b, FrameBegins
    <3>3. Expecting(next, 0)'
      BY <1>1, <2>10, <3>0, <3>2 DEF Expecting
    <3>4. \A x \in events' : x.does # "sample" => x.token <= rx'.token
      <4>1. \A x \in StartedFrame(rx) : x.token = rx.token
        <5>1. \A at, level, does : Event(at, does, level, rx.token).token = rx.token
          BY EventFields
        <5> QED
          BY <5>1 DEF StartedFrame, Frame
      <4>2. rx.token \in Nat
        BY <2>1, Constants DEF RxSet
      <4> QED
        BY <2>7, <2>9, <3>2, <4>1, <4>2
    <3> QED
      BY <3>2, <3>3, <3>4 DEF RxInv
  <2> QED
    BY <2>11, <2>12
<1> QED
  BY <1>2, <1>3

-----------------------------------------------------------------------------
(* Steps of the program. *)

(* When no event is due, the line has the level of the bit that the time   *)
(* says, and the frame is not over.                                        *)
LEMMA LevelAt ==
  ASSUME ~Due, NEW byte \in Byte, NEW j \in 0 .. DataBits + 2, NEW t \in Int,
         OnLine(byte, j, t)
  PROVE  /\ t < FrameTime
         /\ t < 0 => rx.level = 1
         /\ \A i \in 0 .. DataBits + 1 :
              EdgeAt(i) <= t /\ (t < EdgeAt(i) + Bit \/ i = DataBits + 1)
                => rx.level = LineLevel(byte, i)
<1> DEFINE At(i) == Event(EdgeAt(i) - t, "level", LineLevel(byte, i), rx.token)
           End == Event(FrameTime - t, "next", 1, rx.token)
<1>1. Driving = {At(i) : i \in j .. DataBits + 1} \cup {End} /\ Driving \subseteq events
  BY DEF OnLine, Remaining, Driving
<1>2. \A e \in Driving : ~(e.at <= 0)
  BY <1>1 DEF Due
<1>3. (\A i : At(i).at = EdgeAt(i) - t) /\ End.at = FrameTime - t
  BY EventFields
<1> HIDE DEF At, End
<1>4. t < FrameTime
  <2>1. ~(FrameTime - t <= 0)
    BY <1>1, <1>2, <1>3
  <2> QED
    BY <2>1, FrameLength
<1>5. ASSUME NEW i \in j .. DataBits + 1 PROVE ~(EdgeAt(i) - t <= 0)
  BY <1>1, <1>2, <1>3
<1>6. /\ rx.level = IF j = 0 THEN 1 ELSE LineLevel(byte, j - 1)
      /\ j > 0 => EdgeAt(j - 1) <= t
  BY DEF OnLine
<1>7. ASSUME NEW i \in 0 .. DataBits + 1, EdgeAt(i) <= t, t < EdgeAt(i) + Bit \/ i = DataBits + 1
      PROVE  rx.level = LineLevel(byte, i)
  <2>1. i \in Int /\ j \in Int /\ i >= 0 /\ i <= DataBits + 1 /\ j <= DataBits + 2 /\ DataBits \in Nat
    BY EdgeOrder
  <2>2. EdgeAt(i) \in Int
    BY <2>1, EdgeOrder
  <2>3. i < j
    <3> SUFFICES ASSUME ~(i < j) PROVE FALSE
      OBVIOUS
    <3>1. i \in j .. DataBits + 1
      BY <2>1
    <3> QED
      BY <1>5, <1>7, <2>2, <3>1
  <2>4. ~(i < j - 1)
    <3> SUFFICES ASSUME i < j - 1 PROVE FALSE
      OBVIOUS
    <3>1. EdgeAt(i) + Bit <= EdgeAt(j - 1) /\ EdgeAt(j - 1) \in Int
      BY <2>1, EdgeOrder
    <3>2. i # DataBits + 1 /\ Bit \in Nat
      BY <2>1, Constants
    <3> QED
      BY <1>6, <1>7, <2>1, <2>2, <3>1, <3>2
  <2>5. i = j - 1 /\ j # 0
    BY <2>1, <2>3, <2>4
  <2> QED
    BY <1>6, <2>5
<1>8. ASSUME t < 0 PROVE rx.level = 1
  <2>1. j > 0 => 0 <= EdgeAt(j - 1)
    <3> SUFFICES ASSUME j > 0 PROVE 0 <= EdgeAt(j - 1)
      OBVIOUS
    <3>1. j - 1 \in Int /\ 0 \in Int /\ (j - 1 = 0 \/ 0 < j - 1)
      OBVIOUS
    <3>2. EdgeAt(0) = 0 /\ Bit \in Nat
      BY EdgeTimes, Constants
    <3>3. 0 < j - 1 => EdgeAt(0) + Bit <= EdgeAt(j - 1)
      BY <3>1, EdgeOrder
    <3>4. EdgeAt(j - 1) \in Int
      BY <3>1, EdgeOrder
    <3> QED
      BY <3>1, <3>2, <3>3, <3>4
  <2>2. j > 0 => EdgeAt(j - 1) \in Int
    BY EdgeOrder
  <2>3. j = 0
    BY <1>6, <1>8, <2>1, <2>2
  <2> QED
    BY <1>6, <2>3
<1> QED
  BY <1>4, <1>7, <1>8

(* A read of the port that finds the driver busy, or with nothing to send, *)
(* changes nothing.                                                        *)
LEMMA BusyRead == ASSUME PortRead, rx.busy PROVE UNCHANGED <<rx, events>>
BY DEF PortRead

(* The program polls and finds the start bit, or no bit.                   *)
LEMMA PollOnLine ==
  ASSUME Inv, RxInv, Poll PROVE RxInv'
<1>1. ~Due /\ hearer.mode = "listening" /\ hearer.wait = 0 /\ PortRead
      /\ UNCHANGED <<progSent, progGot>>
  BY DEF Poll, toProgram
<1>2. rx \in RxSet /\ HearerOK /\ HistoryOK
  BY TypeParts DEF Inv
<1>3. /\ hearer = [mode |-> hearer.mode, wait |-> hearer.wait, bits |-> hearer.bits]
      /\ hearer' = IF rx'.level = 0
                   THEN [mode |-> "receiving", wait |-> FirstHeard, bits |-> <<>>]
                   ELSE [hearer EXCEPT !.wait = PollGap]
  BY <1>2 DEF Poll, HearerOK
<1>4. rx'.level # 0 => hearer'.mode = "listening" /\ hearer'.wait = PollGap
  BY <1>1, <1>3
<1>5. rx.lead = 0 /\ \A x \in events : x.does # "sample" => x.token <= rx.token
  BY DEF RxInv
<1>6. CASE Resting /\ ~(UNCHANGED <<rx, events>>)
  <2>1. PICK r : r = [rx EXCEPT !.pending = FALSE, !.lead = 2 * Bit]
    OBVIOUS
  <2>2. rx' = StartNextSerialRx(r) /\ events' = events \cup StartedFrame(r) /\ rx.bytes # <<>>
    BY <1>1, <1>6, <2>1 DEF PortRead
  <2>3. 2 * Bit \in Nat /\ 2 * Bit > 0 /\ PollGap \in Nat
    BY Constants
  <2>4. r \in RxSet /\ r.bytes = rx.bytes /\ r.token = rx.token /\ r.lead = 2 * Bit
    BY <1>2, <2>1, <2>3 DEF RxSet
  <2>5. \A x \in events : x.does = "sample" \/ x.token # r.token
    BY <1>6, <2>4 DEF Resting, Driving
  <2>6. PICK t \in Int : t = 0 - r.lead /\ t < 0
    BY <2>3, <2>4
  <2>7. PICK next : next = Head(r.bytes)
    OBVIOUS
  <2>8. 0 \in 0 .. 1 /\ 0 = IF r.lead > 0 THEN 0 ELSE 1
    BY <2>3, <2>4
  <2>9. /\ next \in Byte /\ r.bytes = <<next>> \o rx'.bytes
        /\ rx'.lead = 0 /\ rx'.token = rx.token
        /\ 0 \in 0 .. DataBits + 2
        /\ OnLine(next, 0, t)'
    BY <2>2, <2>4, <2>5, <2>6, <2>7, <2>8, FrameBegins
  <2>10. rx'.level = 1
    BY <2>9 DEF OnLine
  <2>11. Expecting(next, t)'
    <3>1. hearer'.mode = "listening" /\ hearer'.wait = PollGap
      BY <1>4, <2>10
    <3>2. t + PollGap < PollGap
      BY <2>3, <2>6
    <3>3. progSent' = progGot' \o (<<next>> \o rx'.bytes)
      BY <1>1, <1>6, <2>4, <2>9 DEF Resting
    <3> QED
      BY <3>1, <3>2, <3>3 DEF Expecting
  <2>12. \A x \in events' : x.does # "sample" => x.token <= rx'.token
    <3>1. \A x \in StartedFrame(r) : x.token = r.token
      <4>1. \A at, level, does : Event(at, does, level, r.token).token = r.token
        BY EventFields
      <4> QED
        BY <4>1 DEF StartedFrame, Frame
    <3>2. rx.token \in Nat
      BY <1>2, Constants DEF RxSet
    <3> QED
      BY <1>5, <2>2, <2>4, <2>9, <3>1, <3>2
  <2> QED
    BY <2>6, <2>9, <2>11, <2>12 DEF RxInv
<1>7. CASE Resting /\ UNCHANGED <<rx, events>>
  <2>1. Resting'
    <3>1. hearer'.mode # "receiving"
      BY <1>4, <1>7 DEF Resting
    <3> QED
      BY <1>1, <1>7, <3>1 DEF Resting, Driving
  <2> QED
    BY <1>5, <1>7, <2>1 DEF RxInv
<1>8. CASE ~Resting
  <2>1. PICK byte \in Byte, j \in 0 .. DataBits + 2, t \in Int :
          OnLine(byte, j, t) /\ (Expecting(byte, t) \/ Receiving(byte, t) \/ Heard(t))
    BY <1>8 DEF RxInv
  <2>2. rx.busy
    BY <2>1 DEF OnLine
  <2>3. UNCHANGED <<rx, events>>
    BY <1>1, <2>2, BusyRead
  <2>4. OnLine(byte, j, t)'
    <3>1. Driving' = Driving
      BY <2>3 DEF Driving
    <3> QED
      BY <2>1, <2>3, <3>1 DEF OnLine, Remaining, LineLevel, EdgeAt
  <2>5. /\ t < FrameTime /\ (t < 0 => rx.level = 1)
        /\ \A i \in 0 .. DataBits + 1 :
             EdgeAt(i) <= t /\ (t < EdgeAt(i) + Bit \/ i = DataBits + 1)
               => rx.level = LineLevel(byte, i)
    BY <1>1, <2>1, LevelAt
  <2>6. /\ PollGap \in Nat /\ PollGap <= Bit /\ Bit \in Nat /\ FirstHeard \in Nat
        /\ RxBit \in Nat /\ FrameTime \in Nat /\ DataBits \in Nat
    BY PollsEachBit, FrameLength, Constants
  <2>7. (Expecting(byte, t) \/ Receiving(byte, t) \/ Heard(t))'
    <3>1. CASE Expecting(byte, t) /\ t < 0
      <4>1. hearer'.mode = "listening" /\ hearer'.wait = PollGap /\ t + PollGap < PollGap
        BY <1>4, <2>3, <2>5, <2>6, <3>1
      <4> QED
        BY <1>1, <2>3, <3>1, <4>1 DEF Expecting
    <3>2. CASE Expecting(byte, t) /\ ~(t < 0)
      <4>1. t < PollGap
        BY <1>1, <3>2 DEF Expecting
      <4>2. EdgeAt(0) <= t /\ t < EdgeAt(0) + Bit /\ 0 \in 0 .. DataBits + 1
        <5>1. EdgeAt(0) = 0
          BY EdgeTimes
        <5>2. t < Bit
          BY <2>6, <4>1
        <5>3. 0 \in 0 .. DataBits + 1
          BY <2>6
        <5> QED
          BY <2>6, <3>2, <5>1, <5>2, <5>3
      <4>3. rx.level = 0
        BY <2>5, <4>2, LineLevels
      <4>4. hearer' = [mode |-> "receiving", wait |-> FirstHeard, bits |-> <<>>]
        BY <1>3, <2>3, <4>3
      <4>5. t + FirstHeard - (FirstHeard + 0 * RxBit) \in 0 .. PollGap - 1
        BY <2>6, <3>2, <4>1
      <4>6. /\ hearer'.mode = "receiving" /\ Len(hearer'.bits) = 0
            /\ hearer'.wait = FirstHeard
        BY <4>4
      <4>7. progSent' = progGot' \o (<<byte>> \o rx'.bytes)
        BY <1>1, <2>3, <3>2 DEF Expecting
      <4>8. Receiving(byte, t)'
        BY <2>6, <4>5, <4>6, <4>7 DEF Receiving
      <4> QED
        BY <4>8
    <3>3. CASE Heard(t)
      <4>1. EdgeAt(DataBits + 1) <= t /\ DataBits + 1 \in 0 .. DataBits + 1
        BY <2>6, <3>3 DEF Heard
      <4>2. rx.level = 1
        BY <2>5, <4>1, LineLevels
      <4>3. hearer'.mode = "listening" /\ hearer'.wait = PollGap
        BY <1>4, <2>3, <4>2
      <4>4. t + PollGap < FrameTime + PollGap
        BY <2>5, <2>6
      <4>5. Heard(t)'
        BY <1>1, <2>3, <3>3, <4>3, <4>4 DEF Heard, EdgeAt
      <4> QED
        BY <4>5
    <3> QED
      BY <1>1, <2>1, <3>1, <3>2, <3>3 DEF Receiving
  <2> QED
    BY <1>5, <2>3, <2>4, <2>7 DEF RxInv
<1> QED
  BY <1>6, <1>7, <1>8

(* While the program is inside a byte, the driver is, and the time says    *)
(* which bit is next.                                                      *)
LEMMA InsideByte ==
  ASSUME Inv, RxInv, hearer.mode = "receiving"
  PROVE  \E byte \in Byte, j \in 0 .. DataBits + 2, t \in Int :
           OnLine(byte, j, t) /\ Receiving(byte, t)
<1>1. ~Resting
  BY DEF Resting
<1>2. PICK byte \in Byte, j \in 0 .. DataBits + 2, t \in Int :
        OnLine(byte, j, t) /\ (Expecting(byte, t) \/ Receiving(byte, t) \/ Heard(t))
  BY <1>1 DEF RxInv
<1>3. Receiving(byte, t)
  BY <1>2 DEF Expecting, Heard
<1> QED
  BY <1>2, <1>3

(* What is read as a bit is that bit of the byte.                          *)
LEMMA HearBitOnLine ==
  ASSUME Inv, RxInv, HearBit PROVE RxInv'
<1>1. ~Due /\ hearer.mode = "receiving" /\ hearer.wait = 0 /\ PortRead
      /\ Len(hearer.bits) < DataBits /\ UNCHANGED <<progSent, progGot>>
  BY DEF HearBit, toProgram
<1>2. HearerOK
  BY TypeParts DEF Inv
<1>3. PICK byte \in Byte, j \in 0 .. DataBits + 2, t \in Int :
        OnLine(byte, j, t) /\ Receiving(byte, t)
  BY <1>1, InsideByte
<1>4. UNCHANGED <<rx, events>>
  BY <1>1, <1>3, BusyRead DEF OnLine
<1>5. hearer.bits \in Seq(Level)
  BY <1>2 DEF HearerOK
<1>6. PICK m \in 0 .. DataBits : m = Len(hearer.bits) /\ m < DataBits
  BY <1>1, <1>5, Constants
<1>7. PICK h \in Nat : /\ h = FirstHeard + m * RxBit
                       /\ EdgeAt(m + 1) <= h /\ h + PollGap - 1 < EdgeAt(m + 1) + Bit
  BY HearingMargins
<1>8. t - h \in 0 .. PollGap - 1
  <2>1. t + hearer.wait - h \in 0 .. PollGap - 1
    BY <1>3, <1>6, <1>7 DEF Receiving
  <2> QED
    BY <1>1, <2>1
<1>9. rx.level = byte[m + 1]
  <2>1. m + 1 \in 1 .. DataBits /\ m + 1 \in 0 .. DataBits + 1 /\ m + 1 \in Int
    BY <1>6, Constants
  <2>2. EdgeAt(m + 1) \in Int /\ Bit \in Nat /\ PollGap \in Nat
    BY <2>1, EdgeTimes, Constants
  <2>3. EdgeAt(m + 1) <= t /\ t < EdgeAt(m + 1) + Bit
    BY <1>7, <1>8, <2>2
  <2>4. rx.level = LineLevel(byte, m + 1)
    BY <1>1, <1>3, <2>1, <2>3, LevelAt
  <2> QED
    BY <2>1, <2>4, LineLevels
<1>10. /\ hearer'.mode = "receiving" /\ hearer'.bits = Append(hearer.bits, byte[m + 1])
       /\ hearer'.wait = RxBit
  BY <1>1, <1>2, <1>4, <1>9 DEF HearBit, HearerOK
<1>11. /\ Len(hearer'.bits) = m + 1
       /\ \A i \in 1 .. m + 1 : hearer'.bits[i] = byte[i]
  <2>1. \A i \in 1 .. m : hearer.bits[i] = byte[i]
    BY <1>3, <1>6 DEF Receiving
  <2>2. m + 1 \in 1 .. DataBits
    BY <1>6, Constants
  <2>3. byte[m + 1] \in Level
    BY <2>2 DEF Byte
  <2> QED
    BY <1>5, <1>6, <1>10, <2>1, <2>3
<1>12. t + RxBit - (FirstHeard + (m + 1) * RxBit) \in 0 .. PollGap - 1
  <2>1. (m + 1) * RxBit = m * RxBit + RxBit /\ m * RxBit \in Int
    BY Constants, Product
  <2>2. RxBit \in Nat /\ FirstHeard \in Nat /\ PollGap \in Nat
    BY Constants
  <2>3. t + RxBit - (FirstHeard + (m + 1) * RxBit) = t - h
    BY <1>7, <2>1, <2>2
  <2> QED
    BY <1>8, <2>3
<1>13. Receiving(byte, t)'
  <2>1. m + 1 <= DataBits
    BY <1>6, Constants
  <2>2. progSent' = progGot' \o (<<byte>> \o rx'.bytes)
    BY <1>1, <1>3, <1>4 DEF Receiving
  <2> QED
    BY <1>10, <1>11, <1>12, <2>1, <2>2 DEF Receiving
<1>14. OnLine(byte, j, t)'
  <2>1. Driving' = Driving
    BY <1>4 DEF Driving
  <2> QED
    BY <1>3, <1>4, <2>1 DEF OnLine, Remaining, LineLevel, EdgeAt
<1> QED
  BY <1>4, <1>13, <1>14 DEF RxInv

(* Bytes before a byte, and bytes after it.                                *)
LEMMA ByteMoves ==
  ASSUME NEW got \in Seq(Byte), NEW byte \in Byte, NEW rest \in Seq(Byte)
  PROVE  /\ Append(got, byte) \o rest = got \o (<<byte>> \o rest)
         /\ Len(got) < Len(got \o (<<byte>> \o rest))
         /\ (got \o (<<byte>> \o rest))[Len(got) + 1] = byte
<1>1. <<byte>> \o rest \in Seq(Byte) /\ <<byte>> \in Seq(Byte)
  OBVIOUS
<1>2. Append(got, byte) = got \o <<byte>>
  OBVIOUS
<1>3. Append(got, byte) \o rest = got \o (<<byte>> \o rest)
  BY <1>1, <1>2, BytesJoined
<1> DEFINE tail == <<byte>> \o rest
<1>4. tail \in Seq(Byte) /\ Len(tail) > 0 /\ tail[1] = byte
  <2>1. Len(<<byte>> \o rest) = 1 + Len(rest) /\ Len(rest) \in Nat
    BY <1>1
  <2>2. (<<byte>> \o rest)[1] = byte
    BY <1>1
  <2> QED
    BY <1>1, <2>1, <2>2
<1> HIDE DEF tail
<1>5. Len(got) < Len(got \o tail) /\ (got \o tail)[Len(got) + 1] = byte
  BY <1>4
<1> QED
  BY <1>3, <1>5 DEF tail

(* All bits heard, the byte is that which was under way; and the line to   *)
(* the program delivers it.                                                *)
LEMMA HearByteOnLine ==
  ASSUME Inv, RxInv, HearByte
  PROVE  RxInv' /\ ProgramLink!Deliver
<1>1. /\ ~Due /\ hearer.mode = "receiving" /\ hearer.wait = 0
      /\ Len(hearer.bits) = DataBits
      /\ progGot' = Append(progGot, hearer.bits)
      /\ hearer' = [mode |-> "listening", wait |-> 0, bits |-> <<>>]
      /\ UNCHANGED <<events, rx, progSent>>
  BY DEF HearByte
<1>2. HearerOK /\ HistoryOK /\ rx \in RxSet
  BY TypeParts DEF Inv
<1>3. PICK byte \in Byte, j \in 0 .. DataBits + 2, t \in Int :
        OnLine(byte, j, t) /\ Receiving(byte, t)
  BY <1>1, InsideByte
<1>4. hearer.bits = byte
  <2>1. hearer.bits \in Seq(Level) /\ Len(hearer.bits) = DataBits
    BY <1>1, <1>2 DEF HearerOK
  <2>2. hearer.bits \in Byte
    BY <2>1 DEF Byte
  <2>3. \A i \in 1 .. DataBits : hearer.bits[i] = byte[i]
    BY <1>1, <1>3 DEF Receiving
  <2> QED
    BY <2>2, <2>3, BytesEqual
<1>5. /\ rx.bytes \in Seq(Byte) /\ progGot \in Seq(Byte)
      /\ progSent = progGot \o (<<byte>> \o rx.bytes)
  BY <1>2, <1>3 DEF RxSet, HistoryOK, Receiving
<1>6. /\ progSent = Append(progGot, byte) \o rx.bytes
      /\ Len(progGot) < Len(progSent) /\ progSent[Len(progGot) + 1] = byte
  BY <1>5, ByteMoves
<1>7. ProgramLink!Deliver
  BY <1>1, <1>4, <1>6 DEF ProgramLink!Deliver
<1>8. EdgeAt(DataBits + 1) <= t /\ t < FrameTime + PollGap
  <2>1. DataBits \in 0 .. DataBits /\ DataBits + 1 \in Int
    BY Constants
  <2>2. PICK h \in Nat : /\ h = FirstHeard + DataBits * RxBit
                         /\ EdgeAt(DataBits + 1) <= h
    BY <2>1, HearingMargins
  <2>3. t - h \in 0 .. PollGap - 1
    BY <1>1, <1>3, <2>2 DEF Receiving
  <2>4. t < FrameTime
    BY <1>1, <1>3, LevelAt
  <2>5. EdgeAt(DataBits + 1) \in Int /\ PollGap \in Nat /\ FrameTime \in Nat
    BY <2>1, EdgeTimes, Constants, FrameLength
  <2> QED
    BY <2>2, <2>3, <2>4, <2>5
<1>9. Heard(t)'
  <2>1. hearer'.mode = "listening" /\ hearer'.wait = 0 /\ t + 0 = t
    BY <1>1
  <2>2. progSent' = progGot' \o rx'.bytes
    BY <1>1, <1>4, <1>6
  <2> QED
    BY <1>8, <2>1, <2>2 DEF Heard, EdgeAt
<1>10. OnLine(byte, j, t)'
  <2>1. Driving' = Driving
    BY <1>1 DEF Driving
  <2> QED
    BY <1>1, <1>3, <2>1 DEF OnLine, Remaining, LineLevel, EdgeAt
<1>11. RxInv'
  BY <1>1, <1>9, <1>10 DEF RxInv
<1> QED
  BY <1>7, <1>11

(* An event n cycles later.                                                *)
Later(e, n) == [e EXCEPT !.at = @ - n]

(* Time passes for every event alike.                                      *)
LEMMA LaterEvent ==
  ASSUME NEW at \in Int, NEW does, NEW level, NEW token, NEW n \in Int
  PROVE  Later(Event(at, does, level, token), n) = Event(at - n, does, level, token)
BY DEF Later, Event

(* A frame's edges when n more cycles of it have passed.                   *)
LEMMA LaterEdges ==
  ASSUME NEW byte, NEW j \in Nat, NEW t \in Int, NEW n \in Nat
  PROVE  {Later(e, n) : e \in Remaining(byte, j, t)} = Remaining(byte, j, t + n)
<1> DEFINE At(i) == Event(EdgeAt(i) - t, "level", LineLevel(byte, i), rx.token)
           End == Event(FrameTime - t, "next", 1, rx.token)
           AtThen(i) == Event(EdgeAt(i) - (t + n), "level", LineLevel(byte, i), rx.token)
           EndThen == Event(FrameTime - (t + n), "next", 1, rx.token)
<1>1. ASSUME NEW i \in j .. DataBits + 1 PROVE Later(At(i), n) = AtThen(i)
  <2>1. EdgeAt(i) \in Int
    BY EdgeTimes, Constants
  <2>2. EdgeAt(i) - t \in Int /\ n \in Int /\ (EdgeAt(i) - t) - n = EdgeAt(i) - (t + n)
    BY <2>1
  <2> QED
    BY <2>2, LaterEvent
<1>2. Later(End, n) = EndThen
  <2>1. /\ FrameTime - t \in Int /\ n \in Int
        /\ (FrameTime - t) - n = FrameTime - (t + n)
    BY FrameLength
  <2> QED
    BY <2>1, LaterEvent
<1>3. /\ Remaining(byte, j, t) = {At(i) : i \in j .. DataBits + 1} \cup {End}
      /\ Remaining(byte, j, t + n) = {AtThen(i) : i \in j .. DataBits + 1} \cup {EndThen}
  BY DEF Remaining
<1> HIDE DEF At, End, AtThen, EndThen
<1> QED
  BY <1>1, <1>2, <1>3

(* Time brings the program's next look at the line and the driver's next   *)
(* edge nearer by as much.                                                 *)
LEMMA CyclesOnLine ==
  ASSUME Inv, RxInv, NEW n \in 1 .. MaxStretch, RecordCycles(n) PROVE RxInv'
<1>1. /\ HearerAllows(n) /\ events' = {Later(e, n) : e \in events}
      /\ hearer' = [hearer EXCEPT !.wait = Less(@, n)]
      /\ UNCHANGED <<rx, progSent, progGot>>
  BY DEF RecordCycles, Later, toProgram
<1>2. EventsOK /\ HearerOK /\ n \in Nat /\ n \in Int
  BY TypeParts, Constants DEF Inv
<1>3. \A e \in events : Later(e, n).does = e.does /\ Later(e, n).token = e.token
  BY <1>2 DEF EventsOK, EventSet, Later
<1>4. Driving' = {Later(e, n) : e \in Driving}
  BY <1>1, <1>3 DEF Driving
<1>5. /\ rx'.lead = 0
      /\ \A x \in events' : x.does # "sample" => x.token <= rx'.token
  BY <1>1, <1>3 DEF RxInv
<1>6. /\ hearer'.mode = hearer.mode /\ hearer'.bits = hearer.bits
      /\ hearer'.wait = Less(hearer.wait, n) /\ hearer.wait \in Nat
      /\ Len(hearer.bits) \in Nat
  BY <1>1, <1>2 DEF HearerOK
<1>7. CASE Resting
  <2>1. Resting'
    BY <1>1, <1>4, <1>6, <1>7 DEF Resting
  <2> QED
    BY <1>5, <2>1 DEF RxInv
<1>8. CASE ~Resting
  <2>1. PICK byte \in Byte, j \in 0 .. DataBits + 2, t \in Int :
          OnLine(byte, j, t) /\ (Expecting(byte, t) \/ Receiving(byte, t) \/ Heard(t))
    BY <1>8 DEF RxInv
  <2>2. n <= hearer.wait
    BY <1>1, <2>1 DEF HearerAllows, Expecting, Receiving, Heard
  <2>3. hearer'.wait = hearer.wait - n
    BY <1>2, <1>6, <2>2, LessTyped
  <2>4. PICK u \in Int : u = t + n
    BY <1>2
  <2>5. u + hearer'.wait = t + hearer.wait
    BY <1>2, <1>6, <2>3, <2>4
  <2>6. OnLine(byte, j, u)'
    <3>1. Driving' = Remaining(byte, j, u)'
      <4>1. Driving' = Remaining(byte, j, u)
        BY <1>2, <1>4, <2>1, <2>4, LaterEdges DEF OnLine
      <4> QED
        BY <1>1, <4>1 DEF Remaining, EdgeAt, LineLevel
    <3>2. j > 0 => EdgeAt(j - 1) <= u
      <4>1. j > 0 => EdgeAt(j - 1) \in Int /\ EdgeAt(j - 1) <= t
        BY <2>1, EdgeTimes DEF OnLine
      <4> QED
        BY <1>2, <2>4, <4>1
    <3> QED
      BY <1>1, <2>1, <3>1, <3>2 DEF OnLine, EdgeAt, LineLevel
  <2>7. (Expecting(byte, u) \/ Receiving(byte, u) \/ Heard(u))'
    <3>1. CASE Expecting(byte, t)
      BY <1>1, <1>6, <2>5, <3>1 DEF Expecting
    <3>2. CASE Receiving(byte, t)
      <4>1. PICK m \in 0 .. DataBits : m = Len(hearer.bits)
        BY <1>6, <3>2, Constants DEF Receiving
      <4>2. PICK h \in Nat : h = FirstHeard + m * RxBit
        BY HearingMargins
      <4>3. t + hearer.wait - h \in 0 .. PollGap - 1
        BY <3>2, <4>1, <4>2 DEF Receiving
      <4>4. u + hearer'.wait - h \in 0 .. PollGap - 1
        <5>1. /\ h \in Int /\ t \in Int /\ n \in Int /\ hearer.wait \in Int
              /\ PollGap - 1 \in Int
          BY <1>2, <1>6, Constants
        <5>2. (t + n) + (hearer.wait - n) - h = t + hearer.wait - h
          BY <5>1
        <5> QED
          BY <2>3, <2>4, <4>3, <5>2
      <4>5. Len(hearer'.bits) = m /\ hearer'.mode = "receiving" /\ m <= DataBits
        BY <1>6, <3>2, <4>1 DEF Receiving
      <4>6. \A i \in 1 .. m : hearer'.bits[i] = byte[i]
        BY <1>6, <3>2, <4>1 DEF Receiving
      <4>7. progSent' = progGot' \o (<<byte>> \o rx'.bytes)
        BY <1>1, <3>2 DEF Receiving
      <4>8. Receiving(byte, u)'
        BY <4>2, <4>4, <4>5, <4>6, <4>7 DEF Receiving
      <4> QED
        BY <4>8
    <3>3. CASE Heard(t)
      <4>1. EdgeAt(DataBits + 1) <= u
        <5>1. EdgeAt(DataBits + 1) \in Int /\ EdgeAt(DataBits + 1) <= t
          BY <3>3, EdgeTimes, Constants DEF Heard
        <5> QED
          BY <1>2, <2>4, <5>1
      <4> QED
        BY <1>1, <1>6, <2>5, <3>3, <4>1 DEF Heard, EdgeAt
    <3> QED
      BY <2>1, <3>1, <3>2, <3>3
  <2> QED
    BY <1>5, <2>4, <2>6, <2>7 DEF RxInv
<1> QED
  BY <1>7, <1>8

-----------------------------------------------------------------------------
(* The program hears what the host sends. *)

(* Every step keeps the line to the program in step with the clock.        *)
LEMMA StepOnLine ==
  ASSUME Inv, RxInv, [Next]_vars PROVE RxInv'
<1>1. CASE ServeEvent
  BY <1>1, DecoderOffLine, EdgeOnLine, FrameDoneOnLine DEF ServeEvent
<1>2. CASE Execute
  BY <1>2, DecoderOffLine, PollOnLine, HearBitOnLine, HearByteOnLine, CyclesOnLine DEF Execute
<1>3. CASE Listen \/ Reset
  BY <1>3, ListenOnLine, ResetOnLine
<1>4. CASE (\E byte \in TxBytes : Send(byte)) \/ UNCHANGED vars
  BY <1>4, DecoderOffLine
<1>5. ASSUME NEW text \in Texts, QueueSerial(text) PROVE RxInv'
  BY <1>5, QueueOnLine
<1> QED
  BY <1>1, <1>2, <1>3, <1>4, <1>5 DEF Next

(* A longer sequence begins with the shorter.                              *)
LEMMA JoinExtends ==
  ASSUME NEW bytes \in Seq(Byte), NEW more \in Seq(Byte), more # <<>>
  PROVE  IsPrefix(bytes, bytes \o more) /\ bytes \o more # bytes
<1>1. PICK n \in Nat, k \in Nat : n = Len(bytes) /\ k = Len(more) /\ k # 0
  OBVIOUS
<1>2. PICK all \in Seq(Byte) : all = bytes \o more
  <2>1. bytes \o more \in Seq(Byte)
    OBVIOUS
  <2> QED
    BY <2>1
<1>3. Len(all) = n + k /\ \A i \in 1 .. n : all[i] = bytes[i]
  BY <1>1, <1>2
<1>4. SubSeq(all, 1, n) = SubSeq(bytes, 1, n)
  <2>1. /\ SubSeq(all, 1, n) \in Seq(Byte) /\ Len(SubSeq(all, 1, n)) = n
        /\ \A i \in 1 .. n : SubSeq(all, 1, n)[i] = all[i]
    BY <1>1, <1>3
  <2>2. /\ SubSeq(bytes, 1, n) \in Seq(Byte) /\ Len(SubSeq(bytes, 1, n)) = n
        /\ \A i \in 1 .. n : SubSeq(bytes, 1, n)[i] = bytes[i]
    BY <1>1
  <2> QED
    BY <1>3, <2>1, <2>2
<1>5. Len(bytes) <= Len(all) /\ all # bytes
  BY <1>1, <1>3
<1> QED
  BY <1>1, <1>2, <1>4, <1>5 DEF IsPrefix

(* What the host queues is sent.                                           *)
LEMMA QueueOnLink ==
  ASSUME Inv, NEW text \in Texts, QueueSerial(text) PROVE ProgramLink!Send
<1> DEFINE more == (IF rx.primed THEN <<>> ELSE <<NullByte>>) \o text
<1>1. progSent \in Seq(Byte)
  BY TypeParts DEF Inv, HistoryOK
<1>2. more \in Seq(Byte) /\ more # <<>>
  <2>1. text \in Seq(Byte) /\ text # <<>> /\ NullByte \in Byte
    BY DataAssumption DEF DataAssumption, NullByte, Byte, Level
  <2>2. CASE rx.primed
    <3>1. more = text
      BY <2>1, <2>2
    <3> QED
      BY <2>1, <3>1
  <2>3. CASE ~rx.primed
    <3>1. more = <<NullByte>> \o text
      BY <2>3
    <3>2. Len(<<NullByte>> \o text) = 1 + Len(text) /\ Len(text) \in Nat
      BY <2>1
    <3> QED
      BY <2>1, <3>1, <3>2
  <2> QED
    BY <2>2, <2>3
<1>3. progSent' = progSent \o more /\ progGot' = progGot
  BY DEF QueueSerial
<1> HIDE DEF more
<1>4. IsPrefix(progSent, progSent') /\ progSent' # progSent
  BY <1>1, <1>2, <1>3, JoinExtends
<1>5. ProgramLink!IsPrefix(progSent, progSent')
  BY <1>4 DEF IsPrefix, ProgramLink!IsPrefix
<1> QED
  BY <1>3, <1>4, <1>5, Zenon DEF ProgramLink!Send

(* Every step is one of the link or none.                                  *)
LEMMA StepOnProgramLink ==
  ASSUME Inv, RxInv, [Next]_vars
  PROVE  [ProgramLink!Next]_(ProgramLink!vars)
<1>1. CASE UNCHANGED toProgram
  BY <1>1 DEF toProgram, ProgramLink!vars
<1>2. CASE ServeEvent \/ Listen \/ (\E byte \in TxBytes : Send(byte)) \/ UNCHANGED vars
  BY <1>1, <1>2 DEF ServeEvent, SampleBit, RxLevelChange, RxFrameDone, Listen, Send, vars
<1>3. CASE Execute
  <2>1. CASE HearByte
    BY <2>1, HearByteOnLine DEF ProgramLink!Next
  <2>2. CASE ~HearByte
    BY <1>1, <1>3, <2>2 DEF Execute, WriteBit, Poll, HearBit, RecordCycles
  <2> QED
    BY <2>1, <2>2
<1>4. CASE Reset
  <2>1. progSent' = progGot /\ progGot' = progGot
    BY <1>4 DEF Reset
  <2> QED
    BY <2>1 DEF ProgramLink!Next, ProgramLink!Reset
<1>5. ASSUME NEW text \in Texts, QueueSerial(text) PROVE ProgramLink!Next
  BY <1>5, QueueOnLink DEF ProgramLink!Next
<1> QED
  BY <1>2, <1>3, <1>4, <1>5 DEF Next

(* The line to the program implements SerialLink without its noise: the    *)
(* program reads every byte that the host queues, the null byte first, as  *)
(* it was and in order, and after a reset none of those before, for every  *)
(* polling period and bit time that the timing assumption allows           *)
(* (tec1g/serial.ts:61-153).                                               *)
THEOREM ProgramRefinement == Spec => ProgramHearsHost
<1>1. Init => ProgramLink!Init
  BY DEF Init, ProgramLink!Init
<1>2. Spec => []RxInv
  <2>1. Init => RxInv
    BY InitOnLine
  <2>2. Inv /\ RxInv /\ [Next]_vars => RxInv'
    BY StepOnLine
  <2> QED
    BY <2>1, <2>2, InvariantHolds, PTL DEF Spec
<1>3. Inv /\ RxInv /\ [Next]_vars => [ProgramLink!Next]_(ProgramLink!vars)
  BY StepOnProgramLink
<1> QED
  BY <1>1, <1>2, <1>3, InvariantHolds, PTL DEF Spec, ProgramHearsHost, ProgramLink!Spec
=============================================================================
