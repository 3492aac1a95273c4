---------------------------- MODULE Z80EncodingProofs ----------------------------
(* What AZM encodes, the emulator decodes.  An encoding is a short list of         *)
(* fragments; each form of fragments has a lemma that says what bytes it becomes    *)
(* and one that says the decoder's tables read them back.  Every instruction is     *)
(* then matched with its form, table by table, and InstructionsReadBack puts them   *)
(* together: with whatever value for its operand, its bytes are read as it.         *)
EXTENDS AzmEncoder, Z80Decoder, SequenceTheorems, TLAPS

(* ------------------------ the bytes of an instruction ------------------------ *)
Joined(s, t) == s \o t
Flattened(seqs, n) == CHOOSE h : h = [i \in 1..n |-> IF i = 1 THEN seqs[i] ELSE Joined(h[i-1], seqs[i])]

LEMMA FlattenByFunction ==
  ASSUME NEW seqs, Len(seqs) # 0
  PROVE  FlattenSeq(seqs) = Flattened(seqs, Len(seqs))[Len(seqs)]
  BY Zenon DEF FlattenSeq, Flattened, Joined

LEMMA FlattenedPrefixes ==
  ASSUME NEW seqs, NEW n \in 1..4
  PROVE  LET f == Flattened(seqs, n)
         IN /\ f[1] = seqs[1]
            /\ n > 1 => f[2] = Joined(f[1], seqs[2])
            /\ n > 2 => f[3] = Joined(f[2], seqs[3])
            /\ n > 3 => f[4] = Joined(f[3], seqs[4])
<1> DEFINE f == Flattened(seqs, n)
           two == Joined(seqs[1], seqs[2])
           three == Joined(two, seqs[3])
           four == Joined(three, seqs[4])
           g == [i \in 1..n |-> IF i = 1 THEN seqs[i] ELSE IF i = 2 THEN two ELSE IF i = 3 THEN three ELSE four]
<1>1. ASSUME NEW i \in 1..n PROVE g[i] = IF i = 1 THEN seqs[i] ELSE Joined(g[i-1], seqs[i])
  <2>1. /\ i = 2 => g[i-1] = seqs[1]
        /\ i = 3 => g[i-1] = two
        /\ i = 4 => g[i-1] = three
    <3> HIDE DEF two, three, four
    <3> QED OBVIOUS
  <2>2. i \in {1, 2, 3, 4}
    OBVIOUS
  <2>3. g[i] = IF i = 1 THEN seqs[i] ELSE IF i = 2 THEN two ELSE IF i = 3 THEN three ELSE four
    <3> HIDE DEF two, three, four
    <3> QED OBVIOUS
  <2> HIDE DEF g
  <2> QED BY <2>1, <2>2, <2>3
<1>2. g = [i \in 1..n |-> IF i = 1 THEN seqs[i] ELSE Joined(g[i-1], seqs[i])]
  BY <1>1, Zenon
<1>3. f = [i \in 1..n |-> IF i = 1 THEN seqs[i] ELSE Joined(f[i-1], seqs[i])]
  <2> HIDE DEF g
  <2> QED BY <1>2, Zenon DEF Flattened
<1> HIDE DEF f
<1>4. 1 \in 1..n /\ (n > 1 => 2 \in 1..n) /\ (n > 2 => 3 \in 1..n) /\ (n > 3 => 4 \in 1..n)
  OBVIOUS
<1>5. /\ f[1] = seqs[1]
      /\ n > 1 => f[2] = Joined(f[2-1], seqs[2])
      /\ n > 2 => f[3] = Joined(f[3-1], seqs[3])
      /\ n > 3 => f[4] = Joined(f[4-1], seqs[4])
  BY <1>3, <1>4
<1> QED BY <1>5 DEF f

LEMMA JoinedIs ==
  ASSUME NEW s \in Seq(Int), NEW t \in Seq(Int), NEW u \in Seq(Int), Len(u) = Len(s) + Len(t),
         \A k \in 1..Len(u) : u[k] = IF k <= Len(s) THEN s[k] ELSE t[k - Len(s)]
  PROVE  Joined(s, t) = u
<1>1. s \o t \in Seq(Int) /\ Len(s \o t) = Len(u) /\ \A k \in 1..Len(u) : (s \o t)[k] = u[k]
  BY ConcatProperties
<1> DEFINE j == s \o t
<1>2. j = u
  <2>1. j \in Seq(Int) /\ Len(j) = Len(u) /\ \A k \in 1..Len(j) : j[k] = u[k]
    BY <1>1
  <2> HIDE DEF j
  <2> QED BY <2>1, SeqEqual
<1> QED BY <1>2, Zenon DEF Joined

LEMMA Join11 ==
  ASSUME NEW x \in Int, NEW y \in Int
  PROVE  Joined(<<x>>, <<y>>) = <<x, y>>
<1> DEFINE s == <<x>>  t == <<y>>  u == <<x, y>>
<1>1. s \in Seq(Int) /\ t \in Seq(Int) /\ u \in Seq(Int) /\ Len(u) = Len(s) + Len(t)
  OBVIOUS
<1>2. \A k \in 1..Len(u) : u[k] = IF k <= Len(s) THEN s[k] ELSE t[k - Len(s)]
  OBVIOUS
<1> HIDE DEF s, t, u
<1>3. Joined(s, t) = u
  BY <1>1, <1>2, JoinedIs
<1> QED BY <1>3 DEF s, t, u

LEMMA Join12 ==
  ASSUME NEW x \in Int, NEW y \in Int, NEW z \in Int
  PROVE  Joined(<<x>>, <<y, z>>) = <<x, y, z>>
<1> DEFINE s == <<x>>  t == <<y, z>>  u == <<x, y, z>>
<1>1. s \in Seq(Int) /\ t \in Seq(Int) /\ u \in Seq(Int) /\ Len(u) = Len(s) + Len(t)
  OBVIOUS
<1>2. \A k \in 1..Len(u) : u[k] = IF k <= Len(s) THEN s[k] ELSE t[k - Len(s)]
  OBVIOUS
<1> HIDE DEF s, t, u
<1>3. Joined(s, t) = u
  BY <1>1, <1>2, JoinedIs
<1> QED BY <1>3 DEF s, t, u

LEMMA Join21 ==
  ASSUME NEW x \in Int, NEW y \in Int, NEW z \in Int
  PROVE  Joined(<<x, y>>, <<z>>) = <<x, y, z>>
<1> DEFINE s == <<x, y>>  t == <<z>>  u == <<x, y, z>>
<1>1. s \in Seq(Int) /\ t \in Seq(Int) /\ u \in Seq(Int) /\ Len(u) = Len(s) + Len(t)
  OBVIOUS
<1>2. \A k \in 1..Len(u) : u[k] = IF k <= Len(s) THEN s[k] ELSE t[k - Len(s)]
  OBVIOUS
<1> HIDE DEF s, t, u
<1>3. Joined(s, t) = u
  BY <1>1, <1>2, JoinedIs
<1> QED BY <1>3 DEF s, t, u

LEMMA Join22 ==
  ASSUME NEW x \in Int, NEW y \in Int, NEW z \in Int, NEW w \in Int
  PROVE  Joined(<<x, y>>, <<z, w>>) = <<x, y, z, w>>
<1> DEFINE s == <<x, y>>  t == <<z, w>>  u == <<x, y, z, w>>
<1>1. s \in Seq(Int) /\ t \in Seq(Int) /\ u \in Seq(Int) /\ Len(u) = Len(s) + Len(t)
  OBVIOUS
<1>2. \A k \in 1..Len(u) : u[k] = IF k <= Len(s) THEN s[k] ELSE t[k - Len(s)]
  OBVIOUS
<1> HIDE DEF s, t, u
<1>3. Joined(s, t) = u
  BY <1>1, <1>2, JoinedIs
<1> QED BY <1>3 DEF s, t, u

LEMMA Join31 ==
  ASSUME NEW x \in Int, NEW y \in Int, NEW z \in Int, NEW w \in Int
  PROVE  Joined(<<x, y, z>>, <<w>>) = <<x, y, z, w>>
<1> DEFINE s == <<x, y, z>>  t == <<w>>  u == <<x, y, z, w>>
<1>1. s \in Seq(Int) /\ t \in Seq(Int) /\ u \in Seq(Int) /\ Len(u) = Len(s) + Len(t)
  OBVIOUS
<1>2. \A k \in 1..Len(u) : u[k] = IF k <= Len(s) THEN s[k] ELSE t[k - Len(s)]
  OBVIOUS
<1> HIDE DEF s, t, u
<1>3. Joined(s, t) = u
  BY <1>1, <1>2, JoinedIs
<1> QED BY <1>3 DEF s, t, u


LEMMA EmittedPieces ==
  ASSUME NEW i, NEW a, NEW e, e = encodeZ80Instruction(i), NEW n \in 1..4, Len(e.fragments) = n
  PROVE  LET piece(k) == emitZ80Fragment(e.fragments[k], a + e.size)
         IN Emitted(i, a) = IF n = 1 THEN piece(1)
                            ELSE IF n = 2 THEN Joined(piece(1), piece(2))
                            ELSE IF n = 3 THEN Joined(Joined(piece(1), piece(2)), piece(3))
                            ELSE Joined(Joined(Joined(piece(1), piece(2)), piece(3)), piece(4))
<1> DEFINE piece(k) == emitZ80Fragment(e.fragments[k], a + e.size)
           pieces == [k \in 1..n |-> piece(k)]
<1>1. Emitted(i, a) = FlattenSeq(pieces)
  BY Zenon DEF Emitted
<1> HIDE DEF piece
<1>2. Len(pieces) = n /\ \A k \in 1..n : pieces[k] = piece(k)
  OBVIOUS
<1>3. FlattenSeq(pieces) = Flattened(pieces, n)[n]
  <2> HIDE DEF pieces
  <2>1. Len(pieces) # 0
    BY <1>2
  <2>2. FlattenSeq(pieces) = Flattened(pieces, Len(pieces))[Len(pieces)]
    BY <2>1, FlattenByFunction
  <2> QED BY <1>2, <2>2
<1>4. LET f == Flattened(pieces, n)
      IN /\ f[1] = pieces[1]
         /\ n > 1 => f[2] = Joined(f[1], pieces[2])
         /\ n > 2 => f[3] = Joined(f[2], pieces[3])
         /\ n > 3 => f[4] = Joined(f[3], pieces[4])
  <2> HIDE DEF pieces
  <2> QED BY FlattenedPrefixes
<1>5. pieces[1] = piece(1) /\ (n > 1 => pieces[2] = piece(2)) /\ (n > 2 => pieces[3] = piece(3)) /\ (n > 3 => pieces[4] = piece(4))
  BY <1>2
<1> HIDE DEF pieces
<1>6. Emitted(i, a) = IF n = 1 THEN piece(1)
                      ELSE IF n = 2 THEN Joined(piece(1), piece(2))
                      ELSE IF n = 3 THEN Joined(Joined(piece(1), piece(2)), piece(3))
                      ELSE Joined(Joined(Joined(piece(1), piece(2)), piece(3)), piece(4))
  BY <1>1, <1>3, <1>4, <1>5
<1> QED BY <1>6 DEF piece

LEMMA Sizes ==
  ASSUME NEW n, NEW fragments
  PROVE  Encoding(n, fragments).size = n /\ Encoding(n, fragments).fragments = fragments
  BY DEF Encoding

LEMMA Emitted1 ==
  ASSUME NEW i, NEW a, NEW size, NEW f, encodeZ80Instruction(i) = Encoding(size, <<f>>)
  PROVE  /\ Emitted(i, a) = emitZ80Fragment(f, a + size)
         /\ Assembles(i, a) => FragmentFits(f, a + size)
         /\ instructionSize(i) = size
<1> DEFINE e == encodeZ80Instruction(i)
<1>1. e.size = size /\ e.fragments = <<f>>
  BY Sizes
<1>2. Len(e.fragments) = 1 /\ e.fragments[1] = f
  BY <1>1
<1>3. Emitted(i, a) = emitZ80Fragment(f, a + size)
  <2> DEFINE piece(j) == emitZ80Fragment(e.fragments[j], a + e.size)
  <2>1. 1 \in 1..4
    OBVIOUS
  <2>2. Emitted(i, a) = IF 1 = 1 THEN piece(1)
                        ELSE IF 1 = 2 THEN Joined(piece(1), piece(2))
                        ELSE IF 1 = 3 THEN Joined(Joined(piece(1), piece(2)), piece(3))
                        ELSE Joined(Joined(Joined(piece(1), piece(2)), piece(3)), piece(4))
    BY <1>2, <2>1, EmittedPieces
  <2> HIDE DEF e
  <2> QED BY <1>1, <1>2, <2>2
<1>4. Assembles(i, a) => FragmentFits(f, a + size)
  <2>1. Assembles(i, a) <=> \A j \in 1..Len(e.fragments) : FragmentFits(e.fragments[j], a + e.size)
    BY Zenon DEF Assembles
  <2> HIDE DEF e
  <2>2. 1 \in 1..1
    OBVIOUS
  <2> QED BY <1>1, <1>2, <2>1, <2>2, Zenon
<1> QED BY <1>1, <1>3, <1>4 DEF instructionSize

LEMMA Emitted2 ==
  ASSUME NEW i, NEW a, NEW size, NEW f, NEW g, encodeZ80Instruction(i) = Encoding(size, <<f, g>>)
  PROVE  /\ Emitted(i, a) = Joined(emitZ80Fragment(f, a + size), emitZ80Fragment(g, a + size))
         /\ Assembles(i, a) => FragmentFits(f, a + size) /\ FragmentFits(g, a + size)
         /\ instructionSize(i) = size
<1> DEFINE e == encodeZ80Instruction(i)
<1>1. e.size = size /\ e.fragments = <<f, g>>
  BY Sizes
<1>2. Len(e.fragments) = 2 /\ e.fragments[1] = f /\ e.fragments[2] = g
  BY <1>1
<1>3. Emitted(i, a) = Joined(emitZ80Fragment(f, a + size), emitZ80Fragment(g, a + size))
  <2> DEFINE piece(j) == emitZ80Fragment(e.fragments[j], a + e.size)
  <2>1. 2 \in 1..4
    OBVIOUS
  <2>2. Emitted(i, a) = IF 2 = 1 THEN piece(1)
                        ELSE IF 2 = 2 THEN Joined(piece(1), piece(2))
                        ELSE IF 2 = 3 THEN Joined(Joined(piece(1), piece(2)), piece(3))
                        ELSE Joined(Joined(Joined(piece(1), piece(2)), piece(3)), piece(4))
    BY <1>2, <2>1, EmittedPieces
  <2> HIDE DEF e
  <2> QED BY <1>1, <1>2, <2>2
<1>4. Assembles(i, a) => FragmentFits(f, a + size) /\ FragmentFits(g, a + size)
  <2>1. Assembles(i, a) <=> \A j \in 1..Len(e.fragments) : FragmentFits(e.fragments[j], a + e.size)
    BY Zenon DEF Assembles
  <2> HIDE DEF e
  <2>2. 1 \in 1..2 /\ 2 \in 1..2
    OBVIOUS
  <2> QED BY <1>1, <1>2, <2>1, <2>2, Zenon
<1> QED BY <1>1, <1>3, <1>4 DEF instructionSize

LEMMA Emitted3 ==
  ASSUME NEW i, NEW a, NEW size, NEW f, NEW g, NEW h, encodeZ80Instruction(i) = Encoding(size, <<f, g, h>>)
  PROVE  /\ Emitted(i, a) = Joined(Joined(emitZ80Fragment(f, a + size), emitZ80Fragment(g, a + size)), emitZ80Fragment(h, a + size))
         /\ Assembles(i, a) => FragmentFits(f, a + size) /\ FragmentFits(g, a + size) /\ FragmentFits(h, a + size)
         /\ instructionSize(i) = size
<1> DEFINE e == encodeZ80Instruction(i)
<1>1. e.size = size /\ e.fragments = <<f, g, h>>
  BY Sizes
<1>2. Len(e.fragments) = 3 /\ e.fragments[1] = f /\ e.fragments[2] = g /\ e.fragments[3] = h
  BY <1>1
<1>3. Emitted(i, a) = Joined(Joined(emitZ80Fragment(f, a + size), emitZ80Fragment(g, a + size)), emitZ80Fragment(h, a + size))
  <2> DEFINE piece(j) == emitZ80Fragment(e.fragments[j], a + e.size)
  <2>1. 3 \in 1..4
    OBVIOUS
  <2>2. Emitted(i, a) = IF 3 = 1 THEN piece(1)
                        ELSE IF 3 = 2 THEN Joined(piece(1), piece(2))
                        ELSE IF 3 = 3 THEN Joined(Joined(piece(1), piece(2)), piece(3))
                        ELSE Joined(Joined(Joined(piece(1), piece(2)), piece(3)), piece(4))
    BY <1>2, <2>1, EmittedPieces
  <2> HIDE DEF e
  <2> QED BY <1>1, <1>2, <2>2
<1>4. Assembles(i, a) => FragmentFits(f, a + size) /\ FragmentFits(g, a + size) /\ FragmentFits(h, a + size)
  <2>1. Assembles(i, a) <=> \A j \in 1..Len(e.fragments) : FragmentFits(e.fragments[j], a + e.size)
    BY Zenon DEF Assembles
  <2> HIDE DEF e
  <2>2. 1 \in 1..3 /\ 2 \in 1..3 /\ 3 \in 1..3
    OBVIOUS
  <2> QED BY <1>1, <1>2, <2>1, <2>2, Zenon
<1> QED BY <1>1, <1>3, <1>4 DEF instructionSize

LEMMA Emitted4 ==
  ASSUME NEW i, NEW a, NEW size, NEW f, NEW g, NEW h, NEW k, encodeZ80Instruction(i) = Encoding(size, <<f, g, h, k>>)
  PROVE  /\ Emitted(i, a) = Joined(Joined(Joined(emitZ80Fragment(f, a + size), emitZ80Fragment(g, a + size)), emitZ80Fragment(h, a + size)), emitZ80Fragment(k, a + size))
         /\ Assembles(i, a) => FragmentFits(f, a + size) /\ FragmentFits(g, a + size) /\ FragmentFits(h, a + size) /\ FragmentFits(k, a + size)
         /\ instructionSize(i) = size
<1> DEFINE e == encodeZ80Instruction(i)
<1>1. e.size = size /\ e.fragments = <<f, g, h, k>>
  BY Sizes
<1>2. Len(e.fragments) = 4 /\ e.fragments[1] = f /\ e.fragments[2] = g /\ e.fragments[3] = h /\ e.fragments[4] = k
  BY <1>1
<1>3. Emitted(i, a) = Joined(Joined(Joined(emitZ80Fragment(f, a + size), emitZ80Fragment(g, a + size)), emitZ80Fragment(h, a + size)), emitZ80Fragment(k, a + size))
  <2> DEFINE piece(j) == emitZ80Fragment(e.fragments[j], a + e.size)
  <2>1. 4 \in 1..4
    OBVIOUS
  <2>2. Emitted(i, a) = IF 4 = 1 THEN piece(1)
                        ELSE IF 4 = 2 THEN Joined(piece(1), piece(2))
                        ELSE IF 4 = 3 THEN Joined(Joined(piece(1), piece(2)), piece(3))
                        ELSE Joined(Joined(Joined(piece(1), piece(2)), piece(3)), piece(4))
    BY <1>2, <2>1, EmittedPieces
  <2> HIDE DEF e
  <2> QED BY <1>1, <1>2, <2>2
<1>4. Assembles(i, a) => FragmentFits(f, a + size) /\ FragmentFits(g, a + size) /\ FragmentFits(h, a + size) /\ FragmentFits(k, a + size)
  <2>1. Assembles(i, a) <=> \A j \in 1..Len(e.fragments) : FragmentFits(e.fragments[j], a + e.size)
    BY Zenon DEF Assembles
  <2> HIDE DEF e
  <2>2. 1 \in 1..4 /\ 2 \in 1..4 /\ 3 \in 1..4 /\ 4 \in 1..4
    OBVIOUS
  <2> QED BY <1>1, <1>2, <2>1, <2>2, Zenon
<1> QED BY <1>1, <1>3, <1>4 DEF instructionSize

WordFits(n) == n \in -32768..65535
LEMMA FragmentBytes ==
  ASSUME NEW n, NEW o
  PROVE  /\ emitZ80Fragment(Op(n), o) = <<n>>
         /\ emitZ80Fragment(I8(n), o) = <<LowByte(n)>>
         /\ emitZ80Fragment(D8(n), o) = <<LowByte(n)>>
         /\ emitZ80Fragment(A16(n), o) = <<LowByte(n), HighByte(n)>>
         /\ emitZ80Fragment(Rel(n), o) = <<LowByte(n - o)>>
         /\ FragmentFits(D8(n), o) = SignedByte(n)
         /\ FragmentFits(A16(n), o) = WordFits(n)
         /\ FragmentFits(Rel(n), o) = SignedByte(n - o)
  BY DEF emitZ80Fragment, FragmentFits, WordFits, Op, I8, D8, A16, Rel, Fragment

(* ------------------------------- round trips --------------------------------- *)
(* The bytes are in memory from an address on.                                     *)
Wrapped(n) == n % 65536
Reads(m, a, bytes) == \A k \in 1..Len(bytes) : At(m, a + k - 1) = LowByte(bytes[k])

(* The processor finds in an instruction's bytes the instruction.                  *)
Decodes(i, size, m, a) == decodeInstruction(m, a) = Decoded(AsDecoded(i), size)
RoundTrips(i, size) ==
  /\ instructionSize(i) = size
  /\ \A a \in Int : Emitted(i, a) \in Seq(Int) /\ Len(Emitted(i, a)) = size
  /\ \A m : \A a \in Addresses : (Assembles(i, a) /\ Reads(m, a, Emitted(i, a))) => Decodes(i, size, m, a)

LEMMA ReadsBytes ==
  ASSUME NEW m, NEW a \in Int, NEW bytes, NEW n \in 1..4, Len(bytes) = n, Reads(m, a, bytes)
  PROVE  /\ At(m, a) = LowByte(bytes[1])
         /\ n > 1 => At(m, a + 1) = LowByte(bytes[2])
         /\ n > 2 => At(m, a + 2) = LowByte(bytes[3])
         /\ n > 3 => At(m, a + 3) = LowByte(bytes[4])
<1>1. \A k \in 1..n : At(m, a + k - 1) = LowByte(bytes[k])
  BY Zenon DEF Reads
<1>2. 1 \in 1..n /\ (n > 1 => 2 \in 1..n) /\ (n > 2 => 3 \in 1..n) /\ (n > 3 => 4 \in 1..n)
  OBVIOUS
<1>3. /\ At(m, a + 1 - 1) = LowByte(bytes[1])
      /\ n > 1 => At(m, a + 2 - 1) = LowByte(bytes[2])
      /\ n > 2 => At(m, a + 3 - 1) = LowByte(bytes[3])
      /\ n > 3 => At(m, a + 4 - 1) = LowByte(bytes[4])
  BY <1>1, <1>2, Zenon
<1>4. a + 1 - 1 = a /\ a + 2 - 1 = a + 1 /\ a + 3 - 1 = a + 2 /\ a + 4 - 1 = a + 3
  OBVIOUS
<1> QED BY <1>3, <1>4, Zenon

LEMMA ByteMod ==
  /\ \A x \in Int : LowByte(x) \in Byte /\ HighByte(x) \in Byte
  /\ \A x \in Byte : LowByte(x) = x
  BY SMT DEF Byte, LowByte, HighByte
LEMMA ByteInt == \A x \in Byte : x \in Int
  BY DEF Byte

LEMMA SignedBack == \A d \in Int : SignedByte(d) => Signed(LowByte(d)) = d
  BY SMT DEF Signed, SignedByte, LowByte
LEMMA WordBack == \A n \in Int : Word(LowByte(n), HighByte(n)) = Wrapped(n)
  BY SMT DEF Word, LowByte, HighByte, Wrapped
LEMMA TargetBack ==
  ASSUME NEW m, NEW a \in Int, NEW n \in Int, SignedByte(n - (a + 2)), At(m, a + 1) = LowByte(n - (a + 2))
  PROVE  Target(m, a) = Imm(Wrapped(n))
<1>1. Signed(At(m, a + 1)) = n - (a + 2)
  BY SignedBack
<1>2. a + 2 + (n - (a + 2)) = n
  OBVIOUS
<1> QED BY <1>1, <1>2 DEF Target, Wrapped

LEMMA RoundTripOp ==
  ASSUME NEW i, NEW x \in Byte,
         encodeZ80Instruction(i) = Encoding(1, <<Op(x)>>),
         \A m : \A a \in Int : (At(m, a) = x) => Decodes(i, 1, m, a)
  PROVE  RoundTrips(i, 1)
<1>1. ASSUME NEW a
      PROVE  /\ Emitted(i, a) = emitZ80Fragment(Op(x), a + 1)
             /\ Assembles(i, a) => FragmentFits(Op(x), a + 1)
             /\ instructionSize(i) = 1
  BY Emitted1, Zenon
<1>2. ASSUME NEW a \in Int PROVE x \in Int
  BY ByteInt, ByteMod
<1>3. ASSUME NEW a \in Int PROVE Emitted(i, a) = <<x>>
  BY <1>1, FragmentBytes
<1>4. ASSUME NEW a \in Int PROVE <<x>> \in Seq(Int) /\ Len(<<x>>) = 1
  BY <1>2
<1>5. ASSUME NEW m, NEW a \in Addresses, Reads(m, a, <<x>>) PROVE At(m, a) = x
  <2> DEFINE bytes == <<x>>
  <2>1. Len(bytes) = 1 /\ bytes[1] = x
    OBVIOUS
  <2>2. 1 \in 1..4 /\ a \in Int
    BY DEF Addresses
  <2> HIDE DEF bytes
  <2>3. Reads(m, a, bytes)
    BY <1>5 DEF bytes
  <2>4. /\ At(m, a) = LowByte(bytes[1])
        /\ 1 > 1 => At(m, a + 1) = LowByte(bytes[2])
        /\ 1 > 2 => At(m, a + 2) = LowByte(bytes[3])
        /\ 1 > 3 => At(m, a + 3) = LowByte(bytes[4])
    BY <2>1, <2>2, <2>3, ReadsBytes
  <2>5. At(m, a) = LowByte(x)
    BY <2>1, <2>4
  <2> QED BY <2>2, <2>5, ByteMod, ByteInt
<1>6. ASSUME NEW m, NEW a \in Addresses, Assembles(i, a), Reads(m, a, Emitted(i, a)) PROVE Decodes(i, 1, m, a)
  <2>1. a \in Int
    BY DEF Addresses
  <2>2. At(m, a) = x
    BY <1>3, <1>5, <1>6, <2>1, Zenon
  <2> QED BY <2>1, <2>2
<1>7. instructionSize(i) = 1
  BY <1>1
<1>8. \A a \in Int : Emitted(i, a) \in Seq(Int) /\ Len(Emitted(i, a)) = 1
  BY <1>3, <1>4, Zenon
<1> QED BY <1>6, <1>7, <1>8, Zenon DEF RoundTrips

LEMMA RoundTripOpOp ==
  ASSUME NEW i, NEW x \in Byte, NEW y \in Byte,
         encodeZ80Instruction(i) = Encoding(2, <<Op(x), Op(y)>>),
         \A m : \A a \in Int : (At(m, a) = x /\ At(m, a + 1) = y) => Decodes(i, 2, m, a)
  PROVE  RoundTrips(i, 2)
<1>1. ASSUME NEW a
      PROVE  /\ Emitted(i, a) = Joined(emitZ80Fragment(Op(x), a + 2), emitZ80Fragment(Op(y), a + 2))
             /\ Assembles(i, a) => FragmentFits(Op(x), a + 2) /\ FragmentFits(Op(y), a + 2)
             /\ instructionSize(i) = 2
  BY Emitted2, Zenon
<1>2. ASSUME NEW a \in Int PROVE x \in Int /\ y \in Int
  BY ByteInt, ByteMod
<1>3. ASSUME NEW a \in Int PROVE Emitted(i, a) = <<x, y>>
  <2>1. emitZ80Fragment(Op(x), a + 2) = <<x>> /\ emitZ80Fragment(Op(y), a + 2) = <<y>>
    BY FragmentBytes
  <2>2. Joined(<<x>>, <<y>>) = <<x, y>>
    BY <1>2, Join11, Zenon
  <2> QED BY <1>1, <2>1, <2>2, Zenon
<1>4. ASSUME NEW a \in Int PROVE <<x, y>> \in Seq(Int) /\ Len(<<x, y>>) = 2
  BY <1>2
<1>5. ASSUME NEW m, NEW a \in Addresses, Reads(m, a, <<x, y>>) PROVE At(m, a) = x /\ At(m, a + 1) = y
  <2> DEFINE bytes == <<x, y>>
  <2>1. Len(bytes) = 2 /\ bytes[1] = x /\ bytes[2] = y
    OBVIOUS
  <2>2. 2 \in 1..4 /\ a \in Int
    BY DEF Addresses
  <2> HIDE DEF bytes
  <2>3. Reads(m, a, bytes)
    BY <1>5 DEF bytes
  <2>4. /\ At(m, a) = LowByte(bytes[1])
        /\ 2 > 1 => At(m, a + 1) = LowByte(bytes[2])
        /\ 2 > 2 => At(m, a + 2) = LowByte(bytes[3])
        /\ 2 > 3 => At(m, a + 3) = LowByte(bytes[4])
    BY <2>1, <2>2, <2>3, ReadsBytes
  <2>5. At(m, a) = LowByte(x) /\ At(m, a + 1) = LowByte(y)
    BY <2>1, <2>4
  <2> QED BY <2>2, <2>5, ByteMod, ByteInt
<1>6. ASSUME NEW m, NEW a \in Addresses, Assembles(i, a), Reads(m, a, Emitted(i, a)) PROVE Decodes(i, 2, m, a)
  <2>1. a \in Int
    BY DEF Addresses
  <2>2. At(m, a) = x /\ At(m, a + 1) = y
    BY <1>3, <1>5, <1>6, <2>1, Zenon
  <2> QED BY <2>1, <2>2
<1>7. instructionSize(i) = 2
  BY <1>1
<1>8. \A a \in Int : Emitted(i, a) \in Seq(Int) /\ Len(Emitted(i, a)) = 2
  BY <1>3, <1>4, Zenon
<1> QED BY <1>6, <1>7, <1>8, Zenon DEF RoundTrips

LEMMA RoundTripOpByte ==
  ASSUME NEW i, NEW x \in Byte, NEW n \in Int,
         encodeZ80Instruction(i) = Encoding(2, <<Op(x), I8(n)>>),
         \A m : \A a \in Int : (At(m, a) = x /\ At(m, a + 1) = LowByte(n)) => Decodes(i, 2, m, a)
  PROVE  RoundTrips(i, 2)
<1>1. ASSUME NEW a
      PROVE  /\ Emitted(i, a) = Joined(emitZ80Fragment(Op(x), a + 2), emitZ80Fragment(I8(n), a + 2))
             /\ Assembles(i, a) => FragmentFits(Op(x), a + 2) /\ FragmentFits(I8(n), a + 2)
             /\ instructionSize(i) = 2
  BY Emitted2, Zenon
<1>2. ASSUME NEW a \in Int PROVE x \in Int /\ LowByte(n) \in Int
  BY ByteInt, ByteMod
<1>3. ASSUME NEW a \in Int PROVE Emitted(i, a) = <<x, LowByte(n)>>
  <2>1. emitZ80Fragment(Op(x), a + 2) = <<x>> /\ emitZ80Fragment(I8(n), a + 2) = <<LowByte(n)>>
    BY FragmentBytes
  <2>2. Joined(<<x>>, <<LowByte(n)>>) = <<x, LowByte(n)>>
    BY <1>2, Join11, Zenon
  <2> QED BY <1>1, <2>1, <2>2, Zenon
<1>4. ASSUME NEW a \in Int PROVE <<x, LowByte(n)>> \in Seq(Int) /\ Len(<<x, LowByte(n)>>) = 2
  BY <1>2
<1>5. ASSUME NEW m, NEW a \in Addresses, Reads(m, a, <<x, LowByte(n)>>) PROVE At(m, a) = x /\ At(m, a + 1) = LowByte(n)
  <2> DEFINE bytes == <<x, LowByte(n)>>
  <2>1. Len(bytes) = 2 /\ bytes[1] = x /\ bytes[2] = LowByte(n)
    OBVIOUS
  <2>2. 2 \in 1..4 /\ a \in Int
    BY DEF Addresses
  <2> HIDE DEF bytes
  <2>3. Reads(m, a, bytes)
    BY <1>5 DEF bytes
  <2>4. /\ At(m, a) = LowByte(bytes[1])
        /\ 2 > 1 => At(m, a + 1) = LowByte(bytes[2])
        /\ 2 > 2 => At(m, a + 2) = LowByte(bytes[3])
        /\ 2 > 3 => At(m, a + 3) = LowByte(bytes[4])
    BY <2>1, <2>2, <2>3, ReadsBytes
  <2>5. At(m, a) = LowByte(x) /\ At(m, a + 1) = LowByte(LowByte(n))
    BY <2>1, <2>4
  <2> QED BY <2>2, <2>5, ByteMod, ByteInt
<1>6. ASSUME NEW m, NEW a \in Addresses, Assembles(i, a), Reads(m, a, Emitted(i, a)) PROVE Decodes(i, 2, m, a)
  <2>1. a \in Int
    BY DEF Addresses
  <2>2. At(m, a) = x /\ At(m, a + 1) = LowByte(n)
    BY <1>3, <1>5, <1>6, <2>1, Zenon
  <2> QED BY <2>1, <2>2
<1>7. instructionSize(i) = 2
  BY <1>1
<1>8. \A a \in Int : Emitted(i, a) \in Seq(Int) /\ Len(Emitted(i, a)) = 2
  BY <1>3, <1>4, Zenon
<1> QED BY <1>6, <1>7, <1>8, Zenon DEF RoundTrips

LEMMA RoundTripOpWord ==
  ASSUME NEW i, NEW x \in Byte, NEW n \in Int,
         encodeZ80Instruction(i) = Encoding(3, <<Op(x), A16(n)>>),
         \A m : \A a \in Int : (At(m, a) = x /\ WordAt(m, a + 1) = Wrapped(n)) => Decodes(i, 3, m, a)
  PROVE  RoundTrips(i, 3)
<1>1. ASSUME NEW a
      PROVE  /\ Emitted(i, a) = Joined(emitZ80Fragment(Op(x), a + 3), emitZ80Fragment(A16(n), a + 3))
             /\ Assembles(i, a) => FragmentFits(Op(x), a + 3) /\ FragmentFits(A16(n), a + 3)
             /\ instructionSize(i) = 3
  BY Emitted2, Zenon
<1>2. ASSUME NEW a \in Int PROVE x \in Int /\ LowByte(n) \in Int /\ HighByte(n) \in Int
  BY ByteInt, ByteMod
<1>3. ASSUME NEW a \in Int PROVE Emitted(i, a) = <<x, LowByte(n), HighByte(n)>>
  <2>1. emitZ80Fragment(Op(x), a + 3) = <<x>> /\ emitZ80Fragment(A16(n), a + 3) = <<LowByte(n), HighByte(n)>>
    BY FragmentBytes
  <2>2. Joined(<<x>>, <<LowByte(n), HighByte(n)>>) = <<x, LowByte(n), HighByte(n)>>
    BY <1>2, Join12, Zenon
  <2> QED BY <1>1, <2>1, <2>2, Zenon
<1>4. ASSUME NEW a \in Int PROVE <<x, LowByte(n), HighByte(n)>> \in Seq(Int) /\ Len(<<x, LowByte(n), HighByte(n)>>) = 3
  BY <1>2
<1>5. ASSUME NEW m, NEW a \in Addresses, Reads(m, a, <<x, LowByte(n), HighByte(n)>>) PROVE At(m, a) = x /\ At(m, a + 1) = LowByte(n) /\ At(m, a + 2) = HighByte(n)
  <2> DEFINE bytes == <<x, LowByte(n), HighByte(n)>>
  <2>1. Len(bytes) = 3 /\ bytes[1] = x /\ bytes[2] = LowByte(n) /\ bytes[3] = HighByte(n)
    OBVIOUS
  <2>2. 3 \in 1..4 /\ a \in Int
    BY DEF Addresses
  <2> HIDE DEF bytes
  <2>3. Reads(m, a, bytes)
    BY <1>5 DEF bytes
  <2>4. /\ At(m, a) = LowByte(bytes[1])
        /\ 3 > 1 => At(m, a + 1) = LowByte(bytes[2])
        /\ 3 > 2 => At(m, a + 2) = LowByte(bytes[3])
        /\ 3 > 3 => At(m, a + 3) = LowByte(bytes[4])
    BY <2>1, <2>2, <2>3, ReadsBytes
  <2>5. At(m, a) = LowByte(x) /\ At(m, a + 1) = LowByte(LowByte(n)) /\ At(m, a + 2) = LowByte(HighByte(n))
    BY <2>1, <2>4
  <2> QED BY <2>2, <2>5, ByteMod, ByteInt
<1>6. ASSUME NEW m, NEW a \in Addresses, Assembles(i, a), Reads(m, a, Emitted(i, a)) PROVE Decodes(i, 3, m, a)
  <2>1. a \in Int
    BY DEF Addresses
  <2>2. At(m, a) = x /\ At(m, a + 1) = LowByte(n) /\ At(m, a + 2) = HighByte(n)
    BY <1>3, <1>5, <1>6, <2>1, Zenon
  <2>3. WordFits(n)
    BY <1>1, <1>6, FragmentBytes
  <2>4. WordAt(m, a + 1) = Wrapped(n)
    <3>1. At(m, (a + 1) + 1) = HighByte(n)
      BY <2>1, <2>2
    <3> QED BY <2>2, <3>1, WordBack DEF WordAt
  <2> QED BY <2>1, <2>2, <2>4
<1>7. instructionSize(i) = 3
  BY <1>1
<1>8. \A a \in Int : Emitted(i, a) \in Seq(Int) /\ Len(Emitted(i, a)) = 3
  BY <1>3, <1>4, Zenon
<1> QED BY <1>6, <1>7, <1>8, Zenon DEF RoundTrips

LEMMA RoundTripOpBranch ==
  ASSUME NEW i, NEW x \in Byte, NEW n \in Int,
         encodeZ80Instruction(i) = Encoding(2, <<Op(x), Rel(n)>>),
         \A m : \A a \in Int : (At(m, a) = x /\ Target(m, a) = Imm(Wrapped(n))) => Decodes(i, 2, m, a)
  PROVE  RoundTrips(i, 2)
<1>1. ASSUME NEW a
      PROVE  /\ Emitted(i, a) = Joined(emitZ80Fragment(Op(x), a + 2), emitZ80Fragment(Rel(n), a + 2))
             /\ Assembles(i, a) => FragmentFits(Op(x), a + 2) /\ FragmentFits(Rel(n), a + 2)
             /\ instructionSize(i) = 2
  BY Emitted2, Zenon
<1>2. ASSUME NEW a \in Int PROVE x \in Int /\ LowByte(n - (a + 2)) \in Int
  BY ByteInt, ByteMod
<1>3. ASSUME NEW a \in Int PROVE Emitted(i, a) = <<x, LowByte(n - (a + 2))>>
  <2>1. emitZ80Fragment(Op(x), a + 2) = <<x>> /\ emitZ80Fragment(Rel(n), a + 2) = <<LowByte(n - (a + 2))>>
    BY FragmentBytes
  <2>2. Joined(<<x>>, <<LowByte(n - (a + 2))>>) = <<x, LowByte(n - (a + 2))>>
    BY <1>2, Join11, Zenon
  <2> QED BY <1>1, <2>1, <2>2, Zenon
<1>4. ASSUME NEW a \in Int PROVE <<x, LowByte(n - (a + 2))>> \in Seq(Int) /\ Len(<<x, LowByte(n - (a + 2))>>) = 2
  BY <1>2
<1>5. ASSUME NEW m, NEW a \in Addresses, Reads(m, a, <<x, LowByte(n - (a + 2))>>) PROVE At(m, a) = x /\ At(m, a + 1) = LowByte(n - (a + 2))
  <2> DEFINE bytes == <<x, LowByte(n - (a + 2))>>
  <2>1. Len(bytes) = 2 /\ bytes[1] = x /\ bytes[2] = LowByte(n - (a + 2))
    OBVIOUS
  <2>2. 2 \in 1..4 /\ a \in Int
    BY DEF Addresses
  <2> HIDE DEF bytes
  <2>3. Reads(m, a, bytes)
    BY <1>5 DEF bytes
  <2>4. /\ At(m, a) = LowByte(bytes[1])
        /\ 2 > 1 => At(m, a + 1) = LowByte(bytes[2])
        /\ 2 > 2 => At(m, a + 2) = LowByte(bytes[3])
        /\ 2 > 3 => At(m, a + 3) = LowByte(bytes[4])
    BY <2>1, <2>2, <2>3, ReadsBytes
  <2>5. At(m, a) = LowByte(x) /\ At(m, a + 1) = LowByte(LowByte(n - (a + 2)))
    BY <2>1, <2>4
  <2> QED BY <2>2, <2>5, ByteMod, ByteInt
<1>6. ASSUME NEW m, NEW a \in Addresses, Assembles(i, a), Reads(m, a, Emitted(i, a)) PROVE Decodes(i, 2, m, a)
  <2>1. a \in Int
    BY DEF Addresses
  <2>2. At(m, a) = x /\ At(m, a + 1) = LowByte(n - (a + 2))
    BY <1>3, <1>5, <1>6, <2>1, Zenon
  <2>3. SignedByte(n - (a + 2))
    BY <1>1, <1>6, FragmentBytes
  <2>4. Target(m, a) = Imm(Wrapped(n))
    BY <2>1, <2>2, <2>3, TargetBack
  <2> QED BY <2>1, <2>2, <2>4
<1>7. instructionSize(i) = 2
  BY <1>1
<1>8. \A a \in Int : Emitted(i, a) \in Seq(Int) /\ Len(Emitted(i, a)) = 2
  BY <1>3, <1>4, Zenon
<1> QED BY <1>6, <1>7, <1>8, Zenon DEF RoundTrips

LEMMA RoundTripOpOpWord ==
  ASSUME NEW i, NEW x \in Byte, NEW y \in Byte, NEW n \in Int,
         encodeZ80Instruction(i) = Encoding(4, <<Op(x), Op(y), A16(n)>>),
         \A m : \A a \in Int : (At(m, a) = x /\ At(m, a + 1) = y /\ WordAt(m, a + 2) = Wrapped(n)) => Decodes(i, 4, m, a)
  PROVE  RoundTrips(i, 4)
<1>1. ASSUME NEW a
      PROVE  /\ Emitted(i, a) = Joined(Joined(emitZ80Fragment(Op(x), a + 4), emitZ80Fragment(Op(y), a + 4)), emitZ80Fragment(A16(n), a + 4))
             /\ Assembles(i, a) => FragmentFits(Op(x), a + 4) /\ FragmentFits(Op(y), a + 4) /\ FragmentFits(A16(n), a + 4)
             /\ instructionSize(i) = 4
  BY Emitted3, Zenon
<1>2. ASSUME NEW a \in Int PROVE x \in Int /\ y \in Int /\ LowByte(n) \in Int /\ HighByte(n) \in Int
  BY ByteInt, ByteMod
<1>3. ASSUME NEW a \in Int PROVE Emitted(i, a) = <<x, y, LowByte(n), HighByte(n)>>
  <2>1. emitZ80Fragment(Op(x), a + 4) = <<x>> /\ emitZ80Fragment(Op(y), a + 4) = <<y>> /\ emitZ80Fragment(A16(n), a + 4) = <<LowByte(n), HighByte(n)>>
    BY FragmentBytes
  <2>2. Joined(<<x>>, <<y>>) = <<x, y>>
    BY <1>2, Join11, Zenon
  <2>3. Joined(<<x, y>>, <<LowByte(n), HighByte(n)>>) = <<x, y, LowByte(n), HighByte(n)>>
    BY <1>2, Join22, Zenon
  <2> QED BY <1>1, <2>1, <2>2, <2>3, Zenon
<1>4. ASSUME NEW a \in Int PROVE <<x, y, LowByte(n), HighByte(n)>> \in Seq(Int) /\ Len(<<x, y, LowByte(n), HighByte(n)>>) = 4
  BY <1>2
<1>5. ASSUME NEW m, NEW a \in Addresses, Reads(m, a, <<x, y, LowByte(n), HighByte(n)>>) PROVE At(m, a) = x /\ At(m, a + 1) = y /\ At(m, a + 2) = LowByte(n) /\ At(m, a + 3) = HighByte(n)
  <2> DEFINE bytes == <<x, y, LowByte(n), HighByte(n)>>
  <2>1. Len(bytes) = 4 /\ bytes[1] = x /\ bytes[2] = y /\ bytes[3] = LowByte(n) /\ bytes[4] = HighByte(n)
    OBVIOUS
  <2>2. 4 \in 1..4 /\ a \in Int
    BY DEF Addresses
  <2> HIDE DEF bytes
  <2>3. Reads(m, a, bytes)
    BY <1>5 DEF bytes
  <2>4. /\ At(m, a) = LowByte(bytes[1])
        /\ 4 > 1 => At(m, a + 1) = LowByte(bytes[2])
        /\ 4 > 2 => At(m, a + 2) = LowByte(bytes[3])
        /\ 4 > 3 => At(m, a + 3) = LowByte(bytes[4])
    BY <2>1, <2>2, <2>3, ReadsBytes
  <2>5. At(m, a) = LowByte(x) /\ At(m, a + 1) = LowByte(y) /\ At(m, a + 2) = LowByte(LowByte(n)) /\ At(m, a + 3) = LowByte(HighByte(n))
    BY <2>1, <2>4
  <2> QED BY <2>2, <2>5, ByteMod, ByteInt
<1>6. ASSUME NEW m, NEW a \in Addresses, Assembles(i, a), Reads(m, a, Emitted(i, a)) PROVE Decodes(i, 4, m, a)
  <2>1. a \in Int
    BY DEF Addresses
  <2>2. At(m, a) = x /\ At(m, a + 1) = y /\ At(m, a + 2) = LowByte(n) /\ At(m, a + 3) = HighByte(n)
    BY <1>3, <1>5, <1>6, <2>1, Zenon
  <2>3. WordFits(n)
    BY <1>1, <1>6, FragmentBytes
  <2>4. WordAt(m, a + 2) = Wrapped(n)
    <3>1. At(m, (a + 2) + 1) = HighByte(n)
      BY <2>1, <2>2
    <3> QED BY <2>2, <3>1, WordBack DEF WordAt
  <2> QED BY <2>1, <2>2, <2>4
<1>7. instructionSize(i) = 4
  BY <1>1
<1>8. \A a \in Int : Emitted(i, a) \in Seq(Int) /\ Len(Emitted(i, a)) = 4
  BY <1>3, <1>4, Zenon
<1> QED BY <1>6, <1>7, <1>8, Zenon DEF RoundTrips

LEMMA RoundTripOpOpDisp ==
  ASSUME NEW i, NEW x \in Byte, NEW y \in Byte, NEW d \in Int,
         encodeZ80Instruction(i) = Encoding(3, <<Op(x), Op(y), D8(d)>>),
         \A m : \A a \in Int : (At(m, a) = x /\ At(m, a + 1) = y /\ Signed(At(m, a + 2)) = d) => Decodes(i, 3, m, a)
  PROVE  RoundTrips(i, 3)
<1>1. ASSUME NEW a
      PROVE  /\ Emitted(i, a) = Joined(Joined(emitZ80Fragment(Op(x), a + 3), emitZ80Fragment(Op(y), a + 3)), emitZ80Fragment(D8(d), a + 3))
             /\ Assembles(i, a) => FragmentFits(Op(x), a + 3) /\ FragmentFits(Op(y), a + 3) /\ FragmentFits(D8(d), a + 3)
             /\ instructionSize(i) = 3
  BY Emitted3, Zenon
<1>2. ASSUME NEW a \in Int PROVE x \in Int /\ y \in Int /\ LowByte(d) \in Int
  BY ByteInt, ByteMod
<1>3. ASSUME NEW a \in Int PROVE Emitted(i, a) = <<x, y, LowByte(d)>>
  <2>1. emitZ80Fragment(Op(x), a + 3) = <<x>> /\ emitZ80Fragment(Op(y), a + 3) = <<y>> /\ emitZ80Fragment(D8(d), a + 3) = <<LowByte(d)>>
    BY FragmentBytes
  <2>2. Joined(<<x>>, <<y>>) = <<x, y>>
    BY <1>2, Join11, Zenon
  <2>3. Joined(<<x, y>>, <<LowByte(d)>>) = <<x, y, LowByte(d)>>
    BY <1>2, Join21, Zenon
  <2> QED BY <1>1, <2>1, <2>2, <2>3, Zenon
<1>4. ASSUME NEW a \in Int PROVE <<x, y, LowByte(d)>> \in Seq(Int) /\ Len(<<x, y, LowByte(d)>>) = 3
  BY <1>2
<1>5. ASSUME NEW m, NEW a \in Addresses, Reads(m, a, <<x, y, LowByte(d)>>) PROVE At(m, a) = x /\ At(m, a + 1) = y /\ At(m, a + 2) = LowByte(d)
  <2> DEFINE bytes == <<x, y, LowByte(d)>>
  <2>1. Len(bytes) = 3 /\ bytes[1] = x /\ bytes[2] = y /\ bytes[3] = LowByte(d)
    OBVIOUS
  <2>2. 3 \in 1..4 /\ a \in Int
    BY DEF Addresses
  <2> HIDE DEF bytes
  <2>3. Reads(m, a, bytes)
    BY <1>5 DEF bytes
  <2>4. /\ At(m, a) = LowByte(bytes[1])
        /\ 3 > 1 => At(m, a + 1) = LowByte(bytes[2])
        /\ 3 > 2 => At(m, a + 2) = LowByte(bytes[3])
        /\ 3 > 3 => At(m, a + 3) = LowByte(bytes[4])
    BY <2>1, <2>2, <2>3, ReadsBytes
  <2>5. At(m, a) = LowByte(x) /\ At(m, a + 1) = LowByte(y) /\ At(m, a + 2) = LowByte(LowByte(d))
    BY <2>1, <2>4
  <2> QED BY <2>2, <2>5, ByteMod, ByteInt
<1>6. ASSUME NEW m, NEW a \in Addresses, Assembles(i, a), Reads(m, a, Emitted(i, a)) PROVE Decodes(i, 3, m, a)
  <2>1. a \in Int
    BY DEF Addresses
  <2>2. At(m, a) = x /\ At(m, a + 1) = y /\ At(m, a + 2) = LowByte(d)
    BY <1>3, <1>5, <1>6, <2>1, Zenon
  <2>3. SignedByte(d)
    BY <1>1, <1>6, FragmentBytes
  <2>4. Signed(At(m, a + 2)) = d
    BY <2>2, <2>3, SignedBack
  <2> QED BY <2>1, <2>2, <2>4
<1>7. instructionSize(i) = 3
  BY <1>1
<1>8. \A a \in Int : Emitted(i, a) \in Seq(Int) /\ Len(Emitted(i, a)) = 3
  BY <1>3, <1>4, Zenon
<1> QED BY <1>6, <1>7, <1>8, Zenon DEF RoundTrips

LEMMA RoundTripOpOpDispByte ==
  ASSUME NEW i, NEW x \in Byte, NEW y \in Byte, NEW d \in Int, NEW n \in Int,
         encodeZ80Instruction(i) = Encoding(4, <<Op(x), Op(y), D8(d), I8(n)>>),
         \A m : \A a \in Int : (At(m, a) = x /\ At(m, a + 1) = y /\ Signed(At(m, a + 2)) = d /\ At(m, a + 3) = LowByte(n)) => Decodes(i, 4, m, a)
  PROVE  RoundTrips(i, 4)
<1>1. ASSUME NEW a
      PROVE  /\ Emitted(i, a) = Joined(Joined(Joined(emitZ80Fragment(Op(x), a + 4), emitZ80Fragment(Op(y), a + 4)), emitZ80Fragment(D8(d), a + 4)), emitZ80Fragment(I8(n), a + 4))
             /\ Assembles(i, a) => FragmentFits(Op(x), a + 4) /\ FragmentFits(Op(y), a + 4) /\ FragmentFits(D8(d), a + 4) /\ FragmentFits(I8(n), a + 4)
             /\ instructionSize(i) = 4
  BY Emitted4, Zenon
<1>2. ASSUME NEW a \in Int PROVE x \in Int /\ y \in Int /\ LowByte(d) \in Int /\ LowByte(n) \in Int
  BY ByteInt, ByteMod
<1>3. ASSUME NEW a \in Int PROVE Emitted(i, a) = <<x, y, LowByte(d), LowByte(n)>>
  <2>1. emitZ80Fragment(Op(x), a + 4) = <<x>> /\ emitZ80Fragment(Op(y), a + 4) = <<y>> /\ emitZ80Fragment(D8(d), a + 4) = <<LowByte(d)>> /\ emitZ80Fragment(I8(n), a + 4) = <<LowByte(n)>>
    BY FragmentBytes
  <2>2. Joined(<<x>>, <<y>>) = <<x, y>>
    BY <1>2, Join11, Zenon
  <2>3. Joined(<<x, y>>, <<LowByte(d)>>) = <<x, y, LowByte(d)>>
    BY <1>2, Join21, Zenon
  <2>4. Joined(<<x, y, LowByte(d)>>, <<LowByte(n)>>) = <<x, y, LowByte(d), LowByte(n)>>
    BY <1>2, Join31, Zenon
  <2> QED BY <1>1, <2>1, <2>2, <2>3, <2>4, Zenon
<1>4. ASSUME NEW a \in Int PROVE <<x, y, LowByte(d), LowByte(n)>> \in Seq(Int) /\ Len(<<x, y, LowByte(d), LowByte(n)>>) = 4
  BY <1>2
<1>5. ASSUME NEW m, NEW a \in Addresses, Reads(m, a, <<x, y, LowByte(d), LowByte(n)>>) PROVE At(m, a) = x /\ At(m, a + 1) = y /\ At(m, a + 2) = LowByte(d) /\ At(m, a + 3) = LowByte(n)
  <2> DEFINE bytes == <<x, y, LowByte(d), LowByte(n)>>
  <2>1. Len(bytes) = 4 /\ bytes[1] = x /\ bytes[2] = y /\ bytes[3] = LowByte(d) /\ bytes[4] = LowByte(n)
    OBVIOUS
  <2>2. 4 \in 1..4 /\ a \in Int
    BY DEF Addresses
  <2> HIDE DEF bytes
  <2>3. Reads(m, a, bytes)
    BY <1>5 DEF bytes
  <2>4. /\ At(m, a) = LowByte(bytes[1])
        /\ 4 > 1 => At(m, a + 1) = LowByte(bytes[2])
        /\ 4 > 2 => At(m, a + 2) = LowByte(bytes[3])
        /\ 4 > 3 => At(m, a + 3) = LowByte(bytes[4])
    BY <2>1, <2>2, <2>3, ReadsBytes
  <2>5. At(m, a) = LowByte(x) /\ At(m, a + 1) = LowByte(y) /\ At(m, a + 2) = LowByte(LowByte(d)) /\ At(m, a + 3) = LowByte(LowByte(n))
    BY <2>1, <2>4
  <2> QED BY <2>2, <2>5, ByteMod, ByteInt
<1>6. ASSUME NEW m, NEW a \in Addresses, Assembles(i, a), Reads(m, a, Emitted(i, a)) PROVE Decodes(i, 4, m, a)
  <2>1. a \in Int
    BY DEF Addresses
  <2>2. At(m, a) = x /\ At(m, a + 1) = y /\ At(m, a + 2) = LowByte(d) /\ At(m, a + 3) = LowByte(n)
    BY <1>3, <1>5, <1>6, <2>1, Zenon
  <2>3. SignedByte(d)
    BY <1>1, <1>6, FragmentBytes
  <2>4. Signed(At(m, a + 2)) = d
    BY <2>2, <2>3, SignedBack
  <2> QED BY <2>1, <2>2, <2>4
<1>7. instructionSize(i) = 4
  BY <1>1
<1>8. \A a \in Int : Emitted(i, a) \in Seq(Int) /\ Len(Emitted(i, a)) = 4
  BY <1>3, <1>4, Zenon
<1> QED BY <1>6, <1>7, <1>8, Zenon DEF RoundTrips

LEMMA RoundTripOpOpDispOp ==
  ASSUME NEW i, NEW x \in Byte, NEW y \in Byte, NEW d \in Int, NEW z \in Byte,
         encodeZ80Instruction(i) = Encoding(4, <<Op(x), Op(y), D8(d), Op(z)>>),
         \A m : \A a \in Int : (At(m, a) = x /\ At(m, a + 1) = y /\ Signed(At(m, a + 2)) = d /\ At(m, a + 3) = z) => Decodes(i, 4, m, a)
  PROVE  RoundTrips(i, 4)
<1>1. ASSUME NEW a
      PROVE  /\ Emitted(i, a) = Joined(Joined(Joined(emitZ80Fragment(Op(x), a + 4), emitZ80Fragment(Op(y), a + 4)), emitZ80Fragment(D8(d), a + 4)), emitZ80Fragment(Op(z), a + 4))
             /\ Assembles(i, a) => FragmentFits(Op(x), a + 4) /\ FragmentFits(Op(y), a + 4) /\ FragmentFits(D8(d), a + 4) /\ FragmentFits(Op(z), a + 4)
             /\ instructionSize(i) = 4
  BY Emitted4, Zenon
<1>2. ASSUME NEW a \in Int PROVE x \in Int /\ y \in Int /\ LowByte(d) \in Int /\ z \in Int
  BY ByteInt, ByteMod
<1>3. ASSUME NEW a \in Int PROVE Emitted(i, a) = <<x, y, LowByte(d), z>>
  <2>1. emitZ80Fragment(Op(x), a + 4) = <<x>> /\ emitZ80Fragment(Op(y), a + 4) = <<y>> /\ emitZ80Fragment(D8(d), a + 4) = <<LowByte(d)>> /\ emitZ80Fragment(Op(z), a + 4) = <<z>>
    BY FragmentBytes
  <2>2. Joined(<<x>>, <<y>>) = <<x, y>>
    BY <1>2, Join11, Zenon
  <2>3. Joined(<<x, y>>, <<LowByte(d)>>) = <<x, y, LowByte(d)>>
    BY <1>2, Join21, Zenon
  <2>4. Joined(<<x, y, LowByte(d)>>, <<z>>) = <<x, y, LowByte(d), z>>
    BY <1>2, Join31, Zenon
  <2> QED BY <1>1, <2>1, <2>2, <2>3, <2>4, Zenon
<1>4. ASSUME NEW a \in Int PROVE <<x, y, LowByte(d), z>> \in Seq(Int) /\ Len(<<x, y, LowByte(d), z>>) = 4
  BY <1>2
<1>5. ASSUME NEW m, NEW a \in Addresses, Reads(m, a, <<x, y, LowByte(d), z>>) PROVE At(m, a) = x /\ At(m, a + 1) = y /\ At(m, a + 2) = LowByte(d) /\ At(m, a + 3) = z
  <2> DEFINE bytes == <<x, y, LowByte(d), z>>
  <2>1. Len(bytes) = 4 /\ bytes[1] = x /\ bytes[2] = y /\ bytes[3] = LowByte(d) /\ bytes[4] = z
    OBVIOUS
  <2>2. 4 \in 1..4 /\ a \in Int
    BY DEF Addresses
  <2> HIDE DEF bytes
  <2>3. Reads(m, a, bytes)
    BY <1>5 DEF bytes
  <2>4. /\ At(m, a) = LowByte(bytes[1])
        /\ 4 > 1 => At(m, a + 1) = LowByte(bytes[2])
        /\ 4 > 2 => At(m, a + 2) = LowByte(bytes[3])
        /\ 4 > 3 => At(m, a + 3) = LowByte(bytes[4])
    BY <2>1, <2>2, <2>3, ReadsBytes
  <2>5. At(m, a) = LowByte(x) /\ At(m, a + 1) = LowByte(y) /\ At(m, a + 2) = LowByte(LowByte(d)) /\ At(m, a + 3) = LowByte(z)
    BY <2>1, <2>4
  <2> QED BY <2>2, <2>5, ByteMod, ByteInt
<1>6. ASSUME NEW m, NEW a \in Addresses, Assembles(i, a), Reads(m, a, Emitted(i, a)) PROVE Decodes(i, 4, m, a)
  <2>1. a \in Int
    BY DEF Addresses
  <2>2. At(m, a) = x /\ At(m, a + 1) = y /\ At(m, a + 2) = LowByte(d) /\ At(m, a + 3) = z
    BY <1>3, <1>5, <1>6, <2>1, Zenon
  <2>3. SignedByte(d)
    BY <1>1, <1>6, FragmentBytes
  <2>4. Signed(At(m, a + 2)) = d
    BY <2>2, <2>3, SignedBack
  <2> QED BY <2>1, <2>2, <2>4
<1>7. instructionSize(i) = 4
  BY <1>1
<1>8. \A a \in Int : Emitted(i, a) \in Seq(Int) /\ Len(Emitted(i, a)) = 4
  BY <1>3, <1>4, Zenon
<1> QED BY <1>6, <1>7, <1>8, Zenon DEF RoundTrips

(* ---------------------------- the decoder's tables --------------------------- *)
LEMMA DecodePrimary ==
  ASSUME NEW m, NEW a, NEW op \in Byte, At(m, a) = op
  PROVE  /\ op < 64 => decodeInstruction(m, a) = LowPrimary(m, a, op)
         /\ op >= 64 /\ op < 192 => decodeInstruction(m, a) = MatrixPrimary(op)
         /\ op >= 192 /\ op \notin {203, 221, 237, 253} => decodeInstruction(m, a) = HighPrimary(m, a, op)
         /\ op = 203 => decodeInstruction(m, a) = CbTable(m, a)
         /\ op = 237 => decodeInstruction(m, a) = EdTable(m, a)
  BY DEF decodeInstruction, Byte

LEMMA DecodeIndex ==
  ASSUME NEW m, NEW a, NEW x \in Index, At(m, a) = indexPrefix[x], NEW op \in Byte, At(m, a + 1) = op
  PROVE  /\ op < 64 => decodeInstruction(m, a) = DdLow(m, a, op, x)
         /\ op >= 64 /\ op < 192 => decodeInstruction(m, a) = DdMatrix(m, a, op, x)
         /\ op >= 192 => decodeInstruction(m, a) = DdHigh(m, a, op, x)
<1>1. decodeInstruction(m, a) = DdTable(m, a, x)
  BY DEF decodeInstruction, Index, indexPrefix
<1> QED BY <1>1 DEF DdTable, Byte
LEMMA DecodeIndexAlu ==
  ASSUME NEW m, NEW a, NEW x \in Index, At(m, a) = indexPrefix[x], NEW op \in Byte, At(m, a + 1) = op, op >= 128, op < 192
  PROVE  decodeInstruction(m, a) = DdMatrix(m, a, op, x)
<1> op >= 64
  BY DEF Byte
<1> QED BY DecodeIndex
LEMMA DecodeDdcb ==
  ASSUME NEW m, NEW a, NEW x \in Index, At(m, a) = indexPrefix[x], At(m, a + 1) = 203
  PROVE  decodeInstruction(m, a) = DdHigh(m, a, 203, x)
<1> 203 \in Byte
  BY DEF Byte
<1> QED BY DecodeIndex
LEMMA DecodeIndexMatrix ==
  ASSUME NEW m, NEW a, NEW x \in Index, At(m, a) = indexPrefix[x], NEW op \in Byte, At(m, a + 1) = op, op >= 64, op < 128
  PROVE  decodeInstruction(m, a) = DdMatrix(m, a, op, x)
<1> op < 192
  BY DEF Byte
<1> QED BY DecodeIndex

LEMMA OpcodeParts ==
  ASSUME NEW q \in 0..3, NEW t \in 0..7, NEW s \in 0..7
  PROVE  /\ Row(64 * q + 8 * t + s) = t
         /\ Column(64 * q + 8 * t + s) = s
         /\ 64 * q + 8 * t + s \in Byte
  BY SMT DEF Row, Column, Byte

LEMMA RegisterCodes ==
  ASSUME NEW r \in Bytes8
  PROVE  /\ register8Code[r] \in 0..7 /\ register8Code[r] # 6
         /\ ByteOperand(register8Code[r]) = R8(r)
  BY DEF Bytes8, register8Code, ByteOperand, RegisterOrder

LEMMA MemoryOperand == ByteOperand(6) = Indirect("hl")
  BY DEF ByteOperand

LEMMA DecodedIns ==
  ASSUME NEW mn, NEW dst, NEW src, NEW arg
  PROVE  /\ mn # "sls" => AsDecoded(Ins(mn, dst, src, arg)) =
                             Ins(mn, Narrowed(Ins(mn, dst, src, arg), dst), Narrowed(Ins(mn, dst, src, arg), src), arg)
         /\ mn = "sls" => AsDecoded(Ins(mn, dst, src, arg)) =
                             Ins("sll", Narrowed(Ins(mn, dst, src, arg), dst), Narrowed(Ins(mn, dst, src, arg), src), arg)
<1> DEFINE i == Ins(mn, dst, src, arg)
<1>1. i = [mn |-> mn, dst |-> dst, src |-> src, arg |-> arg]
  BY DEF Ins
<1> HIDE DEF i
<1>2. AsDecoded(i) = [i EXCEPT !.mn = IF @ = "sls" THEN "sll" ELSE @, !.src = Narrowed(i, @), !.dst = Narrowed(i, @)]
  BY Zenon DEF AsDecoded
<1> DEFINE s == Narrowed(i, src)  d == Narrowed(i, dst)
<1>3. AsDecoded(i) = [i EXCEPT !.mn = IF mn = "sls" THEN "sll" ELSE mn, !.src = s, !.dst = d]
  BY <1>1, <1>2
<1> HIDE DEF s, d
<1>4. AsDecoded(i) = Ins(IF mn = "sls" THEN "sll" ELSE mn, d, s, arg)
  BY <1>1, <1>3 DEF Ins
<1> QED BY <1>4 DEF i, s, d

LEMMA NarrowedOperands ==
  ASSUME NEW i, NEW r, NEW d
  PROVE  /\ Narrowed(i, None) = None /\ Narrowed(i, R8(r)) = R8(r) /\ Narrowed(i, R16(r)) = R16(r)
         /\ Narrowed(i, Half(r)) = Half(r) /\ Narrowed(i, Special(r)) = Special(r)
         /\ Narrowed(i, Indirect(r)) = Indirect(r) /\ Narrowed(i, Indexed(r, d)) = Indexed(r, d)
  BY DEF Narrowed, None, R8, R16, Half, Special, Indirect, Indexed, Operand

LEMMA Kinds ==
  ASSUME NEW r, NEW n
  PROVE  /\ None.kind = "none" /\ R8(r).kind = "reg8" /\ R16(r).kind = "reg16" /\ Half(r).kind = "half"
         /\ Special(r).kind = "special8" /\ Indirect(r).kind = "indirect" /\ Abs(n).kind = "abs"
         /\ Indexed(r, n).kind = "indexed" /\ Imm(n).kind = "imm" /\ PortC.kind = "port" /\ PortN(n).kind = "port"
  BY DEF None, R8, R16, Half, Special, Indirect, Abs, Indexed, Imm, PortC, PortN, Operand

LEMMA ValueReplaced ==
  ASSUME NEW n, NEW w
  PROVE  /\ [Abs(n) EXCEPT !.val = w] = Abs(w) /\ [Imm(n) EXCEPT !.val = w] = Imm(w)
         /\ [PortN(n) EXCEPT !.val = w] = PortN(w) /\ [PortC EXCEPT !.val = 0] = PortC
         /\ \A r : [Indexed(r, n) EXCEPT !.val = w] = Indexed(r, w)
<1>1. [Abs(n) EXCEPT !.val = w] = Abs(w)
  <2> DEFINE f == [Abs(n) EXCEPT !.val = w]
  <2>1. f = [x \in {"kind", "reg", "val"} |-> IF x = "val" THEN w ELSE Abs(n)[x]]
    BY DEF Abs, Operand
  <2>2. f.kind = "abs" /\ f.reg = "" /\ f.val = w
    BY <2>1 DEF Abs, Operand
  <2>3. f = [kind |-> f.kind, reg |-> f.reg, val |-> f.val]
    BY <2>1
  <2> QED BY <2>2, <2>3 DEF Abs, Operand
<1>2. [Imm(n) EXCEPT !.val = w] = Imm(w)
  <2> DEFINE f == [Imm(n) EXCEPT !.val = w]
  <2>1. f = [x \in {"kind", "reg", "val"} |-> IF x = "val" THEN w ELSE Imm(n)[x]]
    BY DEF Imm, Operand
  <2>2. f.kind = "imm" /\ f.reg = "" /\ f.val = w
    BY <2>1 DEF Imm, Operand
  <2>3. f = [kind |-> f.kind, reg |-> f.reg, val |-> f.val]
    BY <2>1
  <2> QED BY <2>2, <2>3 DEF Imm, Operand
<1>3. [PortN(n) EXCEPT !.val = w] = PortN(w)
  <2> DEFINE f == [PortN(n) EXCEPT !.val = w]
  <2>1. f = [x \in {"kind", "reg", "val"} |-> IF x = "val" THEN w ELSE PortN(n)[x]]
    BY DEF PortN, Operand
  <2>2. f.kind = "port" /\ f.reg = "" /\ f.val = w
    BY <2>1 DEF PortN, Operand
  <2>3. f = [kind |-> f.kind, reg |-> f.reg, val |-> f.val]
    BY <2>1
  <2> QED BY <2>2, <2>3 DEF PortN, Operand
<1>4. [PortC EXCEPT !.val = 0] = PortC
  BY DEF PortC, Operand
<1>5. ASSUME NEW r PROVE [Indexed(r, n) EXCEPT !.val = w] = Indexed(r, w)
  BY DEF Indexed, Operand
<1> QED BY <1>1, <1>2, <1>3, <1>4, <1>5, Zenon

LEMMA NarrowedFields ==
  ASSUME NEW i, NEW o
  PROVE  /\ o.kind = "abs" => Narrowed(i, o) = [o EXCEPT !.val = Wrapped(o.val)]
         /\ o.kind = "imm" /\ (i.dst.kind = "reg16" \/ i.mn \in {"jp", "call", "jr", "djnz"}) =>
              Narrowed(i, o) = [o EXCEPT !.val = Wrapped(o.val)]
         /\ o.kind = "imm" /\ ~(i.dst.kind = "reg16" \/ i.mn \in {"jp", "call", "jr", "djnz"}) =>
              Narrowed(i, o) = [o EXCEPT !.val = LowByte(o.val)]
         /\ o.kind = "port" => Narrowed(i, o) = [o EXCEPT !.val = LowByte(o.val)]
  BY DEF Narrowed, Wrapped, LowByte

LEMMA WrittenValues ==
  ASSUME NEW n
  PROVE  Abs(n).val = n /\ Imm(n).val = n /\ PortN(n).val = n /\ PortC.val = 0
  BY DEF Abs, Imm, PortN, PortC, Operand

LEMMA NarrowedValues ==
  ASSUME NEW i, NEW n \in Int
  PROVE  /\ Narrowed(i, Abs(n)) = Abs(Wrapped(n))
         /\ i.dst.kind = "reg16" \/ i.mn \in {"jp", "call", "jr", "djnz"} => Narrowed(i, Imm(n)) = Imm(Wrapped(n))
         /\ ~(i.dst.kind = "reg16" \/ i.mn \in {"jp", "call", "jr", "djnz"}) => Narrowed(i, Imm(n)) = Imm(LowByte(n))
         /\ Narrowed(i, PortN(n)) = PortN(LowByte(n)) /\ Narrowed(i, PortC) = PortC
<1> DEFINE word == i.dst.kind = "reg16" \/ i.mn \in {"jp", "call", "jr", "djnz"}
<1>1. Abs(n).kind = "abs" /\ Imm(n).kind = "imm" /\ PortC.kind = "port" /\ PortN(n).kind = "port"
  BY Kinds
<1>2. Abs(n).val = n /\ Imm(n).val = n /\ PortC.val = 0 /\ PortN(n).val = n
  BY WrittenValues
<1>3. Narrowed(i, Abs(n)) = [Abs(n) EXCEPT !.val = Wrapped(n)]
  BY <1>1, <1>2, NarrowedFields
<1>4. Narrowed(i, PortN(n)) = [PortN(n) EXCEPT !.val = LowByte(n)]
  BY <1>1, <1>2, NarrowedFields
<1>5. Narrowed(i, PortC) = [PortC EXCEPT !.val = LowByte(0)]
  BY <1>1, <1>2, NarrowedFields
<1>6. word => Narrowed(i, Imm(n)) = [Imm(n) EXCEPT !.val = Wrapped(n)]
  BY <1>1, <1>2, NarrowedFields
<1>7. ~word => Narrowed(i, Imm(n)) = [Imm(n) EXCEPT !.val = LowByte(n)]
  BY <1>1, <1>2, NarrowedFields
<1>8. LowByte(0) = 0
  BY DEF LowByte
<1> HIDE DEF word
<1>9. /\ [Abs(n) EXCEPT !.val = Wrapped(n)] = Abs(Wrapped(n))
      /\ [PortN(n) EXCEPT !.val = LowByte(n)] = PortN(LowByte(n))
      /\ [PortC EXCEPT !.val = 0] = PortC
      /\ [Imm(n) EXCEPT !.val = Wrapped(n)] = Imm(Wrapped(n))
      /\ [Imm(n) EXCEPT !.val = LowByte(n)] = Imm(LowByte(n))
  BY ValueReplaced
<1>10. /\ Narrowed(i, Abs(n)) = Abs(Wrapped(n)) /\ Narrowed(i, PortN(n)) = PortN(LowByte(n)) /\ Narrowed(i, PortC) = PortC
       /\ (word => Narrowed(i, Imm(n)) = Imm(Wrapped(n))) /\ (~word => Narrowed(i, Imm(n)) = Imm(LowByte(n)))
  BY <1>3, <1>4, <1>5, <1>6, <1>7, <1>8, <1>9, Zenon
<1> QED BY <1>10 DEF word

LEMMA Fields ==
  ASSUME NEW mn, NEW dst, NEW src, NEW arg
  PROVE  /\ Ins(mn, dst, src, arg).mn = mn /\ Ins(mn, dst, src, arg).dst = dst
         /\ Ins(mn, dst, src, arg).src = src /\ Ins(mn, dst, src, arg).arg = arg
  BY DEF Ins


LEMMA EncodingOf ==
  ASSUME NEW t, NEW s, NEW k
  PROVE  /\ encodeZ80Instruction(Ins("ld", t, s, k)) = encodeLd(t, s)
         /\ \A m \in {"inc", "dec"} : encodeZ80Instruction(Ins(m, t, s, k)) = encodeIncDec(m, t)
         /\ \A m \in {"push", "pop"} : encodeZ80Instruction(Ins(m, t, s, k)) = encodeStack(m, t.reg)
         /\ encodeZ80Instruction(Ins("ex", t, s, k)) = encodeExchange(t, s)
         /\ encodeZ80Instruction(Ins("in", t, s, k)) = encodeIn(t, s)
         /\ encodeZ80Instruction(Ins("out", t, s, k)) = encodeOut(t, s)
         /\ \A m \in {"bit", "res", "set"} : encodeZ80Instruction(Ins(m, t, s, k)) = encodeBitLike(Ins(m, t, s, k))
         /\ \A m \in RotateMnemonics : encodeZ80Instruction(Ins(m, t, s, k)) = encodeRotateShift(Ins(m, t, s, k))
<1>1. encodeZ80Instruction(Ins("ld", t, s, k)) = encodeLd(t, s)
  BY Fields DEF encodeZ80Instruction
<1>2. \A m \in {"inc", "dec"} : encodeZ80Instruction(Ins(m, t, s, k)) = encodeIncDec(m, t)
  BY Fields DEF encodeZ80Instruction
<1>3. \A m \in {"push", "pop"} : encodeZ80Instruction(Ins(m, t, s, k)) = encodeStack(m, t.reg)
  BY Fields DEF encodeZ80Instruction
<1>4. encodeZ80Instruction(Ins("ex", t, s, k)) = encodeExchange(t, s)
  BY Fields DEF encodeZ80Instruction
<1>5. encodeZ80Instruction(Ins("in", t, s, k)) = encodeIn(t, s)
  BY Fields DEF encodeZ80Instruction
<1>6. encodeZ80Instruction(Ins("out", t, s, k)) = encodeOut(t, s)
  BY Fields DEF encodeZ80Instruction
<1>7. ASSUME NEW m \in {"bit", "res", "set"}
      PROVE  encodeZ80Instruction(Ins(m, t, s, k)) = encodeBitLike(Ins(m, t, s, k))
  <2>1. m \in DOMAIN bitLikeOpcodeBase
    BY DEF bitLikeOpcodeBase
  <2>2. Ins(m, t, s, k).mn = m
    BY Fields
  <2>3. m \notin {"ld", "inc", "dec", "push", "pop", "ex", "in", "out"}
    OBVIOUS
  <2> QED BY <2>1, <2>2, <2>3 DEF encodeZ80Instruction
<1>8. ASSUME NEW m \in RotateMnemonics
      PROVE  encodeZ80Instruction(Ins(m, t, s, k)) = encodeRotateShift(Ins(m, t, s, k))
  <2>1. m \notin DOMAIN bitLikeOpcodeBase
    BY DEF bitLikeOpcodeBase, RotateMnemonics
  <2>2. Ins(m, t, s, k).mn = m
    BY Fields
  <2>3. m \notin {"ld", "inc", "dec", "push", "pop", "ex", "in", "out"}
    BY DEF RotateMnemonics
  <2> QED BY <2>1, <2>2, <2>3 DEF encodeZ80Instruction
<1> QED BY <1>1, <1>2, <1>3, <1>4, <1>5, <1>6, <1>7, <1>8

LEMMA EncodingOfArithmetic ==
  ASSUME NEW t, NEW s, NEW k, NEW m \in AluMnemonics
  PROVE  /\ t.kind = "reg16" => encodeZ80Instruction(Ins(m, t, s, k)) = encode16BitAlu(m, t.reg, s.reg)
         /\ t.kind # "reg16" => encodeZ80Instruction(Ins(m, t, s, k)) = encodeAlu(m, s)
<1>1. m \notin DOMAIN bitLikeOpcodeBase /\ m \notin RotateMnemonics
  BY DEF bitLikeOpcodeBase, RotateMnemonics, AluMnemonics
<1>2. Ins(m, t, s, k).mn = m /\ Ins(m, t, s, k).dst = t /\ Ins(m, t, s, k).src = s
  BY Fields
<1>3. m \notin {"ld", "inc", "dec", "push", "pop", "ex", "in", "out"}
  BY DEF AluMnemonics
<1> QED BY <1>1, <1>2, <1>3 DEF encodeZ80Instruction

LEMMA CoreOpcodes ==
  /\ DOMAIN CORE_OPCODES = CoreMnemonics \cup {"nop"}
  /\ \A m \in CoreMnemonics \cup {"nop"} :
       /\ m \notin {"ld", "inc", "dec", "push", "pop", "ex", "in", "out", "im"}
       /\ m \notin RotateMnemonics /\ m \notin AluMnemonics /\ m \notin DOMAIN bitLikeOpcodeBase
<1>1. DOMAIN CORE_OPCODES = CoreMnemonics \cup {"nop"}
  BY DEF CORE_OPCODES, CoreMnemonics
<1>2. \A m \in CoreMnemonics \cup {"nop"} :
       /\ m \notin {"ld", "inc", "dec", "push", "pop", "ex", "in", "out", "im"}
       /\ m \notin RotateMnemonics /\ m \notin AluMnemonics /\ m \notin DOMAIN bitLikeOpcodeBase
  BY DEF CoreMnemonics, RotateMnemonics, AluMnemonics, bitLikeOpcodeBase
<1> QED BY <1>1, <1>2

LEMMA EncodingOfIm ==
  ASSUME NEW t, NEW s, NEW k
  PROVE  encodeZ80Instruction(Ins("im", t, s, k)) = Encoding(2, <<Op(237), Op(imOpcode[k + 1])>>)
<1>1. "im" \notin DOMAIN bitLikeOpcodeBase /\ "im" \notin RotateMnemonics /\ "im" \notin AluMnemonics
  BY DEF bitLikeOpcodeBase, RotateMnemonics, AluMnemonics
<1> QED BY <1>1, Fields DEF encodeZ80Instruction

LEMMA EncodingOfCore ==
  ASSUME NEW t, NEW s, NEW k, NEW m \in CoreMnemonics \cup {"nop"}
  PROVE  encodeZ80Instruction(Ins(m, t, s, k)) = encodeCore(m)
<1>1. Ins(m, t, s, k).mn = m
  BY Fields
<1> QED BY <1>1, CoreOpcodes DEF encodeZ80Instruction

LEMMA EncodingOfBranch ==
  ASSUME NEW t, NEW s, NEW k, NEW m \in {"jp", "call", "jr", "djnz", "ret", "rst"}
  PROVE  encodeZ80Instruction(Ins(m, t, s, k)) = encodeBranch(Ins(m, t, s, k))
<1>1. Ins(m, t, s, k).mn = m
  BY Fields
<1>2. /\ m \notin DOMAIN bitLikeOpcodeBase /\ m \notin RotateMnemonics /\ m \notin AluMnemonics
      /\ m \notin {"ld", "inc", "dec", "push", "pop", "ex", "in", "out", "im"}
  BY DEF bitLikeOpcodeBase, RotateMnemonics, AluMnemonics
<1>3. m \notin DOMAIN CORE_OPCODES
  BY CoreOpcodes DEF CoreMnemonics
<1> QED BY <1>1, <1>2, <1>3 DEF encodeZ80Instruction

LEMMA Told ==
  /\ None.kind = "none" /\ PortC.kind = "port" /\ PortC.reg = "c"
  /\ \A r : /\ R8(r).kind = "reg8" /\ R8(r).reg = r
            /\ R16(r).kind = "reg16" /\ R16(r).reg = r
            /\ Half(r).kind = "half" /\ Half(r).reg = r
            /\ Special(r).kind = "special8" /\ Special(r).reg = r
            /\ Indirect(r).kind = "indirect" /\ Indirect(r).reg = r
  /\ \A n : /\ Abs(n).kind = "abs" /\ Abs(n).val = n
            /\ Imm(n).kind = "imm" /\ Imm(n).val = n
            /\ PortN(n).kind = "port" /\ PortN(n).reg = "" /\ PortN(n).val = n
  /\ \A r : \A n : Indexed(r, n).kind = "indexed" /\ Indexed(r, n).reg = r /\ Indexed(r, n).val = n
  BY DEF None, R8, R16, Half, Special, Indirect, Abs, Indexed, Imm, PortC, PortN, Operand

LEMMA IndexPrefixes ==
  ASSUME NEW x \in Index
  PROVE  /\ indexPrefix[x] \in Byte
         /\ x \notin {"bc", "de", "hl", "sp", "af"}
  BY DEF Index, indexPrefix, Byte

LEMMA HalfCodes ==
  ASSUME NEW h \in Halves
  PROVE  /\ halfIndexRegisterCode[h] \in {4, 5} /\ IndexOf[h] \in Index
         /\ HalfOperand(halfIndexRegisterCode[h], IndexOf[h]) = Half(h)
  BY DEF Halves, halfIndexRegisterCode, HalfOperand, IndexOf, Index

LEMMA OtherHalfOperands ==
  ASSUME NEW x, NEW k, k \notin {4, 5}
  PROVE  HalfOperand(k, x) = ByteOperand(k)
  BY DEF HalfOperand

LEMMA PlainCodes ==
  ASSUME NEW r \in Bytes8 \ {"h", "l"}
  PROVE  register8Code[r] \notin {4, 5, 6}
  BY DEF Bytes8, register8Code

LEMMA PairCodes ==
  ASSUME NEW r \in Pairs, NEW q \in 0..3, NEW t \in 0..1, NEW s \in 0..7
  PROVE  /\ register16Code[r] \in 0..3 /\ 2 * register16Code[r] + t \in 0..7 /\ r \notin Index
         /\ PairOf(64 * q + 8 * (2 * register16Code[r] + t) + s) = r
<1>1. register16Code[r] \in 0..3 /\ PairOrder[register16Code[r] + 1] = r /\ r \notin Index
  BY DEF Pairs, register16Code, PairOrder, Index
<1>2. ASSUME NEW k \in 0..3 PROVE ((64 * q + 8 * (2 * k + t) + s) \div 16) % 4 = k
  <2>1. 64 * q + 8 * (2 * k + t) + s = 16 * (4 * q + k) + (8 * t + s) /\ 8 * t + s \in 0..15
    OBVIOUS
  <2>2. (64 * q + 8 * (2 * k + t) + s) \div 16 = 4 * q + k
    BY <2>1
  <2> QED BY <2>2
<1> DEFINE k == register16Code[r]
<1>3. k \in 0..3 /\ PairOrder[k + 1] = r
  BY <1>1
<1> HIDE DEF k
<1>4. 2 * k + t \in 0..7 /\ ((64 * q + 8 * (2 * k + t) + s) \div 16) % 4 = k
  BY <1>2, <1>3
<1>5. PairOf(64 * q + 8 * (2 * k + t) + s) = r
  BY <1>3, <1>4 DEF PairOf
<1> QED BY <1>1, <1>4, <1>5 DEF k

LEMMA LdRegisterRegister ==
  ASSUME NEW t \in Bytes8, NEW s \in Bytes8
  PROVE  RoundTrips(Ins("ld", R8(t), R8(s), 0), 1)
<1> DEFINE i == Ins("ld", R8(t), R8(s), 0)
           op == 64 * 1 + 8 * register8Code[t] + register8Code[s]
<1>1. /\ R8(t).kind = "reg8"
      /\ R8(t).reg = t
      /\ R8(s).kind = "reg8"
      /\ R8(s).reg = s
      /\ R8("a").kind = "reg8"
      /\ R8("a").reg = "a"
      /\ R16("de").kind = "reg16"
      /\ R16("de").reg = "de"
      /\ R16("hl").kind = "reg16"
      /\ R16("hl").reg = "hl"
      /\ R16("sp").kind = "reg16"
      /\ R16("sp").reg = "sp"
      /\ R16("af").kind = "reg16"
      /\ R16("af").reg = "af"
      /\ Indirect("hl").kind = "indirect"
      /\ Indirect("hl").reg = "hl"
  BY DEF Indirect, R16, R8, Operand
<1>2. /\ op \in Byte
      /\ Row(op) = register8Code[t]
      /\ Column(op) = register8Code[s]
      /\ op >= 64 /\ op < 128 /\ op # 118
      /\ op = 64 + register8Code[t] * 8 + register8Code[s]
  BY RegisterCodes, OpcodeParts
<1> HIDE DEF op
<1>3. encodeZ80Instruction(i) = Encoding(1, <<Op(op)>>)
  <2>1. encodeZ80Instruction(i) = encodeLd(R8(t), R8(s))
    BY EncodingOf
  <2>2. encodeLd(R8(t), R8(s)) = Encoding(1, <<Op(op)>>)
    BY <1>1, <1>2 DEF encodeLd, OrElse, encodeByteLd, encodeWordLd, encodeAccumulatorIndirectLd, encodeHlIndirectLd, encodeIndexedLd, SupportedHalfLd, HalfCompatible, IsIndex, Unencodable, Encoding
  <2> QED BY <2>1, <2>2
<1>4. AsDecoded(i) = Ins("ld", R8(t), R8(s), 0)
  <2>1. i.mn = "ld" /\ i.dst = R8(t) /\ i.src = R8(s)
    BY Fields
  <2>2. Narrowed(i, R8(t)) = R8(t)
    BY <1>1, <2>1, NarrowedOperands, NarrowedValues
  <2>3. Narrowed(i, R8(s)) = R8(s)
    BY <1>1, <2>1, NarrowedOperands, NarrowedValues
  <2>4. AsDecoded(i) = Ins("ld", Narrowed(i, R8(t)), Narrowed(i, R8(s)), 0)
    BY DecodedIns
  <2> QED BY <2>2, <2>3, <2>4
<1>5. ASSUME NEW m, NEW a \in Int, At(m, a) = op PROVE Decodes(i, 1, m, a)
  <2>1. decodeInstruction(m, a) = MatrixPrimary(op)
    BY <1>2, <1>5, DecodePrimary DEF Byte
  <2>2. MatrixPrimary(op) = Decoded(Ins("ld", R8(t), R8(s), 0), 1)
    BY <1>2, <1>5, RegisterCodes DEF MatrixPrimary
  <2> QED BY <1>4, <2>1, <2>2 DEF Decodes
<1>6. \A m : \A a \in Int : (At(m, a) = op) => Decodes(i, 1, m, a)
  BY <1>5
<1> QED BY <1>2, <1>3, <1>6, RoundTripOp

LEMMA LdRegisterByte ==
  ASSUME NEW t \in Bytes8, NEW n \in Int
  PROVE  RoundTrips(Ins("ld", R8(t), Imm(n), 0), 2)
<1> DEFINE i == Ins("ld", R8(t), Imm(n), 0)
           op == 64 * 0 + 8 * register8Code[t] + 6
<1>1. /\ R8(t).kind = "reg8"
      /\ R8(t).reg = t
      /\ Imm(n).kind = "imm"
      /\ Imm(n).val = n
      /\ R8("a").kind = "reg8"
      /\ R8("a").reg = "a"
      /\ R16("de").kind = "reg16"
      /\ R16("de").reg = "de"
      /\ R16("hl").kind = "reg16"
      /\ R16("hl").reg = "hl"
      /\ R16("sp").kind = "reg16"
      /\ R16("sp").reg = "sp"
      /\ R16("af").kind = "reg16"
      /\ R16("af").reg = "af"
      /\ Indirect("hl").kind = "indirect"
      /\ Indirect("hl").reg = "hl"
  BY DEF Imm, Indirect, R16, R8, Operand
<1>2. /\ op \in Byte
      /\ Row(op) = register8Code[t]
      /\ Column(op) = 6
      /\ op < 64
      /\ op = 6 + register8Code[t] * 8
      /\ register8Code[t] \in 0..7
  BY RegisterCodes, OpcodeParts
<1> HIDE DEF op
<1>3. encodeZ80Instruction(i) = Encoding(2, <<Op(op), I8(n)>>)
  <2>1. encodeZ80Instruction(i) = encodeLd(R8(t), Imm(n))
    BY EncodingOf
  <2>2. encodeLd(R8(t), Imm(n)) = Encoding(2, <<Op(op), I8(n)>>)
    BY <1>1, <1>2 DEF encodeLd, OrElse, encodeByteLd, encodeWordLd, encodeAccumulatorIndirectLd, encodeHlIndirectLd, encodeIndexedLd, SupportedHalfLd, HalfCompatible, IsIndex, Unencodable, Encoding
  <2> QED BY <2>1, <2>2
<1>4. AsDecoded(i) = Ins("ld", R8(t), Imm(LowByte(n)), 0)
  <2>1. i.mn = "ld" /\ i.dst = R8(t) /\ i.src = Imm(n)
    BY Fields
  <2>2. Narrowed(i, R8(t)) = R8(t)
    BY <1>1, <2>1, NarrowedOperands, NarrowedValues
  <2>3. Narrowed(i, Imm(n)) = Imm(LowByte(n))
    BY <1>1, <2>1, NarrowedOperands, NarrowedValues
  <2>4. AsDecoded(i) = Ins("ld", Narrowed(i, R8(t)), Narrowed(i, Imm(n)), 0)
    BY DecodedIns
  <2> QED BY <2>2, <2>3, <2>4
<1>5. ASSUME NEW m, NEW a \in Int, At(m, a) = op, At(m, a + 1) = LowByte(n) PROVE Decodes(i, 2, m, a)
  <2>1. decodeInstruction(m, a) = LowPrimary(m, a, op)
    BY <1>2, <1>5, DecodePrimary DEF Byte
  <2>2. LowPrimary(m, a, op) = Decoded(Ins("ld", R8(t), Imm(LowByte(n)), 0), 2)
    BY <1>2, <1>5, RegisterCodes DEF LowPrimary
  <2> QED BY <1>4, <2>1, <2>2 DEF Decodes
<1>6. \A m : \A a \in Int : (At(m, a) = op /\ At(m, a + 1) = LowByte(n)) => Decodes(i, 2, m, a)
  BY <1>5
<1> QED BY <1>2, <1>3, <1>6, RoundTripOpByte

LEMMA LdRegisterMemory ==
  ASSUME NEW t \in Bytes8 \ {"a"}
  PROVE  RoundTrips(Ins("ld", R8(t), Indirect("hl"), 0), 1)
<1> DEFINE i == Ins("ld", R8(t), Indirect("hl"), 0)
           op == 64 * 1 + 8 * register8Code[t] + 6
<1>1. /\ R8(t).kind = "reg8"
      /\ R8(t).reg = t
      /\ Indirect("hl").kind = "indirect"
      /\ Indirect("hl").reg = "hl"
      /\ R8("a").kind = "reg8"
      /\ R8("a").reg = "a"
      /\ R16("de").kind = "reg16"
      /\ R16("de").reg = "de"
      /\ R16("hl").kind = "reg16"
      /\ R16("hl").reg = "hl"
      /\ R16("sp").kind = "reg16"
      /\ R16("sp").reg = "sp"
      /\ R16("af").kind = "reg16"
      /\ R16("af").reg = "af"
  BY DEF Indirect, R16, R8, Operand
<1>2. /\ op \in Byte
      /\ Row(op) = register8Code[t]
      /\ Column(op) = 6
      /\ op >= 64 /\ op < 128 /\ op # 118
      /\ op = 70 + register8Code[t] * 8
  BY RegisterCodes, OpcodeParts
<1> HIDE DEF op
<1>3. encodeZ80Instruction(i) = Encoding(1, <<Op(op)>>)
  <2>1. encodeZ80Instruction(i) = encodeLd(R8(t), Indirect("hl"))
    BY EncodingOf
  <2>2. encodeLd(R8(t), Indirect("hl")) = Encoding(1, <<Op(op)>>)
    BY <1>1, <1>2 DEF encodeLd, OrElse, encodeByteLd, encodeWordLd, encodeAccumulatorIndirectLd, encodeHlIndirectLd, encodeIndexedLd, SupportedHalfLd, HalfCompatible, IsIndex, Unencodable, Encoding
  <2> QED BY <2>1, <2>2
<1>4. AsDecoded(i) = Ins("ld", R8(t), Indirect("hl"), 0)
  <2>1. i.mn = "ld" /\ i.dst = R8(t) /\ i.src = Indirect("hl")
    BY Fields
  <2>2. Narrowed(i, R8(t)) = R8(t)
    BY <1>1, <2>1, NarrowedOperands, NarrowedValues
  <2>3. Narrowed(i, Indirect("hl")) = Indirect("hl")
    BY <1>1, <2>1, NarrowedOperands, NarrowedValues
  <2>4. AsDecoded(i) = Ins("ld", Narrowed(i, R8(t)), Narrowed(i, Indirect("hl")), 0)
    BY DecodedIns
  <2> QED BY <2>2, <2>3, <2>4
<1>5. ASSUME NEW m, NEW a \in Int, At(m, a) = op PROVE Decodes(i, 1, m, a)
  <2>1. decodeInstruction(m, a) = MatrixPrimary(op)
    BY <1>2, <1>5, DecodePrimary DEF Byte
  <2>2. MatrixPrimary(op) = Decoded(Ins("ld", R8(t), Indirect("hl"), 0), 1)
    BY <1>2, <1>5, RegisterCodes, MemoryOperand DEF MatrixPrimary
  <2> QED BY <1>4, <2>1, <2>2 DEF Decodes
<1>6. \A m : \A a \in Int : (At(m, a) = op) => Decodes(i, 1, m, a)
  BY <1>5
<1> QED BY <1>2, <1>3, <1>6, RoundTripOp

LEMMA LdMemoryRegister ==
  ASSUME NEW s \in Bytes8 \ {"a"}
  PROVE  RoundTrips(Ins("ld", Indirect("hl"), R8(s), 0), 1)
<1> DEFINE i == Ins("ld", Indirect("hl"), R8(s), 0)
           op == 64 * 1 + 8 * 6 + register8Code[s]
<1>1. /\ Indirect("hl").kind = "indirect"
      /\ Indirect("hl").reg = "hl"
      /\ R8(s).kind = "reg8"
      /\ R8(s).reg = s
      /\ R8("a").kind = "reg8"
      /\ R8("a").reg = "a"
      /\ R16("de").kind = "reg16"
      /\ R16("de").reg = "de"
      /\ R16("hl").kind = "reg16"
      /\ R16("hl").reg = "hl"
      /\ R16("sp").kind = "reg16"
      /\ R16("sp").reg = "sp"
      /\ R16("af").kind = "reg16"
      /\ R16("af").reg = "af"
  BY DEF Indirect, R16, R8, Operand
<1>2. /\ op \in Byte
      /\ Row(op) = 6
      /\ Column(op) = register8Code[s]
      /\ op >= 64 /\ op < 128 /\ op # 118
      /\ op = 112 + register8Code[s]
  BY RegisterCodes, OpcodeParts
<1> HIDE DEF op
<1>3. encodeZ80Instruction(i) = Encoding(1, <<Op(op)>>)
  <2>1. encodeZ80Instruction(i) = encodeLd(Indirect("hl"), R8(s))
    BY EncodingOf
  <2>2. encodeLd(Indirect("hl"), R8(s)) = Encoding(1, <<Op(op)>>)
    BY <1>1, <1>2 DEF encodeLd, OrElse, encodeByteLd, encodeWordLd, encodeAccumulatorIndirectLd, encodeHlIndirectLd, encodeIndexedLd, SupportedHalfLd, HalfCompatible, IsIndex, Unencodable, Encoding
  <2> QED BY <2>1, <2>2
<1>4. AsDecoded(i) = Ins("ld", Indirect("hl"), R8(s), 0)
  <2>1. i.mn = "ld" /\ i.dst = Indirect("hl") /\ i.src = R8(s)
    BY Fields
  <2>2. Narrowed(i, Indirect("hl")) = Indirect("hl")
    BY <1>1, <2>1, NarrowedOperands, NarrowedValues
  <2>3. Narrowed(i, R8(s)) = R8(s)
    BY <1>1, <2>1, NarrowedOperands, NarrowedValues
  <2>4. AsDecoded(i) = Ins("ld", Narrowed(i, Indirect("hl")), Narrowed(i, R8(s)), 0)
    BY DecodedIns
  <2> QED BY <2>2, <2>3, <2>4
<1>5. ASSUME NEW m, NEW a \in Int, At(m, a) = op PROVE Decodes(i, 1, m, a)
  <2>1. decodeInstruction(m, a) = MatrixPrimary(op)
    BY <1>2, <1>5, DecodePrimary DEF Byte
  <2>2. MatrixPrimary(op) = Decoded(Ins("ld", Indirect("hl"), R8(s), 0), 1)
    BY <1>2, <1>5, RegisterCodes, MemoryOperand DEF MatrixPrimary
  <2> QED BY <1>4, <2>1, <2>2 DEF Decodes
<1>6. \A m : \A a \in Int : (At(m, a) = op) => Decodes(i, 1, m, a)
  BY <1>5
<1> QED BY <1>2, <1>3, <1>6, RoundTripOp

LEMMA LdMemoryByte ==
  ASSUME NEW n \in Int
  PROVE  RoundTrips(Ins("ld", Indirect("hl"), Imm(n), 0), 2)
<1> DEFINE i == Ins("ld", Indirect("hl"), Imm(n), 0)
<1>1. /\ Indirect("hl").kind = "indirect"
      /\ Indirect("hl").reg = "hl"
      /\ Imm(n).kind = "imm"
      /\ Imm(n).val = n
      /\ R8("a").kind = "reg8"
      /\ R8("a").reg = "a"
      /\ R16("de").kind = "reg16"
      /\ R16("de").reg = "de"
      /\ R16("hl").kind = "reg16"
      /\ R16("hl").reg = "hl"
      /\ R16("sp").kind = "reg16"
      /\ R16("sp").reg = "sp"
      /\ R16("af").kind = "reg16"
      /\ R16("af").reg = "af"
  BY DEF Imm, Indirect, R16, R8, Operand
<1>2. /\ 54 \in Byte
      /\ Row(54) = 6
      /\ Column(54) = 6
  BY DEF Byte, Row, Column
<1>3. encodeZ80Instruction(i) = Encoding(2, <<Op(54), I8(n)>>)
  <2>1. encodeZ80Instruction(i) = encodeLd(Indirect("hl"), Imm(n))
    BY EncodingOf
  <2>2. encodeLd(Indirect("hl"), Imm(n)) = Encoding(2, <<Op(54), I8(n)>>)
    BY <1>1, <1>2 DEF encodeLd, OrElse, encodeByteLd, encodeWordLd, encodeAccumulatorIndirectLd, encodeHlIndirectLd, encodeIndexedLd, SupportedHalfLd, HalfCompatible, IsIndex, Unencodable, Encoding
  <2> QED BY <2>1, <2>2
<1>4. AsDecoded(i) = Ins("ld", Indirect("hl"), Imm(LowByte(n)), 0)
  <2>1. i.mn = "ld" /\ i.dst = Indirect("hl") /\ i.src = Imm(n)
    BY Fields
  <2>2. Narrowed(i, Indirect("hl")) = Indirect("hl")
    BY <1>1, <2>1, NarrowedOperands, NarrowedValues
  <2>3. Narrowed(i, Imm(n)) = Imm(LowByte(n))
    BY <1>1, <2>1, NarrowedOperands, NarrowedValues
  <2>4. AsDecoded(i) = Ins("ld", Narrowed(i, Indirect("hl")), Narrowed(i, Imm(n)), 0)
    BY DecodedIns
  <2> QED BY <2>2, <2>3, <2>4
<1>5. ASSUME NEW m, NEW a \in Int, At(m, a) = 54, At(m, a + 1) = LowByte(n) PROVE Decodes(i, 2, m, a)
  <2>1. decodeInstruction(m, a) = LowPrimary(m, a, 54)
    BY <1>2, <1>5, DecodePrimary DEF Byte
  <2>2. LowPrimary(m, a, 54) = Decoded(Ins("ld", Indirect("hl"), Imm(LowByte(n)), 0), 2)
    BY <1>2, <1>5, MemoryOperand DEF LowPrimary
  <2> QED BY <1>4, <2>1, <2>2 DEF Decodes
<1>6. \A m : \A a \in Int : (At(m, a) = 54 /\ At(m, a + 1) = LowByte(n)) => Decodes(i, 2, m, a)
  BY <1>5
<1> QED BY <1>2, <1>3, <1>6, RoundTripOpByte

LEMMA LdRegisterIndexed ==
  ASSUME NEW t \in Bytes8, NEW x \in Index, NEW d \in Int
  PROVE  RoundTrips(Ins("ld", R8(t), Indexed(x, d), 0), 3)
<1> DEFINE i == Ins("ld", R8(t), Indexed(x, d), 0)
           op == 64 * 1 + 8 * register8Code[t] + 6
<1>1. /\ R8(t).kind = "reg8"
      /\ R8(t).reg = t
      /\ Indexed(x, d).kind = "indexed"
      /\ Indexed(x, d).reg = x
      /\ Indexed(x, d).val = d
      /\ R8("a").kind = "reg8"
      /\ R8("a").reg = "a"
      /\ R16("de").kind = "reg16"
      /\ R16("de").reg = "de"
      /\ R16("hl").kind = "reg16"
      /\ R16("hl").reg = "hl"
      /\ R16("sp").kind = "reg16"
      /\ R16("sp").reg = "sp"
      /\ R16("af").kind = "reg16"
      /\ R16("af").reg = "af"
      /\ Indirect("hl").kind = "indirect"
      /\ Indirect("hl").reg = "hl"
  BY DEF Indexed, Indirect, R16, R8, Operand
<1>2. /\ op \in Byte
      /\ Row(op) = register8Code[t]
      /\ Column(op) = 6
      /\ op >= 64 /\ op < 128 /\ op # 118
      /\ op = 70 + register8Code[t] * 8
      /\ indexPrefix[x] \in Byte
  BY RegisterCodes, OpcodeParts, IndexPrefixes
<1> HIDE DEF op
<1>3. encodeZ80Instruction(i) = Encoding(3, <<Op(indexPrefix[x]), Op(op), D8(d)>>)
  <2>1. encodeZ80Instruction(i) = encodeLd(R8(t), Indexed(x, d))
    BY EncodingOf
  <2>2. encodeLd(R8(t), Indexed(x, d)) = Encoding(3, <<Op(indexPrefix[x]), Op(op), D8(d)>>)
    BY <1>1, <1>2 DEF encodeLd, OrElse, encodeByteLd, encodeWordLd, encodeAccumulatorIndirectLd, encodeHlIndirectLd, encodeIndexedLd, SupportedHalfLd, HalfCompatible, IsIndex, Unencodable, Encoding
  <2> QED BY <2>1, <2>2
<1>4. AsDecoded(i) = Ins("ld", R8(t), Indexed(x, d), 0)
  <2>1. i.mn = "ld" /\ i.dst = R8(t) /\ i.src = Indexed(x, d)
    BY Fields
  <2>2. Narrowed(i, R8(t)) = R8(t)
    BY <1>1, <2>1, NarrowedOperands, NarrowedValues
  <2>3. Narrowed(i, Indexed(x, d)) = Indexed(x, d)
    BY <1>1, <2>1, NarrowedOperands, NarrowedValues
  <2>4. AsDecoded(i) = Ins("ld", Narrowed(i, R8(t)), Narrowed(i, Indexed(x, d)), 0)
    BY DecodedIns
  <2> QED BY <2>2, <2>3, <2>4
<1>5. ASSUME NEW m, NEW a \in Int, At(m, a) = indexPrefix[x], At(m, a + 1) = op, Signed(At(m, a + 2)) = d PROVE Decodes(i, 3, m, a)
  <2>1. decodeInstruction(m, a) = DdMatrix(m, a, op, x)
    BY <1>2, <1>5, DecodeIndexMatrix
  <2>2. DdMatrix(m, a, op, x) = Decoded(Ins("ld", R8(t), Indexed(x, d), 0), 3)
    BY <1>2, <1>5, RegisterCodes DEF DdMatrix
  <2> QED BY <1>4, <2>1, <2>2 DEF Decodes
<1>6. \A m : \A a \in Int : (At(m, a) = indexPrefix[x] /\ At(m, a + 1) = op /\ Signed(At(m, a + 2)) = d) => Decodes(i, 3, m, a)
  BY <1>5
<1> DEFINE p == indexPrefix[x]
<1>7. encodeZ80Instruction(i) = Encoding(3, <<Op(p), Op(op), D8(d)>>) /\ p \in Byte /\ op \in Byte
  BY <1>2, <1>3
<1>8. \A m : \A a \in Int : (At(m, a) = p /\ At(m, a + 1) = op /\ Signed(At(m, a + 2)) = d) => Decodes(i, 3, m, a)
  BY <1>6
<1> HIDE DEF p, i
<1>9. RoundTrips(i, 3)
  BY <1>2, <1>7, <1>8, RoundTripOpOpDisp
<1> QED BY <1>9 DEF i

LEMMA LdIndexedRegister ==
  ASSUME NEW s \in Bytes8, NEW x \in Index, NEW d \in Int
  PROVE  RoundTrips(Ins("ld", Indexed(x, d), R8(s), 0), 3)
<1> DEFINE i == Ins("ld", Indexed(x, d), R8(s), 0)
           op == 64 * 1 + 8 * 6 + register8Code[s]
<1>1. /\ Indexed(x, d).kind = "indexed"
      /\ Indexed(x, d).reg = x
      /\ Indexed(x, d).val = d
      /\ R8(s).kind = "reg8"
      /\ R8(s).reg = s
      /\ R8("a").kind = "reg8"
      /\ R8("a").reg = "a"
      /\ R16("de").kind = "reg16"
      /\ R16("de").reg = "de"
      /\ R16("hl").kind = "reg16"
      /\ R16("hl").reg = "hl"
      /\ R16("sp").kind = "reg16"
      /\ R16("sp").reg = "sp"
      /\ R16("af").kind = "reg16"
      /\ R16("af").reg = "af"
      /\ Indirect("hl").kind = "indirect"
      /\ Indirect("hl").reg = "hl"
  BY DEF Indexed, Indirect, R16, R8, Operand
<1>2. /\ op \in Byte
      /\ Row(op) = 6
      /\ Column(op) = register8Code[s]
      /\ op >= 64 /\ op < 128 /\ op # 118
      /\ op = 112 + register8Code[s]
      /\ register8Code[s] # 6
      /\ indexPrefix[x] \in Byte
  BY RegisterCodes, OpcodeParts, IndexPrefixes
<1> HIDE DEF op
<1>3. encodeZ80Instruction(i) = Encoding(3, <<Op(indexPrefix[x]), Op(op), D8(d)>>)
  <2>1. encodeZ80Instruction(i) = encodeLd(Indexed(x, d), R8(s))
    BY EncodingOf
  <2>2. encodeLd(Indexed(x, d), R8(s)) = Encoding(3, <<Op(indexPrefix[x]), Op(op), D8(d)>>)
    BY <1>1, <1>2 DEF encodeLd, OrElse, encodeByteLd, encodeWordLd, encodeAccumulatorIndirectLd, encodeHlIndirectLd, encodeIndexedLd, SupportedHalfLd, HalfCompatible, IsIndex, Unencodable, Encoding
  <2> QED BY <2>1, <2>2
<1>4. AsDecoded(i) = Ins("ld", Indexed(x, d), R8(s), 0)
  <2>1. i.mn = "ld" /\ i.dst = Indexed(x, d) /\ i.src = R8(s)
    BY Fields
  <2>2. Narrowed(i, Indexed(x, d)) = Indexed(x, d)
    BY <1>1, <2>1, NarrowedOperands, NarrowedValues
  <2>3. Narrowed(i, R8(s)) = R8(s)
    BY <1>1, <2>1, NarrowedOperands, NarrowedValues
  <2>4. AsDecoded(i) = Ins("ld", Narrowed(i, Indexed(x, d)), Narrowed(i, R8(s)), 0)
    BY DecodedIns
  <2> QED BY <2>2, <2>3, <2>4
<1>5. ASSUME NEW m, NEW a \in Int, At(m, a) = indexPrefix[x], At(m, a + 1) = op, Signed(At(m, a + 2)) = d PROVE Decodes(i, 3, m, a)
  <2>1. decodeInstruction(m, a) = DdMatrix(m, a, op, x)
    BY <1>2, <1>5, DecodeIndexMatrix
  <2>2. DdMatrix(m, a, op, x) = Decoded(Ins("ld", Indexed(x, d), R8(s), 0), 3)
    BY <1>2, <1>5, RegisterCodes DEF DdMatrix
  <2> QED BY <1>4, <2>1, <2>2 DEF Decodes
<1>6. \A m : \A a \in Int : (At(m, a) = indexPrefix[x] /\ At(m, a + 1) = op /\ Signed(At(m, a + 2)) = d) => Decodes(i, 3, m, a)
  BY <1>5
<1> DEFINE p == indexPrefix[x]
<1>7. encodeZ80Instruction(i) = Encoding(3, <<Op(p), Op(op), D8(d)>>) /\ p \in Byte /\ op \in Byte
  BY <1>2, <1>3
<1>8. \A m : \A a \in Int : (At(m, a) = p /\ At(m, a + 1) = op /\ Signed(At(m, a + 2)) = d) => Decodes(i, 3, m, a)
  BY <1>6
<1> HIDE DEF p, i
<1>9. RoundTrips(i, 3)
  BY <1>2, <1>7, <1>8, RoundTripOpOpDisp
<1> QED BY <1>9 DEF i

LEMMA LdIndexedByte ==
  ASSUME NEW x \in Index, NEW d \in Int, NEW n \in Int
  PROVE  RoundTrips(Ins("ld", Indexed(x, d), Imm(n), 0), 4)
<1> DEFINE i == Ins("ld", Indexed(x, d), Imm(n), 0)
<1>1. /\ Indexed(x, d).kind = "indexed"
      /\ Indexed(x, d).reg = x
      /\ Indexed(x, d).val = d
      /\ Imm(n).kind = "imm"
      /\ Imm(n).val = n
      /\ R8("a").kind = "reg8"
      /\ R8("a").reg = "a"
      /\ R16("de").kind = "reg16"
      /\ R16("de").reg = "de"
      /\ R16("hl").kind = "reg16"
      /\ R16("hl").reg = "hl"
      /\ R16("sp").kind = "reg16"
      /\ R16("sp").reg = "sp"
      /\ R16("af").kind = "reg16"
      /\ R16("af").reg = "af"
      /\ Indirect("hl").kind = "indirect"
      /\ Indirect("hl").reg = "hl"
  BY DEF Imm, Indexed, Indirect, R16, R8, Operand
<1>2. /\ 54 \in Byte
      /\ indexPrefix[x] \in Byte
  BY IndexPrefixes DEF Byte
<1>3. encodeZ80Instruction(i) = Encoding(4, <<Op(indexPrefix[x]), Op(54), D8(d), I8(n)>>)
  <2>1. encodeZ80Instruction(i) = encodeLd(Indexed(x, d), Imm(n))
    BY EncodingOf
  <2>2. encodeLd(Indexed(x, d), Imm(n)) = Encoding(4, <<Op(indexPrefix[x]), Op(54), D8(d), I8(n)>>)
    BY <1>1, <1>2 DEF encodeLd, OrElse, encodeByteLd, encodeWordLd, encodeAccumulatorIndirectLd, encodeHlIndirectLd, encodeIndexedLd, SupportedHalfLd, HalfCompatible, IsIndex, Unencodable, Encoding
  <2> QED BY <2>1, <2>2
<1>4. AsDecoded(i) = Ins("ld", Indexed(x, d), Imm(LowByte(n)), 0)
  <2>1. i.mn = "ld" /\ i.dst = Indexed(x, d) /\ i.src = Imm(n)
    BY Fields
  <2>2. Narrowed(i, Indexed(x, d)) = Indexed(x, d)
    BY <1>1, <2>1, NarrowedOperands, NarrowedValues
  <2>3. Narrowed(i, Imm(n)) = Imm(LowByte(n))
    BY <1>1, <2>1, NarrowedOperands, NarrowedValues
  <2>4. AsDecoded(i) = Ins("ld", Narrowed(i, Indexed(x, d)), Narrowed(i, Imm(n)), 0)
    BY DecodedIns
  <2> QED BY <2>2, <2>3, <2>4
<1>5. ASSUME NEW m, NEW a \in Int, At(m, a) = indexPrefix[x], At(m, a + 1) = 54, Signed(At(m, a + 2)) = d, At(m, a + 3) = LowByte(n) PROVE Decodes(i, 4, m, a)
  <2>1. decodeInstruction(m, a) = DdLow(m, a, 54, x)
    BY <1>2, <1>5, DecodeIndex
  <2>2. DdLow(m, a, 54, x) = Decoded(Ins("ld", Indexed(x, d), Imm(LowByte(n)), 0), 4)
    BY <1>2, <1>5 DEF DdLow
  <2> QED BY <1>4, <2>1, <2>2 DEF Decodes
<1>6. \A m : \A a \in Int : (At(m, a) = indexPrefix[x] /\ At(m, a + 1) = 54 /\ Signed(At(m, a + 2)) = d /\ At(m, a + 3) = LowByte(n)) => Decodes(i, 4, m, a)
  BY <1>5
<1> DEFINE p == indexPrefix[x]
<1>7. encodeZ80Instruction(i) = Encoding(4, <<Op(p), Op(54), D8(d), I8(n)>>) /\ p \in Byte
  BY <1>2, <1>3
<1>8. \A m : \A a \in Int : (At(m, a) = p /\ At(m, a + 1) = 54 /\ Signed(At(m, a + 2)) = d /\ At(m, a + 3) = LowByte(n)) => Decodes(i, 4, m, a)
  BY <1>6
<1> HIDE DEF p, i
<1>9. RoundTrips(i, 4)
  BY <1>2, <1>7, <1>8, RoundTripOpOpDispByte
<1> QED BY <1>9 DEF i

LEMMA LdHalfHalf ==
  ASSUME NEW t \in Halves, NEW s \in Halves, IndexOf[t] = IndexOf[s]
  PROVE  RoundTrips(Ins("ld", Half(t), Half(s), 0), 2)
<1> DEFINE i == Ins("ld", Half(t), Half(s), 0)
           op == 64 * 1 + 8 * halfIndexRegisterCode[t] + halfIndexRegisterCode[s]
<1>1. /\ Half(t).kind = "half"
      /\ Half(t).reg = t
      /\ Half(s).kind = "half"
      /\ Half(s).reg = s
      /\ R8("a").kind = "reg8"
      /\ R8("a").reg = "a"
      /\ R16("de").kind = "reg16"
      /\ R16("de").reg = "de"
      /\ R16("hl").kind = "reg16"
      /\ R16("hl").reg = "hl"
      /\ R16("sp").kind = "reg16"
      /\ R16("sp").reg = "sp"
      /\ R16("af").kind = "reg16"
      /\ R16("af").reg = "af"
      /\ Indirect("hl").kind = "indirect"
      /\ Indirect("hl").reg = "hl"
  BY DEF Half, Indirect, R16, R8, Operand
<1>2. /\ op \in Byte
      /\ Row(op) = halfIndexRegisterCode[t]
      /\ Column(op) = halfIndexRegisterCode[s]
      /\ op >= 64 /\ op < 128 /\ op # 118
      /\ indexPrefix[IndexOf[t]] \in Byte
      /\ IndexOf[t] \in Index
      /\ op = 64 + halfIndexRegisterCode[t] * 8 + halfIndexRegisterCode[s]
      /\ halfIndexRegisterCode[t] \in {4, 5}
      /\ halfIndexRegisterCode[s] \in {4, 5}
  BY RegisterCodes, PlainCodes, HalfCodes, OpcodeParts, IndexPrefixes
<1> HIDE DEF op
<1>3. encodeZ80Instruction(i) = Encoding(2, <<Op(indexPrefix[IndexOf[t]]), Op(op)>>)
  <2>1. encodeZ80Instruction(i) = encodeLd(Half(t), Half(s))
    BY EncodingOf
  <2>2. encodeLd(Half(t), Half(s)) = Encoding(2, <<Op(indexPrefix[IndexOf[t]]), Op(op)>>)
    BY <1>1, <1>2 DEF encodeLd, OrElse, encodeByteLd, encodeWordLd, encodeAccumulatorIndirectLd, encodeHlIndirectLd, encodeIndexedLd, SupportedHalfLd, HalfCompatible, IsIndex, Unencodable, Encoding, halfIndexPrefix, HalfOf, byteRegisterCode
  <2> QED BY <2>1, <2>2
<1>4. AsDecoded(i) = Ins("ld", Half(t), Half(s), 0)
  <2>1. i.mn = "ld" /\ i.dst = Half(t) /\ i.src = Half(s)
    BY Fields
  <2>2. Narrowed(i, Half(t)) = Half(t)
    BY <1>1, <2>1, NarrowedOperands, NarrowedValues
  <2>3. Narrowed(i, Half(s)) = Half(s)
    BY <1>1, <2>1, NarrowedOperands, NarrowedValues
  <2>4. AsDecoded(i) = Ins("ld", Narrowed(i, Half(t)), Narrowed(i, Half(s)), 0)
    BY DecodedIns
  <2> QED BY <2>2, <2>3, <2>4
<1>5. ASSUME NEW m, NEW a \in Int, At(m, a) = indexPrefix[IndexOf[t]], At(m, a + 1) = op PROVE Decodes(i, 2, m, a)
  <2>1. decodeInstruction(m, a) = DdMatrix(m, a, op, IndexOf[t])
    BY <1>2, <1>5, DecodeIndexMatrix
  <2>2. DdMatrix(m, a, op, IndexOf[t]) = Decoded(Ins("ld", Half(t), Half(s), 0), 2)
    BY <1>2, <1>5, RegisterCodes, HalfCodes, OtherHalfOperands DEF DdMatrix
  <2> QED BY <1>4, <2>1, <2>2 DEF Decodes
<1>6. \A m : \A a \in Int : (At(m, a) = indexPrefix[IndexOf[t]] /\ At(m, a + 1) = op) => Decodes(i, 2, m, a)
  BY <1>5
<1> DEFINE p == indexPrefix[IndexOf[t]]
<1>7. encodeZ80Instruction(i) = Encoding(2, <<Op(p), Op(op)>>) /\ p \in Byte /\ op \in Byte
  BY <1>2, <1>3
<1>8. \A m : \A a \in Int : (At(m, a) = p /\ At(m, a + 1) = op) => Decodes(i, 2, m, a)
  BY <1>6
<1> HIDE DEF p, i
<1>9. RoundTrips(i, 2)
  BY <1>2, <1>7, <1>8, RoundTripOpOp
<1> QED BY <1>9 DEF i

LEMMA LdHalfRegister ==
  ASSUME NEW t \in Halves, NEW s \in Bytes8 \ {"h", "l"}
  PROVE  RoundTrips(Ins("ld", Half(t), R8(s), 0), 2)
<1> DEFINE i == Ins("ld", Half(t), R8(s), 0)
           op == 64 * 1 + 8 * halfIndexRegisterCode[t] + register8Code[s]
<1>1. /\ Half(t).kind = "half"
      /\ Half(t).reg = t
      /\ R8(s).kind = "reg8"
      /\ R8(s).reg = s
      /\ R8("a").kind = "reg8"
      /\ R8("a").reg = "a"
      /\ R16("de").kind = "reg16"
      /\ R16("de").reg = "de"
      /\ R16("hl").kind = "reg16"
      /\ R16("hl").reg = "hl"
      /\ R16("sp").kind = "reg16"
      /\ R16("sp").reg = "sp"
      /\ R16("af").kind = "reg16"
      /\ R16("af").reg = "af"
      /\ Indirect("hl").kind = "indirect"
      /\ Indirect("hl").reg = "hl"
  BY DEF Half, Indirect, R16, R8, Operand
<1>2. /\ op \in Byte
      /\ Row(op) = halfIndexRegisterCode[t]
      /\ Column(op) = register8Code[s]
      /\ op >= 64 /\ op < 128 /\ op # 118
      /\ indexPrefix[IndexOf[t]] \in Byte
      /\ IndexOf[t] \in Index
      /\ op = 64 + halfIndexRegisterCode[t] * 8 + register8Code[s]
      /\ halfIndexRegisterCode[t] \in {4, 5}
      /\ register8Code[s] \notin {4, 5, 6}
  BY RegisterCodes, PlainCodes, HalfCodes, OpcodeParts, IndexPrefixes
<1> HIDE DEF op
<1>3. encodeZ80Instruction(i) = Encoding(2, <<Op(indexPrefix[IndexOf[t]]), Op(op)>>)
  <2>1. encodeZ80Instruction(i) = encodeLd(Half(t), R8(s))
    BY EncodingOf
  <2>2. encodeLd(Half(t), R8(s)) = Encoding(2, <<Op(indexPrefix[IndexOf[t]]), Op(op)>>)
    BY <1>1, <1>2 DEF encodeLd, OrElse, encodeByteLd, encodeWordLd, encodeAccumulatorIndirectLd, encodeHlIndirectLd, encodeIndexedLd, SupportedHalfLd, HalfCompatible, IsIndex, Unencodable, Encoding, halfIndexPrefix, HalfOf, byteRegisterCode
  <2> QED BY <2>1, <2>2
<1>4. AsDecoded(i) = Ins("ld", Half(t), R8(s), 0)
  <2>1. i.mn = "ld" /\ i.dst = Half(t) /\ i.src = R8(s)
    BY Fields
  <2>2. Narrowed(i, Half(t)) = Half(t)
    BY <1>1, <2>1, NarrowedOperands, NarrowedValues
  <2>3. Narrowed(i, R8(s)) = R8(s)
    BY <1>1, <2>1, NarrowedOperands, NarrowedValues
  <2>4. AsDecoded(i) = Ins("ld", Narrowed(i, Half(t)), Narrowed(i, R8(s)), 0)
    BY DecodedIns
  <2> QED BY <2>2, <2>3, <2>4
<1>5. ASSUME NEW m, NEW a \in Int, At(m, a) = indexPrefix[IndexOf[t]], At(m, a + 1) = op PROVE Decodes(i, 2, m, a)
  <2>1. decodeInstruction(m, a) = DdMatrix(m, a, op, IndexOf[t])
    BY <1>2, <1>5, DecodeIndexMatrix
  <2>2. DdMatrix(m, a, op, IndexOf[t]) = Decoded(Ins("ld", Half(t), R8(s), 0), 2)
    BY <1>2, <1>5, RegisterCodes, HalfCodes, OtherHalfOperands DEF DdMatrix
  <2> QED BY <1>4, <2>1, <2>2 DEF Decodes
<1>6. \A m : \A a \in Int : (At(m, a) = indexPrefix[IndexOf[t]] /\ At(m, a + 1) = op) => Decodes(i, 2, m, a)
  BY <1>5
<1> DEFINE p == indexPrefix[IndexOf[t]]
<1>7. encodeZ80Instruction(i) = Encoding(2, <<Op(p), Op(op)>>) /\ p \in Byte /\ op \in Byte
  BY <1>2, <1>3
<1>8. \A m : \A a \in Int : (At(m, a) = p /\ At(m, a + 1) = op) => Decodes(i, 2, m, a)
  BY <1>6
<1> HIDE DEF p, i
<1>9. RoundTrips(i, 2)
  BY <1>2, <1>7, <1>8, RoundTripOpOp
<1> QED BY <1>9 DEF i

LEMMA LdRegisterHalf ==
  ASSUME NEW t \in Bytes8 \ {"h", "l"}, NEW s \in Halves
  PROVE  RoundTrips(Ins("ld", R8(t), Half(s), 0), 2)
<1> DEFINE i == Ins("ld", R8(t), Half(s), 0)
           op == 64 * 1 + 8 * register8Code[t] + halfIndexRegisterCode[s]
<1>1. /\ R8(t).kind = "reg8"
      /\ R8(t).reg = t
      /\ Half(s).kind = "half"
      /\ Half(s).reg = s
      /\ R8("a").kind = "reg8"
      /\ R8("a").reg = "a"
      /\ R16("de").kind = "reg16"
      /\ R16("de").reg = "de"
      /\ R16("hl").kind = "reg16"
      /\ R16("hl").reg = "hl"
      /\ R16("sp").kind = "reg16"
      /\ R16("sp").reg = "sp"
      /\ R16("af").kind = "reg16"
      /\ R16("af").reg = "af"
      /\ Indirect("hl").kind = "indirect"
      /\ Indirect("hl").reg = "hl"
  BY DEF Half, Indirect, R16, R8, Operand
<1>2. /\ op \in Byte
      /\ Row(op) = register8Code[t]
      /\ Column(op) = halfIndexRegisterCode[s]
      /\ op >= 64 /\ op < 128 /\ op # 118
      /\ indexPrefix[IndexOf[s]] \in Byte
      /\ IndexOf[s] \in Index
      /\ op = 64 + register8Code[t] * 8 + halfIndexRegisterCode[s]
      /\ register8Code[t] \notin {4, 5, 6}
      /\ halfIndexRegisterCode[s] \in {4, 5}
  BY RegisterCodes, PlainCodes, HalfCodes, OpcodeParts, IndexPrefixes
<1> HIDE DEF op
<1>3. encodeZ80Instruction(i) = Encoding(2, <<Op(indexPrefix[IndexOf[s]]), Op(op)>>)
  <2>1. encodeZ80Instruction(i) = encodeLd(R8(t), Half(s))
    BY EncodingOf
  <2>2. encodeLd(R8(t), Half(s)) = Encoding(2, <<Op(indexPrefix[IndexOf[s]]), Op(op)>>)
    BY <1>1, <1>2 DEF encodeLd, OrElse, encodeByteLd, encodeWordLd, encodeAccumulatorIndirectLd, encodeHlIndirectLd, encodeIndexedLd, SupportedHalfLd, HalfCompatible, IsIndex, Unencodable, Encoding, halfIndexPrefix, HalfOf, byteRegisterCode
  <2> QED BY <2>1, <2>2
<1>4. AsDecoded(i) = Ins("ld", R8(t), Half(s), 0)
  <2>1. i.mn = "ld" /\ i.dst = R8(t) /\ i.src = Half(s)
    BY Fields
  <2>2. Narrowed(i, R8(t)) = R8(t)
    BY <1>1, <2>1, NarrowedOperands, NarrowedValues
  <2>3. Narrowed(i, Half(s)) = Half(s)
    BY <1>1, <2>1, NarrowedOperands, NarrowedValues
  <2>4. AsDecoded(i) = Ins("ld", Narrowed(i, R8(t)), Narrowed(i, Half(s)), 0)
    BY DecodedIns
  <2> QED BY <2>2, <2>3, <2>4
<1>5. ASSUME NEW m, NEW a \in Int, At(m, a) = indexPrefix[IndexOf[s]], At(m, a + 1) = op PROVE Decodes(i, 2, m, a)
  <2>1. decodeInstruction(m, a) = DdMatrix(m, a, op, IndexOf[s])
    BY <1>2, <1>5, DecodeIndexMatrix
  <2>2. DdMatrix(m, a, op, IndexOf[s]) = Decoded(Ins("ld", R8(t), Half(s), 0), 2)
    BY <1>2, <1>5, RegisterCodes, HalfCodes, OtherHalfOperands DEF DdMatrix
  <2> QED BY <1>4, <2>1, <2>2 DEF Decodes
<1>6. \A m : \A a \in Int : (At(m, a) = indexPrefix[IndexOf[s]] /\ At(m, a + 1) = op) => Decodes(i, 2, m, a)
  BY <1>5
<1> DEFINE p == indexPrefix[IndexOf[s]]
<1>7. encodeZ80Instruction(i) = Encoding(2, <<Op(p), Op(op)>>) /\ p \in Byte /\ op \in Byte
  BY <1>2, <1>3
<1>8. \A m : \A a \in Int : (At(m, a) = p /\ At(m, a + 1) = op) => Decodes(i, 2, m, a)
  BY <1>6
<1> HIDE DEF p, i
<1>9. RoundTrips(i, 2)
  BY <1>2, <1>7, <1>8, RoundTripOpOp
<1> QED BY <1>9 DEF i

LEMMA LdAccumulatorAbsolute ==
  ASSUME NEW n \in Int
  PROVE  RoundTrips(Ins("ld", R8("a"), Abs(n), 0), 3)
<1> DEFINE i == Ins("ld", R8("a"), Abs(n), 0)
<1>1. /\ R8("a").kind = "reg8"
      /\ R8("a").reg = "a"
      /\ Abs(n).kind = "abs"
      /\ Abs(n).val = n
      /\ R16("de").kind = "reg16"
      /\ R16("de").reg = "de"
      /\ R16("hl").kind = "reg16"
      /\ R16("hl").reg = "hl"
      /\ R16("sp").kind = "reg16"
      /\ R16("sp").reg = "sp"
      /\ R16("af").kind = "reg16"
      /\ R16("af").reg = "af"
      /\ Indirect("hl").kind = "indirect"
      /\ Indirect("hl").reg = "hl"
  BY DEF Abs, Indirect, R16, R8, Operand
<1>2. /\ 58 \in Byte
  BY DEF Byte
<1>3. encodeZ80Instruction(i) = Encoding(3, <<Op(58), A16(n)>>)
  <2>1. encodeZ80Instruction(i) = encodeLd(R8("a"), Abs(n))
    BY EncodingOf
  <2>2. encodeLd(R8("a"), Abs(n)) = Encoding(3, <<Op(58), A16(n)>>)
    BY <1>1, <1>2 DEF encodeLd, OrElse, encodeByteLd, encodeWordLd, encodeAccumulatorIndirectLd, encodeHlIndirectLd, encodeIndexedLd, SupportedHalfLd, HalfCompatible, IsIndex, Unencodable, Encoding
  <2> QED BY <2>1, <2>2
<1>4. AsDecoded(i) = Ins("ld", R8("a"), Abs(Wrapped(n)), 0)
  <2>1. i.mn = "ld" /\ i.dst = R8("a") /\ i.src = Abs(n)
    BY Fields
  <2>2. Narrowed(i, R8("a")) = R8("a")
    BY <1>1, <2>1, NarrowedOperands, NarrowedValues
  <2>3. Narrowed(i, Abs(n)) = Abs(Wrapped(n))
    BY <1>1, <2>1, NarrowedOperands, NarrowedValues
  <2>4. AsDecoded(i) = Ins("ld", Narrowed(i, R8("a")), Narrowed(i, Abs(n)), 0)
    BY DecodedIns
  <2> QED BY <2>2, <2>3, <2>4
<1>5. ASSUME NEW m, NEW a \in Int, At(m, a) = 58, WordAt(m, a + 1) = Wrapped(n) PROVE Decodes(i, 3, m, a)
  <2>1. decodeInstruction(m, a) = LowPrimary(m, a, 58)
    BY <1>2, <1>5, DecodePrimary DEF Byte
  <2>2. LowPrimary(m, a, 58) = Decoded(Ins("ld", R8("a"), Abs(Wrapped(n)), 0), 3)
    BY <1>2, <1>5 DEF LowPrimary, Column, Row
  <2> QED BY <1>4, <2>1, <2>2 DEF Decodes
<1>6. \A m : \A a \in Int : (At(m, a) = 58 /\ WordAt(m, a + 1) = Wrapped(n)) => Decodes(i, 3, m, a)
  BY <1>5
<1> QED BY <1>2, <1>3, <1>6, RoundTripOpWord

LEMMA LdAbsoluteAccumulator ==
  ASSUME NEW n \in Int
  PROVE  RoundTrips(Ins("ld", Abs(n), R8("a"), 0), 3)
<1> DEFINE i == Ins("ld", Abs(n), R8("a"), 0)
<1>1. /\ Abs(n).kind = "abs"
      /\ Abs(n).val = n
      /\ R8("a").kind = "reg8"
      /\ R8("a").reg = "a"
      /\ R16("de").kind = "reg16"
      /\ R16("de").reg = "de"
      /\ R16("hl").kind = "reg16"
      /\ R16("hl").reg = "hl"
      /\ R16("sp").kind = "reg16"
      /\ R16("sp").reg = "sp"
      /\ R16("af").kind = "reg16"
      /\ R16("af").reg = "af"
      /\ Indirect("hl").kind = "indirect"
      /\ Indirect("hl").reg = "hl"
  BY DEF Abs, Indirect, R16, R8, Operand
<1>2. /\ 50 \in Byte
  BY DEF Byte
<1>3. encodeZ80Instruction(i) = Encoding(3, <<Op(50), A16(n)>>)
  <2>1. encodeZ80Instruction(i) = encodeLd(Abs(n), R8("a"))
    BY EncodingOf
  <2>2. encodeLd(Abs(n), R8("a")) = Encoding(3, <<Op(50), A16(n)>>)
    BY <1>1, <1>2 DEF encodeLd, OrElse, encodeByteLd, encodeWordLd, encodeAccumulatorIndirectLd, encodeHlIndirectLd, encodeIndexedLd, SupportedHalfLd, HalfCompatible, IsIndex, Unencodable, Encoding
  <2> QED BY <2>1, <2>2
<1>4. AsDecoded(i) = Ins("ld", Abs(Wrapped(n)), R8("a"), 0)
  <2>1. i.mn = "ld" /\ i.dst = Abs(n) /\ i.src = R8("a")
    BY Fields
  <2>2. Narrowed(i, Abs(n)) = Abs(Wrapped(n))
    BY <1>1, <2>1, NarrowedOperands, NarrowedValues
  <2>3. Narrowed(i, R8("a")) = R8("a")
    BY <1>1, <2>1, NarrowedOperands, NarrowedValues
  <2>4. AsDecoded(i) = Ins("ld", Narrowed(i, Abs(n)), Narrowed(i, R8("a")), 0)
    BY DecodedIns
  <2> QED BY <2>2, <2>3, <2>4
<1>5. ASSUME NEW m, NEW a \in Int, At(m, a) = 50, WordAt(m, a + 1) = Wrapped(n) PROVE Decodes(i, 3, m, a)
  <2>1. decodeInstruction(m, a) = LowPrimary(m, a, 50)
    BY <1>2, <1>5, DecodePrimary DEF Byte
  <2>2. LowPrimary(m, a, 50) = Decoded(Ins("ld", Abs(Wrapped(n)), R8("a"), 0), 3)
    BY <1>2, <1>5 DEF LowPrimary, Column, Row
  <2> QED BY <1>4, <2>1, <2>2 DEF Decodes
<1>6. \A m : \A a \in Int : (At(m, a) = 50 /\ WordAt(m, a + 1) = Wrapped(n)) => Decodes(i, 3, m, a)
  BY <1>5
<1> QED BY <1>2, <1>3, <1>6, RoundTripOpWord

LEMMA LdHlAbsolute ==
  ASSUME NEW n \in Int
  PROVE  RoundTrips(Ins("ld", R16("hl"), Abs(n), 0), 3)
<1> DEFINE i == Ins("ld", R16("hl"), Abs(n), 0)
<1>1. /\ R16("hl").kind = "reg16"
      /\ R16("hl").reg = "hl"
      /\ Abs(n).kind = "abs"
      /\ Abs(n).val = n
      /\ R8("a").kind = "reg8"
      /\ R8("a").reg = "a"
      /\ R16("de").kind = "reg16"
      /\ R16("de").reg = "de"
      /\ R16("sp").kind = "reg16"
      /\ R16("sp").reg = "sp"
      /\ R16("af").kind = "reg16"
      /\ R16("af").reg = "af"
      /\ Indirect("hl").kind = "indirect"
      /\ Indirect("hl").reg = "hl"
  BY DEF Abs, Indirect, R16, R8, Operand
<1>2. /\ 42 \in Byte
  BY DEF Byte
<1>3. encodeZ80Instruction(i) = Encoding(3, <<Op(42), A16(n)>>)
  <2>1. encodeZ80Instruction(i) = encodeLd(R16("hl"), Abs(n))
    BY EncodingOf
  <2>2. encodeLd(R16("hl"), Abs(n)) = Encoding(3, <<Op(42), A16(n)>>)
    BY <1>1, <1>2 DEF encodeLd, OrElse, encodeByteLd, encodeWordLd, encodeAccumulatorIndirectLd, encodeHlIndirectLd, encodeIndexedLd, SupportedHalfLd, HalfCompatible, IsIndex, Unencodable, Encoding
  <2> QED BY <2>1, <2>2
<1>4. AsDecoded(i) = Ins("ld", R16("hl"), Abs(Wrapped(n)), 0)
  <2>1. i.mn = "ld" /\ i.dst = R16("hl") /\ i.src = Abs(n)
    BY Fields
  <2>2. Narrowed(i, R16("hl")) = R16("hl")
    BY <1>1, <2>1, NarrowedOperands, NarrowedValues
  <2>3. Narrowed(i, Abs(n)) = Abs(Wrapped(n))
    BY <1>1, <2>1, NarrowedOperands, NarrowedValues
  <2>4. AsDecoded(i) = Ins("ld", Narrowed(i, R16("hl")), Narrowed(i, Abs(n)), 0)
    BY DecodedIns
  <2> QED BY <2>2, <2>3, <2>4
<1>5. ASSUME NEW m, NEW a \in Int, At(m, a) = 42, WordAt(m, a + 1) = Wrapped(n) PROVE Decodes(i, 3, m, a)
  <2>1. decodeInstruction(m, a) = LowPrimary(m, a, 42)
    BY <1>2, <1>5, DecodePrimary DEF Byte
  <2>2. LowPrimary(m, a, 42) = Decoded(Ins("ld", R16("hl"), Abs(Wrapped(n)), 0), 3)
    BY <1>2, <1>5 DEF LowPrimary, Column, Row
  <2> QED BY <1>4, <2>1, <2>2 DEF Decodes
<1>6. \A m : \A a \in Int : (At(m, a) = 42 /\ WordAt(m, a + 1) = Wrapped(n)) => Decodes(i, 3, m, a)
  BY <1>5
<1> QED BY <1>2, <1>3, <1>6, RoundTripOpWord

LEMMA LdAbsoluteHl ==
  ASSUME NEW n \in Int
  PROVE  RoundTrips(Ins("ld", Abs(n), R16("hl"), 0), 3)
<1> DEFINE i == Ins("ld", Abs(n), R16("hl"), 0)
<1>1. /\ Abs(n).kind = "abs"
      /\ Abs(n).val = n
      /\ R16("hl").kind = "reg16"
      /\ R16("hl").reg = "hl"
      /\ R8("a").kind = "reg8"
      /\ R8("a").reg = "a"
      /\ R16("de").kind = "reg16"
      /\ R16("de").reg = "de"
      /\ R16("sp").kind = "reg16"
      /\ R16("sp").reg = "sp"
      /\ R16("af").kind = "reg16"
      /\ R16("af").reg = "af"
      /\ Indirect("hl").kind = "indirect"
      /\ Indirect("hl").reg = "hl"
  BY DEF Abs, Indirect, R16, R8, Operand
<1>2. /\ 34 \in Byte
  BY DEF Byte
<1>3. encodeZ80Instruction(i) = Encoding(3, <<Op(34), A16(n)>>)
  <2>1. encodeZ80Instruction(i) = encodeLd(Abs(n), R16("hl"))
    BY EncodingOf
  <2>2. encodeLd(Abs(n), R16("hl")) = Encoding(3, <<Op(34), A16(n)>>)
    BY <1>1, <1>2 DEF encodeLd, OrElse, encodeByteLd, encodeWordLd, encodeAccumulatorIndirectLd, encodeHlIndirectLd, encodeIndexedLd, SupportedHalfLd, HalfCompatible, IsIndex, Unencodable, Encoding
  <2> QED BY <2>1, <2>2
<1>4. AsDecoded(i) = Ins("ld", Abs(Wrapped(n)), R16("hl"), 0)
  <2>1. i.mn = "ld" /\ i.dst = Abs(n) /\ i.src = R16("hl")
    BY Fields
  <2>2. Narrowed(i, Abs(n)) = Abs(Wrapped(n))
    BY <1>1, <2>1, NarrowedOperands, NarrowedValues
  <2>3. Narrowed(i, R16("hl")) = R16("hl")
    BY <1>1, <2>1, NarrowedOperands, NarrowedValues
  <2>4. AsDecoded(i) = Ins("ld", Narrowed(i, Abs(n)), Narrowed(i, R16("hl")), 0)
    BY DecodedIns
  <2> QED BY <2>2, <2>3, <2>4
<1>5. ASSUME NEW m, NEW a \in Int, At(m, a) = 34, WordAt(m, a + 1) = Wrapped(n) PROVE Decodes(i, 3, m, a)
  <2>1. decodeInstruction(m, a) = LowPrimary(m, a, 34)
    BY <1>2, <1>5, DecodePrimary DEF Byte
  <2>2. LowPrimary(m, a, 34) = Decoded(Ins("ld", Abs(Wrapped(n)), R16("hl"), 0), 3)
    BY <1>2, <1>5 DEF LowPrimary, Column, Row
  <2> QED BY <1>4, <2>1, <2>2 DEF Decodes
<1>6. \A m : \A a \in Int : (At(m, a) = 34 /\ WordAt(m, a + 1) = Wrapped(n)) => Decodes(i, 3, m, a)
  BY <1>5
<1> QED BY <1>2, <1>3, <1>6, RoundTripOpWord

LEMMA LdPairWord ==
  ASSUME NEW r \in Pairs, NEW n \in Int
  PROVE  RoundTrips(Ins("ld", R16(r), Imm(n), 0), 3)
<1> DEFINE i == Ins("ld", R16(r), Imm(n), 0)
           op == 64 * 0 + 8 * (2 * register16Code[r]) + 1
<1>1. /\ R16(r).kind = "reg16"
      /\ R16(r).reg = r
      /\ Imm(n).kind = "imm"
      /\ Imm(n).val = n
      /\ R8("a").kind = "reg8"
      /\ R8("a").reg = "a"
      /\ R16("de").kind = "reg16"
      /\ R16("de").reg = "de"
      /\ R16("hl").kind = "reg16"
      /\ R16("hl").reg = "hl"
      /\ R16("sp").kind = "reg16"
      /\ R16("sp").reg = "sp"
      /\ R16("af").kind = "reg16"
      /\ R16("af").reg = "af"
      /\ Indirect("hl").kind = "indirect"
      /\ Indirect("hl").reg = "hl"
  BY DEF Imm, Indirect, R16, R8, Operand
<1>2. /\ op \in Byte
      /\ Row(op) = 2 * register16Code[r]
      /\ Column(op) = 1
      /\ op < 64
      /\ op = 1 + register16Code[r] * 16
      /\ op \notin {0, 8, 16, 24}
      /\ r \notin Index
      /\ PairOf(op) = r
      /\ Row(op) % 2 = 0
  BY PairCodes, OpcodeParts
<1> HIDE DEF op
<1>3. encodeZ80Instruction(i) = Encoding(3, <<Op(op), A16(n)>>)
  <2>1. encodeZ80Instruction(i) = encodeLd(R16(r), Imm(n))
    BY EncodingOf
  <2>2. encodeLd(R16(r), Imm(n)) = Encoding(3, <<Op(op), A16(n)>>)
    BY <1>1, <1>2 DEF encodeLd, OrElse, encodeByteLd, encodeWordLd, encodeAccumulatorIndirectLd, encodeHlIndirectLd, encodeIndexedLd, SupportedHalfLd, HalfCompatible, IsIndex, Unencodable, Encoding
  <2> QED BY <2>1, <2>2
<1>4. AsDecoded(i) = Ins("ld", R16(r), Imm(Wrapped(n)), 0)
  <2>1. i.mn = "ld" /\ i.dst = R16(r) /\ i.src = Imm(n)
    BY Fields
  <2>2. Narrowed(i, R16(r)) = R16(r)
    BY <1>1, <2>1, NarrowedOperands, NarrowedValues
  <2>3. Narrowed(i, Imm(n)) = Imm(Wrapped(n))
    BY <1>1, <2>1, NarrowedOperands, NarrowedValues
  <2>4. AsDecoded(i) = Ins("ld", Narrowed(i, R16(r)), Narrowed(i, Imm(n)), 0)
    BY DecodedIns
  <2> QED BY <2>2, <2>3, <2>4
<1>5. ASSUME NEW m, NEW a \in Int, At(m, a) = op, WordAt(m, a + 1) = Wrapped(n) PROVE Decodes(i, 3, m, a)
  <2>1. decodeInstruction(m, a) = LowPrimary(m, a, op)
    BY <1>2, <1>5, DecodePrimary DEF Byte
  <2>2. LowPrimary(m, a, op) = Decoded(Ins("ld", R16(r), Imm(Wrapped(n)), 0), 3)
    BY <1>2, <1>5 DEF LowPrimary
  <2> QED BY <1>4, <2>1, <2>2 DEF Decodes
<1>6. \A m : \A a \in Int : (At(m, a) = op /\ WordAt(m, a + 1) = Wrapped(n)) => Decodes(i, 3, m, a)
  BY <1>5
<1> QED BY <1>2, <1>3, <1>6, RoundTripOpWord

LEMMA LdIndexWord ==
  ASSUME NEW x \in Index, NEW n \in Int
  PROVE  RoundTrips(Ins("ld", R16(x), Imm(n), 0), 4)
<1> DEFINE i == Ins("ld", R16(x), Imm(n), 0)
<1>1. /\ R16(x).kind = "reg16"
      /\ R16(x).reg = x
      /\ Imm(n).kind = "imm"
      /\ Imm(n).val = n
      /\ R8("a").kind = "reg8"
      /\ R8("a").reg = "a"
      /\ R16("de").kind = "reg16"
      /\ R16("de").reg = "de"
      /\ R16("hl").kind = "reg16"
      /\ R16("hl").reg = "hl"
      /\ R16("sp").kind = "reg16"
      /\ R16("sp").reg = "sp"
      /\ R16("af").kind = "reg16"
      /\ R16("af").reg = "af"
      /\ Indirect("hl").kind = "indirect"
      /\ Indirect("hl").reg = "hl"
  BY DEF Imm, Indirect, R16, R8, Operand
<1>2. /\ 33 \in Byte
      /\ indexPrefix[x] \in Byte
      /\ x \notin {"bc", "de", "hl", "sp", "af"}
  BY IndexPrefixes DEF Byte
<1>3. encodeZ80Instruction(i) = Encoding(4, <<Op(indexPrefix[x]), Op(33), A16(n)>>)
  <2>1. encodeZ80Instruction(i) = encodeLd(R16(x), Imm(n))
    BY EncodingOf
  <2>2. encodeLd(R16(x), Imm(n)) = Encoding(4, <<Op(indexPrefix[x]), Op(33), A16(n)>>)
    BY <1>1, <1>2 DEF encodeLd, OrElse, encodeByteLd, encodeWordLd, encodeAccumulatorIndirectLd, encodeHlIndirectLd, encodeIndexedLd, SupportedHalfLd, HalfCompatible, IsIndex, Unencodable, Encoding
  <2> QED BY <2>1, <2>2
<1>4. AsDecoded(i) = Ins("ld", R16(x), Imm(Wrapped(n)), 0)
  <2>1. i.mn = "ld" /\ i.dst = R16(x) /\ i.src = Imm(n)
    BY Fields
  <2>2. Narrowed(i, R16(x)) = R16(x)
    BY <1>1, <2>1, NarrowedOperands, NarrowedValues
  <2>3. Narrowed(i, Imm(n)) = Imm(Wrapped(n))
    BY <1>1, <2>1, NarrowedOperands, NarrowedValues
  <2>4. AsDecoded(i) = Ins("ld", Narrowed(i, R16(x)), Narrowed(i, Imm(n)), 0)
    BY DecodedIns
  <2> QED BY <2>2, <2>3, <2>4
<1>5. ASSUME NEW m, NEW a \in Int, At(m, a) = indexPrefix[x], At(m, a + 1) = 33, WordAt(m, a + 2) = Wrapped(n) PROVE Decodes(i, 4, m, a)
  <2>1. decodeInstruction(m, a) = DdLow(m, a, 33, x)
    BY <1>2, <1>5, DecodeIndex
  <2>2. DdLow(m, a, 33, x) = Decoded(Ins("ld", R16(x), Imm(Wrapped(n)), 0), 4)
    BY <1>2, <1>5 DEF DdLow
  <2> QED BY <1>4, <2>1, <2>2 DEF Decodes
<1>6. \A m : \A a \in Int : (At(m, a) = indexPrefix[x] /\ At(m, a + 1) = 33 /\ WordAt(m, a + 2) = Wrapped(n)) => Decodes(i, 4, m, a)
  BY <1>5
<1> DEFINE p == indexPrefix[x]
<1>7. encodeZ80Instruction(i) = Encoding(4, <<Op(p), Op(33), A16(n)>>) /\ p \in Byte
  BY <1>2, <1>3
<1>8. \A m : \A a \in Int : (At(m, a) = p /\ At(m, a + 1) = 33 /\ WordAt(m, a + 2) = Wrapped(n)) => Decodes(i, 4, m, a)
  BY <1>6
<1> HIDE DEF p, i
<1>9. RoundTrips(i, 4)
  BY <1>2, <1>7, <1>8, RoundTripOpOpWord
<1> QED BY <1>9 DEF i

LEMMA LdIndexAbsolute ==
  ASSUME NEW x \in Index, NEW n \in Int
  PROVE  RoundTrips(Ins("ld", R16(x), Abs(n), 0), 4)
<1> DEFINE i == Ins("ld", R16(x), Abs(n), 0)
<1>1. /\ R16(x).kind = "reg16"
      /\ R16(x).reg = x
      /\ Abs(n).kind = "abs"
      /\ Abs(n).val = n
      /\ R8("a").kind = "reg8"
      /\ R8("a").reg = "a"
      /\ R16("de").kind = "reg16"
      /\ R16("de").reg = "de"
      /\ R16("hl").kind = "reg16"
      /\ R16("hl").reg = "hl"
      /\ R16("sp").kind = "reg16"
      /\ R16("sp").reg = "sp"
      /\ R16("af").kind = "reg16"
      /\ R16("af").reg = "af"
      /\ Indirect("hl").kind = "indirect"
      /\ Indirect("hl").reg = "hl"
  BY DEF Abs, Indirect, R16, R8, Operand
<1>2. /\ 42 \in Byte
      /\ indexPrefix[x] \in Byte
      /\ x \notin {"bc", "de", "hl", "sp", "af"}
  BY IndexPrefixes DEF Byte
<1>3. encodeZ80Instruction(i) = Encoding(4, <<Op(indexPrefix[x]), Op(42), A16(n)>>)
  <2>1. encodeZ80Instruction(i) = encodeLd(R16(x), Abs(n))
    BY EncodingOf
  <2>2. encodeLd(R16(x), Abs(n)) = Encoding(4, <<Op(indexPrefix[x]), Op(42), A16(n)>>)
    BY <1>1, <1>2 DEF encodeLd, OrElse, encodeByteLd, encodeWordLd, encodeAccumulatorIndirectLd, encodeHlIndirectLd, encodeIndexedLd, SupportedHalfLd, HalfCompatible, IsIndex, Unencodable, Encoding
  <2> QED BY <2>1, <2>2
<1>4. AsDecoded(i) = Ins("ld", R16(x), Abs(Wrapped(n)), 0)
  <2>1. i.mn = "ld" /\ i.dst = R16(x) /\ i.src = Abs(n)
    BY Fields
  <2>2. Narrowed(i, R16(x)) = R16(x)
    BY <1>1, <2>1, NarrowedOperands, NarrowedValues
  <2>3. Narrowed(i, Abs(n)) = Abs(Wrapped(n))
    BY <1>1, <2>1, NarrowedOperands, NarrowedValues
  <2>4. AsDecoded(i) = Ins("ld", Narrowed(i, R16(x)), Narrowed(i, Abs(n)), 0)
    BY DecodedIns
  <2> QED BY <2>2, <2>3, <2>4
<1>5. ASSUME NEW m, NEW a \in Int, At(m, a) = indexPrefix[x], At(m, a + 1) = 42, WordAt(m, a + 2) = Wrapped(n) PROVE Decodes(i, 4, m, a)
  <2>1. decodeInstruction(m, a) = DdLow(m, a, 42, x)
    BY <1>2, <1>5, DecodeIndex
  <2>2. DdLow(m, a, 42, x) = Decoded(Ins("ld", R16(x), Abs(Wrapped(n)), 0), 4)
    BY <1>2, <1>5 DEF DdLow
  <2> QED BY <1>4, <2>1, <2>2 DEF Decodes
<1>6. \A m : \A a \in Int : (At(m, a) = indexPrefix[x] /\ At(m, a + 1) = 42 /\ WordAt(m, a + 2) = Wrapped(n)) => Decodes(i, 4, m, a)
  BY <1>5
<1> DEFINE p == indexPrefix[x]
<1>7. encodeZ80Instruction(i) = Encoding(4, <<Op(p), Op(42), A16(n)>>) /\ p \in Byte
  BY <1>2, <1>3
<1>8. \A m : \A a \in Int : (At(m, a) = p /\ At(m, a + 1) = 42 /\ WordAt(m, a + 2) = Wrapped(n)) => Decodes(i, 4, m, a)
  BY <1>6
<1> HIDE DEF p, i
<1>9. RoundTrips(i, 4)
  BY <1>2, <1>7, <1>8, RoundTripOpOpWord
<1> QED BY <1>9 DEF i

LEMMA LdAbsoluteIndex ==
  ASSUME NEW x \in Index, NEW n \in Int
  PROVE  RoundTrips(Ins("ld", Abs(n), R16(x), 0), 4)
<1> DEFINE i == Ins("ld", Abs(n), R16(x), 0)
<1>1. /\ Abs(n).kind = "abs"
      /\ Abs(n).val = n
      /\ R16(x).kind = "reg16"
      /\ R16(x).reg = x
      /\ R8("a").kind = "reg8"
      /\ R8("a").reg = "a"
      /\ R16("de").kind = "reg16"
      /\ R16("de").reg = "de"
      /\ R16("hl").kind = "reg16"
      /\ R16("hl").reg = "hl"
      /\ R16("sp").kind = "reg16"
      /\ R16("sp").reg = "sp"
      /\ R16("af").kind = "reg16"
      /\ R16("af").reg = "af"
      /\ Indirect("hl").kind = "indirect"
      /\ Indirect("hl").reg = "hl"
  BY DEF Abs, Indirect, R16, R8, Operand
<1>2. /\ 34 \in Byte
      /\ indexPrefix[x] \in Byte
      /\ x \notin {"bc", "de", "hl", "sp", "af"}
  BY IndexPrefixes DEF Byte
<1>3. encodeZ80Instruction(i) = Encoding(4, <<Op(indexPrefix[x]), Op(34), A16(n)>>)
  <2>1. encodeZ80Instruction(i) = encodeLd(Abs(n), R16(x))
    BY EncodingOf
  <2>2. encodeLd(Abs(n), R16(x)) = Encoding(4, <<Op(indexPrefix[x]), Op(34), A16(n)>>)
    BY <1>1, <1>2 DEF encodeLd, OrElse, encodeByteLd, encodeWordLd, encodeAccumulatorIndirectLd, encodeHlIndirectLd, encodeIndexedLd, SupportedHalfLd, HalfCompatible, IsIndex, Unencodable, Encoding
  <2> QED BY <2>1, <2>2
<1>4. AsDecoded(i) = Ins("ld", Abs(Wrapped(n)), R16(x), 0)
  <2>1. i.mn = "ld" /\ i.dst = Abs(n) /\ i.src = R16(x)
    BY Fields
  <2>2. Narrowed(i, Abs(n)) = Abs(Wrapped(n))
    BY <1>1, <2>1, NarrowedOperands, NarrowedValues
  <2>3. Narrowed(i, R16(x)) = R16(x)
    BY <1>1, <2>1, NarrowedOperands, NarrowedValues
  <2>4. AsDecoded(i) = Ins("ld", Narrowed(i, Abs(n)), Narrowed(i, R16(x)), 0)
    BY DecodedIns
  <2> QED BY <2>2, <2>3, <2>4
<1>5. ASSUME NEW m, NEW a \in Int, At(m, a) = indexPrefix[x], At(m, a + 1) = 34, WordAt(m, a + 2) = Wrapped(n) PROVE Decodes(i, 4, m, a)
  <2>1. decodeInstruction(m, a) = DdLow(m, a, 34, x)
    BY <1>2, <1>5, DecodeIndex
  <2>2. DdLow(m, a, 34, x) = Decoded(Ins("ld", Abs(Wrapped(n)), R16(x), 0), 4)
    BY <1>2, <1>5 DEF DdLow
  <2> QED BY <1>4, <2>1, <2>2 DEF Decodes
<1>6. \A m : \A a \in Int : (At(m, a) = indexPrefix[x] /\ At(m, a + 1) = 34 /\ WordAt(m, a + 2) = Wrapped(n)) => Decodes(i, 4, m, a)
  BY <1>5
<1> DEFINE p == indexPrefix[x]
<1>7. encodeZ80Instruction(i) = Encoding(4, <<Op(p), Op(34), A16(n)>>) /\ p \in Byte
  BY <1>2, <1>3
<1>8. \A m : \A a \in Int : (At(m, a) = p /\ At(m, a + 1) = 34 /\ WordAt(m, a + 2) = Wrapped(n)) => Decodes(i, 4, m, a)
  BY <1>6
<1> HIDE DEF p, i
<1>9. RoundTrips(i, 4)
  BY <1>2, <1>7, <1>8, RoundTripOpOpWord
<1> QED BY <1>9 DEF i

LEMMA LdPairAbsolute ==
  ASSUME NEW r \in Pairs \ {"hl"}, NEW n \in Int
  PROVE  RoundTrips(Ins("ld", R16(r), Abs(n), 0), 4)
<1> DEFINE i == Ins("ld", R16(r), Abs(n), 0)
           op == 64 * 1 + 8 * (2 * register16Code[r] + 1) + 3
<1>1. /\ R16(r).kind = "reg16"
      /\ R16(r).reg = r
      /\ Abs(n).kind = "abs"
      /\ Abs(n).val = n
      /\ R8("a").kind = "reg8"
      /\ R8("a").reg = "a"
      /\ R16("de").kind = "reg16"
      /\ R16("de").reg = "de"
      /\ R16("hl").kind = "reg16"
      /\ R16("hl").reg = "hl"
      /\ R16("sp").kind = "reg16"
      /\ R16("sp").reg = "sp"
      /\ R16("af").kind = "reg16"
      /\ R16("af").reg = "af"
      /\ Indirect("hl").kind = "indirect"
      /\ Indirect("hl").reg = "hl"
  BY DEF Abs, Indirect, R16, R8, Operand
<1>2. /\ 237 \in Byte
      /\ op \in Byte
      /\ Row(op) = 2 * register16Code[r] + 1
      /\ Column(op) = 3
      /\ op >= 64 /\ op < 128 /\ op # 77
      /\ op = 75 + register16Code[r] * 16
      /\ r \notin Index
      /\ PairOf(op) = r
      /\ Row(op) % 2 = 1
      /\ r # "hl"
  BY PairCodes, OpcodeParts DEF Byte
<1> HIDE DEF op
<1>3. encodeZ80Instruction(i) = Encoding(4, <<Op(237), Op(op), A16(n)>>)
  <2>1. encodeZ80Instruction(i) = encodeLd(R16(r), Abs(n))
    BY EncodingOf
  <2>2. encodeLd(R16(r), Abs(n)) = Encoding(4, <<Op(237), Op(op), A16(n)>>)
    BY <1>1, <1>2 DEF encodeLd, OrElse, encodeByteLd, encodeWordLd, encodeAccumulatorIndirectLd, encodeHlIndirectLd, encodeIndexedLd, SupportedHalfLd, HalfCompatible, IsIndex, Unencodable, Encoding
  <2> QED BY <2>1, <2>2
<1>4. AsDecoded(i) = Ins("ld", R16(r), Abs(Wrapped(n)), 0)
  <2>1. i.mn = "ld" /\ i.dst = R16(r) /\ i.src = Abs(n)
    BY Fields
  <2>2. Narrowed(i, R16(r)) = R16(r)
    BY <1>1, <2>1, NarrowedOperands, NarrowedValues
  <2>3. Narrowed(i, Abs(n)) = Abs(Wrapped(n))
    BY <1>1, <2>1, NarrowedOperands, NarrowedValues
  <2>4. AsDecoded(i) = Ins("ld", Narrowed(i, R16(r)), Narrowed(i, Abs(n)), 0)
    BY DecodedIns
  <2> QED BY <2>2, <2>3, <2>4
<1>5. ASSUME NEW m, NEW a \in Int, At(m, a) = 237, At(m, a + 1) = op, WordAt(m, a + 2) = Wrapped(n) PROVE Decodes(i, 4, m, a)
  <2>1. decodeInstruction(m, a) = EdTable(m, a)
    BY <1>2, <1>5, DecodePrimary DEF Byte
  <2>2. EdTable(m, a) = Decoded(Ins("ld", R16(r), Abs(Wrapped(n)), 0), 4)
    BY <1>2, <1>5 DEF EdTable
  <2> QED BY <1>4, <2>1, <2>2 DEF Decodes
<1>6. \A m : \A a \in Int : (At(m, a) = 237 /\ At(m, a + 1) = op /\ WordAt(m, a + 2) = Wrapped(n)) => Decodes(i, 4, m, a)
  BY <1>5
<1> QED BY <1>2, <1>3, <1>6, RoundTripOpOpWord

LEMMA LdAbsolutePair ==
  ASSUME NEW r \in Pairs \ {"hl"}, NEW n \in Int
  PROVE  RoundTrips(Ins("ld", Abs(n), R16(r), 0), 4)
<1> DEFINE i == Ins("ld", Abs(n), R16(r), 0)
           op == 64 * 1 + 8 * (2 * register16Code[r] + 0) + 3
<1>1. /\ Abs(n).kind = "abs"
      /\ Abs(n).val = n
      /\ R16(r).kind = "reg16"
      /\ R16(r).reg = r
      /\ R8("a").kind = "reg8"
      /\ R8("a").reg = "a"
      /\ R16("de").kind = "reg16"
      /\ R16("de").reg = "de"
      /\ R16("hl").kind = "reg16"
      /\ R16("hl").reg = "hl"
      /\ R16("sp").kind = "reg16"
      /\ R16("sp").reg = "sp"
      /\ R16("af").kind = "reg16"
      /\ R16("af").reg = "af"
      /\ Indirect("hl").kind = "indirect"
      /\ Indirect("hl").reg = "hl"
  BY DEF Abs, Indirect, R16, R8, Operand
<1>2. /\ 237 \in Byte
      /\ op \in Byte
      /\ Row(op) = 2 * register16Code[r] + 0
      /\ Column(op) = 3
      /\ op >= 64 /\ op < 128 /\ op # 77
      /\ op = 67 + register16Code[r] * 16
      /\ r \notin Index
      /\ PairOf(op) = r
      /\ Row(op) % 2 = 0
      /\ r # "hl"
  BY PairCodes, OpcodeParts DEF Byte
<1> HIDE DEF op
<1>3. encodeZ80Instruction(i) = Encoding(4, <<Op(237), Op(op), A16(n)>>)
  <2>1. encodeZ80Instruction(i) = encodeLd(Abs(n), R16(r))
    BY EncodingOf
  <2>2. encodeLd(Abs(n), R16(r)) = Encoding(4, <<Op(237), Op(op), A16(n)>>)
    BY <1>1, <1>2 DEF encodeLd, OrElse, encodeByteLd, encodeWordLd, encodeAccumulatorIndirectLd, encodeHlIndirectLd, encodeIndexedLd, SupportedHalfLd, HalfCompatible, IsIndex, Unencodable, Encoding
  <2> QED BY <2>1, <2>2
<1>4. AsDecoded(i) = Ins("ld", Abs(Wrapped(n)), R16(r), 0)
  <2>1. i.mn = "ld" /\ i.dst = Abs(n) /\ i.src = R16(r)
    BY Fields
  <2>2. Narrowed(i, Abs(n)) = Abs(Wrapped(n))
    BY <1>1, <2>1, NarrowedOperands, NarrowedValues
  <2>3. Narrowed(i, R16(r)) = R16(r)
    BY <1>1, <2>1, NarrowedOperands, NarrowedValues
  <2>4. AsDecoded(i) = Ins("ld", Narrowed(i, Abs(n)), Narrowed(i, R16(r)), 0)
    BY DecodedIns
  <2> QED BY <2>2, <2>3, <2>4
<1>5. ASSUME NEW m, NEW a \in Int, At(m, a) = 237, At(m, a + 1) = op, WordAt(m, a + 2) = Wrapped(n) PROVE Decodes(i, 4, m, a)
  <2>1. decodeInstruction(m, a) = EdTable(m, a)
    BY <1>2, <1>5, DecodePrimary DEF Byte
  <2>2. EdTable(m, a) = Decoded(Ins("ld", Abs(Wrapped(n)), R16(r), 0), 4)
    BY <1>2, <1>5 DEF EdTable
  <2> QED BY <1>4, <2>1, <2>2 DEF Decodes
<1>6. \A m : \A a \in Int : (At(m, a) = 237 /\ At(m, a + 1) = op /\ WordAt(m, a + 2) = Wrapped(n)) => Decodes(i, 4, m, a)
  BY <1>5
<1> QED BY <1>2, <1>3, <1>6, RoundTripOpOpWord

LEMMA LdStackHl ==
  RoundTrips(Ins("ld", R16("sp"), R16("hl"), 0), 1)
<1> DEFINE i == Ins("ld", R16("sp"), R16("hl"), 0)
<1>1. /\ R16("sp").kind = "reg16"
      /\ R16("sp").reg = "sp"
      /\ R16("hl").kind = "reg16"
      /\ R16("hl").reg = "hl"
      /\ R8("a").kind = "reg8"
      /\ R8("a").reg = "a"
      /\ R16("de").kind = "reg16"
      /\ R16("de").reg = "de"
      /\ R16("af").kind = "reg16"
      /\ R16("af").reg = "af"
      /\ Indirect("hl").kind = "indirect"
      /\ Indirect("hl").reg = "hl"
  BY DEF Indirect, R16, R8, Operand
<1>2. /\ 249 \in Byte
  BY DEF Byte
<1>3. encodeZ80Instruction(i) = Encoding(1, <<Op(249)>>)
  <2>1. encodeZ80Instruction(i) = encodeLd(R16("sp"), R16("hl"))
    BY EncodingOf
  <2>2. encodeLd(R16("sp"), R16("hl")) = Encoding(1, <<Op(249)>>)
    BY <1>1, <1>2 DEF encodeLd, OrElse, encodeByteLd, encodeWordLd, encodeAccumulatorIndirectLd, encodeHlIndirectLd, encodeIndexedLd, SupportedHalfLd, HalfCompatible, IsIndex, Unencodable, Encoding
  <2> QED BY <2>1, <2>2
<1>4. AsDecoded(i) = Ins("ld", R16("sp"), R16("hl"), 0)
  <2>1. i.mn = "ld" /\ i.dst = R16("sp") /\ i.src = R16("hl")
    BY Fields
  <2>2. Narrowed(i, R16("sp")) = R16("sp")
    BY <1>1, <2>1, NarrowedOperands, NarrowedValues
  <2>3. Narrowed(i, R16("hl")) = R16("hl")
    BY <1>1, <2>1, NarrowedOperands, NarrowedValues
  <2>4. AsDecoded(i) = Ins("ld", Narrowed(i, R16("sp")), Narrowed(i, R16("hl")), 0)
    BY DecodedIns
  <2> QED BY <2>2, <2>3, <2>4
<1>5. ASSUME NEW m, NEW a \in Int, At(m, a) = 249 PROVE Decodes(i, 1, m, a)
  <2>1. decodeInstruction(m, a) = HighPrimary(m, a, 249)
    BY <1>2, <1>5, DecodePrimary DEF Byte
  <2>2. HighPrimary(m, a, 249) = Decoded(Ins("ld", R16("sp"), R16("hl"), 0), 1)
    BY <1>2, <1>5 DEF HighPrimary, Column
  <2> QED BY <1>4, <2>1, <2>2 DEF Decodes
<1>6. \A m : \A a \in Int : (At(m, a) = 249) => Decodes(i, 1, m, a)
  BY <1>5
<1> QED BY <1>2, <1>3, <1>6, RoundTripOp

LEMMA LdStackIndex ==
  ASSUME NEW x \in Index
  PROVE  RoundTrips(Ins("ld", R16("sp"), R16(x), 0), 2)
<1> DEFINE i == Ins("ld", R16("sp"), R16(x), 0)
<1>1. /\ R16("sp").kind = "reg16"
      /\ R16("sp").reg = "sp"
      /\ R16(x).kind = "reg16"
      /\ R16(x).reg = x
      /\ R8("a").kind = "reg8"
      /\ R8("a").reg = "a"
      /\ R16("de").kind = "reg16"
      /\ R16("de").reg = "de"
      /\ R16("hl").kind = "reg16"
      /\ R16("hl").reg = "hl"
      /\ R16("af").kind = "reg16"
      /\ R16("af").reg = "af"
      /\ Indirect("hl").kind = "indirect"
      /\ Indirect("hl").reg = "hl"
  BY DEF Indirect, R16, R8, Operand
<1>2. /\ 249 \in Byte
      /\ indexPrefix[x] \in Byte
      /\ x \notin {"bc", "de", "hl", "sp", "af"}
      /\ "sp" \notin Index
  BY IndexPrefixes DEF Byte, Index
<1>3. encodeZ80Instruction(i) = Encoding(2, <<Op(indexPrefix[x]), Op(249)>>)
  <2>1. encodeZ80Instruction(i) = encodeLd(R16("sp"), R16(x))
    BY EncodingOf
  <2>2. encodeLd(R16("sp"), R16(x)) = Encoding(2, <<Op(indexPrefix[x]), Op(249)>>)
    BY <1>1, <1>2 DEF encodeLd, OrElse, encodeByteLd, encodeWordLd, encodeAccumulatorIndirectLd, encodeHlIndirectLd, encodeIndexedLd, SupportedHalfLd, HalfCompatible, IsIndex, Unencodable, Encoding
  <2> QED BY <2>1, <2>2
<1>4. AsDecoded(i) = Ins("ld", R16("sp"), R16(x), 0)
  <2>1. i.mn = "ld" /\ i.dst = R16("sp") /\ i.src = R16(x)
    BY Fields
  <2>2. Narrowed(i, R16("sp")) = R16("sp")
    BY <1>1, <2>1, NarrowedOperands, NarrowedValues
  <2>3. Narrowed(i, R16(x)) = R16(x)
    BY <1>1, <2>1, NarrowedOperands, NarrowedValues
  <2>4. AsDecoded(i) = Ins("ld", Narrowed(i, R16("sp")), Narrowed(i, R16(x)), 0)
    BY DecodedIns
  <2> QED BY <2>2, <2>3, <2>4
<1>5. ASSUME NEW m, NEW a \in Int, At(m, a) = indexPrefix[x], At(m, a + 1) = 249 PROVE Decodes(i, 2, m, a)
  <2>1. decodeInstruction(m, a) = DdHigh(m, a, 249, x)
    BY <1>2, <1>5, DecodeIndex
  <2>2. DdHigh(m, a, 249, x) = Decoded(Ins("ld", R16("sp"), R16(x), 0), 2)
    BY <1>2, <1>5 DEF DdHigh
  <2> QED BY <1>4, <2>1, <2>2 DEF Decodes
<1>6. \A m : \A a \in Int : (At(m, a) = indexPrefix[x] /\ At(m, a + 1) = 249) => Decodes(i, 2, m, a)
  BY <1>5
<1> DEFINE p == indexPrefix[x]
<1>7. encodeZ80Instruction(i) = Encoding(2, <<Op(p), Op(249)>>) /\ p \in Byte
  BY <1>2, <1>3
<1>8. \A m : \A a \in Int : (At(m, a) = p /\ At(m, a + 1) = 249) => Decodes(i, 2, m, a)
  BY <1>6
<1> HIDE DEF p, i
<1>9. RoundTrips(i, 2)
  BY <1>2, <1>7, <1>8, RoundTripOpOp
<1> QED BY <1>9 DEF i

LEMMA LdIAccumulator ==
  RoundTrips(Ins("ld", Special("i"), R8("a"), 0), 2)
<1> DEFINE i == Ins("ld", Special("i"), R8("a"), 0)
<1>1. /\ Special("i").kind = "special8"
      /\ Special("i").reg = "i"
      /\ R8("a").kind = "reg8"
      /\ R8("a").reg = "a"
      /\ R16("de").kind = "reg16"
      /\ R16("de").reg = "de"
      /\ R16("hl").kind = "reg16"
      /\ R16("hl").reg = "hl"
      /\ R16("sp").kind = "reg16"
      /\ R16("sp").reg = "sp"
      /\ R16("af").kind = "reg16"
      /\ R16("af").reg = "af"
      /\ Indirect("hl").kind = "indirect"
      /\ Indirect("hl").reg = "hl"
  BY DEF Indirect, R16, R8, Special, Operand
<1>2. /\ 237 \in Byte
      /\ 71 \in Byte
  BY DEF Byte
<1>3. encodeZ80Instruction(i) = Encoding(2, <<Op(237), Op(71)>>)
  <2>1. encodeZ80Instruction(i) = encodeLd(Special("i"), R8("a"))
    BY EncodingOf
  <2>2. encodeLd(Special("i"), R8("a")) = Encoding(2, <<Op(237), Op(71)>>)
    BY <1>1, <1>2 DEF encodeLd, OrElse, encodeByteLd, encodeWordLd, encodeAccumulatorIndirectLd, encodeHlIndirectLd, encodeIndexedLd, SupportedHalfLd, HalfCompatible, IsIndex, Unencodable, Encoding, specialRegisterLd
  <2> QED BY <2>1, <2>2
<1>4. AsDecoded(i) = Ins("ld", Special("i"), R8("a"), 0)
  <2>1. i.mn = "ld" /\ i.dst = Special("i") /\ i.src = R8("a")
    BY Fields
  <2>2. Narrowed(i, Special("i")) = Special("i")
    BY <1>1, <2>1, NarrowedOperands, NarrowedValues
  <2>3. Narrowed(i, R8("a")) = R8("a")
    BY <1>1, <2>1, NarrowedOperands, NarrowedValues
  <2>4. AsDecoded(i) = Ins("ld", Narrowed(i, Special("i")), Narrowed(i, R8("a")), 0)
    BY DecodedIns
  <2> QED BY <2>2, <2>3, <2>4
<1>5. ASSUME NEW m, NEW a \in Int, At(m, a) = 237, At(m, a + 1) = 71 PROVE Decodes(i, 2, m, a)
  <2>1. decodeInstruction(m, a) = EdTable(m, a)
    BY <1>2, <1>5, DecodePrimary DEF Byte
  <2>2. EdTable(m, a) = Decoded(Ins("ld", Special("i"), R8("a"), 0), 2)
    BY <1>2, <1>5 DEF EdTable, Column, Row
  <2> QED BY <1>4, <2>1, <2>2 DEF Decodes
<1>6. \A m : \A a \in Int : (At(m, a) = 237 /\ At(m, a + 1) = 71) => Decodes(i, 2, m, a)
  BY <1>5
<1> QED BY <1>2, <1>3, <1>6, RoundTripOpOp

LEMMA LdAccumulatorI ==
  RoundTrips(Ins("ld", R8("a"), Special("i"), 0), 2)
<1> DEFINE i == Ins("ld", R8("a"), Special("i"), 0)
<1>1. /\ R8("a").kind = "reg8"
      /\ R8("a").reg = "a"
      /\ Special("i").kind = "special8"
      /\ Special("i").reg = "i"
      /\ R16("de").kind = "reg16"
      /\ R16("de").reg = "de"
      /\ R16("hl").kind = "reg16"
      /\ R16("hl").reg = "hl"
      /\ R16("sp").kind = "reg16"
      /\ R16("sp").reg = "sp"
      /\ R16("af").kind = "reg16"
      /\ R16("af").reg = "af"
      /\ Indirect("hl").kind = "indirect"
      /\ Indirect("hl").reg = "hl"
  BY DEF Indirect, R16, R8, Special, Operand
<1>2. /\ 237 \in Byte
      /\ 87 \in Byte
  BY DEF Byte
<1>3. encodeZ80Instruction(i) = Encoding(2, <<Op(237), Op(87)>>)
  <2>1. encodeZ80Instruction(i) = encodeLd(R8("a"), Special("i"))
    BY EncodingOf
  <2>2. encodeLd(R8("a"), Special("i")) = Encoding(2, <<Op(237), Op(87)>>)
    BY <1>1, <1>2 DEF encodeLd, OrElse, encodeByteLd, encodeWordLd, encodeAccumulatorIndirectLd, encodeHlIndirectLd, encodeIndexedLd, SupportedHalfLd, HalfCompatible, IsIndex, Unencodable, Encoding, specialRegisterLd
  <2> QED BY <2>1, <2>2
<1>4. AsDecoded(i) = Ins("ld", R8("a"), Special("i"), 0)
  <2>1. i.mn = "ld" /\ i.dst = R8("a") /\ i.src = Special("i")
    BY Fields
  <2>2. Narrowed(i, R8("a")) = R8("a")
    BY <1>1, <2>1, NarrowedOperands, NarrowedValues
  <2>3. Narrowed(i, Special("i")) = Special("i")
    BY <1>1, <2>1, NarrowedOperands, NarrowedValues
  <2>4. AsDecoded(i) = Ins("ld", Narrowed(i, R8("a")), Narrowed(i, Special("i")), 0)
    BY DecodedIns
  <2> QED BY <2>2, <2>3, <2>4
<1>5. ASSUME NEW m, NEW a \in Int, At(m, a) = 237, At(m, a + 1) = 87 PROVE Decodes(i, 2, m, a)
  <2>1. decodeInstruction(m, a) = EdTable(m, a)
    BY <1>2, <1>5, DecodePrimary DEF Byte
  <2>2. EdTable(m, a) = Decoded(Ins("ld", R8("a"), Special("i"), 0), 2)
    BY <1>2, <1>5 DEF EdTable, Column, Row
  <2> QED BY <1>4, <2>1, <2>2 DEF Decodes
<1>6. \A m : \A a \in Int : (At(m, a) = 237 /\ At(m, a + 1) = 87) => Decodes(i, 2, m, a)
  BY <1>5
<1> QED BY <1>2, <1>3, <1>6, RoundTripOpOp

LEMMA LdRAccumulator ==
  RoundTrips(Ins("ld", Special("r"), R8("a"), 0), 2)
<1> DEFINE i == Ins("ld", Special("r"), R8("a"), 0)
<1>1. /\ Special("r").kind = "special8"
      /\ Special("r").reg = "r"
      /\ R8("a").kind = "reg8"
      /\ R8("a").reg = "a"
      /\ R16("de").kind = "reg16"
      /\ R16("de").reg = "de"
      /\ R16("hl").kind = "reg16"
      /\ R16("hl").reg = "hl"
      /\ R16("sp").kind = "reg16"
      /\ R16("sp").reg = "sp"
      /\ R16("af").kind = "reg16"
      /\ R16("af").reg = "af"
      /\ Indirect("hl").kind = "indirect"
      /\ Indirect("hl").reg = "hl"
  BY DEF Indirect, R16, R8, Special, Operand
<1>2. /\ 237 \in Byte
      /\ 79 \in Byte
  BY DEF Byte
<1>3. encodeZ80Instruction(i) = Encoding(2, <<Op(237), Op(79)>>)
  <2>1. encodeZ80Instruction(i) = encodeLd(Special("r"), R8("a"))
    BY EncodingOf
  <2>2. encodeLd(Special("r"), R8("a")) = Encoding(2, <<Op(237), Op(79)>>)
    BY <1>1, <1>2 DEF encodeLd, OrElse, encodeByteLd, encodeWordLd, encodeAccumulatorIndirectLd, encodeHlIndirectLd, encodeIndexedLd, SupportedHalfLd, HalfCompatible, IsIndex, Unencodable, Encoding, specialRegisterLd
  <2> QED BY <2>1, <2>2
<1>4. AsDecoded(i) = Ins("ld", Special("r"), R8("a"), 0)
  <2>1. i.mn = "ld" /\ i.dst = Special("r") /\ i.src = R8("a")
    BY Fields
  <2>2. Narrowed(i, Special("r")) = Special("r")
    BY <1>1, <2>1, NarrowedOperands, NarrowedValues
  <2>3. Narrowed(i, R8("a")) = R8("a")
    BY <1>1, <2>1, NarrowedOperands, NarrowedValues
  <2>4. AsDecoded(i) = Ins("ld", Narrowed(i, Special("r")), Narrowed(i, R8("a")), 0)
    BY DecodedIns
  <2> QED BY <2>2, <2>3, <2>4
<1>5. ASSUME NEW m, NEW a \in Int, At(m, a) = 237, At(m, a + 1) = 79 PROVE Decodes(i, 2, m, a)
  <2>1. decodeInstruction(m, a) = EdTable(m, a)
    BY <1>2, <1>5, DecodePrimary DEF Byte
  <2>2. EdTable(m, a) = Decoded(Ins("ld", Special("r"), R8("a"), 0), 2)
    BY <1>2, <1>5 DEF EdTable, Column, Row
  <2> QED BY <1>4, <2>1, <2>2 DEF Decodes
<1>6. \A m : \A a \in Int : (At(m, a) = 237 /\ At(m, a + 1) = 79) => Decodes(i, 2, m, a)
  BY <1>5
<1> QED BY <1>2, <1>3, <1>6, RoundTripOpOp

LEMMA LdAccumulatorR ==
  RoundTrips(Ins("ld", R8("a"), Special("r"), 0), 2)
<1> DEFINE i == Ins("ld", R8("a"), Special("r"), 0)
<1>1. /\ R8("a").kind = "reg8"
      /\ R8("a").reg = "a"
      /\ Special("r").kind = "special8"
      /\ Special("r").reg = "r"
      /\ R16("de").kind = "reg16"
      /\ R16("de").reg = "de"
      /\ R16("hl").kind = "reg16"
      /\ R16("hl").reg = "hl"
      /\ R16("sp").kind = "reg16"
      /\ R16("sp").reg = "sp"
      /\ R16("af").kind = "reg16"
      /\ R16("af").reg = "af"
      /\ Indirect("hl").kind = "indirect"
      /\ Indirect("hl").reg = "hl"
  BY DEF Indirect, R16, R8, Special, Operand
<1>2. /\ 237 \in Byte
      /\ 95 \in Byte
  BY DEF Byte
<1>3. encodeZ80Instruction(i) = Encoding(2, <<Op(237), Op(95)>>)
  <2>1. encodeZ80Instruction(i) = encodeLd(R8("a"), Special("r"))
    BY EncodingOf
  <2>2. encodeLd(R8("a"), Special("r")) = Encoding(2, <<Op(237), Op(95)>>)
    BY <1>1, <1>2 DEF encodeLd, OrElse, encodeByteLd, encodeWordLd, encodeAccumulatorIndirectLd, encodeHlIndirectLd, encodeIndexedLd, SupportedHalfLd, HalfCompatible, IsIndex, Unencodable, Encoding, specialRegisterLd
  <2> QED BY <2>1, <2>2
<1>4. AsDecoded(i) = Ins("ld", R8("a"), Special("r"), 0)
  <2>1. i.mn = "ld" /\ i.dst = R8("a") /\ i.src = Special("r")
    BY Fields
  <2>2. Narrowed(i, R8("a")) = R8("a")
    BY <1>1, <2>1, NarrowedOperands, NarrowedValues
  <2>3. Narrowed(i, Special("r")) = Special("r")
    BY <1>1, <2>1, NarrowedOperands, NarrowedValues
  <2>4. AsDecoded(i) = Ins("ld", Narrowed(i, R8("a")), Narrowed(i, Special("r")), 0)
    BY DecodedIns
  <2> QED BY <2>2, <2>3, <2>4
<1>5. ASSUME NEW m, NEW a \in Int, At(m, a) = 237, At(m, a + 1) = 95 PROVE Decodes(i, 2, m, a)
  <2>1. decodeInstruction(m, a) = EdTable(m, a)
    BY <1>2, <1>5, DecodePrimary DEF Byte
  <2>2. EdTable(m, a) = Decoded(Ins("ld", R8("a"), Special("r"), 0), 2)
    BY <1>2, <1>5 DEF EdTable, Column, Row
  <2> QED BY <1>4, <2>1, <2>2 DEF Decodes
<1>6. \A m : \A a \in Int : (At(m, a) = 237 /\ At(m, a + 1) = 95) => Decodes(i, 2, m, a)
  BY <1>5
<1> QED BY <1>2, <1>3, <1>6, RoundTripOpOp

LEMMA LdAccumulatorFromBc ==
  RoundTrips(Ins("ld", R8("a"), Indirect("bc"), 0), 1)
<1> DEFINE i == Ins("ld", R8("a"), Indirect("bc"), 0)
<1>1. /\ R8("a").kind = "reg8"
      /\ R8("a").reg = "a"
      /\ Indirect("bc").kind = "indirect"
      /\ Indirect("bc").reg = "bc"
      /\ R16("de").kind = "reg16"
      /\ R16("de").reg = "de"
      /\ R16("hl").kind = "reg16"
      /\ R16("hl").reg = "hl"
      /\ R16("sp").kind = "reg16"
      /\ R16("sp").reg = "sp"
      /\ R16("af").kind = "reg16"
      /\ R16("af").reg = "af"
      /\ Indirect("hl").kind = "indirect"
      /\ Indirect("hl").reg = "hl"
  BY DEF Indirect, R16, R8, Operand
<1>2. /\ 10 \in Byte
      /\ PairOf(10) = "bc"
      /\ R16("bc").reg = "bc"
  BY DEF Byte, PairOf, PairOrder, R16, Operand
<1>3. encodeZ80Instruction(i) = Encoding(1, <<Op(10)>>)
  <2>1. encodeZ80Instruction(i) = encodeLd(R8("a"), Indirect("bc"))
    BY EncodingOf
  <2>2. encodeLd(R8("a"), Indirect("bc")) = Encoding(1, <<Op(10)>>)
    BY <1>1, <1>2 DEF encodeLd, OrElse, encodeByteLd, encodeWordLd, encodeAccumulatorIndirectLd, encodeHlIndirectLd, encodeIndexedLd, SupportedHalfLd, HalfCompatible, IsIndex, Unencodable, Encoding, loadAFromIndirectOpcode, storeAToIndirectOpcode
  <2> QED BY <2>1, <2>2
<1>4. AsDecoded(i) = Ins("ld", R8("a"), Indirect("bc"), 0)
  <2>1. i.mn = "ld" /\ i.dst = R8("a") /\ i.src = Indirect("bc")
    BY Fields
  <2>2. Narrowed(i, R8("a")) = R8("a")
    BY <1>1, <2>1, NarrowedOperands, NarrowedValues
  <2>3. Narrowed(i, Indirect("bc")) = Indirect("bc")
    BY <1>1, <2>1, NarrowedOperands, NarrowedValues
  <2>4. AsDecoded(i) = Ins("ld", Narrowed(i, R8("a")), Narrowed(i, Indirect("bc")), 0)
    BY DecodedIns
  <2> QED BY <2>2, <2>3, <2>4
<1>5. ASSUME NEW m, NEW a \in Int, At(m, a) = 10 PROVE Decodes(i, 1, m, a)
  <2>1. decodeInstruction(m, a) = LowPrimary(m, a, 10)
    BY <1>2, <1>5, DecodePrimary DEF Byte
  <2>2. LowPrimary(m, a, 10) = Decoded(Ins("ld", R8("a"), Indirect("bc"), 0), 1)
    BY <1>2, <1>5 DEF LowPrimary, Column
  <2> QED BY <1>4, <2>1, <2>2 DEF Decodes
<1>6. \A m : \A a \in Int : (At(m, a) = 10) => Decodes(i, 1, m, a)
  BY <1>5
<1> QED BY <1>2, <1>3, <1>6, RoundTripOp

LEMMA LdToBc ==
  RoundTrips(Ins("ld", Indirect("bc"), R8("a"), 0), 1)
<1> DEFINE i == Ins("ld", Indirect("bc"), R8("a"), 0)
<1>1. /\ Indirect("bc").kind = "indirect"
      /\ Indirect("bc").reg = "bc"
      /\ R8("a").kind = "reg8"
      /\ R8("a").reg = "a"
      /\ R16("de").kind = "reg16"
      /\ R16("de").reg = "de"
      /\ R16("hl").kind = "reg16"
      /\ R16("hl").reg = "hl"
      /\ R16("sp").kind = "reg16"
      /\ R16("sp").reg = "sp"
      /\ R16("af").kind = "reg16"
      /\ R16("af").reg = "af"
      /\ Indirect("hl").kind = "indirect"
      /\ Indirect("hl").reg = "hl"
  BY DEF Indirect, R16, R8, Operand
<1>2. /\ 2 \in Byte
      /\ PairOf(2) = "bc"
      /\ R16("bc").reg = "bc"
  BY DEF Byte, PairOf, PairOrder, R16, Operand
<1>3. encodeZ80Instruction(i) = Encoding(1, <<Op(2)>>)
  <2>1. encodeZ80Instruction(i) = encodeLd(Indirect("bc"), R8("a"))
    BY EncodingOf
  <2>2. encodeLd(Indirect("bc"), R8("a")) = Encoding(1, <<Op(2)>>)
    BY <1>1, <1>2 DEF encodeLd, OrElse, encodeByteLd, encodeWordLd, encodeAccumulatorIndirectLd, encodeHlIndirectLd, encodeIndexedLd, SupportedHalfLd, HalfCompatible, IsIndex, Unencodable, Encoding, loadAFromIndirectOpcode, storeAToIndirectOpcode
  <2> QED BY <2>1, <2>2
<1>4. AsDecoded(i) = Ins("ld", Indirect("bc"), R8("a"), 0)
  <2>1. i.mn = "ld" /\ i.dst = Indirect("bc") /\ i.src = R8("a")
    BY Fields
  <2>2. Narrowed(i, Indirect("bc")) = Indirect("bc")
    BY <1>1, <2>1, NarrowedOperands, NarrowedValues
  <2>3. Narrowed(i, R8("a")) = R8("a")
    BY <1>1, <2>1, NarrowedOperands, NarrowedValues
  <2>4. AsDecoded(i) = Ins("ld", Narrowed(i, Indirect("bc")), Narrowed(i, R8("a")), 0)
    BY DecodedIns
  <2> QED BY <2>2, <2>3, <2>4
<1>5. ASSUME NEW m, NEW a \in Int, At(m, a) = 2 PROVE Decodes(i, 1, m, a)
  <2>1. decodeInstruction(m, a) = LowPrimary(m, a, 2)
    BY <1>2, <1>5, DecodePrimary DEF Byte
  <2>2. LowPrimary(m, a, 2) = Decoded(Ins("ld", Indirect("bc"), R8("a"), 0), 1)
    BY <1>2, <1>5 DEF LowPrimary, Column
  <2> QED BY <1>4, <2>1, <2>2 DEF Decodes
<1>6. \A m : \A a \in Int : (At(m, a) = 2) => Decodes(i, 1, m, a)
  BY <1>5
<1> QED BY <1>2, <1>3, <1>6, RoundTripOp

LEMMA LdAccumulatorFromDe ==
  RoundTrips(Ins("ld", R8("a"), Indirect("de"), 0), 1)
<1> DEFINE i == Ins("ld", R8("a"), Indirect("de"), 0)
<1>1. /\ R8("a").kind = "reg8"
      /\ R8("a").reg = "a"
      /\ Indirect("de").kind = "indirect"
      /\ Indirect("de").reg = "de"
      /\ R16("de").kind = "reg16"
      /\ R16("de").reg = "de"
      /\ R16("hl").kind = "reg16"
      /\ R16("hl").reg = "hl"
      /\ R16("sp").kind = "reg16"
      /\ R16("sp").reg = "sp"
      /\ R16("af").kind = "reg16"
      /\ R16("af").reg = "af"
      /\ Indirect("hl").kind = "indirect"
      /\ Indirect("hl").reg = "hl"
  BY DEF Indirect, R16, R8, Operand
<1>2. /\ 26 \in Byte
      /\ PairOf(26) = "de"
      /\ R16("de").reg = "de"
  BY DEF Byte, PairOf, PairOrder, R16, Operand
<1>3. encodeZ80Instruction(i) = Encoding(1, <<Op(26)>>)
  <2>1. encodeZ80Instruction(i) = encodeLd(R8("a"), Indirect("de"))
    BY EncodingOf
  <2>2. encodeLd(R8("a"), Indirect("de")) = Encoding(1, <<Op(26)>>)
    BY <1>1, <1>2 DEF encodeLd, OrElse, encodeByteLd, encodeWordLd, encodeAccumulatorIndirectLd, encodeHlIndirectLd, encodeIndexedLd, SupportedHalfLd, HalfCompatible, IsIndex, Unencodable, Encoding, loadAFromIndirectOpcode, storeAToIndirectOpcode
  <2> QED BY <2>1, <2>2
<1>4. AsDecoded(i) = Ins("ld", R8("a"), Indirect("de"), 0)
  <2>1. i.mn = "ld" /\ i.dst = R8("a") /\ i.src = Indirect("de")
    BY Fields
  <2>2. Narrowed(i, R8("a")) = R8("a")
    BY <1>1, <2>1, NarrowedOperands, NarrowedValues
  <2>3. Narrowed(i, Indirect("de")) = Indirect("de")
    BY <1>1, <2>1, NarrowedOperands, NarrowedValues
  <2>4. AsDecoded(i) = Ins("ld", Narrowed(i, R8("a")), Narrowed(i, Indirect("de")), 0)
    BY DecodedIns
  <2> QED BY <2>2, <2>3, <2>4
<1>5. ASSUME NEW m, NEW a \in Int, At(m, a) = 26 PROVE Decodes(i, 1, m, a)
  <2>1. decodeInstruction(m, a) = LowPrimary(m, a, 26)
    BY <1>2, <1>5, DecodePrimary DEF Byte
  <2>2. LowPrimary(m, a, 26) = Decoded(Ins("ld", R8("a"), Indirect("de"), 0), 1)
    BY <1>2, <1>5 DEF LowPrimary, Column
  <2> QED BY <1>4, <2>1, <2>2 DEF Decodes
<1>6. \A m : \A a \in Int : (At(m, a) = 26) => Decodes(i, 1, m, a)
  BY <1>5
<1> QED BY <1>2, <1>3, <1>6, RoundTripOp

LEMMA LdToDe ==
  RoundTrips(Ins("ld", Indirect("de"), R8("a"), 0), 1)
<1> DEFINE i == Ins("ld", Indirect("de"), R8("a"), 0)
<1>1. /\ Indirect("de").kind = "indirect"
      /\ Indirect("de").reg = "de"
      /\ R8("a").kind = "reg8"
      /\ R8("a").reg = "a"
      /\ R16("de").kind = "reg16"
      /\ R16("de").reg = "de"
      /\ R16("hl").kind = "reg16"
      /\ R16("hl").reg = "hl"
      /\ R16("sp").kind = "reg16"
      /\ R16("sp").reg = "sp"
      /\ R16("af").kind = "reg16"
      /\ R16("af").reg = "af"
      /\ Indirect("hl").kind = "indirect"
      /\ Indirect("hl").reg = "hl"
  BY DEF Indirect, R16, R8, Operand
<1>2. /\ 18 \in Byte
      /\ PairOf(18) = "de"
      /\ R16("de").reg = "de"
  BY DEF Byte, PairOf, PairOrder, R16, Operand
<1>3. encodeZ80Instruction(i) = Encoding(1, <<Op(18)>>)
  <2>1. encodeZ80Instruction(i) = encodeLd(Indirect("de"), R8("a"))
    BY EncodingOf
  <2>2. encodeLd(Indirect("de"), R8("a")) = Encoding(1, <<Op(18)>>)
    BY <1>1, <1>2 DEF encodeLd, OrElse, encodeByteLd, encodeWordLd, encodeAccumulatorIndirectLd, encodeHlIndirectLd, encodeIndexedLd, SupportedHalfLd, HalfCompatible, IsIndex, Unencodable, Encoding, loadAFromIndirectOpcode, storeAToIndirectOpcode
  <2> QED BY <2>1, <2>2
<1>4. AsDecoded(i) = Ins("ld", Indirect("de"), R8("a"), 0)
  <2>1. i.mn = "ld" /\ i.dst = Indirect("de") /\ i.src = R8("a")
    BY Fields
  <2>2. Narrowed(i, Indirect("de")) = Indirect("de")
    BY <1>1, <2>1, NarrowedOperands, NarrowedValues
  <2>3. Narrowed(i, R8("a")) = R8("a")
    BY <1>1, <2>1, NarrowedOperands, NarrowedValues
  <2>4. AsDecoded(i) = Ins("ld", Narrowed(i, Indirect("de")), Narrowed(i, R8("a")), 0)
    BY DecodedIns
  <2> QED BY <2>2, <2>3, <2>4
<1>5. ASSUME NEW m, NEW a \in Int, At(m, a) = 18 PROVE Decodes(i, 1, m, a)
  <2>1. decodeInstruction(m, a) = LowPrimary(m, a, 18)
    BY <1>2, <1>5, DecodePrimary DEF Byte
  <2>2. LowPrimary(m, a, 18) = Decoded(Ins("ld", Indirect("de"), R8("a"), 0), 1)
    BY <1>2, <1>5 DEF LowPrimary, Column
  <2> QED BY <1>4, <2>1, <2>2 DEF Decodes
<1>6. \A m : \A a \in Int : (At(m, a) = 18) => Decodes(i, 1, m, a)
  BY <1>5
<1> QED BY <1>2, <1>3, <1>6, RoundTripOp

LEMMA LdAccumulatorFromHl ==
  RoundTrips(Ins("ld", R8("a"), Indirect("hl"), 0), 1)
<1> DEFINE i == Ins("ld", R8("a"), Indirect("hl"), 0)
<1>1. /\ R8("a").kind = "reg8"
      /\ R8("a").reg = "a"
      /\ Indirect("hl").kind = "indirect"
      /\ Indirect("hl").reg = "hl"
      /\ R16("de").kind = "reg16"
      /\ R16("de").reg = "de"
      /\ R16("hl").kind = "reg16"
      /\ R16("hl").reg = "hl"
      /\ R16("sp").kind = "reg16"
      /\ R16("sp").reg = "sp"
      /\ R16("af").kind = "reg16"
      /\ R16("af").reg = "af"
  BY DEF Indirect, R16, R8, Operand
<1>2. /\ 126 \in Byte
  BY DEF Byte
<1>3. encodeZ80Instruction(i) = Encoding(1, <<Op(126)>>)
  <2>1. encodeZ80Instruction(i) = encodeLd(R8("a"), Indirect("hl"))
    BY EncodingOf
  <2>2. encodeLd(R8("a"), Indirect("hl")) = Encoding(1, <<Op(126)>>)
    BY <1>1, <1>2 DEF encodeLd, OrElse, encodeByteLd, encodeWordLd, encodeAccumulatorIndirectLd, encodeHlIndirectLd, encodeIndexedLd, SupportedHalfLd, HalfCompatible, IsIndex, Unencodable, Encoding, loadAFromIndirectOpcode, storeAToIndirectOpcode
  <2> QED BY <2>1, <2>2
<1>4. AsDecoded(i) = Ins("ld", R8("a"), Indirect("hl"), 0)
  <2>1. i.mn = "ld" /\ i.dst = R8("a") /\ i.src = Indirect("hl")
    BY Fields
  <2>2. Narrowed(i, R8("a")) = R8("a")
    BY <1>1, <2>1, NarrowedOperands, NarrowedValues
  <2>3. Narrowed(i, Indirect("hl")) = Indirect("hl")
    BY <1>1, <2>1, NarrowedOperands, NarrowedValues
  <2>4. AsDecoded(i) = Ins("ld", Narrowed(i, R8("a")), Narrowed(i, Indirect("hl")), 0)
    BY DecodedIns
  <2> QED BY <2>2, <2>3, <2>4
<1>5. ASSUME NEW m, NEW a \in Int, At(m, a) = 126 PROVE Decodes(i, 1, m, a)
  <2>1. decodeInstruction(m, a) = MatrixPrimary(126)
    BY <1>2, <1>5, DecodePrimary DEF Byte
  <2>2. MatrixPrimary(126) = Decoded(Ins("ld", R8("a"), Indirect("hl"), 0), 1)
    BY <1>2, <1>5 DEF MatrixPrimary, Column, Row, RegisterOrder, ByteOperand
  <2> QED BY <1>4, <2>1, <2>2 DEF Decodes
<1>6. \A m : \A a \in Int : (At(m, a) = 126) => Decodes(i, 1, m, a)
  BY <1>5
<1> QED BY <1>2, <1>3, <1>6, RoundTripOp

LEMMA LdToHl ==
  RoundTrips(Ins("ld", Indirect("hl"), R8("a"), 0), 1)
<1> DEFINE i == Ins("ld", Indirect("hl"), R8("a"), 0)
<1>1. /\ Indirect("hl").kind = "indirect"
      /\ Indirect("hl").reg = "hl"
      /\ R8("a").kind = "reg8"
      /\ R8("a").reg = "a"
      /\ R16("de").kind = "reg16"
      /\ R16("de").reg = "de"
      /\ R16("hl").kind = "reg16"
      /\ R16("hl").reg = "hl"
      /\ R16("sp").kind = "reg16"
      /\ R16("sp").reg = "sp"
      /\ R16("af").kind = "reg16"
      /\ R16("af").reg = "af"
  BY DEF Indirect, R16, R8, Operand
<1>2. /\ 119 \in Byte
  BY DEF Byte
<1>3. encodeZ80Instruction(i) = Encoding(1, <<Op(119)>>)
  <2>1. encodeZ80Instruction(i) = encodeLd(Indirect("hl"), R8("a"))
    BY EncodingOf
  <2>2. encodeLd(Indirect("hl"), R8("a")) = Encoding(1, <<Op(119)>>)
    BY <1>1, <1>2 DEF encodeLd, OrElse, encodeByteLd, encodeWordLd, encodeAccumulatorIndirectLd, encodeHlIndirectLd, encodeIndexedLd, SupportedHalfLd, HalfCompatible, IsIndex, Unencodable, Encoding, loadAFromIndirectOpcode, storeAToIndirectOpcode
  <2> QED BY <2>1, <2>2
<1>4. AsDecoded(i) = Ins("ld", Indirect("hl"), R8("a"), 0)
  <2>1. i.mn = "ld" /\ i.dst = Indirect("hl") /\ i.src = R8("a")
    BY Fields
  <2>2. Narrowed(i, Indirect("hl")) = Indirect("hl")
    BY <1>1, <2>1, NarrowedOperands, NarrowedValues
  <2>3. Narrowed(i, R8("a")) = R8("a")
    BY <1>1, <2>1, NarrowedOperands, NarrowedValues
  <2>4. AsDecoded(i) = Ins("ld", Narrowed(i, Indirect("hl")), Narrowed(i, R8("a")), 0)
    BY DecodedIns
  <2> QED BY <2>2, <2>3, <2>4
<1>5. ASSUME NEW m, NEW a \in Int, At(m, a) = 119 PROVE Decodes(i, 1, m, a)
  <2>1. decodeInstruction(m, a) = MatrixPrimary(119)
    BY <1>2, <1>5, DecodePrimary DEF Byte
  <2>2. MatrixPrimary(119) = Decoded(Ins("ld", Indirect("hl"), R8("a"), 0), 1)
    BY <1>2, <1>5 DEF MatrixPrimary, Column, Row, RegisterOrder, ByteOperand
  <2> QED BY <1>4, <2>1, <2>2 DEF Decodes
<1>6. \A m : \A a \in Int : (At(m, a) = 119) => Decodes(i, 1, m, a)
  BY <1>5
<1> QED BY <1>2, <1>3, <1>6, RoundTripOp

PushCode(r) == 197 + [bc |-> 0, de |-> 16, hl |-> 32, af |-> 48][r]
LEMMA PushCodes ==
  ASSUME NEW r \in {"bc", "de", "hl", "af"}
  PROVE  /\ PushCode(r) \in Byte /\ Column(PushCode(r)) = 5 /\ PushCode(r) >= 192 /\ r \notin Index
         /\ PushCode(r) \notin {195, 201, 203, 205, 211, 217, 219, 221, 227, 233, 235, 237, 243, 249, 251, 253}
         /\ <<"bc", "de", "hl", "af">>[((PushCode(r) \div 16) % 4) + 1] = r
<1>1. CASE r = "bc"
  <2>1. PushCode(r) = 197
    BY <1>1 DEF PushCode
  <2> QED BY <1>1, <2>1 DEF Byte, Column, Index
<1>2. CASE r = "de"
  <2>1. PushCode(r) = 213
    BY <1>2 DEF PushCode
  <2> QED BY <1>2, <2>1 DEF Byte, Column, Index
<1>3. CASE r = "hl"
  <2>1. PushCode(r) = 229
    BY <1>3 DEF PushCode
  <2> QED BY <1>3, <2>1 DEF Byte, Column, Index
<1>4. CASE r = "af"
  <2>1. PushCode(r) = 245
    BY <1>4 DEF PushCode
  <2> QED BY <1>4, <2>1 DEF Byte, Column, Index
<1> QED BY <1>1, <1>2, <1>3, <1>4

PopCode(r) == 193 + [bc |-> 0, de |-> 16, hl |-> 32, af |-> 48][r]
LEMMA PopCodes ==
  ASSUME NEW r \in {"bc", "de", "hl", "af"}
  PROVE  /\ PopCode(r) \in Byte /\ Column(PopCode(r)) = 1 /\ PopCode(r) >= 192 /\ r \notin Index
         /\ PopCode(r) \notin {195, 201, 203, 205, 211, 217, 219, 221, 227, 233, 235, 237, 243, 249, 251, 253}
         /\ <<"bc", "de", "hl", "af">>[((PopCode(r) \div 16) % 4) + 1] = r
<1>1. CASE r = "bc"
  <2>1. PopCode(r) = 193
    BY <1>1 DEF PopCode
  <2> QED BY <1>1, <2>1 DEF Byte, Column, Index
<1>2. CASE r = "de"
  <2>1. PopCode(r) = 209
    BY <1>2 DEF PopCode
  <2> QED BY <1>2, <2>1 DEF Byte, Column, Index
<1>3. CASE r = "hl"
  <2>1. PopCode(r) = 225
    BY <1>3 DEF PopCode
  <2> QED BY <1>3, <2>1 DEF Byte, Column, Index
<1>4. CASE r = "af"
  <2>1. PopCode(r) = 241
    BY <1>4 DEF PopCode
  <2> QED BY <1>4, <2>1 DEF Byte, Column, Index
<1> QED BY <1>1, <1>2, <1>3, <1>4

LEMMA Distinct ==
  \A r : \A n : R8(r) # None /\ Indexed(r, n) # None /\ Imm(n) # None
  BY DEF R8, Indexed, Imm, None, Operand

LEMMA PushPair ==
  ASSUME NEW r \in {"bc", "de", "hl", "af"}
  PROVE  RoundTrips(Ins("push", R16(r), None, 0), 1)
<1> DEFINE i == Ins("push", R16(r), None, 0)
<1>1. /\ R16(r).kind = "reg16"
      /\ R16(r).reg = r
      /\ None.kind = "none"
  BY DEF None, R16, Operand
<1>2. /\ PushCode(r) \in Byte
      /\ Column(PushCode(r)) = 5
      /\ PushCode(r) >= 192
      /\ PushCode(r) \notin {195, 201, 203, 205, 211, 217, 219, 221, 227, 233, 235, 237, 243, 249, 251, 253}
      /\ r \notin Index
      /\ <<"bc", "de", "hl", "af">>[((PushCode(r) \div 16) % 4) + 1] = r
  BY PushCodes
<1>3. encodeZ80Instruction(i) = Encoding(1, <<Op(PushCode(r))>>)
  <2>1. encodeZ80Instruction(i) = encodeStack("push", R16(r).reg)
    BY EncodingOf
  <2>2. encodeStack("push", R16(r).reg) = Encoding(1, <<Op(PushCode(r))>>)
    BY <1>1, <1>2 DEF encodeStack, PushCode
  <2> QED BY <2>1, <2>2
<1>4. AsDecoded(i) = Ins("push", R16(r), None, 0)
  <2>1. i.mn = "push" /\ i.dst = R16(r) /\ i.src = None
    BY Fields
  <2>2. Narrowed(i, R16(r)) = R16(r)
    BY <1>1, <2>1, NarrowedOperands, NarrowedValues
  <2>3. Narrowed(i, None) = None
    BY <1>1, <2>1, NarrowedOperands, NarrowedValues
  <2>4. AsDecoded(i) = Ins("push", Narrowed(i, R16(r)), Narrowed(i, None), 0)
    BY DecodedIns
  <2> QED BY <2>2, <2>3, <2>4
<1>5. ASSUME NEW m, NEW a \in Int, At(m, a) = PushCode(r) PROVE Decodes(i, 1, m, a)
  <2>1. decodeInstruction(m, a) = HighPrimary(m, a, PushCode(r))
    BY <1>2, <1>5, DecodePrimary DEF Byte
  <2>2. HighPrimary(m, a, PushCode(r)) = Decoded(Ins("push", R16(r), None, 0), 1)
    BY <1>2, <1>5 DEF HighPrimary
  <2> QED BY <1>4, <2>1, <2>2 DEF Decodes
<1>6. \A m : \A a \in Int : (At(m, a) = PushCode(r)) => Decodes(i, 1, m, a)
  BY <1>5
<1> QED BY <1>2, <1>3, <1>6, RoundTripOp

LEMMA PushIndex ==
  ASSUME NEW x \in Index
  PROVE  RoundTrips(Ins("push", R16(x), None, 0), 2)
<1> DEFINE i == Ins("push", R16(x), None, 0)
<1>1. /\ R16(x).kind = "reg16"
      /\ R16(x).reg = x
      /\ None.kind = "none"
  BY DEF None, R16, Operand
<1>2. /\ indexPrefix[x] \in Byte
      /\ x \notin {"bc", "de", "hl", "sp", "af"}
      /\ 229 \in Byte
  BY IndexPrefixes DEF Byte
<1>3. encodeZ80Instruction(i) = Encoding(2, <<Op(indexPrefix[x]), Op(229)>>)
  <2>1. encodeZ80Instruction(i) = encodeStack("push", R16(x).reg)
    BY EncodingOf
  <2>2. encodeStack("push", R16(x).reg) = Encoding(2, <<Op(indexPrefix[x]), Op(229)>>)
    BY <1>1, <1>2 DEF encodeStack
  <2> QED BY <2>1, <2>2
<1>4. AsDecoded(i) = Ins("push", R16(x), None, 0)
  <2>1. i.mn = "push" /\ i.dst = R16(x) /\ i.src = None
    BY Fields
  <2>2. Narrowed(i, R16(x)) = R16(x)
    BY <1>1, <2>1, NarrowedOperands, NarrowedValues
  <2>3. Narrowed(i, None) = None
    BY <1>1, <2>1, NarrowedOperands, NarrowedValues
  <2>4. AsDecoded(i) = Ins("push", Narrowed(i, R16(x)), Narrowed(i, None), 0)
    BY DecodedIns
  <2> QED BY <2>2, <2>3, <2>4
<1>5. ASSUME NEW m, NEW a \in Int, At(m, a) = indexPrefix[x], At(m, a + 1) = 229 PROVE Decodes(i, 2, m, a)
  <2>1. decodeInstruction(m, a) = DdHigh(m, a, 229, x)
    BY <1>2, <1>5, DecodeIndex
  <2>2. DdHigh(m, a, 229, x) = Decoded(Ins("push", R16(x), None, 0), 2)
    BY <1>2, <1>5 DEF DdHigh
  <2> QED BY <1>4, <2>1, <2>2 DEF Decodes
<1>6. \A m : \A a \in Int : (At(m, a) = indexPrefix[x] /\ At(m, a + 1) = 229) => Decodes(i, 2, m, a)
  BY <1>5
<1> DEFINE p == indexPrefix[x]
<1>7. encodeZ80Instruction(i) = Encoding(2, <<Op(p), Op(229)>>) /\ p \in Byte
  BY <1>2, <1>3
<1>8. \A m : \A a \in Int : (At(m, a) = p /\ At(m, a + 1) = 229) => Decodes(i, 2, m, a)
  BY <1>6
<1> HIDE DEF p, i
<1>9. RoundTrips(i, 2)
  BY <1>2, <1>7, <1>8, RoundTripOpOp
<1> QED BY <1>9 DEF i

LEMMA PopPair ==
  ASSUME NEW r \in {"bc", "de", "hl", "af"}
  PROVE  RoundTrips(Ins("pop", R16(r), None, 0), 1)
<1> DEFINE i == Ins("pop", R16(r), None, 0)
<1>1. /\ R16(r).kind = "reg16"
      /\ R16(r).reg = r
      /\ None.kind = "none"
  BY DEF None, R16, Operand
<1>2. /\ PopCode(r) \in Byte
      /\ Column(PopCode(r)) = 1
      /\ PopCode(r) >= 192
      /\ PopCode(r) \notin {195, 201, 203, 205, 211, 217, 219, 221, 227, 233, 235, 237, 243, 249, 251, 253}
      /\ r \notin Index
      /\ <<"bc", "de", "hl", "af">>[((PopCode(r) \div 16) % 4) + 1] = r
  BY PopCodes
<1>3. encodeZ80Instruction(i) = Encoding(1, <<Op(PopCode(r))>>)
  <2>1. encodeZ80Instruction(i) = encodeStack("pop", R16(r).reg)
    BY EncodingOf
  <2>2. encodeStack("pop", R16(r).reg) = Encoding(1, <<Op(PopCode(r))>>)
    BY <1>1, <1>2 DEF encodeStack, PopCode
  <2> QED BY <2>1, <2>2
<1>4. AsDecoded(i) = Ins("pop", R16(r), None, 0)
  <2>1. i.mn = "pop" /\ i.dst = R16(r) /\ i.src = None
    BY Fields
  <2>2. Narrowed(i, R16(r)) = R16(r)
    BY <1>1, <2>1, NarrowedOperands, NarrowedValues
  <2>3. Narrowed(i, None) = None
    BY <1>1, <2>1, NarrowedOperands, NarrowedValues
  <2>4. AsDecoded(i) = Ins("pop", Narrowed(i, R16(r)), Narrowed(i, None), 0)
    BY DecodedIns
  <2> QED BY <2>2, <2>3, <2>4
<1>5. ASSUME NEW m, NEW a \in Int, At(m, a) = PopCode(r) PROVE Decodes(i, 1, m, a)
  <2>1. decodeInstruction(m, a) = HighPrimary(m, a, PopCode(r))
    BY <1>2, <1>5, DecodePrimary DEF Byte
  <2>2. HighPrimary(m, a, PopCode(r)) = Decoded(Ins("pop", R16(r), None, 0), 1)
    BY <1>2, <1>5 DEF HighPrimary
  <2> QED BY <1>4, <2>1, <2>2 DEF Decodes
<1>6. \A m : \A a \in Int : (At(m, a) = PopCode(r)) => Decodes(i, 1, m, a)
  BY <1>5
<1> QED BY <1>2, <1>3, <1>6, RoundTripOp

LEMMA PopIndex ==
  ASSUME NEW x \in Index
  PROVE  RoundTrips(Ins("pop", R16(x), None, 0), 2)
<1> DEFINE i == Ins("pop", R16(x), None, 0)
<1>1. /\ R16(x).kind = "reg16"
      /\ R16(x).reg = x
      /\ None.kind = "none"
  BY DEF None, R16, Operand
<1>2. /\ indexPrefix[x] \in Byte
      /\ x \notin {"bc", "de", "hl", "sp", "af"}
      /\ 225 \in Byte
  BY IndexPrefixes DEF Byte
<1>3. encodeZ80Instruction(i) = Encoding(2, <<Op(indexPrefix[x]), Op(225)>>)
  <2>1. encodeZ80Instruction(i) = encodeStack("pop", R16(x).reg)
    BY EncodingOf
  <2>2. encodeStack("pop", R16(x).reg) = Encoding(2, <<Op(indexPrefix[x]), Op(225)>>)
    BY <1>1, <1>2 DEF encodeStack
  <2> QED BY <2>1, <2>2
<1>4. AsDecoded(i) = Ins("pop", R16(x), None, 0)
  <2>1. i.mn = "pop" /\ i.dst = R16(x) /\ i.src = None
    BY Fields
  <2>2. Narrowed(i, R16(x)) = R16(x)
    BY <1>1, <2>1, NarrowedOperands, NarrowedValues
  <2>3. Narrowed(i, None) = None
    BY <1>1, <2>1, NarrowedOperands, NarrowedValues
  <2>4. AsDecoded(i) = Ins("pop", Narrowed(i, R16(x)), Narrowed(i, None), 0)
    BY DecodedIns
  <2> QED BY <2>2, <2>3, <2>4
<1>5. ASSUME NEW m, NEW a \in Int, At(m, a) = indexPrefix[x], At(m, a + 1) = 225 PROVE Decodes(i, 2, m, a)
  <2>1. decodeInstruction(m, a) = DdHigh(m, a, 225, x)
    BY <1>2, <1>5, DecodeIndex
  <2>2. DdHigh(m, a, 225, x) = Decoded(Ins("pop", R16(x), None, 0), 2)
    BY <1>2, <1>5 DEF DdHigh
  <2> QED BY <1>4, <2>1, <2>2 DEF Decodes
<1>6. \A m : \A a \in Int : (At(m, a) = indexPrefix[x] /\ At(m, a + 1) = 225) => Decodes(i, 2, m, a)
  BY <1>5
<1> DEFINE p == indexPrefix[x]
<1>7. encodeZ80Instruction(i) = Encoding(2, <<Op(p), Op(225)>>) /\ p \in Byte
  BY <1>2, <1>3
<1>8. \A m : \A a \in Int : (At(m, a) = p /\ At(m, a + 1) = 225) => Decodes(i, 2, m, a)
  BY <1>6
<1> HIDE DEF p, i
<1>9. RoundTrips(i, 2)
  BY <1>2, <1>7, <1>8, RoundTripOpOp
<1> QED BY <1>9 DEF i

LEMMA ExAf ==
  RoundTrips(Ins("ex", R16("af"), R16("af"), 0), 1)
<1> DEFINE i == Ins("ex", R16("af"), R16("af"), 0)
<1>1. /\ R16("af").kind = "reg16"
      /\ R16("af").reg = "af"
  BY DEF R16, Operand
<1>2. /\ 8 \in Byte
  BY DEF Byte
<1>3. encodeZ80Instruction(i) = Encoding(1, <<Op(8)>>)
  <2>1. encodeZ80Instruction(i) = encodeExchange(R16("af"), R16("af"))
    BY EncodingOf
  <2>2. encodeExchange(R16("af"), R16("af")) = Encoding(1, <<Op(8)>>)
    BY <1>1, <1>2 DEF encodeExchange
  <2> QED BY <2>1, <2>2
<1>4. AsDecoded(i) = Ins("ex", R16("af"), R16("af"), 0)
  <2>1. i.mn = "ex" /\ i.dst = R16("af") /\ i.src = R16("af")
    BY Fields
  <2>2. Narrowed(i, R16("af")) = R16("af")
    BY <1>1, <2>1, NarrowedOperands, NarrowedValues
  <2>3. Narrowed(i, R16("af")) = R16("af")
    BY <1>1, <2>1, NarrowedOperands, NarrowedValues
  <2>4. AsDecoded(i) = Ins("ex", Narrowed(i, R16("af")), Narrowed(i, R16("af")), 0)
    BY DecodedIns
  <2> QED BY <2>2, <2>3, <2>4
<1>5. ASSUME NEW m, NEW a \in Int, At(m, a) = 8 PROVE Decodes(i, 1, m, a)
  <2>1. decodeInstruction(m, a) = LowPrimary(m, a, 8)
    BY <1>2, <1>5, DecodePrimary DEF Byte
  <2>2. LowPrimary(m, a, 8) = Decoded(Ins("ex", R16("af"), R16("af"), 0), 1)
    BY <1>2, <1>5 DEF LowPrimary
  <2> QED BY <1>4, <2>1, <2>2 DEF Decodes
<1>6. \A m : \A a \in Int : (At(m, a) = 8) => Decodes(i, 1, m, a)
  BY <1>5
<1> QED BY <1>2, <1>3, <1>6, RoundTripOp

LEMMA ExDeHl ==
  RoundTrips(Ins("ex", R16("de"), R16("hl"), 0), 1)
<1> DEFINE i == Ins("ex", R16("de"), R16("hl"), 0)
<1>1. /\ R16("de").kind = "reg16"
      /\ R16("de").reg = "de"
      /\ R16("hl").kind = "reg16"
      /\ R16("hl").reg = "hl"
      /\ R16("af").kind = "reg16"
      /\ R16("af").reg = "af"
  BY DEF R16, Operand
<1>2. /\ 235 \in Byte
  BY DEF Byte
<1>3. encodeZ80Instruction(i) = Encoding(1, <<Op(235)>>)
  <2>1. encodeZ80Instruction(i) = encodeExchange(R16("de"), R16("hl"))
    BY EncodingOf
  <2>2. encodeExchange(R16("de"), R16("hl")) = Encoding(1, <<Op(235)>>)
    BY <1>1, <1>2 DEF encodeExchange
  <2> QED BY <2>1, <2>2
<1>4. AsDecoded(i) = Ins("ex", R16("de"), R16("hl"), 0)
  <2>1. i.mn = "ex" /\ i.dst = R16("de") /\ i.src = R16("hl")
    BY Fields
  <2>2. Narrowed(i, R16("de")) = R16("de")
    BY <1>1, <2>1, NarrowedOperands, NarrowedValues
  <2>3. Narrowed(i, R16("hl")) = R16("hl")
    BY <1>1, <2>1, NarrowedOperands, NarrowedValues
  <2>4. AsDecoded(i) = Ins("ex", Narrowed(i, R16("de")), Narrowed(i, R16("hl")), 0)
    BY DecodedIns
  <2> QED BY <2>2, <2>3, <2>4
<1>5. ASSUME NEW m, NEW a \in Int, At(m, a) = 235 PROVE Decodes(i, 1, m, a)
  <2>1. decodeInstruction(m, a) = HighPrimary(m, a, 235)
    BY <1>2, <1>5, DecodePrimary DEF Byte
  <2>2. HighPrimary(m, a, 235) = Decoded(Ins("ex", R16("de"), R16("hl"), 0), 1)
    BY <1>2, <1>5 DEF HighPrimary, Column
  <2> QED BY <1>4, <2>1, <2>2 DEF Decodes
<1>6. \A m : \A a \in Int : (At(m, a) = 235) => Decodes(i, 1, m, a)
  BY <1>5
<1> QED BY <1>2, <1>3, <1>6, RoundTripOp

LEMMA ExStackHl ==
  RoundTrips(Ins("ex", Indirect("sp"), R16("hl"), 0), 1)
<1> DEFINE i == Ins("ex", Indirect("sp"), R16("hl"), 0)
<1>1. /\ Indirect("sp").kind = "indirect"
      /\ Indirect("sp").reg = "sp"
      /\ R16("hl").kind = "reg16"
      /\ R16("hl").reg = "hl"
      /\ R16("af").kind = "reg16"
      /\ R16("af").reg = "af"
      /\ R16("de").kind = "reg16"
      /\ R16("de").reg = "de"
  BY DEF Indirect, R16, Operand
<1>2. /\ 227 \in Byte
  BY DEF Byte
<1>3. encodeZ80Instruction(i) = Encoding(1, <<Op(227)>>)
  <2>1. encodeZ80Instruction(i) = encodeExchange(Indirect("sp"), R16("hl"))
    BY EncodingOf
  <2>2. encodeExchange(Indirect("sp"), R16("hl")) = Encoding(1, <<Op(227)>>)
    BY <1>1, <1>2 DEF encodeExchange, IsIndex, Index
  <2> QED BY <2>1, <2>2
<1>4. AsDecoded(i) = Ins("ex", Indirect("sp"), R16("hl"), 0)
  <2>1. i.mn = "ex" /\ i.dst = Indirect("sp") /\ i.src = R16("hl")
    BY Fields
  <2>2. Narrowed(i, Indirect("sp")) = Indirect("sp")
    BY <1>1, <2>1, NarrowedOperands, NarrowedValues
  <2>3. Narrowed(i, R16("hl")) = R16("hl")
    BY <1>1, <2>1, NarrowedOperands, NarrowedValues
  <2>4. AsDecoded(i) = Ins("ex", Narrowed(i, Indirect("sp")), Narrowed(i, R16("hl")), 0)
    BY DecodedIns
  <2> QED BY <2>2, <2>3, <2>4
<1>5. ASSUME NEW m, NEW a \in Int, At(m, a) = 227 PROVE Decodes(i, 1, m, a)
  <2>1. decodeInstruction(m, a) = HighPrimary(m, a, 227)
    BY <1>2, <1>5, DecodePrimary DEF Byte
  <2>2. HighPrimary(m, a, 227) = Decoded(Ins("ex", Indirect("sp"), R16("hl"), 0), 1)
    BY <1>2, <1>5 DEF HighPrimary, Column
  <2> QED BY <1>4, <2>1, <2>2 DEF Decodes
<1>6. \A m : \A a \in Int : (At(m, a) = 227) => Decodes(i, 1, m, a)
  BY <1>5
<1> QED BY <1>2, <1>3, <1>6, RoundTripOp

LEMMA ExStackIndex ==
  ASSUME NEW x \in Index
  PROVE  RoundTrips(Ins("ex", Indirect("sp"), R16(x), 0), 2)
<1> DEFINE i == Ins("ex", Indirect("sp"), R16(x), 0)
<1>1. /\ Indirect("sp").kind = "indirect"
      /\ Indirect("sp").reg = "sp"
      /\ R16(x).kind = "reg16"
      /\ R16(x).reg = x
      /\ R16("af").kind = "reg16"
      /\ R16("af").reg = "af"
      /\ R16("de").kind = "reg16"
      /\ R16("de").reg = "de"
  BY DEF Indirect, R16, Operand
<1>2. /\ indexPrefix[x] \in Byte
      /\ x \notin {"bc", "de", "hl", "sp", "af"}
      /\ 227 \in Byte
  BY IndexPrefixes DEF Byte
<1>3. encodeZ80Instruction(i) = Encoding(2, <<Op(indexPrefix[x]), Op(227)>>)
  <2>1. encodeZ80Instruction(i) = encodeExchange(Indirect("sp"), R16(x))
    BY EncodingOf
  <2>2. encodeExchange(Indirect("sp"), R16(x)) = Encoding(2, <<Op(indexPrefix[x]), Op(227)>>)
    BY <1>1, <1>2 DEF encodeExchange, IsIndex
  <2> QED BY <2>1, <2>2
<1>4. AsDecoded(i) = Ins("ex", Indirect("sp"), R16(x), 0)
  <2>1. i.mn = "ex" /\ i.dst = Indirect("sp") /\ i.src = R16(x)
    BY Fields
  <2>2. Narrowed(i, Indirect("sp")) = Indirect("sp")
    BY <1>1, <2>1, NarrowedOperands, NarrowedValues
  <2>3. Narrowed(i, R16(x)) = R16(x)
    BY <1>1, <2>1, NarrowedOperands, NarrowedValues
  <2>4. AsDecoded(i) = Ins("ex", Narrowed(i, Indirect("sp")), Narrowed(i, R16(x)), 0)
    BY DecodedIns
  <2> QED BY <2>2, <2>3, <2>4
<1>5. ASSUME NEW m, NEW a \in Int, At(m, a) = indexPrefix[x], At(m, a + 1) = 227 PROVE Decodes(i, 2, m, a)
  <2>1. decodeInstruction(m, a) = DdHigh(m, a, 227, x)
    BY <1>2, <1>5, DecodeIndex
  <2>2. DdHigh(m, a, 227, x) = Decoded(Ins("ex", Indirect("sp"), R16(x), 0), 2)
    BY <1>2, <1>5 DEF DdHigh
  <2> QED BY <1>4, <2>1, <2>2 DEF Decodes
<1>6. \A m : \A a \in Int : (At(m, a) = indexPrefix[x] /\ At(m, a + 1) = 227) => Decodes(i, 2, m, a)
  BY <1>5
<1> DEFINE p == indexPrefix[x]
<1>7. encodeZ80Instruction(i) = Encoding(2, <<Op(p), Op(227)>>) /\ p \in Byte
  BY <1>2, <1>3
<1>8. \A m : \A a \in Int : (At(m, a) = p /\ At(m, a + 1) = 227) => Decodes(i, 2, m, a)
  BY <1>6
<1> HIDE DEF p, i
<1>9. RoundTrips(i, 2)
  BY <1>2, <1>7, <1>8, RoundTripOpOp
<1> QED BY <1>9 DEF i

LEMMA InRegister ==
  ASSUME NEW t \in Bytes8
  PROVE  RoundTrips(Ins("in", R8(t), PortC, 0), 2)
<1> DEFINE i == Ins("in", R8(t), PortC, 0)
           op == 64 * 1 + 8 * register8Code[t] + 0
<1>1. /\ R8(t).kind = "reg8"
      /\ R8(t).reg = t
      /\ PortC.kind = "port"
      /\ PortC.reg = "c"
      /\ None.kind = "none"
  BY DEF None, PortC, R8, Operand
<1>2. /\ 237 \in Byte
      /\ op \in Byte
      /\ Row(op) = register8Code[t]
      /\ Column(op) = 0
      /\ op >= 64 /\ op < 128
      /\ op = 64 + register8Code[t] * 8
  BY RegisterCodes, OpcodeParts DEF Byte
<1> HIDE DEF op
<1>3. encodeZ80Instruction(i) = Encoding(2, <<Op(237), Op(op)>>)
  <2>1. encodeZ80Instruction(i) = encodeIn(R8(t), PortC)
    BY EncodingOf
  <2>2. encodeIn(R8(t), PortC) = Encoding(2, <<Op(237), Op(op)>>)
    BY <1>1, <1>2 DEF encodeIn
  <2> QED BY <2>1, <2>2
<1>4. AsDecoded(i) = Ins("in", R8(t), PortC, 0)
  <2>1. i.mn = "in" /\ i.dst = R8(t) /\ i.src = PortC
    BY Fields
  <2>2. Narrowed(i, R8(t)) = R8(t)
    BY <1>1, <2>1, NarrowedOperands, NarrowedValues
  <2>3. Narrowed(i, PortC) = PortC
    BY <1>1, <2>1, NarrowedOperands, NarrowedValues
  <2>4. AsDecoded(i) = Ins("in", Narrowed(i, R8(t)), Narrowed(i, PortC), 0)
    BY DecodedIns
  <2> QED BY <2>2, <2>3, <2>4
<1>5. ASSUME NEW m, NEW a \in Int, At(m, a) = 237, At(m, a + 1) = op PROVE Decodes(i, 2, m, a)
  <2>1. decodeInstruction(m, a) = EdTable(m, a)
    BY <1>2, <1>5, DecodePrimary DEF Byte
  <2>2. EdTable(m, a) = Decoded(Ins("in", R8(t), PortC, 0), 2)
    BY <1>2, <1>5, RegisterCodes DEF EdTable, EdPort
  <2> QED BY <1>4, <2>1, <2>2 DEF Decodes
<1>6. \A m : \A a \in Int : (At(m, a) = 237 /\ At(m, a + 1) = op) => Decodes(i, 2, m, a)
  BY <1>5
<1> QED BY <1>2, <1>3, <1>6, RoundTripOpOp

LEMMA OutRegister ==
  ASSUME NEW s \in Bytes8
  PROVE  RoundTrips(Ins("out", PortC, R8(s), 0), 2)
<1> DEFINE i == Ins("out", PortC, R8(s), 0)
           op == 64 * 1 + 8 * register8Code[s] + 1
<1>1. /\ PortC.kind = "port"
      /\ PortC.reg = "c"
      /\ R8(s).kind = "reg8"
      /\ R8(s).reg = s
      /\ None.kind = "none"
  BY DEF None, PortC, R8, Operand
<1>2. /\ 237 \in Byte
      /\ op \in Byte
      /\ Row(op) = register8Code[s]
      /\ Column(op) = 1
      /\ op >= 64 /\ op < 128
      /\ op = 65 + register8Code[s] * 8
      /\ R8(s) # None
  BY RegisterCodes, OpcodeParts, Distinct DEF Byte
<1> HIDE DEF op
<1>3. encodeZ80Instruction(i) = Encoding(2, <<Op(237), Op(op)>>)
  <2>1. encodeZ80Instruction(i) = encodeOut(PortC, R8(s))
    BY EncodingOf
  <2>2. encodeOut(PortC, R8(s)) = Encoding(2, <<Op(237), Op(op)>>)
    BY <1>1, <1>2 DEF encodeOut
  <2> QED BY <2>1, <2>2
<1>4. AsDecoded(i) = Ins("out", PortC, R8(s), 0)
  <2>1. i.mn = "out" /\ i.dst = PortC /\ i.src = R8(s)
    BY Fields
  <2>2. Narrowed(i, PortC) = PortC
    BY <1>1, <2>1, NarrowedOperands, NarrowedValues
  <2>3. Narrowed(i, R8(s)) = R8(s)
    BY <1>1, <2>1, NarrowedOperands, NarrowedValues
  <2>4. AsDecoded(i) = Ins("out", Narrowed(i, PortC), Narrowed(i, R8(s)), 0)
    BY DecodedIns
  <2> QED BY <2>2, <2>3, <2>4
<1>5. ASSUME NEW m, NEW a \in Int, At(m, a) = 237, At(m, a + 1) = op PROVE Decodes(i, 2, m, a)
  <2>1. decodeInstruction(m, a) = EdTable(m, a)
    BY <1>2, <1>5, DecodePrimary DEF Byte
  <2>2. EdTable(m, a) = Decoded(Ins("out", PortC, R8(s), 0), 2)
    BY <1>2, <1>5, RegisterCodes DEF EdTable, EdPort
  <2> QED BY <1>4, <2>1, <2>2 DEF Decodes
<1>6. \A m : \A a \in Int : (At(m, a) = 237 /\ At(m, a + 1) = op) => Decodes(i, 2, m, a)
  BY <1>5
<1> QED BY <1>2, <1>3, <1>6, RoundTripOpOp

LEMMA InFlags ==
  RoundTrips(Ins("in", None, PortC, 0), 2)
<1> DEFINE i == Ins("in", None, PortC, 0)
<1>1. /\ None.kind = "none"
      /\ PortC.kind = "port"
      /\ PortC.reg = "c"
  BY DEF None, PortC, Operand
<1>2. /\ 237 \in Byte
      /\ 112 \in Byte
  BY DEF Byte
<1>3. encodeZ80Instruction(i) = Encoding(2, <<Op(237), Op(112)>>)
  <2>1. encodeZ80Instruction(i) = encodeIn(None, PortC)
    BY EncodingOf
  <2>2. encodeIn(None, PortC) = Encoding(2, <<Op(237), Op(112)>>)
    BY <1>1, <1>2 DEF encodeIn
  <2> QED BY <2>1, <2>2
<1>4. AsDecoded(i) = Ins("in", None, PortC, 0)
  <2>1. i.mn = "in" /\ i.dst = None /\ i.src = PortC
    BY Fields
  <2>2. Narrowed(i, None) = None
    BY <1>1, <2>1, NarrowedOperands, NarrowedValues
  <2>3. Narrowed(i, PortC) = PortC
    BY <1>1, <2>1, NarrowedOperands, NarrowedValues
  <2>4. AsDecoded(i) = Ins("in", Narrowed(i, None), Narrowed(i, PortC), 0)
    BY DecodedIns
  <2> QED BY <2>2, <2>3, <2>4
<1>5. ASSUME NEW m, NEW a \in Int, At(m, a) = 237, At(m, a + 1) = 112 PROVE Decodes(i, 2, m, a)
  <2>1. decodeInstruction(m, a) = EdTable(m, a)
    BY <1>2, <1>5, DecodePrimary DEF Byte
  <2>2. EdTable(m, a) = Decoded(Ins("in", None, PortC, 0), 2)
    BY <1>2, <1>5 DEF EdTable, EdPort, Column, Row
  <2> QED BY <1>4, <2>1, <2>2 DEF Decodes
<1>6. \A m : \A a \in Int : (At(m, a) = 237 /\ At(m, a + 1) = 112) => Decodes(i, 2, m, a)
  BY <1>5
<1> QED BY <1>2, <1>3, <1>6, RoundTripOpOp

LEMMA OutZero ==
  RoundTrips(Ins("out", PortC, Imm(0), 0), 2)
<1> DEFINE i == Ins("out", PortC, Imm(0), 0)
<1>1. /\ PortC.kind = "port"
      /\ PortC.reg = "c"
      /\ Imm(0).kind = "imm"
      /\ Imm(0).val = 0
  BY DEF Imm, PortC, Operand
<1>2. /\ 237 \in Byte
      /\ 113 \in Byte
      /\ LowByte(0) = 0
  BY DEF Byte, LowByte
<1>3. encodeZ80Instruction(i) = Encoding(2, <<Op(237), Op(113)>>)
  <2>1. encodeZ80Instruction(i) = encodeOut(PortC, Imm(0))
    BY EncodingOf
  <2>2. encodeOut(PortC, Imm(0)) = Encoding(2, <<Op(237), Op(113)>>)
    BY <1>1, <1>2 DEF encodeOut
  <2> QED BY <2>1, <2>2
<1>4. AsDecoded(i) = Ins("out", PortC, Imm(0), 0)
  <2>1. i.mn = "out" /\ i.dst = PortC /\ i.src = Imm(0)
    BY Fields
  <2>2. Narrowed(i, PortC) = PortC
    BY <1>1, <2>1, NarrowedOperands, NarrowedValues, <1>2
  <2>3. Narrowed(i, Imm(0)) = Imm(0)
    BY <1>1, <2>1, NarrowedOperands, NarrowedValues, <1>2
  <2>4. AsDecoded(i) = Ins("out", Narrowed(i, PortC), Narrowed(i, Imm(0)), 0)
    BY DecodedIns
  <2> QED BY <2>2, <2>3, <2>4
<1>5. ASSUME NEW m, NEW a \in Int, At(m, a) = 237, At(m, a + 1) = 113 PROVE Decodes(i, 2, m, a)
  <2>1. decodeInstruction(m, a) = EdTable(m, a)
    BY <1>2, <1>5, DecodePrimary DEF Byte
  <2>2. EdTable(m, a) = Decoded(Ins("out", PortC, Imm(0), 0), 2)
    BY <1>2, <1>5 DEF EdTable, EdPort, Column, Row
  <2> QED BY <1>4, <2>1, <2>2 DEF Decodes
<1>6. \A m : \A a \in Int : (At(m, a) = 237 /\ At(m, a + 1) = 113) => Decodes(i, 2, m, a)
  BY <1>5
<1> QED BY <1>2, <1>3, <1>6, RoundTripOpOp

LEMMA InPort ==
  ASSUME NEW n \in Int
  PROVE  RoundTrips(Ins("in", R8("a"), PortN(n), 0), 2)
<1> DEFINE i == Ins("in", R8("a"), PortN(n), 0)
<1>1. /\ R8("a").kind = "reg8"
      /\ R8("a").reg = "a"
      /\ PortN(n).kind = "port"
      /\ PortN(n).val = n
      /\ PortN(n).reg = ""
      /\ PortC.kind = "port"
      /\ PortC.reg = "c"
  BY DEF PortC, PortN, R8, Operand
<1>2. /\ 219 \in Byte
  BY DEF Byte
<1>3. encodeZ80Instruction(i) = Encoding(2, <<Op(219), I8(n)>>)
  <2>1. encodeZ80Instruction(i) = encodeIn(R8("a"), PortN(n))
    BY EncodingOf
  <2>2. encodeIn(R8("a"), PortN(n)) = Encoding(2, <<Op(219), I8(n)>>)
    BY <1>1, <1>2 DEF encodeIn
  <2> QED BY <2>1, <2>2
<1>4. AsDecoded(i) = Ins("in", R8("a"), PortN(LowByte(n)), 0)
  <2>1. i.mn = "in" /\ i.dst = R8("a") /\ i.src = PortN(n)
    BY Fields
  <2>2. Narrowed(i, R8("a")) = R8("a")
    BY <1>1, <2>1, NarrowedOperands, NarrowedValues
  <2>3. Narrowed(i, PortN(n)) = PortN(LowByte(n))
    BY <1>1, <2>1, NarrowedOperands, NarrowedValues
  <2>4. AsDecoded(i) = Ins("in", Narrowed(i, R8("a")), Narrowed(i, PortN(n)), 0)
    BY DecodedIns
  <2> QED BY <2>2, <2>3, <2>4
<1>5. ASSUME NEW m, NEW a \in Int, At(m, a) = 219, At(m, a + 1) = LowByte(n) PROVE Decodes(i, 2, m, a)
  <2>1. decodeInstruction(m, a) = HighPrimary(m, a, 219)
    BY <1>2, <1>5, DecodePrimary DEF Byte
  <2>2. HighPrimary(m, a, 219) = Decoded(Ins("in", R8("a"), PortN(LowByte(n)), 0), 2)
    BY <1>2, <1>5 DEF HighPrimary, Column
  <2> QED BY <1>4, <2>1, <2>2 DEF Decodes
<1>6. \A m : \A a \in Int : (At(m, a) = 219 /\ At(m, a + 1) = LowByte(n)) => Decodes(i, 2, m, a)
  BY <1>5
<1> QED BY <1>2, <1>3, <1>6, RoundTripOpByte

LEMMA OutPort ==
  ASSUME NEW n \in Int
  PROVE  RoundTrips(Ins("out", PortN(n), R8("a"), 0), 2)
<1> DEFINE i == Ins("out", PortN(n), R8("a"), 0)
<1>1. /\ PortN(n).kind = "port"
      /\ PortN(n).val = n
      /\ PortN(n).reg = ""
      /\ R8("a").kind = "reg8"
      /\ R8("a").reg = "a"
      /\ PortC.kind = "port"
      /\ PortC.reg = "c"
  BY DEF PortC, PortN, R8, Operand
<1>2. /\ 211 \in Byte
  BY DEF Byte
<1>3. encodeZ80Instruction(i) = Encoding(2, <<Op(211), I8(n)>>)
  <2>1. encodeZ80Instruction(i) = encodeOut(PortN(n), R8("a"))
    BY EncodingOf
  <2>2. encodeOut(PortN(n), R8("a")) = Encoding(2, <<Op(211), I8(n)>>)
    BY <1>1, <1>2 DEF encodeOut
  <2> QED BY <2>1, <2>2
<1>4. AsDecoded(i) = Ins("out", PortN(LowByte(n)), R8("a"), 0)
  <2>1. i.mn = "out" /\ i.dst = PortN(n) /\ i.src = R8("a")
    BY Fields
  <2>2. Narrowed(i, PortN(n)) = PortN(LowByte(n))
    BY <1>1, <2>1, NarrowedOperands, NarrowedValues
  <2>3. Narrowed(i, R8("a")) = R8("a")
    BY <1>1, <2>1, NarrowedOperands, NarrowedValues
  <2>4. AsDecoded(i) = Ins("out", Narrowed(i, PortN(n)), Narrowed(i, R8("a")), 0)
    BY DecodedIns
  <2> QED BY <2>2, <2>3, <2>4
<1>5. ASSUME NEW m, NEW a \in Int, At(m, a) = 211, At(m, a + 1) = LowByte(n) PROVE Decodes(i, 2, m, a)
  <2>1. decodeInstruction(m, a) = HighPrimary(m, a, 211)
    BY <1>2, <1>5, DecodePrimary DEF Byte
  <2>2. HighPrimary(m, a, 211) = Decoded(Ins("out", PortN(LowByte(n)), R8("a"), 0), 2)
    BY <1>2, <1>5 DEF HighPrimary, Column
  <2> QED BY <1>4, <2>1, <2>2 DEF Decodes
<1>6. \A m : \A a \in Int : (At(m, a) = 211 /\ At(m, a + 1) = LowByte(n)) => Decodes(i, 2, m, a)
  BY <1>5
<1> QED BY <1>2, <1>3, <1>6, RoundTripOpByte

LEMMA CountRegister ==
  ASSUME NEW mn \in {"inc", "dec"}, NEW t \in Bytes8
  PROVE  RoundTrips(Ins(mn, R8(t), None, 0), 1)
<1> DEFINE i == Ins(mn, R8(t), None, 0)
           op == 64 * 0 + 8 * register8Code[t] + incDecBase(mn)
<1>1. /\ R8(t).kind = "reg8"
      /\ R8(t).reg = t
      /\ None.kind = "none"
  BY DEF None, R8, Operand
<1>2. /\ op \in Byte
      /\ Row(op) = register8Code[t]
      /\ Column(op) = incDecBase(mn)
      /\ op < 64
      /\ op = incDecBase(mn) + register8Code[t] * 8
      /\ op \notin {0, 8, 16, 24, 2, 18, 10, 26, 34, 42, 50, 58}
      /\ incDecBase(mn) \in {4, 5}
      /\ mn = "inc" => incDecBase(mn) = 4
      /\ mn = "dec" => incDecBase(mn) = 5
      /\ mn \in {"inc", "dec"}
      /\ mn # "sls"
  BY RegisterCodes, OpcodeParts DEF incDecBase
<1> HIDE DEF op
<1>3. encodeZ80Instruction(i) = Encoding(1, <<Op(op)>>)
  <2>1. encodeZ80Instruction(i) = encodeIncDec(mn, R8(t))
    BY EncodingOf
  <2>2. encodeIncDec(mn, R8(t)) = Encoding(1, <<Op(op)>>)
    BY <1>1, <1>2 DEF encodeIncDec, IsIndex
  <2> QED BY <2>1, <2>2
<1>4. AsDecoded(i) = Ins(mn, R8(t), None, 0)
  <2>1. i.mn = mn /\ i.dst = R8(t) /\ i.src = None
    BY Fields
  <2>2. Narrowed(i, R8(t)) = R8(t)
    BY <1>1, <2>1, NarrowedOperands, NarrowedValues
  <2>3. Narrowed(i, None) = None
    BY <1>1, <2>1, NarrowedOperands, NarrowedValues
  <2>4. AsDecoded(i) = Ins(mn, Narrowed(i, R8(t)), Narrowed(i, None), 0)
    BY DecodedIns, <1>2
  <2> QED BY <2>2, <2>3, <2>4
<1>5. ASSUME NEW m, NEW a \in Int, At(m, a) = op PROVE Decodes(i, 1, m, a)
  <2>1. decodeInstruction(m, a) = LowPrimary(m, a, op)
    BY <1>2, <1>5, DecodePrimary DEF Byte
  <2>2. LowPrimary(m, a, op) = Decoded(Ins(mn, R8(t), None, 0), 1)
    BY <1>2, <1>5, RegisterCodes DEF LowPrimary
  <2> QED BY <1>4, <2>1, <2>2 DEF Decodes
<1>6. \A m : \A a \in Int : (At(m, a) = op) => Decodes(i, 1, m, a)
  BY <1>5
<1> QED BY <1>2, <1>3, <1>6, RoundTripOp

LEMMA CountMemory ==
  ASSUME NEW mn \in {"inc", "dec"}
  PROVE  RoundTrips(Ins(mn, Indirect("hl"), None, 0), 1)
<1> DEFINE i == Ins(mn, Indirect("hl"), None, 0)
           op == 64 * 0 + 8 * 6 + incDecBase(mn)
<1>1. /\ Indirect("hl").kind = "indirect"
      /\ Indirect("hl").reg = "hl"
      /\ None.kind = "none"
  BY DEF Indirect, None, Operand
<1>2. /\ op \in Byte
      /\ Row(op) = 6
      /\ Column(op) = incDecBase(mn)
      /\ op < 64
      /\ op = incDecBase(mn) + 48
      /\ op \notin {0, 8, 16, 24, 2, 18, 10, 26, 34, 42, 50, 58}
      /\ incDecBase(mn) \in {4, 5}
      /\ mn = "inc" => incDecBase(mn) = 4
      /\ mn = "dec" => incDecBase(mn) = 5
      /\ mn \in {"inc", "dec"}
      /\ mn # "sls"
  BY RegisterCodes, OpcodeParts DEF incDecBase
<1> HIDE DEF op
<1>3. encodeZ80Instruction(i) = Encoding(1, <<Op(op)>>)
  <2>1. encodeZ80Instruction(i) = encodeIncDec(mn, Indirect("hl"))
    BY EncodingOf
  <2>2. encodeIncDec(mn, Indirect("hl")) = Encoding(1, <<Op(op)>>)
    BY <1>1, <1>2 DEF encodeIncDec, IsIndex
  <2> QED BY <2>1, <2>2
<1>4. AsDecoded(i) = Ins(mn, Indirect("hl"), None, 0)
  <2>1. i.mn = mn /\ i.dst = Indirect("hl") /\ i.src = None
    BY Fields
  <2>2. Narrowed(i, Indirect("hl")) = Indirect("hl")
    BY <1>1, <2>1, NarrowedOperands, NarrowedValues
  <2>3. Narrowed(i, None) = None
    BY <1>1, <2>1, NarrowedOperands, NarrowedValues
  <2>4. AsDecoded(i) = Ins(mn, Narrowed(i, Indirect("hl")), Narrowed(i, None), 0)
    BY DecodedIns, <1>2
  <2> QED BY <2>2, <2>3, <2>4
<1>5. ASSUME NEW m, NEW a \in Int, At(m, a) = op PROVE Decodes(i, 1, m, a)
  <2>1. decodeInstruction(m, a) = LowPrimary(m, a, op)
    BY <1>2, <1>5, DecodePrimary DEF Byte
  <2>2. LowPrimary(m, a, op) = Decoded(Ins(mn, Indirect("hl"), None, 0), 1)
    BY <1>2, <1>5, MemoryOperand DEF LowPrimary
  <2> QED BY <1>4, <2>1, <2>2 DEF Decodes
<1>6. \A m : \A a \in Int : (At(m, a) = op) => Decodes(i, 1, m, a)
  BY <1>5
<1> QED BY <1>2, <1>3, <1>6, RoundTripOp

LEMMA IncPair ==
  ASSUME NEW r \in Pairs
  PROVE  RoundTrips(Ins("inc", R16(r), None, 0), 1)
<1> DEFINE i == Ins("inc", R16(r), None, 0)
           op == 64 * 0 + 8 * (2 * register16Code[r] + 0) + 3
<1>1. /\ R16(r).kind = "reg16"
      /\ R16(r).reg = r
      /\ None.kind = "none"
  BY DEF None, R16, Operand
<1>2. /\ op \in Byte
      /\ Row(op) = 2 * register16Code[r] + 0
      /\ Column(op) = 3
      /\ op < 64
      /\ op = 3 + register16Code[r] * 16
      /\ op \notin {0, 8, 16, 24, 2, 18, 10, 26, 34, 42, 50, 58}
      /\ r \notin Index
      /\ PairOf(op) = r
      /\ Row(op) % 2 = 0
  BY PairCodes, OpcodeParts
<1> HIDE DEF op
<1>3. encodeZ80Instruction(i) = Encoding(1, <<Op(op)>>)
  <2>1. encodeZ80Instruction(i) = encodeIncDec("inc", R16(r))
    BY EncodingOf
  <2>2. encodeIncDec("inc", R16(r)) = Encoding(1, <<Op(op)>>)
    BY <1>1, <1>2 DEF encodeIncDec, IsIndex
  <2> QED BY <2>1, <2>2
<1>4. AsDecoded(i) = Ins("inc", R16(r), None, 0)
  <2>1. i.mn = "inc" /\ i.dst = R16(r) /\ i.src = None
    BY Fields
  <2>2. Narrowed(i, R16(r)) = R16(r)
    BY <1>1, <2>1, NarrowedOperands, NarrowedValues
  <2>3. Narrowed(i, None) = None
    BY <1>1, <2>1, NarrowedOperands, NarrowedValues
  <2>4. AsDecoded(i) = Ins("inc", Narrowed(i, R16(r)), Narrowed(i, None), 0)
    BY DecodedIns
  <2> QED BY <2>2, <2>3, <2>4
<1>5. ASSUME NEW m, NEW a \in Int, At(m, a) = op PROVE Decodes(i, 1, m, a)
  <2>1. decodeInstruction(m, a) = LowPrimary(m, a, op)
    BY <1>2, <1>5, DecodePrimary DEF Byte
  <2>2. LowPrimary(m, a, op) = Decoded(Ins("inc", R16(r), None, 0), 1)
    BY <1>2, <1>5 DEF LowPrimary
  <2> QED BY <1>4, <2>1, <2>2 DEF Decodes
<1>6. \A m : \A a \in Int : (At(m, a) = op) => Decodes(i, 1, m, a)
  BY <1>5
<1> QED BY <1>2, <1>3, <1>6, RoundTripOp

LEMMA IncIndex ==
  ASSUME NEW x \in Index
  PROVE  RoundTrips(Ins("inc", R16(x), None, 0), 2)
<1> DEFINE i == Ins("inc", R16(x), None, 0)
<1>1. /\ R16(x).kind = "reg16"
      /\ R16(x).reg = x
      /\ None.kind = "none"
  BY DEF None, R16, Operand
<1>2. /\ indexPrefix[x] \in Byte
      /\ x \notin {"bc", "de", "hl", "sp", "af"}
      /\ 35 \in Byte
  BY IndexPrefixes DEF Byte
<1>3. encodeZ80Instruction(i) = Encoding(2, <<Op(indexPrefix[x]), Op(35)>>)
  <2>1. encodeZ80Instruction(i) = encodeIncDec("inc", R16(x))
    BY EncodingOf
  <2>2. encodeIncDec("inc", R16(x)) = Encoding(2, <<Op(indexPrefix[x]), Op(35)>>)
    BY <1>1, <1>2 DEF encodeIncDec, IsIndex
  <2> QED BY <2>1, <2>2
<1>4. AsDecoded(i) = Ins("inc", R16(x), None, 0)
  <2>1. i.mn = "inc" /\ i.dst = R16(x) /\ i.src = None
    BY Fields
  <2>2. Narrowed(i, R16(x)) = R16(x)
    BY <1>1, <2>1, NarrowedOperands, NarrowedValues
  <2>3. Narrowed(i, None) = None
    BY <1>1, <2>1, NarrowedOperands, NarrowedValues
  <2>4. AsDecoded(i) = Ins("inc", Narrowed(i, R16(x)), Narrowed(i, None), 0)
    BY DecodedIns
  <2> QED BY <2>2, <2>3, <2>4
<1>5. ASSUME NEW m, NEW a \in Int, At(m, a) = indexPrefix[x], At(m, a + 1) = 35 PROVE Decodes(i, 2, m, a)
  <2>1. decodeInstruction(m, a) = DdLow(m, a, 35, x)
    BY <1>2, <1>5, DecodeIndex
  <2>2. DdLow(m, a, 35, x) = Decoded(Ins("inc", R16(x), None, 0), 2)
    BY <1>2, <1>5 DEF DdLow
  <2> QED BY <1>4, <2>1, <2>2 DEF Decodes
<1>6. \A m : \A a \in Int : (At(m, a) = indexPrefix[x] /\ At(m, a + 1) = 35) => Decodes(i, 2, m, a)
  BY <1>5
<1> DEFINE p == indexPrefix[x]
<1>7. encodeZ80Instruction(i) = Encoding(2, <<Op(p), Op(35)>>) /\ p \in Byte
  BY <1>2, <1>3
<1>8. \A m : \A a \in Int : (At(m, a) = p /\ At(m, a + 1) = 35) => Decodes(i, 2, m, a)
  BY <1>6
<1> HIDE DEF p, i
<1>9. RoundTrips(i, 2)
  BY <1>2, <1>7, <1>8, RoundTripOpOp
<1> QED BY <1>9 DEF i

LEMMA IncHalf ==
  ASSUME NEW h \in Halves
  PROVE  RoundTrips(Ins("inc", Half(h), None, 0), 2)
<1> DEFINE i == Ins("inc", Half(h), None, 0)
           op == 64 * 0 + 8 * halfIndexRegisterCode[h] + 4
<1>1. /\ Half(h).kind = "half"
      /\ Half(h).reg = h
      /\ None.kind = "none"
  BY DEF Half, None, Operand
<1>2. /\ op \in Byte
      /\ Row(op) = halfIndexRegisterCode[h]
      /\ Column(op) = 4
      /\ op < 64
      /\ op = 4 + halfIndexRegisterCode[h] * 8
      /\ op \in {36, 44}
      /\ IndexOf[h] \in Index
      /\ indexPrefix[IndexOf[h]] \in Byte
  BY HalfCodes, OpcodeParts, IndexPrefixes
<1> HIDE DEF op
<1>3. encodeZ80Instruction(i) = Encoding(2, <<Op(indexPrefix[IndexOf[h]]), Op(op)>>)
  <2>1. encodeZ80Instruction(i) = encodeIncDec("inc", Half(h))
    BY EncodingOf
  <2>2. encodeIncDec("inc", Half(h)) = Encoding(2, <<Op(indexPrefix[IndexOf[h]]), Op(op)>>)
    BY <1>1, <1>2 DEF encodeIncDec, IsIndex, incDecBase
  <2> QED BY <2>1, <2>2
<1>4. AsDecoded(i) = Ins("inc", Half(h), None, 0)
  <2>1. i.mn = "inc" /\ i.dst = Half(h) /\ i.src = None
    BY Fields
  <2>2. Narrowed(i, Half(h)) = Half(h)
    BY <1>1, <2>1, NarrowedOperands, NarrowedValues
  <2>3. Narrowed(i, None) = None
    BY <1>1, <2>1, NarrowedOperands, NarrowedValues
  <2>4. AsDecoded(i) = Ins("inc", Narrowed(i, Half(h)), Narrowed(i, None), 0)
    BY DecodedIns
  <2> QED BY <2>2, <2>3, <2>4
<1>5. ASSUME NEW m, NEW a \in Int, At(m, a) = indexPrefix[IndexOf[h]], At(m, a + 1) = op PROVE Decodes(i, 2, m, a)
  <2>1. decodeInstruction(m, a) = DdLow(m, a, op, IndexOf[h])
    BY <1>2, <1>5, DecodeIndex
  <2>2. DdLow(m, a, op, IndexOf[h]) = Decoded(Ins("inc", Half(h), None, 0), 2)
    BY <1>2, <1>5, HalfCodes DEF DdLow
  <2> QED BY <1>4, <2>1, <2>2 DEF Decodes
<1>6. \A m : \A a \in Int : (At(m, a) = indexPrefix[IndexOf[h]] /\ At(m, a + 1) = op) => Decodes(i, 2, m, a)
  BY <1>5
<1> DEFINE p == indexPrefix[IndexOf[h]]
<1>7. encodeZ80Instruction(i) = Encoding(2, <<Op(p), Op(op)>>) /\ p \in Byte /\ op \in Byte
  BY <1>2, <1>3
<1>8. \A m : \A a \in Int : (At(m, a) = p /\ At(m, a + 1) = op) => Decodes(i, 2, m, a)
  BY <1>6
<1> HIDE DEF p, i
<1>9. RoundTrips(i, 2)
  BY <1>2, <1>7, <1>8, RoundTripOpOp
<1> QED BY <1>9 DEF i

LEMMA IncIndexed ==
  ASSUME NEW x \in Index, NEW d \in Int
  PROVE  RoundTrips(Ins("inc", Indexed(x, d), None, 0), 3)
<1> DEFINE i == Ins("inc", Indexed(x, d), None, 0)
<1>1. /\ Indexed(x, d).kind = "indexed"
      /\ Indexed(x, d).reg = x
      /\ Indexed(x, d).val = d
      /\ None.kind = "none"
  BY DEF Indexed, None, Operand
<1>2. /\ indexPrefix[x] \in Byte
      /\ x \notin {"bc", "de", "hl", "sp", "af"}
      /\ 52 \in Byte
  BY IndexPrefixes DEF Byte
<1>3. encodeZ80Instruction(i) = Encoding(3, <<Op(indexPrefix[x]), Op(52), D8(d)>>)
  <2>1. encodeZ80Instruction(i) = encodeIncDec("inc", Indexed(x, d))
    BY EncodingOf
  <2>2. encodeIncDec("inc", Indexed(x, d)) = Encoding(3, <<Op(indexPrefix[x]), Op(52), D8(d)>>)
    BY <1>1, <1>2 DEF encodeIncDec, IsIndex, incDecBase
  <2> QED BY <2>1, <2>2
<1>4. AsDecoded(i) = Ins("inc", Indexed(x, d), None, 0)
  <2>1. i.mn = "inc" /\ i.dst = Indexed(x, d) /\ i.src = None
    BY Fields
  <2>2. Narrowed(i, Indexed(x, d)) = Indexed(x, d)
    BY <1>1, <2>1, NarrowedOperands, NarrowedValues
  <2>3. Narrowed(i, None) = None
    BY <1>1, <2>1, NarrowedOperands, NarrowedValues
  <2>4. AsDecoded(i) = Ins("inc", Narrowed(i, Indexed(x, d)), Narrowed(i, None), 0)
    BY DecodedIns
  <2> QED BY <2>2, <2>3, <2>4
<1>5. ASSUME NEW m, NEW a \in Int, At(m, a) = indexPrefix[x], At(m, a + 1) = 52, Signed(At(m, a + 2)) = d PROVE Decodes(i, 3, m, a)
  <2>1. decodeInstruction(m, a) = DdLow(m, a, 52, x)
    BY <1>2, <1>5, DecodeIndex
  <2>2. DdLow(m, a, 52, x) = Decoded(Ins("inc", Indexed(x, d), None, 0), 3)
    BY <1>2, <1>5 DEF DdLow
  <2> QED BY <1>4, <2>1, <2>2 DEF Decodes
<1>6. \A m : \A a \in Int : (At(m, a) = indexPrefix[x] /\ At(m, a + 1) = 52 /\ Signed(At(m, a + 2)) = d) => Decodes(i, 3, m, a)
  BY <1>5
<1> DEFINE p == indexPrefix[x]
<1>7. encodeZ80Instruction(i) = Encoding(3, <<Op(p), Op(52), D8(d)>>) /\ p \in Byte
  BY <1>2, <1>3
<1>8. \A m : \A a \in Int : (At(m, a) = p /\ At(m, a + 1) = 52 /\ Signed(At(m, a + 2)) = d) => Decodes(i, 3, m, a)
  BY <1>6
<1> HIDE DEF p, i
<1>9. RoundTrips(i, 3)
  BY <1>2, <1>7, <1>8, RoundTripOpOpDisp
<1> QED BY <1>9 DEF i

LEMMA DecPair ==
  ASSUME NEW r \in Pairs
  PROVE  RoundTrips(Ins("dec", R16(r), None, 0), 1)
<1> DEFINE i == Ins("dec", R16(r), None, 0)
           op == 64 * 0 + 8 * (2 * register16Code[r] + 1) + 3
<1>1. /\ R16(r).kind = "reg16"
      /\ R16(r).reg = r
      /\ None.kind = "none"
  BY DEF None, R16, Operand
<1>2. /\ op \in Byte
      /\ Row(op) = 2 * register16Code[r] + 1
      /\ Column(op) = 3
      /\ op < 64
      /\ op = 11 + register16Code[r] * 16
      /\ op \notin {0, 8, 16, 24, 2, 18, 10, 26, 34, 42, 50, 58}
      /\ r \notin Index
      /\ PairOf(op) = r
      /\ Row(op) % 2 = 1
  BY PairCodes, OpcodeParts
<1> HIDE DEF op
<1>3. encodeZ80Instruction(i) = Encoding(1, <<Op(op)>>)
  <2>1. encodeZ80Instruction(i) = encodeIncDec("dec", R16(r))
    BY EncodingOf
  <2>2. encodeIncDec("dec", R16(r)) = Encoding(1, <<Op(op)>>)
    BY <1>1, <1>2 DEF encodeIncDec, IsIndex
  <2> QED BY <2>1, <2>2
<1>4. AsDecoded(i) = Ins("dec", R16(r), None, 0)
  <2>1. i.mn = "dec" /\ i.dst = R16(r) /\ i.src = None
    BY Fields
  <2>2. Narrowed(i, R16(r)) = R16(r)
    BY <1>1, <2>1, NarrowedOperands, NarrowedValues
  <2>3. Narrowed(i, None) = None
    BY <1>1, <2>1, NarrowedOperands, NarrowedValues
  <2>4. AsDecoded(i) = Ins("dec", Narrowed(i, R16(r)), Narrowed(i, None), 0)
    BY DecodedIns
  <2> QED BY <2>2, <2>3, <2>4
<1>5. ASSUME NEW m, NEW a \in Int, At(m, a) = op PROVE Decodes(i, 1, m, a)
  <2>1. decodeInstruction(m, a) = LowPrimary(m, a, op)
    BY <1>2, <1>5, DecodePrimary DEF Byte
  <2>2. LowPrimary(m, a, op) = Decoded(Ins("dec", R16(r), None, 0), 1)
    BY <1>2, <1>5 DEF LowPrimary
  <2> QED BY <1>4, <2>1, <2>2 DEF Decodes
<1>6. \A m : \A a \in Int : (At(m, a) = op) => Decodes(i, 1, m, a)
  BY <1>5
<1> QED BY <1>2, <1>3, <1>6, RoundTripOp

LEMMA DecIndex ==
  ASSUME NEW x \in Index
  PROVE  RoundTrips(Ins("dec", R16(x), None, 0), 2)
<1> DEFINE i == Ins("dec", R16(x), None, 0)
<1>1. /\ R16(x).kind = "reg16"
      /\ R16(x).reg = x
      /\ None.kind = "none"
  BY DEF None, R16, Operand
<1>2. /\ indexPrefix[x] \in Byte
      /\ x \notin {"bc", "de", "hl", "sp", "af"}
      /\ 43 \in Byte
  BY IndexPrefixes DEF Byte
<1>3. encodeZ80Instruction(i) = Encoding(2, <<Op(indexPrefix[x]), Op(43)>>)
  <2>1. encodeZ80Instruction(i) = encodeIncDec("dec", R16(x))
    BY EncodingOf
  <2>2. encodeIncDec("dec", R16(x)) = Encoding(2, <<Op(indexPrefix[x]), Op(43)>>)
    BY <1>1, <1>2 DEF encodeIncDec, IsIndex
  <2> QED BY <2>1, <2>2
<1>4. AsDecoded(i) = Ins("dec", R16(x), None, 0)
  <2>1. i.mn = "dec" /\ i.dst = R16(x) /\ i.src = None
    BY Fields
  <2>2. Narrowed(i, R16(x)) = R16(x)
    BY <1>1, <2>1, NarrowedOperands, NarrowedValues
  <2>3. Narrowed(i, None) = None
    BY <1>1, <2>1, NarrowedOperands, NarrowedValues
  <2>4. AsDecoded(i) = Ins("dec", Narrowed(i, R16(x)), Narrowed(i, None), 0)
    BY DecodedIns
  <2> QED BY <2>2, <2>3, <2>4
<1>5. ASSUME NEW m, NEW a \in Int, At(m, a) = indexPrefix[x], At(m, a + 1) = 43 PROVE Decodes(i, 2, m, a)
  <2>1. decodeInstruction(m, a) = DdLow(m, a, 43, x)
    BY <1>2, <1>5, DecodeIndex
  <2>2. DdLow(m, a, 43, x) = Decoded(Ins("dec", R16(x), None, 0), 2)
    BY <1>2, <1>5 DEF DdLow
  <2> QED BY <1>4, <2>1, <2>2 DEF Decodes
<1>6. \A m : \A a \in Int : (At(m, a) = indexPrefix[x] /\ At(m, a + 1) = 43) => Decodes(i, 2, m, a)
  BY <1>5
<1> DEFINE p == indexPrefix[x]
<1>7. encodeZ80Instruction(i) = Encoding(2, <<Op(p), Op(43)>>) /\ p \in Byte
  BY <1>2, <1>3
<1>8. \A m : \A a \in Int : (At(m, a) = p /\ At(m, a + 1) = 43) => Decodes(i, 2, m, a)
  BY <1>6
<1> HIDE DEF p, i
<1>9. RoundTrips(i, 2)
  BY <1>2, <1>7, <1>8, RoundTripOpOp
<1> QED BY <1>9 DEF i

LEMMA DecHalf ==
  ASSUME NEW h \in Halves
  PROVE  RoundTrips(Ins("dec", Half(h), None, 0), 2)
<1> DEFINE i == Ins("dec", Half(h), None, 0)
           op == 64 * 0 + 8 * halfIndexRegisterCode[h] + 5
<1>1. /\ Half(h).kind = "half"
      /\ Half(h).reg = h
      /\ None.kind = "none"
  BY DEF Half, None, Operand
<1>2. /\ op \in Byte
      /\ Row(op) = halfIndexRegisterCode[h]
      /\ Column(op) = 5
      /\ op < 64
      /\ op = 5 + halfIndexRegisterCode[h] * 8
      /\ op \in {37, 45}
      /\ IndexOf[h] \in Index
      /\ indexPrefix[IndexOf[h]] \in Byte
  BY HalfCodes, OpcodeParts, IndexPrefixes
<1> HIDE DEF op
<1>3. encodeZ80Instruction(i) = Encoding(2, <<Op(indexPrefix[IndexOf[h]]), Op(op)>>)
  <2>1. encodeZ80Instruction(i) = encodeIncDec("dec", Half(h))
    BY EncodingOf
  <2>2. encodeIncDec("dec", Half(h)) = Encoding(2, <<Op(indexPrefix[IndexOf[h]]), Op(op)>>)
    BY <1>1, <1>2 DEF encodeIncDec, IsIndex, incDecBase
  <2> QED BY <2>1, <2>2
<1>4. AsDecoded(i) = Ins("dec", Half(h), None, 0)
  <2>1. i.mn = "dec" /\ i.dst = Half(h) /\ i.src = None
    BY Fields
  <2>2. Narrowed(i, Half(h)) = Half(h)
    BY <1>1, <2>1, NarrowedOperands, NarrowedValues
  <2>3. Narrowed(i, None) = None
    BY <1>1, <2>1, NarrowedOperands, NarrowedValues
  <2>4. AsDecoded(i) = Ins("dec", Narrowed(i, Half(h)), Narrowed(i, None), 0)
    BY DecodedIns
  <2> QED BY <2>2, <2>3, <2>4
<1>5. ASSUME NEW m, NEW a \in Int, At(m, a) = indexPrefix[IndexOf[h]], At(m, a + 1) = op PROVE Decodes(i, 2, m, a)
  <2>1. decodeInstruction(m, a) = DdLow(m, a, op, IndexOf[h])
    BY <1>2, <1>5, DecodeIndex
  <2>2. DdLow(m, a, op, IndexOf[h]) = Decoded(Ins("dec", Half(h), None, 0), 2)
    BY <1>2, <1>5, HalfCodes DEF DdLow
  <2> QED BY <1>4, <2>1, <2>2 DEF Decodes
<1>6. \A m : \A a \in Int : (At(m, a) = indexPrefix[IndexOf[h]] /\ At(m, a + 1) = op) => Decodes(i, 2, m, a)
  BY <1>5
<1> DEFINE p == indexPrefix[IndexOf[h]]
<1>7. encodeZ80Instruction(i) = Encoding(2, <<Op(p), Op(op)>>) /\ p \in Byte /\ op \in Byte
  BY <1>2, <1>3
<1>8. \A m : \A a \in Int : (At(m, a) = p /\ At(m, a + 1) = op) => Decodes(i, 2, m, a)
  BY <1>6
<1> HIDE DEF p, i
<1>9. RoundTrips(i, 2)
  BY <1>2, <1>7, <1>8, RoundTripOpOp
<1> QED BY <1>9 DEF i

LEMMA DecIndexed ==
  ASSUME NEW x \in Index, NEW d \in Int
  PROVE  RoundTrips(Ins("dec", Indexed(x, d), None, 0), 3)
<1> DEFINE i == Ins("dec", Indexed(x, d), None, 0)
<1>1. /\ Indexed(x, d).kind = "indexed"
      /\ Indexed(x, d).reg = x
      /\ Indexed(x, d).val = d
      /\ None.kind = "none"
  BY DEF Indexed, None, Operand
<1>2. /\ indexPrefix[x] \in Byte
      /\ x \notin {"bc", "de", "hl", "sp", "af"}
      /\ 53 \in Byte
  BY IndexPrefixes DEF Byte
<1>3. encodeZ80Instruction(i) = Encoding(3, <<Op(indexPrefix[x]), Op(53), D8(d)>>)
  <2>1. encodeZ80Instruction(i) = encodeIncDec("dec", Indexed(x, d))
    BY EncodingOf
  <2>2. encodeIncDec("dec", Indexed(x, d)) = Encoding(3, <<Op(indexPrefix[x]), Op(53), D8(d)>>)
    BY <1>1, <1>2 DEF encodeIncDec, IsIndex, incDecBase
  <2> QED BY <2>1, <2>2
<1>4. AsDecoded(i) = Ins("dec", Indexed(x, d), None, 0)
  <2>1. i.mn = "dec" /\ i.dst = Indexed(x, d) /\ i.src = None
    BY Fields
  <2>2. Narrowed(i, Indexed(x, d)) = Indexed(x, d)
    BY <1>1, <2>1, NarrowedOperands, NarrowedValues
  <2>3. Narrowed(i, None) = None
    BY <1>1, <2>1, NarrowedOperands, NarrowedValues
  <2>4. AsDecoded(i) = Ins("dec", Narrowed(i, Indexed(x, d)), Narrowed(i, None), 0)
    BY DecodedIns
  <2> QED BY <2>2, <2>3, <2>4
<1>5. ASSUME NEW m, NEW a \in Int, At(m, a) = indexPrefix[x], At(m, a + 1) = 53, Signed(At(m, a + 2)) = d PROVE Decodes(i, 3, m, a)
  <2>1. decodeInstruction(m, a) = DdLow(m, a, 53, x)
    BY <1>2, <1>5, DecodeIndex
  <2>2. DdLow(m, a, 53, x) = Decoded(Ins("dec", Indexed(x, d), None, 0), 3)
    BY <1>2, <1>5 DEF DdLow
  <2> QED BY <1>4, <2>1, <2>2 DEF Decodes
<1>6. \A m : \A a \in Int : (At(m, a) = indexPrefix[x] /\ At(m, a + 1) = 53 /\ Signed(At(m, a + 2)) = d) => Decodes(i, 3, m, a)
  BY <1>5
<1> DEFINE p == indexPrefix[x]
<1>7. encodeZ80Instruction(i) = Encoding(3, <<Op(p), Op(53), D8(d)>>) /\ p \in Byte
  BY <1>2, <1>3
<1>8. \A m : \A a \in Int : (At(m, a) = p /\ At(m, a + 1) = 53 /\ Signed(At(m, a + 2)) = d) => Decodes(i, 3, m, a)
  BY <1>6
<1> HIDE DEF p, i
<1>9. RoundTrips(i, 3)
  BY <1>2, <1>7, <1>8, RoundTripOpOpDisp
<1> QED BY <1>9 DEF i

AluCode == [add |-> 0, adc |-> 1, sub |-> 2, sbc |-> 3, and |-> 4, xor |-> 5, or |-> 6, cp |-> 7]
LEMMA AluCodes ==
  ASSUME NEW mn \in AluMnemonics
  PROVE  AluCode[mn] \in 0..7 /\ aluRegisterBase[mn] = 128 + 8 * AluCode[mn] /\ AluOrder[AluCode[mn] + 1] = mn /\ mn # "sls"
  BY DEF AluMnemonics, AluCode, aluRegisterBase, AluOrder

RotateCode == [rlc |-> 0, rrc |-> 1, rl |-> 2, rr |-> 3, sla |-> 4, sra |-> 5, sll |-> 6, sls |-> 6, srl |-> 7]
LEMMA RotateCodes ==
  ASSUME NEW mn \in RotateMnemonics
  PROVE  /\ RotateCode[mn] \in 0..7 /\ rotateShiftOpcodeBase[mn] = 8 * RotateCode[mn]
         /\ RotateOrder[RotateCode[mn] + 1] = IF mn = "sls" THEN "sll" ELSE mn
  BY DEF RotateMnemonics, RotateCode, rotateShiftOpcodeBase, RotateOrder

(* What the CB table says of an opcode by its parts.                               *)
LEMMA CbRow ==
  ASSUME NEW t \in 0..7, NEW s \in 0..7, NEW o, NEW dst
  PROVE  /\ CbInstruction(64 * 0 + 8 * t + s, o, dst) = Ins(RotateOrder[t + 1], dst, o, 0)
         /\ CbInstruction(64 * 1 + 8 * t + s, o, dst) = Ins("bit", None, o, t)
         /\ CbInstruction(64 * 2 + 8 * t + s, o, dst) = Ins("res", dst, o, t)
         /\ CbInstruction(64 * 3 + 8 * t + s, o, dst) = Ins("set", dst, o, t)
<1>1. /\ Row(64 * 0 + 8 * t + s) = t /\ Row(64 * 1 + 8 * t + s) = t
      /\ Row(64 * 2 + 8 * t + s) = t /\ Row(64 * 3 + 8 * t + s) = t
  BY OpcodeParts
<1>2. CbInstruction(64 * 0 + 8 * t + s, o, dst) = Ins(RotateOrder[t + 1], dst, o, 0)
  BY <1>1 DEF CbInstruction
<1>3. CbInstruction(64 * 1 + 8 * t + s, o, dst) = Ins("bit", None, o, t)
  BY <1>1 DEF CbInstruction
<1>4. CbInstruction(64 * 2 + 8 * t + s, o, dst) = Ins("res", dst, o, t)
  BY <1>1 DEF CbInstruction
<1>5. CbInstruction(64 * 3 + 8 * t + s, o, dst) = Ins("set", dst, o, t)
  BY <1>1 DEF CbInstruction
<1> QED BY <1>2, <1>3, <1>4, <1>5

LEMMA AluRegister ==
  ASSUME NEW mn \in AluMnemonics, NEW s \in Bytes8
  PROVE  RoundTrips(Ins(mn, R8("a"), R8(s), 0), 1)
<1> DEFINE i == Ins(mn, R8("a"), R8(s), 0)
           op == 64 * 2 + 8 * AluCode[mn] + register8Code[s]
<1>1. /\ R8("a").kind = "reg8"
      /\ R8("a").reg = "a"
      /\ R8(s).kind = "reg8"
      /\ R8(s).reg = s
  BY DEF R8, Operand
<1>2. /\ op \in Byte
      /\ Row(op) = AluCode[mn]
      /\ Column(op) = register8Code[s]
      /\ AluCode[mn] \in 0..7
      /\ aluRegisterBase[mn] = 128 + 8 * AluCode[mn]
      /\ AluOrder[AluCode[mn] + 1] = mn
      /\ mn # "sls"
      /\ op >= 128 /\ op < 192
      /\ op = aluRegisterBase[mn] + register8Code[s]
  BY AluCodes, RegisterCodes, OpcodeParts
<1> HIDE DEF op
<1>3. encodeZ80Instruction(i) = Encoding(1, <<Op(op)>>)
  <2>1. encodeZ80Instruction(i) = encodeAlu(mn, R8(s))
    BY EncodingOfArithmetic, <1>1
  <2>2. encodeAlu(mn, R8(s)) = Encoding(1, <<Op(op)>>)
    BY <1>1, <1>2 DEF encodeAlu
  <2> QED BY <2>1, <2>2
<1>4. AsDecoded(i) = Ins(mn, R8("a"), R8(s), 0)
  <2>1. i.mn = mn /\ i.dst = R8("a") /\ i.src = R8(s)
    BY Fields
  <2>2. Narrowed(i, R8("a")) = R8("a")
    BY <1>1, <2>1, NarrowedOperands, NarrowedValues
  <2>3. Narrowed(i, R8(s)) = R8(s)
    BY <1>1, <2>1, NarrowedOperands, NarrowedValues
  <2>4. AsDecoded(i) = Ins(mn, Narrowed(i, R8("a")), Narrowed(i, R8(s)), 0)
    BY DecodedIns, <1>2
  <2> QED BY <2>2, <2>3, <2>4
<1>5. ASSUME NEW m, NEW a \in Int, At(m, a) = op PROVE Decodes(i, 1, m, a)
  <2>1. decodeInstruction(m, a) = MatrixPrimary(op)
    BY <1>2, <1>5, DecodePrimary DEF Byte
  <2>2. MatrixPrimary(op) = Decoded(Ins(mn, R8("a"), R8(s), 0), 1)
    BY <1>2, <1>5, RegisterCodes DEF MatrixPrimary
  <2> QED BY <1>4, <2>1, <2>2 DEF Decodes
<1>6. \A m : \A a \in Int : (At(m, a) = op) => Decodes(i, 1, m, a)
  BY <1>5
<1> QED BY <1>2, <1>3, <1>6, RoundTripOp

LEMMA AluMemory ==
  ASSUME NEW mn \in AluMnemonics
  PROVE  RoundTrips(Ins(mn, R8("a"), Indirect("hl"), 0), 1)
<1> DEFINE i == Ins(mn, R8("a"), Indirect("hl"), 0)
           op == 64 * 2 + 8 * AluCode[mn] + 6
<1>1. /\ R8("a").kind = "reg8"
      /\ R8("a").reg = "a"
      /\ Indirect("hl").kind = "indirect"
      /\ Indirect("hl").reg = "hl"
  BY DEF Indirect, R8, Operand
<1>2. /\ op \in Byte
      /\ Row(op) = AluCode[mn]
      /\ Column(op) = 6
      /\ AluCode[mn] \in 0..7
      /\ aluRegisterBase[mn] = 128 + 8 * AluCode[mn]
      /\ AluOrder[AluCode[mn] + 1] = mn
      /\ mn # "sls"
      /\ op >= 128 /\ op < 192
      /\ op = aluRegisterBase[mn] + 6
  BY AluCodes, RegisterCodes, OpcodeParts
<1> HIDE DEF op
<1>3. encodeZ80Instruction(i) = Encoding(1, <<Op(op)>>)
  <2>1. encodeZ80Instruction(i) = encodeAlu(mn, Indirect("hl"))
    BY EncodingOfArithmetic, <1>1
  <2>2. encodeAlu(mn, Indirect("hl")) = Encoding(1, <<Op(op)>>)
    BY <1>1, <1>2 DEF encodeAlu
  <2> QED BY <2>1, <2>2
<1>4. AsDecoded(i) = Ins(mn, R8("a"), Indirect("hl"), 0)
  <2>1. i.mn = mn /\ i.dst = R8("a") /\ i.src = Indirect("hl")
    BY Fields
  <2>2. Narrowed(i, R8("a")) = R8("a")
    BY <1>1, <2>1, NarrowedOperands, NarrowedValues
  <2>3. Narrowed(i, Indirect("hl")) = Indirect("hl")
    BY <1>1, <2>1, NarrowedOperands, NarrowedValues
  <2>4. AsDecoded(i) = Ins(mn, Narrowed(i, R8("a")), Narrowed(i, Indirect("hl")), 0)
    BY DecodedIns, <1>2
  <2> QED BY <2>2, <2>3, <2>4
<1>5. ASSUME NEW m, NEW a \in Int, At(m, a) = op PROVE Decodes(i, 1, m, a)
  <2>1. decodeInstruction(m, a) = MatrixPrimary(op)
    BY <1>2, <1>5, DecodePrimary DEF Byte
  <2>2. MatrixPrimary(op) = Decoded(Ins(mn, R8("a"), Indirect("hl"), 0), 1)
    BY <1>2, <1>5, MemoryOperand DEF MatrixPrimary
  <2> QED BY <1>4, <2>1, <2>2 DEF Decodes
<1>6. \A m : \A a \in Int : (At(m, a) = op) => Decodes(i, 1, m, a)
  BY <1>5
<1> QED BY <1>2, <1>3, <1>6, RoundTripOp

LEMMA AluByte ==
  ASSUME NEW mn \in AluMnemonics, NEW n \in Int
  PROVE  RoundTrips(Ins(mn, R8("a"), Imm(n), 0), 2)
<1> DEFINE i == Ins(mn, R8("a"), Imm(n), 0)
           op == 64 * 3 + 8 * AluCode[mn] + 6
<1>1. /\ R8("a").kind = "reg8"
      /\ R8("a").reg = "a"
      /\ Imm(n).kind = "imm"
      /\ Imm(n).val = n
  BY DEF Imm, R8, Operand
<1>2. /\ op \in Byte
      /\ Row(op) = AluCode[mn]
      /\ Column(op) = 6
      /\ AluCode[mn] \in 0..7
      /\ aluRegisterBase[mn] = 128 + 8 * AluCode[mn]
      /\ AluOrder[AluCode[mn] + 1] = mn
      /\ mn # "sls"
      /\ op >= 192 /\ op \notin {195, 201, 203, 205, 211, 217, 219, 221, 227, 233, 235, 237, 243, 249, 251, 253}
      /\ op = aluRegisterBase[mn] + 70
      /\ mn \notin {"jp", "call", "jr", "djnz"}
  BY AluCodes, RegisterCodes, OpcodeParts DEF AluMnemonics
<1> HIDE DEF op
<1>3. encodeZ80Instruction(i) = Encoding(2, <<Op(op), I8(n)>>)
  <2>1. encodeZ80Instruction(i) = encodeAlu(mn, Imm(n))
    BY EncodingOfArithmetic, <1>1
  <2>2. encodeAlu(mn, Imm(n)) = Encoding(2, <<Op(op), I8(n)>>)
    BY <1>1, <1>2 DEF encodeAlu
  <2> QED BY <2>1, <2>2
<1>4. AsDecoded(i) = Ins(mn, R8("a"), Imm(LowByte(n)), 0)
  <2>1. i.mn = mn /\ i.dst = R8("a") /\ i.src = Imm(n)
    BY Fields
  <2>2. Narrowed(i, R8("a")) = R8("a")
    BY <1>1, <2>1, NarrowedOperands, NarrowedValues, <1>2
  <2>3. Narrowed(i, Imm(n)) = Imm(LowByte(n))
    BY <1>1, <2>1, NarrowedOperands, NarrowedValues, <1>2
  <2>4. AsDecoded(i) = Ins(mn, Narrowed(i, R8("a")), Narrowed(i, Imm(n)), 0)
    BY DecodedIns, <1>2
  <2> QED BY <2>2, <2>3, <2>4
<1>5. ASSUME NEW m, NEW a \in Int, At(m, a) = op, At(m, a + 1) = LowByte(n) PROVE Decodes(i, 2, m, a)
  <2>1. decodeInstruction(m, a) = HighPrimary(m, a, op)
    BY <1>2, <1>5, DecodePrimary DEF Byte
  <2>2. HighPrimary(m, a, op) = Decoded(Ins(mn, R8("a"), Imm(LowByte(n)), 0), 2)
    BY <1>2, <1>5 DEF HighPrimary
  <2> QED BY <1>4, <2>1, <2>2 DEF Decodes
<1>6. \A m : \A a \in Int : (At(m, a) = op /\ At(m, a + 1) = LowByte(n)) => Decodes(i, 2, m, a)
  BY <1>5
<1> QED BY <1>2, <1>3, <1>6, RoundTripOpByte

LEMMA AluHalf ==
  ASSUME NEW mn \in AluMnemonics, NEW h \in Halves
  PROVE  RoundTrips(Ins(mn, R8("a"), Half(h), 0), 2)
<1> DEFINE i == Ins(mn, R8("a"), Half(h), 0)
           op == 64 * 2 + 8 * AluCode[mn] + halfIndexRegisterCode[h]
<1>1. /\ R8("a").kind = "reg8"
      /\ R8("a").reg = "a"
      /\ Half(h).kind = "half"
      /\ Half(h).reg = h
  BY DEF Half, R8, Operand
<1>2. /\ op \in Byte
      /\ Row(op) = AluCode[mn]
      /\ Column(op) = halfIndexRegisterCode[h]
      /\ AluCode[mn] \in 0..7
      /\ aluRegisterBase[mn] = 128 + 8 * AluCode[mn]
      /\ AluOrder[AluCode[mn] + 1] = mn
      /\ mn # "sls"
      /\ op >= 128 /\ op < 192
      /\ op = aluRegisterBase[mn] + halfIndexRegisterCode[h]
      /\ halfIndexRegisterCode[h] \in {4, 5}
      /\ IndexOf[h] \in Index
      /\ indexPrefix[IndexOf[h]] \in Byte
  BY AluCodes, RegisterCodes, OpcodeParts, HalfCodes, IndexPrefixes
<1> HIDE DEF op
<1>3. encodeZ80Instruction(i) = Encoding(2, <<Op(indexPrefix[IndexOf[h]]), Op(op)>>)
  <2>1. encodeZ80Instruction(i) = encodeAlu(mn, Half(h))
    BY EncodingOfArithmetic, <1>1
  <2>2. encodeAlu(mn, Half(h)) = Encoding(2, <<Op(indexPrefix[IndexOf[h]]), Op(op)>>)
    BY <1>1, <1>2 DEF encodeAlu
  <2> QED BY <2>1, <2>2
<1>4. AsDecoded(i) = Ins(mn, R8("a"), Half(h), 0)
  <2>1. i.mn = mn /\ i.dst = R8("a") /\ i.src = Half(h)
    BY Fields
  <2>2. Narrowed(i, R8("a")) = R8("a")
    BY <1>1, <2>1, NarrowedOperands, NarrowedValues
  <2>3. Narrowed(i, Half(h)) = Half(h)
    BY <1>1, <2>1, NarrowedOperands, NarrowedValues
  <2>4. AsDecoded(i) = Ins(mn, Narrowed(i, R8("a")), Narrowed(i, Half(h)), 0)
    BY DecodedIns, <1>2
  <2> QED BY <2>2, <2>3, <2>4
<1>5. ASSUME NEW m, NEW a \in Int, At(m, a) = indexPrefix[IndexOf[h]], At(m, a + 1) = op PROVE Decodes(i, 2, m, a)
  <2>1. decodeInstruction(m, a) = DdMatrix(m, a, op, IndexOf[h])
    BY <1>2, <1>5, DecodeIndexAlu
  <2>2. DdMatrix(m, a, op, IndexOf[h]) = Decoded(Ins(mn, R8("a"), Half(h), 0), 2)
    BY <1>2, <1>5, HalfCodes DEF DdMatrix
  <2> QED BY <1>4, <2>1, <2>2 DEF Decodes
<1>6. \A m : \A a \in Int : (At(m, a) = indexPrefix[IndexOf[h]] /\ At(m, a + 1) = op) => Decodes(i, 2, m, a)
  BY <1>5
<1> DEFINE p == indexPrefix[IndexOf[h]]
<1>7. encodeZ80Instruction(i) = Encoding(2, <<Op(p), Op(op)>>) /\ p \in Byte /\ op \in Byte
  BY <1>2, <1>3
<1>8. \A m : \A a \in Int : (At(m, a) = p /\ At(m, a + 1) = op) => Decodes(i, 2, m, a)
  BY <1>6
<1> HIDE DEF p, i
<1>9. RoundTrips(i, 2)
  BY <1>2, <1>7, <1>8, RoundTripOpOp
<1> QED BY <1>9 DEF i

LEMMA AluIndexed ==
  ASSUME NEW mn \in AluMnemonics, NEW x \in Index, NEW d \in Int
  PROVE  RoundTrips(Ins(mn, R8("a"), Indexed(x, d), 0), 3)
<1> DEFINE i == Ins(mn, R8("a"), Indexed(x, d), 0)
           op == 64 * 2 + 8 * AluCode[mn] + 6
<1>1. /\ R8("a").kind = "reg8"
      /\ R8("a").reg = "a"
      /\ Indexed(x, d).kind = "indexed"
      /\ Indexed(x, d).reg = x
      /\ Indexed(x, d).val = d
  BY DEF Indexed, R8, Operand
<1>2. /\ op \in Byte
      /\ Row(op) = AluCode[mn]
      /\ Column(op) = 6
      /\ AluCode[mn] \in 0..7
      /\ aluRegisterBase[mn] = 128 + 8 * AluCode[mn]
      /\ AluOrder[AluCode[mn] + 1] = mn
      /\ mn # "sls"
      /\ op >= 128 /\ op < 192
      /\ op = aluRegisterBase[mn] + 6
      /\ indexPrefix[x] \in Byte
  BY AluCodes, RegisterCodes, OpcodeParts, IndexPrefixes
<1> HIDE DEF op
<1>3. encodeZ80Instruction(i) = Encoding(3, <<Op(indexPrefix[x]), Op(op), D8(d)>>)
  <2>1. encodeZ80Instruction(i) = encodeAlu(mn, Indexed(x, d))
    BY EncodingOfArithmetic, <1>1
  <2>2. encodeAlu(mn, Indexed(x, d)) = Encoding(3, <<Op(indexPrefix[x]), Op(op), D8(d)>>)
    BY <1>1, <1>2 DEF encodeAlu
  <2> QED BY <2>1, <2>2
<1>4. AsDecoded(i) = Ins(mn, R8("a"), Indexed(x, d), 0)
  <2>1. i.mn = mn /\ i.dst = R8("a") /\ i.src = Indexed(x, d)
    BY Fields
  <2>2. Narrowed(i, R8("a")) = R8("a")
    BY <1>1, <2>1, NarrowedOperands, NarrowedValues
  <2>3. Narrowed(i, Indexed(x, d)) = Indexed(x, d)
    BY <1>1, <2>1, NarrowedOperands, NarrowedValues
  <2>4. AsDecoded(i) = Ins(mn, Narrowed(i, R8("a")), Narrowed(i, Indexed(x, d)), 0)
    BY DecodedIns, <1>2
  <2> QED BY <2>2, <2>3, <2>4
<1>5. ASSUME NEW m, NEW a \in Int, At(m, a) = indexPrefix[x], At(m, a + 1) = op, Signed(At(m, a + 2)) = d PROVE Decodes(i, 3, m, a)
  <2>1. decodeInstruction(m, a) = DdMatrix(m, a, op, x)
    BY <1>2, <1>5, DecodeIndexAlu
  <2>2. DdMatrix(m, a, op, x) = Decoded(Ins(mn, R8("a"), Indexed(x, d), 0), 3)
    BY <1>2, <1>5 DEF DdMatrix
  <2> QED BY <1>4, <2>1, <2>2 DEF Decodes
<1>6. \A m : \A a \in Int : (At(m, a) = indexPrefix[x] /\ At(m, a + 1) = op /\ Signed(At(m, a + 2)) = d) => Decodes(i, 3, m, a)
  BY <1>5
<1> DEFINE p == indexPrefix[x]
<1>7. encodeZ80Instruction(i) = Encoding(3, <<Op(p), Op(op), D8(d)>>) /\ p \in Byte /\ op \in Byte
  BY <1>2, <1>3
<1>8. \A m : \A a \in Int : (At(m, a) = p /\ At(m, a + 1) = op /\ Signed(At(m, a + 2)) = d) => Decodes(i, 3, m, a)
  BY <1>6
<1> HIDE DEF p, i
<1>9. RoundTrips(i, 3)
  BY <1>2, <1>7, <1>8, RoundTripOpOpDisp
<1> QED BY <1>9 DEF i

LEMMA AddPair ==
  ASSUME NEW r \in Pairs
  PROVE  RoundTrips(Ins("add", R16("hl"), R16(r), 0), 1)
<1> DEFINE i == Ins("add", R16("hl"), R16(r), 0)
           op == 64 * 0 + 8 * (2 * register16Code[r] + 1) + 1
<1>1. /\ R16("hl").kind = "reg16"
      /\ R16("hl").reg = "hl"
      /\ R16(r).kind = "reg16"
      /\ R16(r).reg = r
  BY DEF R16, Operand
<1>2. /\ op \in Byte
      /\ Row(op) = 2 * register16Code[r] + 1
      /\ Column(op) = 1
      /\ op < 64
      /\ op = 9 + register16Code[r] * 16
      /\ op \notin {0, 8, 16, 24}
      /\ "hl" \notin Index
      /\ PairOf(op) = r
      /\ Row(op) % 2 = 1
  BY PairCodes, OpcodeParts DEF Index
<1> HIDE DEF op
<1>3. encodeZ80Instruction(i) = Encoding(1, <<Op(op)>>)
  <2>1. encodeZ80Instruction(i) = encode16BitAlu("add", R16("hl").reg, R16(r).reg)
    BY EncodingOfArithmetic, <1>1 DEF AluMnemonics
  <2>2. encode16BitAlu("add", R16("hl").reg, R16(r).reg) = Encoding(1, <<Op(op)>>)
    BY <1>1, <1>2 DEF encode16BitAlu, indexedAddOpcode
  <2> QED BY <2>1, <2>2
<1>4. AsDecoded(i) = Ins("add", R16("hl"), R16(r), 0)
  <2>1. i.mn = "add" /\ i.dst = R16("hl") /\ i.src = R16(r)
    BY Fields
  <2>2. Narrowed(i, R16("hl")) = R16("hl")
    BY <1>1, <2>1, NarrowedOperands, NarrowedValues
  <2>3. Narrowed(i, R16(r)) = R16(r)
    BY <1>1, <2>1, NarrowedOperands, NarrowedValues
  <2>4. AsDecoded(i) = Ins("add", Narrowed(i, R16("hl")), Narrowed(i, R16(r)), 0)
    BY DecodedIns
  <2> QED BY <2>2, <2>3, <2>4
<1>5. ASSUME NEW m, NEW a \in Int, At(m, a) = op PROVE Decodes(i, 1, m, a)
  <2>1. decodeInstruction(m, a) = LowPrimary(m, a, op)
    BY <1>2, <1>5, DecodePrimary DEF Byte
  <2>2. LowPrimary(m, a, op) = Decoded(Ins("add", R16("hl"), R16(r), 0), 1)
    BY <1>2, <1>5 DEF LowPrimary
  <2> QED BY <1>4, <2>1, <2>2 DEF Decodes
<1>6. \A m : \A a \in Int : (At(m, a) = op) => Decodes(i, 1, m, a)
  BY <1>5
<1> QED BY <1>2, <1>3, <1>6, RoundTripOp

LEMMA AdcPair ==
  ASSUME NEW r \in Pairs
  PROVE  RoundTrips(Ins("adc", R16("hl"), R16(r), 0), 2)
<1> DEFINE i == Ins("adc", R16("hl"), R16(r), 0)
           op == 64 * 1 + 8 * (2 * register16Code[r] + 1) + 2
<1>1. /\ R16("hl").kind = "reg16"
      /\ R16("hl").reg = "hl"
      /\ R16(r).kind = "reg16"
      /\ R16(r).reg = r
  BY DEF R16, Operand
<1>2. /\ 237 \in Byte
      /\ op \in Byte
      /\ Row(op) = 2 * register16Code[r] + 1
      /\ Column(op) = 2
      /\ op >= 64 /\ op < 128
      /\ op = 74 + register16Code[r] * 16
      /\ "hl" \notin Index
      /\ PairOf(op) = r
      /\ Row(op) % 2 = 1
  BY PairCodes, OpcodeParts DEF Index, Byte
<1> HIDE DEF op
<1>3. encodeZ80Instruction(i) = Encoding(2, <<Op(237), Op(op)>>)
  <2>1. encodeZ80Instruction(i) = encode16BitAlu("adc", R16("hl").reg, R16(r).reg)
    BY EncodingOfArithmetic, <1>1 DEF AluMnemonics
  <2>2. encode16BitAlu("adc", R16("hl").reg, R16(r).reg) = Encoding(2, <<Op(237), Op(op)>>)
    BY <1>1, <1>2 DEF encode16BitAlu, indexedAddOpcode
  <2> QED BY <2>1, <2>2
<1>4. AsDecoded(i) = Ins("adc", R16("hl"), R16(r), 0)
  <2>1. i.mn = "adc" /\ i.dst = R16("hl") /\ i.src = R16(r)
    BY Fields
  <2>2. Narrowed(i, R16("hl")) = R16("hl")
    BY <1>1, <2>1, NarrowedOperands, NarrowedValues
  <2>3. Narrowed(i, R16(r)) = R16(r)
    BY <1>1, <2>1, NarrowedOperands, NarrowedValues
  <2>4. AsDecoded(i) = Ins("adc", Narrowed(i, R16("hl")), Narrowed(i, R16(r)), 0)
    BY DecodedIns
  <2> QED BY <2>2, <2>3, <2>4
<1>5. ASSUME NEW m, NEW a \in Int, At(m, a) = 237, At(m, a + 1) = op PROVE Decodes(i, 2, m, a)
  <2>1. decodeInstruction(m, a) = EdTable(m, a)
    BY <1>2, <1>5, DecodePrimary DEF Byte
  <2>2. EdTable(m, a) = Decoded(Ins("adc", R16("hl"), R16(r), 0), 2)
    BY <1>2, <1>5 DEF EdTable
  <2> QED BY <1>4, <2>1, <2>2 DEF Decodes
<1>6. \A m : \A a \in Int : (At(m, a) = 237 /\ At(m, a + 1) = op) => Decodes(i, 2, m, a)
  BY <1>5
<1> QED BY <1>2, <1>3, <1>6, RoundTripOpOp

LEMMA SbcPair ==
  ASSUME NEW r \in Pairs
  PROVE  RoundTrips(Ins("sbc", R16("hl"), R16(r), 0), 2)
<1> DEFINE i == Ins("sbc", R16("hl"), R16(r), 0)
           op == 64 * 1 + 8 * (2 * register16Code[r] + 0) + 2
<1>1. /\ R16("hl").kind = "reg16"
      /\ R16("hl").reg = "hl"
      /\ R16(r).kind = "reg16"
      /\ R16(r).reg = r
  BY DEF R16, Operand
<1>2. /\ 237 \in Byte
      /\ op \in Byte
      /\ Row(op) = 2 * register16Code[r] + 0
      /\ Column(op) = 2
      /\ op >= 64 /\ op < 128
      /\ op = 66 + register16Code[r] * 16
      /\ "hl" \notin Index
      /\ PairOf(op) = r
      /\ Row(op) % 2 = 0
  BY PairCodes, OpcodeParts DEF Index, Byte
<1> HIDE DEF op
<1>3. encodeZ80Instruction(i) = Encoding(2, <<Op(237), Op(op)>>)
  <2>1. encodeZ80Instruction(i) = encode16BitAlu("sbc", R16("hl").reg, R16(r).reg)
    BY EncodingOfArithmetic, <1>1 DEF AluMnemonics
  <2>2. encode16BitAlu("sbc", R16("hl").reg, R16(r).reg) = Encoding(2, <<Op(237), Op(op)>>)
    BY <1>1, <1>2 DEF encode16BitAlu, indexedAddOpcode
  <2> QED BY <2>1, <2>2
<1>4. AsDecoded(i) = Ins("sbc", R16("hl"), R16(r), 0)
  <2>1. i.mn = "sbc" /\ i.dst = R16("hl") /\ i.src = R16(r)
    BY Fields
  <2>2. Narrowed(i, R16("hl")) = R16("hl")
    BY <1>1, <2>1, NarrowedOperands, NarrowedValues
  <2>3. Narrowed(i, R16(r)) = R16(r)
    BY <1>1, <2>1, NarrowedOperands, NarrowedValues
  <2>4. AsDecoded(i) = Ins("sbc", Narrowed(i, R16("hl")), Narrowed(i, R16(r)), 0)
    BY DecodedIns
  <2> QED BY <2>2, <2>3, <2>4
<1>5. ASSUME NEW m, NEW a \in Int, At(m, a) = 237, At(m, a + 1) = op PROVE Decodes(i, 2, m, a)
  <2>1. decodeInstruction(m, a) = EdTable(m, a)
    BY <1>2, <1>5, DecodePrimary DEF Byte
  <2>2. EdTable(m, a) = Decoded(Ins("sbc", R16("hl"), R16(r), 0), 2)
    BY <1>2, <1>5 DEF EdTable
  <2> QED BY <1>4, <2>1, <2>2 DEF Decodes
<1>6. \A m : \A a \in Int : (At(m, a) = 237 /\ At(m, a + 1) = op) => Decodes(i, 2, m, a)
  BY <1>5
<1> QED BY <1>2, <1>3, <1>6, RoundTripOpOp

LEMMA AddIndexBc ==
  ASSUME NEW x \in Index
  PROVE  RoundTrips(Ins("add", R16(x), R16("bc"), 0), 2)
<1> DEFINE i == Ins("add", R16(x), R16("bc"), 0)
<1>1. /\ R16(x).kind = "reg16"
      /\ R16(x).reg = x
      /\ R16("bc").kind = "reg16"
      /\ R16("bc").reg = "bc"
  BY DEF R16, Operand
<1>2. /\ indexPrefix[x] \in Byte
      /\ x \notin {"bc", "de", "hl", "sp", "af"}
      /\ 9 \in Byte
      /\ PairOf(9) = "bc"
  BY IndexPrefixes DEF Byte, PairOf, PairOrder
<1>3. encodeZ80Instruction(i) = Encoding(2, <<Op(indexPrefix[x]), Op(9)>>)
  <2>1. encodeZ80Instruction(i) = encode16BitAlu("add", R16(x).reg, R16("bc").reg)
    BY EncodingOfArithmetic, <1>1 DEF AluMnemonics
  <2>2. encode16BitAlu("add", R16(x).reg, R16("bc").reg) = Encoding(2, <<Op(indexPrefix[x]), Op(9)>>)
    BY <1>1, <1>2 DEF encode16BitAlu, indexedAddOpcode
  <2> QED BY <2>1, <2>2
<1>4. AsDecoded(i) = Ins("add", R16(x), R16("bc"), 0)
  <2>1. i.mn = "add" /\ i.dst = R16(x) /\ i.src = R16("bc")
    BY Fields
  <2>2. Narrowed(i, R16(x)) = R16(x)
    BY <1>1, <2>1, NarrowedOperands, NarrowedValues
  <2>3. Narrowed(i, R16("bc")) = R16("bc")
    BY <1>1, <2>1, NarrowedOperands, NarrowedValues
  <2>4. AsDecoded(i) = Ins("add", Narrowed(i, R16(x)), Narrowed(i, R16("bc")), 0)
    BY DecodedIns
  <2> QED BY <2>2, <2>3, <2>4
<1>5. ASSUME NEW m, NEW a \in Int, At(m, a) = indexPrefix[x], At(m, a + 1) = 9 PROVE Decodes(i, 2, m, a)
  <2>1. decodeInstruction(m, a) = DdLow(m, a, 9, x)
    BY <1>2, <1>5, DecodeIndex
  <2>2. DdLow(m, a, 9, x) = Decoded(Ins("add", R16(x), R16("bc"), 0), 2)
    BY <1>2, <1>5 DEF DdLow
  <2> QED BY <1>4, <2>1, <2>2 DEF Decodes
<1>6. \A m : \A a \in Int : (At(m, a) = indexPrefix[x] /\ At(m, a + 1) = 9) => Decodes(i, 2, m, a)
  BY <1>5
<1> DEFINE p == indexPrefix[x]
<1>7. encodeZ80Instruction(i) = Encoding(2, <<Op(p), Op(9)>>) /\ p \in Byte
  BY <1>2, <1>3
<1>8. \A m : \A a \in Int : (At(m, a) = p /\ At(m, a + 1) = 9) => Decodes(i, 2, m, a)
  BY <1>6
<1> HIDE DEF p, i
<1>9. RoundTrips(i, 2)
  BY <1>2, <1>7, <1>8, RoundTripOpOp
<1> QED BY <1>9 DEF i

LEMMA AddIndexDe ==
  ASSUME NEW x \in Index
  PROVE  RoundTrips(Ins("add", R16(x), R16("de"), 0), 2)
<1> DEFINE i == Ins("add", R16(x), R16("de"), 0)
<1>1. /\ R16(x).kind = "reg16"
      /\ R16(x).reg = x
      /\ R16("de").kind = "reg16"
      /\ R16("de").reg = "de"
  BY DEF R16, Operand
<1>2. /\ indexPrefix[x] \in Byte
      /\ x \notin {"bc", "de", "hl", "sp", "af"}
      /\ 25 \in Byte
      /\ PairOf(25) = "de"
  BY IndexPrefixes DEF Byte, PairOf, PairOrder
<1>3. encodeZ80Instruction(i) = Encoding(2, <<Op(indexPrefix[x]), Op(25)>>)
  <2>1. encodeZ80Instruction(i) = encode16BitAlu("add", R16(x).reg, R16("de").reg)
    BY EncodingOfArithmetic, <1>1 DEF AluMnemonics
  <2>2. encode16BitAlu("add", R16(x).reg, R16("de").reg) = Encoding(2, <<Op(indexPrefix[x]), Op(25)>>)
    BY <1>1, <1>2 DEF encode16BitAlu, indexedAddOpcode
  <2> QED BY <2>1, <2>2
<1>4. AsDecoded(i) = Ins("add", R16(x), R16("de"), 0)
  <2>1. i.mn = "add" /\ i.dst = R16(x) /\ i.src = R16("de")
    BY Fields
  <2>2. Narrowed(i, R16(x)) = R16(x)
    BY <1>1, <2>1, NarrowedOperands, NarrowedValues
  <2>3. Narrowed(i, R16("de")) = R16("de")
    BY <1>1, <2>1, NarrowedOperands, NarrowedValues
  <2>4. AsDecoded(i) = Ins("add", Narrowed(i, R16(x)), Narrowed(i, R16("de")), 0)
    BY DecodedIns
  <2> QED BY <2>2, <2>3, <2>4
<1>5. ASSUME NEW m, NEW a \in Int, At(m, a) = indexPrefix[x], At(m, a + 1) = 25 PROVE Decodes(i, 2, m, a)
  <2>1. decodeInstruction(m, a) = DdLow(m, a, 25, x)
    BY <1>2, <1>5, DecodeIndex
  <2>2. DdLow(m, a, 25, x) = Decoded(Ins("add", R16(x), R16("de"), 0), 2)
    BY <1>2, <1>5 DEF DdLow
  <2> QED BY <1>4, <2>1, <2>2 DEF Decodes
<1>6. \A m : \A a \in Int : (At(m, a) = indexPrefix[x] /\ At(m, a + 1) = 25) => Decodes(i, 2, m, a)
  BY <1>5
<1> DEFINE p == indexPrefix[x]
<1>7. encodeZ80Instruction(i) = Encoding(2, <<Op(p), Op(25)>>) /\ p \in Byte
  BY <1>2, <1>3
<1>8. \A m : \A a \in Int : (At(m, a) = p /\ At(m, a + 1) = 25) => Decodes(i, 2, m, a)
  BY <1>6
<1> HIDE DEF p, i
<1>9. RoundTrips(i, 2)
  BY <1>2, <1>7, <1>8, RoundTripOpOp
<1> QED BY <1>9 DEF i

LEMMA AddIndexSp ==
  ASSUME NEW x \in Index
  PROVE  RoundTrips(Ins("add", R16(x), R16("sp"), 0), 2)
<1> DEFINE i == Ins("add", R16(x), R16("sp"), 0)
<1>1. /\ R16(x).kind = "reg16"
      /\ R16(x).reg = x
      /\ R16("sp").kind = "reg16"
      /\ R16("sp").reg = "sp"
  BY DEF R16, Operand
<1>2. /\ indexPrefix[x] \in Byte
      /\ x \notin {"bc", "de", "hl", "sp", "af"}
      /\ 57 \in Byte
      /\ PairOf(57) = "sp"
  BY IndexPrefixes DEF Byte, PairOf, PairOrder
<1>3. encodeZ80Instruction(i) = Encoding(2, <<Op(indexPrefix[x]), Op(57)>>)
  <2>1. encodeZ80Instruction(i) = encode16BitAlu("add", R16(x).reg, R16("sp").reg)
    BY EncodingOfArithmetic, <1>1 DEF AluMnemonics
  <2>2. encode16BitAlu("add", R16(x).reg, R16("sp").reg) = Encoding(2, <<Op(indexPrefix[x]), Op(57)>>)
    BY <1>1, <1>2 DEF encode16BitAlu, indexedAddOpcode
  <2> QED BY <2>1, <2>2
<1>4. AsDecoded(i) = Ins("add", R16(x), R16("sp"), 0)
  <2>1. i.mn = "add" /\ i.dst = R16(x) /\ i.src = R16("sp")
    BY Fields
  <2>2. Narrowed(i, R16(x)) = R16(x)
    BY <1>1, <2>1, NarrowedOperands, NarrowedValues
  <2>3. Narrowed(i, R16("sp")) = R16("sp")
    BY <1>1, <2>1, NarrowedOperands, NarrowedValues
  <2>4. AsDecoded(i) = Ins("add", Narrowed(i, R16(x)), Narrowed(i, R16("sp")), 0)
    BY DecodedIns
  <2> QED BY <2>2, <2>3, <2>4
<1>5. ASSUME NEW m, NEW a \in Int, At(m, a) = indexPrefix[x], At(m, a + 1) = 57 PROVE Decodes(i, 2, m, a)
  <2>1. decodeInstruction(m, a) = DdLow(m, a, 57, x)
    BY <1>2, <1>5, DecodeIndex
  <2>2. DdLow(m, a, 57, x) = Decoded(Ins("add", R16(x), R16("sp"), 0), 2)
    BY <1>2, <1>5 DEF DdLow
  <2> QED BY <1>4, <2>1, <2>2 DEF Decodes
<1>6. \A m : \A a \in Int : (At(m, a) = indexPrefix[x] /\ At(m, a + 1) = 57) => Decodes(i, 2, m, a)
  BY <1>5
<1> DEFINE p == indexPrefix[x]
<1>7. encodeZ80Instruction(i) = Encoding(2, <<Op(p), Op(57)>>) /\ p \in Byte
  BY <1>2, <1>3
<1>8. \A m : \A a \in Int : (At(m, a) = p /\ At(m, a + 1) = 57) => Decodes(i, 2, m, a)
  BY <1>6
<1> HIDE DEF p, i
<1>9. RoundTrips(i, 2)
  BY <1>2, <1>7, <1>8, RoundTripOpOp
<1> QED BY <1>9 DEF i

LEMMA AddIndexIndex ==
  ASSUME NEW x \in Index
  PROVE  RoundTrips(Ins("add", R16(x), R16(x), 0), 2)
<1> DEFINE i == Ins("add", R16(x), R16(x), 0)
<1>1. /\ R16(x).kind = "reg16"
      /\ R16(x).reg = x
  BY DEF R16, Operand
<1>2. /\ indexPrefix[x] \in Byte
      /\ x \notin {"bc", "de", "hl", "sp", "af"}
      /\ 41 \in Byte
      /\ PairOf(41) = "hl"
  BY IndexPrefixes DEF Byte, PairOf, PairOrder
<1>3. encodeZ80Instruction(i) = Encoding(2, <<Op(indexPrefix[x]), Op(41)>>)
  <2>1. encodeZ80Instruction(i) = encode16BitAlu("add", R16(x).reg, R16(x).reg)
    BY EncodingOfArithmetic, <1>1 DEF AluMnemonics
  <2>2. encode16BitAlu("add", R16(x).reg, R16(x).reg) = Encoding(2, <<Op(indexPrefix[x]), Op(41)>>)
    BY <1>1, <1>2 DEF encode16BitAlu, indexedAddOpcode
  <2> QED BY <2>1, <2>2
<1>4. AsDecoded(i) = Ins("add", R16(x), R16(x), 0)
  <2>1. i.mn = "add" /\ i.dst = R16(x) /\ i.src = R16(x)
    BY Fields
  <2>2. Narrowed(i, R16(x)) = R16(x)
    BY <1>1, <2>1, NarrowedOperands, NarrowedValues
  <2>3. Narrowed(i, R16(x)) = R16(x)
    BY <1>1, <2>1, NarrowedOperands, NarrowedValues
  <2>4. AsDecoded(i) = Ins("add", Narrowed(i, R16(x)), Narrowed(i, R16(x)), 0)
    BY DecodedIns
  <2> QED BY <2>2, <2>3, <2>4
<1>5. ASSUME NEW m, NEW a \in Int, At(m, a) = indexPrefix[x], At(m, a + 1) = 41 PROVE Decodes(i, 2, m, a)
  <2>1. decodeInstruction(m, a) = DdLow(m, a, 41, x)
    BY <1>2, <1>5, DecodeIndex
  <2>2. DdLow(m, a, 41, x) = Decoded(Ins("add", R16(x), R16(x), 0), 2)
    BY <1>2, <1>5 DEF DdLow
  <2> QED BY <1>4, <2>1, <2>2 DEF Decodes
<1>6. \A m : \A a \in Int : (At(m, a) = indexPrefix[x] /\ At(m, a + 1) = 41) => Decodes(i, 2, m, a)
  BY <1>5
<1> DEFINE p == indexPrefix[x]
<1>7. encodeZ80Instruction(i) = Encoding(2, <<Op(p), Op(41)>>) /\ p \in Byte
  BY <1>2, <1>3
<1>8. \A m : \A a \in Int : (At(m, a) = p /\ At(m, a + 1) = 41) => Decodes(i, 2, m, a)
  BY <1>6
<1> HIDE DEF p, i
<1>9. RoundTrips(i, 2)
  BY <1>2, <1>7, <1>8, RoundTripOpOp
<1> QED BY <1>9 DEF i

LEMMA BitRegister ==
  ASSUME NEW k \in 0..7, NEW s \in Bytes8
  PROVE  RoundTrips(Ins("bit", None, R8(s), k), 2)
<1> DEFINE i == Ins("bit", None, R8(s), k)
           op == 64 * 1 + 8 * k + register8Code[s]
<1>1. /\ None.kind = "none"
      /\ R8(s).kind = "reg8"
      /\ R8(s).reg = s
  BY DEF None, R8, Operand
<1>2. /\ 203 \in Byte
      /\ op \in Byte
      /\ Row(op) = k
      /\ Column(op) = register8Code[s]
      /\ op = 64 + k * 8 + register8Code[s]
      /\ CbInstruction(op, R8(s), None) = Ins("bit", None, R8(s), k)
  BY RegisterCodes, OpcodeParts, CbRow DEF Byte
<1> HIDE DEF op
<1>3. encodeZ80Instruction(i) = Encoding(2, <<Op(203), Op(op)>>)
  <2>1. encodeZ80Instruction(i) = encodeBitLike(Ins("bit", None, R8(s), k))
    BY EncodingOf
  <2>2. encodeBitLike(Ins("bit", None, R8(s), k)) = Encoding(2, <<Op(203), Op(op)>>)
    BY <1>1, <1>2, Fields DEF encodeBitLike, bitLikeOpcodeBase, cbInstruction, cbOperandCode
  <2> QED BY <2>1, <2>2
<1>4. AsDecoded(i) = Ins("bit", None, R8(s), k)
  <2>1. i.mn = "bit" /\ i.dst = None /\ i.src = R8(s)
    BY Fields
  <2>2. Narrowed(i, None) = None
    BY <1>1, <2>1, NarrowedOperands, NarrowedValues
  <2>3. Narrowed(i, R8(s)) = R8(s)
    BY <1>1, <2>1, NarrowedOperands, NarrowedValues
  <2>4. AsDecoded(i) = Ins("bit", Narrowed(i, None), Narrowed(i, R8(s)), k)
    BY DecodedIns, <1>2
  <2> QED BY <2>2, <2>3, <2>4
<1>5. ASSUME NEW m, NEW a \in Int, At(m, a) = 203, At(m, a + 1) = op PROVE Decodes(i, 2, m, a)
  <2>1. decodeInstruction(m, a) = CbTable(m, a)
    BY <1>2, <1>5, DecodePrimary DEF Byte
  <2>2. CbTable(m, a) = Decoded(Ins("bit", None, R8(s), k), 2)
    BY <1>2, <1>5, RegisterCodes DEF CbTable
  <2> QED BY <1>4, <2>1, <2>2 DEF Decodes
<1>6. \A m : \A a \in Int : (At(m, a) = 203 /\ At(m, a + 1) = op) => Decodes(i, 2, m, a)
  BY <1>5
<1> QED BY <1>2, <1>3, <1>6, RoundTripOpOp

LEMMA ResRegister ==
  ASSUME NEW k \in 0..7, NEW s \in Bytes8
  PROVE  RoundTrips(Ins("res", None, R8(s), k), 2)
<1> DEFINE i == Ins("res", None, R8(s), k)
           op == 64 * 2 + 8 * k + register8Code[s]
<1>1. /\ None.kind = "none"
      /\ R8(s).kind = "reg8"
      /\ R8(s).reg = s
  BY DEF None, R8, Operand
<1>2. /\ 203 \in Byte
      /\ op \in Byte
      /\ Row(op) = k
      /\ Column(op) = register8Code[s]
      /\ op = 128 + k * 8 + register8Code[s]
      /\ CbInstruction(op, R8(s), None) = Ins("res", None, R8(s), k)
  BY RegisterCodes, OpcodeParts, CbRow DEF Byte
<1> HIDE DEF op
<1>3. encodeZ80Instruction(i) = Encoding(2, <<Op(203), Op(op)>>)
  <2>1. encodeZ80Instruction(i) = encodeBitLike(Ins("res", None, R8(s), k))
    BY EncodingOf
  <2>2. encodeBitLike(Ins("res", None, R8(s), k)) = Encoding(2, <<Op(203), Op(op)>>)
    BY <1>1, <1>2, Fields DEF encodeBitLike, bitLikeOpcodeBase, cbInstruction, cbOperandCode
  <2> QED BY <2>1, <2>2
<1>4. AsDecoded(i) = Ins("res", None, R8(s), k)
  <2>1. i.mn = "res" /\ i.dst = None /\ i.src = R8(s)
    BY Fields
  <2>2. Narrowed(i, None) = None
    BY <1>1, <2>1, NarrowedOperands, NarrowedValues
  <2>3. Narrowed(i, R8(s)) = R8(s)
    BY <1>1, <2>1, NarrowedOperands, NarrowedValues
  <2>4. AsDecoded(i) = Ins("res", Narrowed(i, None), Narrowed(i, R8(s)), k)
    BY DecodedIns, <1>2
  <2> QED BY <2>2, <2>3, <2>4
<1>5. ASSUME NEW m, NEW a \in Int, At(m, a) = 203, At(m, a + 1) = op PROVE Decodes(i, 2, m, a)
  <2>1. decodeInstruction(m, a) = CbTable(m, a)
    BY <1>2, <1>5, DecodePrimary DEF Byte
  <2>2. CbTable(m, a) = Decoded(Ins("res", None, R8(s), k), 2)
    BY <1>2, <1>5, RegisterCodes DEF CbTable
  <2> QED BY <1>4, <2>1, <2>2 DEF Decodes
<1>6. \A m : \A a \in Int : (At(m, a) = 203 /\ At(m, a + 1) = op) => Decodes(i, 2, m, a)
  BY <1>5
<1> QED BY <1>2, <1>3, <1>6, RoundTripOpOp

LEMMA SetRegister ==
  ASSUME NEW k \in 0..7, NEW s \in Bytes8
  PROVE  RoundTrips(Ins("set", None, R8(s), k), 2)
<1> DEFINE i == Ins("set", None, R8(s), k)
           op == 64 * 3 + 8 * k + register8Code[s]
<1>1. /\ None.kind = "none"
      /\ R8(s).kind = "reg8"
      /\ R8(s).reg = s
  BY DEF None, R8, Operand
<1>2. /\ 203 \in Byte
      /\ op \in Byte
      /\ Row(op) = k
      /\ Column(op) = register8Code[s]
      /\ op = 192 + k * 8 + register8Code[s]
      /\ CbInstruction(op, R8(s), None) = Ins("set", None, R8(s), k)
  BY RegisterCodes, OpcodeParts, CbRow DEF Byte
<1> HIDE DEF op
<1>3. encodeZ80Instruction(i) = Encoding(2, <<Op(203), Op(op)>>)
  <2>1. encodeZ80Instruction(i) = encodeBitLike(Ins("set", None, R8(s), k))
    BY EncodingOf
  <2>2. encodeBitLike(Ins("set", None, R8(s), k)) = Encoding(2, <<Op(203), Op(op)>>)
    BY <1>1, <1>2, Fields DEF encodeBitLike, bitLikeOpcodeBase, cbInstruction, cbOperandCode
  <2> QED BY <2>1, <2>2
<1>4. AsDecoded(i) = Ins("set", None, R8(s), k)
  <2>1. i.mn = "set" /\ i.dst = None /\ i.src = R8(s)
    BY Fields
  <2>2. Narrowed(i, None) = None
    BY <1>1, <2>1, NarrowedOperands, NarrowedValues
  <2>3. Narrowed(i, R8(s)) = R8(s)
    BY <1>1, <2>1, NarrowedOperands, NarrowedValues
  <2>4. AsDecoded(i) = Ins("set", Narrowed(i, None), Narrowed(i, R8(s)), k)
    BY DecodedIns, <1>2
  <2> QED BY <2>2, <2>3, <2>4
<1>5. ASSUME NEW m, NEW a \in Int, At(m, a) = 203, At(m, a + 1) = op PROVE Decodes(i, 2, m, a)
  <2>1. decodeInstruction(m, a) = CbTable(m, a)
    BY <1>2, <1>5, DecodePrimary DEF Byte
  <2>2. CbTable(m, a) = Decoded(Ins("set", None, R8(s), k), 2)
    BY <1>2, <1>5, RegisterCodes DEF CbTable
  <2> QED BY <1>4, <2>1, <2>2 DEF Decodes
<1>6. \A m : \A a \in Int : (At(m, a) = 203 /\ At(m, a + 1) = op) => Decodes(i, 2, m, a)
  BY <1>5
<1> QED BY <1>2, <1>3, <1>6, RoundTripOpOp

LEMMA RotateRegister ==
  ASSUME NEW mn \in RotateMnemonics \ {"sls"}, NEW s \in Bytes8
  PROVE  RoundTrips(Ins(mn, None, R8(s), 0), 2)
<1> DEFINE i == Ins(mn, None, R8(s), 0)
           op == 64 * 0 + 8 * RotateCode[mn] + register8Code[s]
<1>1. /\ None.kind = "none"
      /\ R8(s).kind = "reg8"
      /\ R8(s).reg = s
  BY DEF None, R8, Operand
<1>2. /\ 203 \in Byte
      /\ op \in Byte
      /\ Row(op) = RotateCode[mn]
      /\ Column(op) = register8Code[s]
      /\ op = rotateShiftOpcodeBase[mn] + register8Code[s]
      /\ CbInstruction(op, R8(s), None) = Ins(mn, None, R8(s), 0)
      /\ mn # "sls"
  BY RegisterCodes, OpcodeParts, CbRow, RotateCodes DEF Byte
<1> HIDE DEF op
<1>3. encodeZ80Instruction(i) = Encoding(2, <<Op(203), Op(op)>>)
  <2>1. encodeZ80Instruction(i) = encodeRotateShift(Ins(mn, None, R8(s), 0))
    BY EncodingOf
  <2>2. encodeRotateShift(Ins(mn, None, R8(s), 0)) = Encoding(2, <<Op(203), Op(op)>>)
    BY <1>1, <1>2, Fields DEF encodeRotateShift, cbInstruction, cbOperandCode
  <2> QED BY <2>1, <2>2
<1>4. AsDecoded(i) = Ins(mn, None, R8(s), 0)
  <2>1. i.mn = mn /\ i.dst = None /\ i.src = R8(s)
    BY Fields
  <2>2. Narrowed(i, None) = None
    BY <1>1, <2>1, NarrowedOperands, NarrowedValues
  <2>3. Narrowed(i, R8(s)) = R8(s)
    BY <1>1, <2>1, NarrowedOperands, NarrowedValues
  <2>4. AsDecoded(i) = Ins(mn, Narrowed(i, None), Narrowed(i, R8(s)), 0)
    BY DecodedIns, <1>2
  <2> QED BY <2>2, <2>3, <2>4
<1>5. ASSUME NEW m, NEW a \in Int, At(m, a) = 203, At(m, a + 1) = op PROVE Decodes(i, 2, m, a)
  <2>1. decodeInstruction(m, a) = CbTable(m, a)
    BY <1>2, <1>5, DecodePrimary DEF Byte
  <2>2. CbTable(m, a) = Decoded(Ins(mn, None, R8(s), 0), 2)
    BY <1>2, <1>5, RegisterCodes DEF CbTable
  <2> QED BY <1>4, <2>1, <2>2 DEF Decodes
<1>6. \A m : \A a \in Int : (At(m, a) = 203 /\ At(m, a + 1) = op) => Decodes(i, 2, m, a)
  BY <1>5
<1> QED BY <1>2, <1>3, <1>6, RoundTripOpOp

LEMMA SlsRegister ==
  ASSUME NEW s \in Bytes8
  PROVE  RoundTrips(Ins("sls", None, R8(s), 0), 2)
<1> DEFINE i == Ins("sls", None, R8(s), 0)
           op == 64 * 0 + 8 * RotateCode["sls"] + register8Code[s]
<1>1. /\ None.kind = "none"
      /\ R8(s).kind = "reg8"
      /\ R8(s).reg = s
  BY DEF None, R8, Operand
<1>2. /\ 203 \in Byte
      /\ op \in Byte
      /\ Row(op) = RotateCode["sls"]
      /\ Column(op) = register8Code[s]
      /\ op = rotateShiftOpcodeBase["sls"] + register8Code[s]
      /\ CbInstruction(op, R8(s), None) = Ins("sll", None, R8(s), 0)
  BY RegisterCodes, OpcodeParts, CbRow, RotateCodes DEF Byte, RotateMnemonics
<1> HIDE DEF op
<1>3. encodeZ80Instruction(i) = Encoding(2, <<Op(203), Op(op)>>)
  <2>1. encodeZ80Instruction(i) = encodeRotateShift(Ins("sls", None, R8(s), 0))
    BY EncodingOf DEF RotateMnemonics
  <2>2. encodeRotateShift(Ins("sls", None, R8(s), 0)) = Encoding(2, <<Op(203), Op(op)>>)
    BY <1>1, <1>2, Fields DEF encodeRotateShift, cbInstruction, cbOperandCode
  <2> QED BY <2>1, <2>2
<1>4. AsDecoded(i) = Ins("sll", None, R8(s), 0)
  <2>1. i.mn = "sls" /\ i.dst = None /\ i.src = R8(s)
    BY Fields
  <2>2. Narrowed(i, None) = None
    BY <1>1, <2>1, NarrowedOperands, NarrowedValues
  <2>3. Narrowed(i, R8(s)) = R8(s)
    BY <1>1, <2>1, NarrowedOperands, NarrowedValues
  <2>4. AsDecoded(i) = Ins("sll", Narrowed(i, None), Narrowed(i, R8(s)), 0)
    BY DecodedIns, <1>2
  <2> QED BY <2>2, <2>3, <2>4
<1>5. ASSUME NEW m, NEW a \in Int, At(m, a) = 203, At(m, a + 1) = op PROVE Decodes(i, 2, m, a)
  <2>1. decodeInstruction(m, a) = CbTable(m, a)
    BY <1>2, <1>5, DecodePrimary DEF Byte
  <2>2. CbTable(m, a) = Decoded(Ins("sll", None, R8(s), 0), 2)
    BY <1>2, <1>5, RegisterCodes DEF CbTable
  <2> QED BY <1>4, <2>1, <2>2 DEF Decodes
<1>6. \A m : \A a \in Int : (At(m, a) = 203 /\ At(m, a + 1) = op) => Decodes(i, 2, m, a)
  BY <1>5
<1> QED BY <1>2, <1>3, <1>6, RoundTripOpOp

LEMMA BitMemory ==
  ASSUME NEW k \in 0..7
  PROVE  RoundTrips(Ins("bit", None, Indirect("hl"), k), 2)
<1> DEFINE i == Ins("bit", None, Indirect("hl"), k)
           op == 64 * 1 + 8 * k + 6
<1>1. /\ None.kind = "none"
      /\ Indirect("hl").kind = "indirect"
      /\ Indirect("hl").reg = "hl"
  BY DEF Indirect, None, Operand
<1>2. /\ 203 \in Byte
      /\ op \in Byte
      /\ Row(op) = k
      /\ Column(op) = 6
      /\ op = 64 + k * 8 + 6
      /\ CbInstruction(op, Indirect("hl"), None) = Ins("bit", None, Indirect("hl"), k)
  BY RegisterCodes, OpcodeParts, CbRow DEF Byte
<1> HIDE DEF op
<1>3. encodeZ80Instruction(i) = Encoding(2, <<Op(203), Op(op)>>)
  <2>1. encodeZ80Instruction(i) = encodeBitLike(Ins("bit", None, Indirect("hl"), k))
    BY EncodingOf
  <2>2. encodeBitLike(Ins("bit", None, Indirect("hl"), k)) = Encoding(2, <<Op(203), Op(op)>>)
    BY <1>1, <1>2, Fields DEF encodeBitLike, bitLikeOpcodeBase, cbInstruction, cbOperandCode
  <2> QED BY <2>1, <2>2
<1>4. AsDecoded(i) = Ins("bit", None, Indirect("hl"), k)
  <2>1. i.mn = "bit" /\ i.dst = None /\ i.src = Indirect("hl")
    BY Fields
  <2>2. Narrowed(i, None) = None
    BY <1>1, <2>1, NarrowedOperands, NarrowedValues
  <2>3. Narrowed(i, Indirect("hl")) = Indirect("hl")
    BY <1>1, <2>1, NarrowedOperands, NarrowedValues
  <2>4. AsDecoded(i) = Ins("bit", Narrowed(i, None), Narrowed(i, Indirect("hl")), k)
    BY DecodedIns, <1>2
  <2> QED BY <2>2, <2>3, <2>4
<1>5. ASSUME NEW m, NEW a \in Int, At(m, a) = 203, At(m, a + 1) = op PROVE Decodes(i, 2, m, a)
  <2>1. decodeInstruction(m, a) = CbTable(m, a)
    BY <1>2, <1>5, DecodePrimary DEF Byte
  <2>2. CbTable(m, a) = Decoded(Ins("bit", None, Indirect("hl"), k), 2)
    BY <1>2, <1>5, MemoryOperand DEF CbTable
  <2> QED BY <1>4, <2>1, <2>2 DEF Decodes
<1>6. \A m : \A a \in Int : (At(m, a) = 203 /\ At(m, a + 1) = op) => Decodes(i, 2, m, a)
  BY <1>5
<1> QED BY <1>2, <1>3, <1>6, RoundTripOpOp

LEMMA ResMemory ==
  ASSUME NEW k \in 0..7
  PROVE  RoundTrips(Ins("res", None, Indirect("hl"), k), 2)
<1> DEFINE i == Ins("res", None, Indirect("hl"), k)
           op == 64 * 2 + 8 * k + 6
<1>1. /\ None.kind = "none"
      /\ Indirect("hl").kind = "indirect"
      /\ Indirect("hl").reg = "hl"
  BY DEF Indirect, None, Operand
<1>2. /\ 203 \in Byte
      /\ op \in Byte
      /\ Row(op) = k
      /\ Column(op) = 6
      /\ op = 128 + k * 8 + 6
      /\ CbInstruction(op, Indirect("hl"), None) = Ins("res", None, Indirect("hl"), k)
  BY RegisterCodes, OpcodeParts, CbRow DEF Byte
<1> HIDE DEF op
<1>3. encodeZ80Instruction(i) = Encoding(2, <<Op(203), Op(op)>>)
  <2>1. encodeZ80Instruction(i) = encodeBitLike(Ins("res", None, Indirect("hl"), k))
    BY EncodingOf
  <2>2. encodeBitLike(Ins("res", None, Indirect("hl"), k)) = Encoding(2, <<Op(203), Op(op)>>)
    BY <1>1, <1>2, Fields DEF encodeBitLike, bitLikeOpcodeBase, cbInstruction, cbOperandCode
  <2> QED BY <2>1, <2>2
<1>4. AsDecoded(i) = Ins("res", None, Indirect("hl"), k)
  <2>1. i.mn = "res" /\ i.dst = None /\ i.src = Indirect("hl")
    BY Fields
  <2>2. Narrowed(i, None) = None
    BY <1>1, <2>1, NarrowedOperands, NarrowedValues
  <2>3. Narrowed(i, Indirect("hl")) = Indirect("hl")
    BY <1>1, <2>1, NarrowedOperands, NarrowedValues
  <2>4. AsDecoded(i) = Ins("res", Narrowed(i, None), Narrowed(i, Indirect("hl")), k)
    BY DecodedIns, <1>2
  <2> QED BY <2>2, <2>3, <2>4
<1>5. ASSUME NEW m, NEW a \in Int, At(m, a) = 203, At(m, a + 1) = op PROVE Decodes(i, 2, m, a)
  <2>1. decodeInstruction(m, a) = CbTable(m, a)
    BY <1>2, <1>5, DecodePrimary DEF Byte
  <2>2. CbTable(m, a) = Decoded(Ins("res", None, Indirect("hl"), k), 2)
    BY <1>2, <1>5, MemoryOperand DEF CbTable
  <2> QED BY <1>4, <2>1, <2>2 DEF Decodes
<1>6. \A m : \A a \in Int : (At(m, a) = 203 /\ At(m, a + 1) = op) => Decodes(i, 2, m, a)
  BY <1>5
<1> QED BY <1>2, <1>3, <1>6, RoundTripOpOp

LEMMA SetMemory ==
  ASSUME NEW k \in 0..7
  PROVE  RoundTrips(Ins("set", None, Indirect("hl"), k), 2)
<1> DEFINE i == Ins("set", None, Indirect("hl"), k)
           op == 64 * 3 + 8 * k + 6
<1>1. /\ None.kind = "none"
      /\ Indirect("hl").kind = "indirect"
      /\ Indirect("hl").reg = "hl"
  BY DEF Indirect, None, Operand
<1>2. /\ 203 \in Byte
      /\ op \in Byte
      /\ Row(op) = k
      /\ Column(op) = 6
      /\ op = 192 + k * 8 + 6
      /\ CbInstruction(op, Indirect("hl"), None) = Ins("set", None, Indirect("hl"), k)
  BY RegisterCodes, OpcodeParts, CbRow DEF Byte
<1> HIDE DEF op
<1>3. encodeZ80Instruction(i) = Encoding(2, <<Op(203), Op(op)>>)
  <2>1. encodeZ80Instruction(i) = encodeBitLike(Ins("set", None, Indirect("hl"), k))
    BY EncodingOf
  <2>2. encodeBitLike(Ins("set", None, Indirect("hl"), k)) = Encoding(2, <<Op(203), Op(op)>>)
    BY <1>1, <1>2, Fields DEF encodeBitLike, bitLikeOpcodeBase, cbInstruction, cbOperandCode
  <2> QED BY <2>1, <2>2
<1>4. AsDecoded(i) = Ins("set", None, Indirect("hl"), k)
  <2>1. i.mn = "set" /\ i.dst = None /\ i.src = Indirect("hl")
    BY Fields
  <2>2. Narrowed(i, None) = None
    BY <1>1, <2>1, NarrowedOperands, NarrowedValues
  <2>3. Narrowed(i, Indirect("hl")) = Indirect("hl")
    BY <1>1, <2>1, NarrowedOperands, NarrowedValues
  <2>4. AsDecoded(i) = Ins("set", Narrowed(i, None), Narrowed(i, Indirect("hl")), k)
    BY DecodedIns, <1>2
  <2> QED BY <2>2, <2>3, <2>4
<1>5. ASSUME NEW m, NEW a \in Int, At(m, a) = 203, At(m, a + 1) = op PROVE Decodes(i, 2, m, a)
  <2>1. decodeInstruction(m, a) = CbTable(m, a)
    BY <1>2, <1>5, DecodePrimary DEF Byte
  <2>2. CbTable(m, a) = Decoded(Ins("set", None, Indirect("hl"), k), 2)
    BY <1>2, <1>5, MemoryOperand DEF CbTable
  <2> QED BY <1>4, <2>1, <2>2 DEF Decodes
<1>6. \A m : \A a \in Int : (At(m, a) = 203 /\ At(m, a + 1) = op) => Decodes(i, 2, m, a)
  BY <1>5
<1> QED BY <1>2, <1>3, <1>6, RoundTripOpOp

LEMMA RotateMemory ==
  ASSUME NEW mn \in RotateMnemonics \ {"sls"}
  PROVE  RoundTrips(Ins(mn, None, Indirect("hl"), 0), 2)
<1> DEFINE i == Ins(mn, None, Indirect("hl"), 0)
           op == 64 * 0 + 8 * RotateCode[mn] + 6
<1>1. /\ None.kind = "none"
      /\ Indirect("hl").kind = "indirect"
      /\ Indirect("hl").reg = "hl"
  BY DEF Indirect, None, Operand
<1>2. /\ 203 \in Byte
      /\ op \in Byte
      /\ Row(op) = RotateCode[mn]
      /\ Column(op) = 6
      /\ op = rotateShiftOpcodeBase[mn] + 6
      /\ CbInstruction(op, Indirect("hl"), None) = Ins(mn, None, Indirect("hl"), 0)
      /\ mn # "sls"
  BY RegisterCodes, OpcodeParts, CbRow, RotateCodes DEF Byte
<1> HIDE DEF op
<1>3. encodeZ80Instruction(i) = Encoding(2, <<Op(203), Op(op)>>)
  <2>1. encodeZ80Instruction(i) = encodeRotateShift(Ins(mn, None, Indirect("hl"), 0))
    BY EncodingOf
  <2>2. encodeRotateShift(Ins(mn, None, Indirect("hl"), 0)) = Encoding(2, <<Op(203), Op(op)>>)
    BY <1>1, <1>2, Fields DEF encodeRotateShift, cbInstruction, cbOperandCode
  <2> QED BY <2>1, <2>2
<1>4. AsDecoded(i) = Ins(mn, None, Indirect("hl"), 0)
  <2>1. i.mn = mn /\ i.dst = None /\ i.src = Indirect("hl")
    BY Fields
  <2>2. Narrowed(i, None) = None
    BY <1>1, <2>1, NarrowedOperands, NarrowedValues
  <2>3. Narrowed(i, Indirect("hl")) = Indirect("hl")
    BY <1>1, <2>1, NarrowedOperands, NarrowedValues
  <2>4. AsDecoded(i) = Ins(mn, Narrowed(i, None), Narrowed(i, Indirect("hl")), 0)
    BY DecodedIns, <1>2
  <2> QED BY <2>2, <2>3, <2>4
<1>5. ASSUME NEW m, NEW a \in Int, At(m, a) = 203, At(m, a + 1) = op PROVE Decodes(i, 2, m, a)
  <2>1. decodeInstruction(m, a) = CbTable(m, a)
    BY <1>2, <1>5, DecodePrimary DEF Byte
  <2>2. CbTable(m, a) = Decoded(Ins(mn, None, Indirect("hl"), 0), 2)
    BY <1>2, <1>5, MemoryOperand DEF CbTable
  <2> QED BY <1>4, <2>1, <2>2 DEF Decodes
<1>6. \A m : \A a \in Int : (At(m, a) = 203 /\ At(m, a + 1) = op) => Decodes(i, 2, m, a)
  BY <1>5
<1> QED BY <1>2, <1>3, <1>6, RoundTripOpOp

LEMMA SlsMemory ==
  RoundTrips(Ins("sls", None, Indirect("hl"), 0), 2)
<1> DEFINE i == Ins("sls", None, Indirect("hl"), 0)
           op == 64 * 0 + 8 * RotateCode["sls"] + 6
<1>1. /\ None.kind = "none"
      /\ Indirect("hl").kind = "indirect"
      /\ Indirect("hl").reg = "hl"
  BY DEF Indirect, None, Operand
<1>2. /\ 203 \in Byte
      /\ op \in Byte
      /\ Row(op) = RotateCode["sls"]
      /\ Column(op) = 6
      /\ op = rotateShiftOpcodeBase["sls"] + 6
      /\ CbInstruction(op, Indirect("hl"), None) = Ins("sll", None, Indirect("hl"), 0)
  BY RegisterCodes, OpcodeParts, CbRow, RotateCodes DEF Byte, RotateMnemonics
<1> HIDE DEF op
<1>3. encodeZ80Instruction(i) = Encoding(2, <<Op(203), Op(op)>>)
  <2>1. encodeZ80Instruction(i) = encodeRotateShift(Ins("sls", None, Indirect("hl"), 0))
    BY EncodingOf DEF RotateMnemonics
  <2>2. encodeRotateShift(Ins("sls", None, Indirect("hl"), 0)) = Encoding(2, <<Op(203), Op(op)>>)
    BY <1>1, <1>2, Fields DEF encodeRotateShift, cbInstruction, cbOperandCode
  <2> QED BY <2>1, <2>2
<1>4. AsDecoded(i) = Ins("sll", None, Indirect("hl"), 0)
  <2>1. i.mn = "sls" /\ i.dst = None /\ i.src = Indirect("hl")
    BY Fields
  <2>2. Narrowed(i, None) = None
    BY <1>1, <2>1, NarrowedOperands, NarrowedValues
  <2>3. Narrowed(i, Indirect("hl")) = Indirect("hl")
    BY <1>1, <2>1, NarrowedOperands, NarrowedValues
  <2>4. AsDecoded(i) = Ins("sll", Narrowed(i, None), Narrowed(i, Indirect("hl")), 0)
    BY DecodedIns, <1>2
  <2> QED BY <2>2, <2>3, <2>4
<1>5. ASSUME NEW m, NEW a \in Int, At(m, a) = 203, At(m, a + 1) = op PROVE Decodes(i, 2, m, a)
  <2>1. decodeInstruction(m, a) = CbTable(m, a)
    BY <1>2, <1>5, DecodePrimary DEF Byte
  <2>2. CbTable(m, a) = Decoded(Ins("sll", None, Indirect("hl"), 0), 2)
    BY <1>2, <1>5, MemoryOperand DEF CbTable
  <2> QED BY <1>4, <2>1, <2>2 DEF Decodes
<1>6. \A m : \A a \in Int : (At(m, a) = 203 /\ At(m, a + 1) = op) => Decodes(i, 2, m, a)
  BY <1>5
<1> QED BY <1>2, <1>3, <1>6, RoundTripOpOp

LEMMA BitIndexed ==
  ASSUME NEW k \in 0..7, NEW x \in Index, NEW d \in Int
  PROVE  RoundTrips(Ins("bit", None, Indexed(x, d), k), 4)
<1> DEFINE i == Ins("bit", None, Indexed(x, d), k)
           op == 64 * 1 + 8 * k + 6
<1>1. /\ None.kind = "none"
      /\ Indexed(x, d).kind = "indexed"
      /\ Indexed(x, d).reg = x
      /\ Indexed(x, d).val = d
  BY DEF Indexed, None, Operand
<1>2. /\ 203 \in Byte
      /\ indexPrefix[x] \in Byte
      /\ op \in Byte
      /\ Row(op) = k
      /\ Column(op) = 6
      /\ op = 64 + k * 8 + 6
      /\ CbInstruction(op, Indexed(x, d), None) = Ins("bit", None, Indexed(x, d), k)
  BY RegisterCodes, OpcodeParts, CbRow, IndexPrefixes DEF Byte
<1> HIDE DEF op
<1>3. encodeZ80Instruction(i) = Encoding(4, <<Op(indexPrefix[x]), Op(203), D8(d), Op(op)>>)
  <2>1. encodeZ80Instruction(i) = encodeBitLike(Ins("bit", None, Indexed(x, d), k))
    BY EncodingOf
  <2>2. encodeBitLike(Ins("bit", None, Indexed(x, d), k)) = Encoding(4, <<Op(indexPrefix[x]), Op(203), D8(d), Op(op)>>)
    BY <1>1, <1>2, Fields DEF encodeBitLike, bitLikeOpcodeBase, cbInstruction, cbOperandCode
  <2> QED BY <2>1, <2>2
<1>4. AsDecoded(i) = Ins("bit", None, Indexed(x, d), k)
  <2>1. i.mn = "bit" /\ i.dst = None /\ i.src = Indexed(x, d)
    BY Fields
  <2>2. Narrowed(i, None) = None
    BY <1>1, <2>1, NarrowedOperands, NarrowedValues
  <2>3. Narrowed(i, Indexed(x, d)) = Indexed(x, d)
    BY <1>1, <2>1, NarrowedOperands, NarrowedValues
  <2>4. AsDecoded(i) = Ins("bit", Narrowed(i, None), Narrowed(i, Indexed(x, d)), k)
    BY DecodedIns, <1>2
  <2> QED BY <2>2, <2>3, <2>4
<1>5. ASSUME NEW m, NEW a \in Int, At(m, a) = indexPrefix[x], At(m, a + 1) = 203, Signed(At(m, a + 2)) = d, At(m, a + 3) = op PROVE Decodes(i, 4, m, a)
  <2>1. decodeInstruction(m, a) = DdHigh(m, a, 203, x)
    BY <1>2, <1>5, DecodeDdcb
  <2>2. DdHigh(m, a, 203, x) = Decoded(Ins("bit", None, Indexed(x, d), k), 4)
    BY <1>2, <1>5 DEF DdHigh, DdcbTable
  <2> QED BY <1>4, <2>1, <2>2 DEF Decodes
<1>6. \A m : \A a \in Int : (At(m, a) = indexPrefix[x] /\ At(m, a + 1) = 203 /\ Signed(At(m, a + 2)) = d /\ At(m, a + 3) = op) => Decodes(i, 4, m, a)
  BY <1>5
<1> DEFINE p == indexPrefix[x]
<1>7. encodeZ80Instruction(i) = Encoding(4, <<Op(p), Op(203), D8(d), Op(op)>>) /\ p \in Byte /\ op \in Byte
  BY <1>2, <1>3
<1>8. \A m : \A a \in Int : (At(m, a) = p /\ At(m, a + 1) = 203 /\ Signed(At(m, a + 2)) = d /\ At(m, a + 3) = op) => Decodes(i, 4, m, a)
  BY <1>6
<1> HIDE DEF p, i
<1>9. RoundTrips(i, 4)
  BY <1>2, <1>7, <1>8, RoundTripOpOpDispOp
<1> QED BY <1>9 DEF i

LEMMA ResIndexed ==
  ASSUME NEW k \in 0..7, NEW x \in Index, NEW d \in Int
  PROVE  RoundTrips(Ins("res", None, Indexed(x, d), k), 4)
<1> DEFINE i == Ins("res", None, Indexed(x, d), k)
           op == 64 * 2 + 8 * k + 6
<1>1. /\ None.kind = "none"
      /\ Indexed(x, d).kind = "indexed"
      /\ Indexed(x, d).reg = x
      /\ Indexed(x, d).val = d
  BY DEF Indexed, None, Operand
<1>2. /\ 203 \in Byte
      /\ indexPrefix[x] \in Byte
      /\ op \in Byte
      /\ Row(op) = k
      /\ Column(op) = 6
      /\ op = 128 + k * 8 + 6
      /\ CbInstruction(op, Indexed(x, d), None) = Ins("res", None, Indexed(x, d), k)
  BY RegisterCodes, OpcodeParts, CbRow, IndexPrefixes DEF Byte
<1> HIDE DEF op
<1>3. encodeZ80Instruction(i) = Encoding(4, <<Op(indexPrefix[x]), Op(203), D8(d), Op(op)>>)
  <2>1. encodeZ80Instruction(i) = encodeBitLike(Ins("res", None, Indexed(x, d), k))
    BY EncodingOf
  <2>2. encodeBitLike(Ins("res", None, Indexed(x, d), k)) = Encoding(4, <<Op(indexPrefix[x]), Op(203), D8(d), Op(op)>>)
    BY <1>1, <1>2, Fields DEF encodeBitLike, bitLikeOpcodeBase, cbInstruction, cbOperandCode
  <2> QED BY <2>1, <2>2
<1>4. AsDecoded(i) = Ins("res", None, Indexed(x, d), k)
  <2>1. i.mn = "res" /\ i.dst = None /\ i.src = Indexed(x, d)
    BY Fields
  <2>2. Narrowed(i, None) = None
    BY <1>1, <2>1, NarrowedOperands, NarrowedValues
  <2>3. Narrowed(i, Indexed(x, d)) = Indexed(x, d)
    BY <1>1, <2>1, NarrowedOperands, NarrowedValues
  <2>4. AsDecoded(i) = Ins("res", Narrowed(i, None), Narrowed(i, Indexed(x, d)), k)
    BY DecodedIns, <1>2
  <2> QED BY <2>2, <2>3, <2>4
<1>5. ASSUME NEW m, NEW a \in Int, At(m, a) = indexPrefix[x], At(m, a + 1) = 203, Signed(At(m, a + 2)) = d, At(m, a + 3) = op PROVE Decodes(i, 4, m, a)
  <2>1. decodeInstruction(m, a) = DdHigh(m, a, 203, x)
    BY <1>2, <1>5, DecodeDdcb
  <2>2. DdHigh(m, a, 203, x) = Decoded(Ins("res", None, Indexed(x, d), k), 4)
    BY <1>2, <1>5 DEF DdHigh, DdcbTable
  <2> QED BY <1>4, <2>1, <2>2 DEF Decodes
<1>6. \A m : \A a \in Int : (At(m, a) = indexPrefix[x] /\ At(m, a + 1) = 203 /\ Signed(At(m, a + 2)) = d /\ At(m, a + 3) = op) => Decodes(i, 4, m, a)
  BY <1>5
<1> DEFINE p == indexPrefix[x]
<1>7. encodeZ80Instruction(i) = Encoding(4, <<Op(p), Op(203), D8(d), Op(op)>>) /\ p \in Byte /\ op \in Byte
  BY <1>2, <1>3
<1>8. \A m : \A a \in Int : (At(m, a) = p /\ At(m, a + 1) = 203 /\ Signed(At(m, a + 2)) = d /\ At(m, a + 3) = op) => Decodes(i, 4, m, a)
  BY <1>6
<1> HIDE DEF p, i
<1>9. RoundTrips(i, 4)
  BY <1>2, <1>7, <1>8, RoundTripOpOpDispOp
<1> QED BY <1>9 DEF i

LEMMA SetIndexed ==
  ASSUME NEW k \in 0..7, NEW x \in Index, NEW d \in Int
  PROVE  RoundTrips(Ins("set", None, Indexed(x, d), k), 4)
<1> DEFINE i == Ins("set", None, Indexed(x, d), k)
           op == 64 * 3 + 8 * k + 6
<1>1. /\ None.kind = "none"
      /\ Indexed(x, d).kind = "indexed"
      /\ Indexed(x, d).reg = x
      /\ Indexed(x, d).val = d
  BY DEF Indexed, None, Operand
<1>2. /\ 203 \in Byte
      /\ indexPrefix[x] \in Byte
      /\ op \in Byte
      /\ Row(op) = k
      /\ Column(op) = 6
      /\ op = 192 + k * 8 + 6
      /\ CbInstruction(op, Indexed(x, d), None) = Ins("set", None, Indexed(x, d), k)
  BY RegisterCodes, OpcodeParts, CbRow, IndexPrefixes DEF Byte
<1> HIDE DEF op
<1>3. encodeZ80Instruction(i) = Encoding(4, <<Op(indexPrefix[x]), Op(203), D8(d), Op(op)>>)
  <2>1. encodeZ80Instruction(i) = encodeBitLike(Ins("set", None, Indexed(x, d), k))
    BY EncodingOf
  <2>2. encodeBitLike(Ins("set", None, Indexed(x, d), k)) = Encoding(4, <<Op(indexPrefix[x]), Op(203), D8(d), Op(op)>>)
    BY <1>1, <1>2, Fields DEF encodeBitLike, bitLikeOpcodeBase, cbInstruction, cbOperandCode
  <2> QED BY <2>1, <2>2
<1>4. AsDecoded(i) = Ins("set", None, Indexed(x, d), k)
  <2>1. i.mn = "set" /\ i.dst = None /\ i.src = Indexed(x, d)
    BY Fields
  <2>2. Narrowed(i, None) = None
    BY <1>1, <2>1, NarrowedOperands, NarrowedValues
  <2>3. Narrowed(i, Indexed(x, d)) = Indexed(x, d)
    BY <1>1, <2>1, NarrowedOperands, NarrowedValues
  <2>4. AsDecoded(i) = Ins("set", Narrowed(i, None), Narrowed(i, Indexed(x, d)), k)
    BY DecodedIns, <1>2
  <2> QED BY <2>2, <2>3, <2>4
<1>5. ASSUME NEW m, NEW a \in Int, At(m, a) = indexPrefix[x], At(m, a + 1) = 203, Signed(At(m, a + 2)) = d, At(m, a + 3) = op PROVE Decodes(i, 4, m, a)
  <2>1. decodeInstruction(m, a) = DdHigh(m, a, 203, x)
    BY <1>2, <1>5, DecodeDdcb
  <2>2. DdHigh(m, a, 203, x) = Decoded(Ins("set", None, Indexed(x, d), k), 4)
    BY <1>2, <1>5 DEF DdHigh, DdcbTable
  <2> QED BY <1>4, <2>1, <2>2 DEF Decodes
<1>6. \A m : \A a \in Int : (At(m, a) = indexPrefix[x] /\ At(m, a + 1) = 203 /\ Signed(At(m, a + 2)) = d /\ At(m, a + 3) = op) => Decodes(i, 4, m, a)
  BY <1>5
<1> DEFINE p == indexPrefix[x]
<1>7. encodeZ80Instruction(i) = Encoding(4, <<Op(p), Op(203), D8(d), Op(op)>>) /\ p \in Byte /\ op \in Byte
  BY <1>2, <1>3
<1>8. \A m : \A a \in Int : (At(m, a) = p /\ At(m, a + 1) = 203 /\ Signed(At(m, a + 2)) = d /\ At(m, a + 3) = op) => Decodes(i, 4, m, a)
  BY <1>6
<1> HIDE DEF p, i
<1>9. RoundTrips(i, 4)
  BY <1>2, <1>7, <1>8, RoundTripOpOpDispOp
<1> QED BY <1>9 DEF i

LEMMA RotateIndexed ==
  ASSUME NEW mn \in RotateMnemonics \ {"sls"}, NEW x \in Index, NEW d \in Int
  PROVE  RoundTrips(Ins(mn, None, Indexed(x, d), 0), 4)
<1> DEFINE i == Ins(mn, None, Indexed(x, d), 0)
           op == 64 * 0 + 8 * RotateCode[mn] + 6
<1>1. /\ None.kind = "none"
      /\ Indexed(x, d).kind = "indexed"
      /\ Indexed(x, d).reg = x
      /\ Indexed(x, d).val = d
  BY DEF Indexed, None, Operand
<1>2. /\ 203 \in Byte
      /\ indexPrefix[x] \in Byte
      /\ op \in Byte
      /\ Row(op) = RotateCode[mn]
      /\ Column(op) = 6
      /\ op = rotateShiftOpcodeBase[mn] + 6
      /\ CbInstruction(op, Indexed(x, d), None) = Ins(mn, None, Indexed(x, d), 0)
      /\ mn # "sls"
  BY RegisterCodes, OpcodeParts, CbRow, IndexPrefixes, RotateCodes DEF Byte
<1> HIDE DEF op
<1>3. encodeZ80Instruction(i) = Encoding(4, <<Op(indexPrefix[x]), Op(203), D8(d), Op(op)>>)
  <2>1. encodeZ80Instruction(i) = encodeRotateShift(Ins(mn, None, Indexed(x, d), 0))
    BY EncodingOf
  <2>2. encodeRotateShift(Ins(mn, None, Indexed(x, d), 0)) = Encoding(4, <<Op(indexPrefix[x]), Op(203), D8(d), Op(op)>>)
    BY <1>1, <1>2, Fields DEF encodeRotateShift, cbInstruction, cbOperandCode
  <2> QED BY <2>1, <2>2
<1>4. AsDecoded(i) = Ins(mn, None, Indexed(x, d), 0)
  <2>1. i.mn = mn /\ i.dst = None /\ i.src = Indexed(x, d)
    BY Fields
  <2>2. Narrowed(i, None) = None
    BY <1>1, <2>1, NarrowedOperands, NarrowedValues
  <2>3. Narrowed(i, Indexed(x, d)) = Indexed(x, d)
    BY <1>1, <2>1, NarrowedOperands, NarrowedValues
  <2>4. AsDecoded(i) = Ins(mn, Narrowed(i, None), Narrowed(i, Indexed(x, d)), 0)
    BY DecodedIns, <1>2
  <2> QED BY <2>2, <2>3, <2>4
<1>5. ASSUME NEW m, NEW a \in Int, At(m, a) = indexPrefix[x], At(m, a + 1) = 203, Signed(At(m, a + 2)) = d, At(m, a + 3) = op PROVE Decodes(i, 4, m, a)
  <2>1. decodeInstruction(m, a) = DdHigh(m, a, 203, x)
    BY <1>2, <1>5, DecodeDdcb
  <2>2. DdHigh(m, a, 203, x) = Decoded(Ins(mn, None, Indexed(x, d), 0), 4)
    BY <1>2, <1>5 DEF DdHigh, DdcbTable
  <2> QED BY <1>4, <2>1, <2>2 DEF Decodes
<1>6. \A m : \A a \in Int : (At(m, a) = indexPrefix[x] /\ At(m, a + 1) = 203 /\ Signed(At(m, a + 2)) = d /\ At(m, a + 3) = op) => Decodes(i, 4, m, a)
  BY <1>5
<1> DEFINE p == indexPrefix[x]
<1>7. encodeZ80Instruction(i) = Encoding(4, <<Op(p), Op(203), D8(d), Op(op)>>) /\ p \in Byte /\ op \in Byte
  BY <1>2, <1>3
<1>8. \A m : \A a \in Int : (At(m, a) = p /\ At(m, a + 1) = 203 /\ Signed(At(m, a + 2)) = d /\ At(m, a + 3) = op) => Decodes(i, 4, m, a)
  BY <1>6
<1> HIDE DEF p, i
<1>9. RoundTrips(i, 4)
  BY <1>2, <1>7, <1>8, RoundTripOpOpDispOp
<1> QED BY <1>9 DEF i

LEMMA SlsIndexed ==
  ASSUME NEW x \in Index, NEW d \in Int
  PROVE  RoundTrips(Ins("sls", None, Indexed(x, d), 0), 4)
<1> DEFINE i == Ins("sls", None, Indexed(x, d), 0)
           op == 64 * 0 + 8 * RotateCode["sls"] + 6
<1>1. /\ None.kind = "none"
      /\ Indexed(x, d).kind = "indexed"
      /\ Indexed(x, d).reg = x
      /\ Indexed(x, d).val = d
  BY DEF Indexed, None, Operand
<1>2. /\ 203 \in Byte
      /\ indexPrefix[x] \in Byte
      /\ op \in Byte
      /\ Row(op) = RotateCode["sls"]
      /\ Column(op) = 6
      /\ op = rotateShiftOpcodeBase["sls"] + 6
      /\ CbInstruction(op, Indexed(x, d), None) = Ins("sll", None, Indexed(x, d), 0)
  BY RegisterCodes, OpcodeParts, CbRow, IndexPrefixes, RotateCodes DEF Byte, RotateMnemonics
<1> HIDE DEF op
<1>3. encodeZ80Instruction(i) = Encoding(4, <<Op(indexPrefix[x]), Op(203), D8(d), Op(op)>>)
  <2>1. encodeZ80Instruction(i) = encodeRotateShift(Ins("sls", None, Indexed(x, d), 0))
    BY EncodingOf DEF RotateMnemonics
  <2>2. encodeRotateShift(Ins("sls", None, Indexed(x, d), 0)) = Encoding(4, <<Op(indexPrefix[x]), Op(203), D8(d), Op(op)>>)
    BY <1>1, <1>2, Fields DEF encodeRotateShift, cbInstruction, cbOperandCode
  <2> QED BY <2>1, <2>2
<1>4. AsDecoded(i) = Ins("sll", None, Indexed(x, d), 0)
  <2>1. i.mn = "sls" /\ i.dst = None /\ i.src = Indexed(x, d)
    BY Fields
  <2>2. Narrowed(i, None) = None
    BY <1>1, <2>1, NarrowedOperands, NarrowedValues
  <2>3. Narrowed(i, Indexed(x, d)) = Indexed(x, d)
    BY <1>1, <2>1, NarrowedOperands, NarrowedValues
  <2>4. AsDecoded(i) = Ins("sll", Narrowed(i, None), Narrowed(i, Indexed(x, d)), 0)
    BY DecodedIns, <1>2
  <2> QED BY <2>2, <2>3, <2>4
<1>5. ASSUME NEW m, NEW a \in Int, At(m, a) = indexPrefix[x], At(m, a + 1) = 203, Signed(At(m, a + 2)) = d, At(m, a + 3) = op PROVE Decodes(i, 4, m, a)
  <2>1. decodeInstruction(m, a) = DdHigh(m, a, 203, x)
    BY <1>2, <1>5, DecodeDdcb
  <2>2. DdHigh(m, a, 203, x) = Decoded(Ins("sll", None, Indexed(x, d), 0), 4)
    BY <1>2, <1>5 DEF DdHigh, DdcbTable
  <2> QED BY <1>4, <2>1, <2>2 DEF Decodes
<1>6. \A m : \A a \in Int : (At(m, a) = indexPrefix[x] /\ At(m, a + 1) = 203 /\ Signed(At(m, a + 2)) = d /\ At(m, a + 3) = op) => Decodes(i, 4, m, a)
  BY <1>5
<1> DEFINE p == indexPrefix[x]
<1>7. encodeZ80Instruction(i) = Encoding(4, <<Op(p), Op(203), D8(d), Op(op)>>) /\ p \in Byte /\ op \in Byte
  BY <1>2, <1>3
<1>8. \A m : \A a \in Int : (At(m, a) = p /\ At(m, a + 1) = 203 /\ Signed(At(m, a + 2)) = d /\ At(m, a + 3) = op) => Decodes(i, 4, m, a)
  BY <1>6
<1> HIDE DEF p, i
<1>9. RoundTrips(i, 4)
  BY <1>2, <1>7, <1>8, RoundTripOpOpDispOp
<1> QED BY <1>9 DEF i

LEMMA ResNamed ==
  ASSUME NEW k \in 0..7, NEW x \in Index, NEW d \in Int, NEW r \in Bytes8
  PROVE  RoundTrips(Ins("res", R8(r), Indexed(x, d), k), 4)
<1> DEFINE i == Ins("res", R8(r), Indexed(x, d), k)
           op == 64 * 2 + 8 * k + register8Code[r]
<1>1. /\ R8(r).kind = "reg8"
      /\ R8(r).reg = r
      /\ Indexed(x, d).kind = "indexed"
      /\ Indexed(x, d).reg = x
      /\ Indexed(x, d).val = d
      /\ None.kind = "none"
  BY DEF Indexed, None, R8, Operand
<1>2. /\ 203 \in Byte
      /\ indexPrefix[x] \in Byte
      /\ op \in Byte
      /\ Row(op) = k
      /\ Column(op) = register8Code[r]
      /\ op = 128 + k * 8 + register8Code[r]
      /\ CbInstruction(op, Indexed(x, d), R8(r)) = Ins("res", R8(r), Indexed(x, d), k)
      /\ R8(r) # None
      /\ register8Code[r] # 6
  <2>1. /\ 203 \in Byte
        /\ indexPrefix[x] \in Byte
        /\ op \in Byte
        /\ Row(op) = k
        /\ Column(op) = register8Code[r]
        /\ op = 128 + k * 8 + register8Code[r]
        /\ CbInstruction(op, Indexed(x, d), R8(r)) = Ins("res", R8(r), Indexed(x, d), k)
    BY RegisterCodes, OpcodeParts, CbRow, IndexPrefixes DEF Byte
  <2>2. /\ R8(r) # None
        /\ register8Code[r] # 6
    BY RegisterCodes, Distinct
  <2> QED BY <2>1, <2>2
<1> HIDE DEF op
<1>3. encodeZ80Instruction(i) = Encoding(4, <<Op(indexPrefix[x]), Op(203), D8(d), Op(op)>>)
  <2>1. encodeZ80Instruction(i) = encodeBitLike(Ins("res", R8(r), Indexed(x, d), k))
    BY EncodingOf
  <2>2. encodeBitLike(Ins("res", R8(r), Indexed(x, d), k)) = Encoding(4, <<Op(indexPrefix[x]), Op(203), D8(d), Op(op)>>)
    BY <1>1, <1>2, Fields DEF encodeBitLike, bitLikeOpcodeBase, cbInstruction, cbOperandCode
  <2> QED BY <2>1, <2>2
<1>4. AsDecoded(i) = Ins("res", R8(r), Indexed(x, d), k)
  <2>1. i.mn = "res" /\ i.dst = R8(r) /\ i.src = Indexed(x, d)
    BY Fields
  <2>2. Narrowed(i, R8(r)) = R8(r)
    BY <1>1, <2>1, NarrowedOperands, NarrowedValues
  <2>3. Narrowed(i, Indexed(x, d)) = Indexed(x, d)
    BY <1>1, <2>1, NarrowedOperands, NarrowedValues
  <2>4. AsDecoded(i) = Ins("res", Narrowed(i, R8(r)), Narrowed(i, Indexed(x, d)), k)
    BY DecodedIns, <1>2
  <2> QED BY <2>2, <2>3, <2>4
<1>5. ASSUME NEW m, NEW a \in Int, At(m, a) = indexPrefix[x], At(m, a + 1) = 203, Signed(At(m, a + 2)) = d, At(m, a + 3) = op PROVE Decodes(i, 4, m, a)
  <2>1. decodeInstruction(m, a) = DdHigh(m, a, 203, x)
    BY <1>2, <1>5, DecodeDdcb
  <2>2. DdHigh(m, a, 203, x) = Decoded(Ins("res", R8(r), Indexed(x, d), k), 4)
    BY <1>2, <1>5, RegisterCodes DEF DdHigh, DdcbTable
  <2> QED BY <1>4, <2>1, <2>2 DEF Decodes
<1>6. \A m : \A a \in Int : (At(m, a) = indexPrefix[x] /\ At(m, a + 1) = 203 /\ Signed(At(m, a + 2)) = d /\ At(m, a + 3) = op) => Decodes(i, 4, m, a)
  BY <1>5
<1> DEFINE p == indexPrefix[x]
<1>7. encodeZ80Instruction(i) = Encoding(4, <<Op(p), Op(203), D8(d), Op(op)>>) /\ p \in Byte /\ op \in Byte
  BY <1>2, <1>3
<1>8. \A m : \A a \in Int : (At(m, a) = p /\ At(m, a + 1) = 203 /\ Signed(At(m, a + 2)) = d /\ At(m, a + 3) = op) => Decodes(i, 4, m, a)
  BY <1>6
<1> HIDE DEF p, i
<1>9. RoundTrips(i, 4)
  BY <1>2, <1>7, <1>8, RoundTripOpOpDispOp
<1> QED BY <1>9 DEF i

LEMMA SetNamed ==
  ASSUME NEW k \in 0..7, NEW x \in Index, NEW d \in Int, NEW r \in Bytes8
  PROVE  RoundTrips(Ins("set", R8(r), Indexed(x, d), k), 4)
<1> DEFINE i == Ins("set", R8(r), Indexed(x, d), k)
           op == 64 * 3 + 8 * k + register8Code[r]
<1>1. /\ R8(r).kind = "reg8"
      /\ R8(r).reg = r
      /\ Indexed(x, d).kind = "indexed"
      /\ Indexed(x, d).reg = x
      /\ Indexed(x, d).val = d
      /\ None.kind = "none"
  BY DEF Indexed, None, R8, Operand
<1>2. /\ 203 \in Byte
      /\ indexPrefix[x] \in Byte
      /\ op \in Byte
      /\ Row(op) = k
      /\ Column(op) = register8Code[r]
      /\ op = 192 + k * 8 + register8Code[r]
      /\ CbInstruction(op, Indexed(x, d), R8(r)) = Ins("set", R8(r), Indexed(x, d), k)
      /\ R8(r) # None
      /\ register8Code[r] # 6
  <2>1. /\ 203 \in Byte
        /\ indexPrefix[x] \in Byte
        /\ op \in Byte
        /\ Row(op) = k
        /\ Column(op) = register8Code[r]
        /\ op = 192 + k * 8 + register8Code[r]
        /\ CbInstruction(op, Indexed(x, d), R8(r)) = Ins("set", R8(r), Indexed(x, d), k)
    BY RegisterCodes, OpcodeParts, CbRow, IndexPrefixes DEF Byte
  <2>2. /\ R8(r) # None
        /\ register8Code[r] # 6
    BY RegisterCodes, Distinct
  <2> QED BY <2>1, <2>2
<1> HIDE DEF op
<1>3. encodeZ80Instruction(i) = Encoding(4, <<Op(indexPrefix[x]), Op(203), D8(d), Op(op)>>)
  <2>1. encodeZ80Instruction(i) = encodeBitLike(Ins("set", R8(r), Indexed(x, d), k))
    BY EncodingOf
  <2>2. encodeBitLike(Ins("set", R8(r), Indexed(x, d), k)) = Encoding(4, <<Op(indexPrefix[x]), Op(203), D8(d), Op(op)>>)
    BY <1>1, <1>2, Fields DEF encodeBitLike, bitLikeOpcodeBase, cbInstruction, cbOperandCode
  <2> QED BY <2>1, <2>2
<1>4. AsDecoded(i) = Ins("set", R8(r), Indexed(x, d), k)
  <2>1. i.mn = "set" /\ i.dst = R8(r) /\ i.src = Indexed(x, d)
    BY Fields
  <2>2. Narrowed(i, R8(r)) = R8(r)
    BY <1>1, <2>1, NarrowedOperands, NarrowedValues
  <2>3. Narrowed(i, Indexed(x, d)) = Indexed(x, d)
    BY <1>1, <2>1, NarrowedOperands, NarrowedValues
  <2>4. AsDecoded(i) = Ins("set", Narrowed(i, R8(r)), Narrowed(i, Indexed(x, d)), k)
    BY DecodedIns, <1>2
  <2> QED BY <2>2, <2>3, <2>4
<1>5. ASSUME NEW m, NEW a \in Int, At(m, a) = indexPrefix[x], At(m, a + 1) = 203, Signed(At(m, a + 2)) = d, At(m, a + 3) = op PROVE Decodes(i, 4, m, a)
  <2>1. decodeInstruction(m, a) = DdHigh(m, a, 203, x)
    BY <1>2, <1>5, DecodeDdcb
  <2>2. DdHigh(m, a, 203, x) = Decoded(Ins("set", R8(r), Indexed(x, d), k), 4)
    BY <1>2, <1>5, RegisterCodes DEF DdHigh, DdcbTable
  <2> QED BY <1>4, <2>1, <2>2 DEF Decodes
<1>6. \A m : \A a \in Int : (At(m, a) = indexPrefix[x] /\ At(m, a + 1) = 203 /\ Signed(At(m, a + 2)) = d /\ At(m, a + 3) = op) => Decodes(i, 4, m, a)
  BY <1>5
<1> DEFINE p == indexPrefix[x]
<1>7. encodeZ80Instruction(i) = Encoding(4, <<Op(p), Op(203), D8(d), Op(op)>>) /\ p \in Byte /\ op \in Byte
  BY <1>2, <1>3
<1>8. \A m : \A a \in Int : (At(m, a) = p /\ At(m, a + 1) = 203 /\ Signed(At(m, a + 2)) = d /\ At(m, a + 3) = op) => Decodes(i, 4, m, a)
  BY <1>6
<1> HIDE DEF p, i
<1>9. RoundTrips(i, 4)
  BY <1>2, <1>7, <1>8, RoundTripOpOpDispOp
<1> QED BY <1>9 DEF i

LEMMA RotateNamed ==
  ASSUME NEW mn \in RotateMnemonics \ {"sls"}, NEW x \in Index, NEW d \in Int, NEW r \in Bytes8
  PROVE  RoundTrips(Ins(mn, R8(r), Indexed(x, d), 0), 4)
<1> DEFINE i == Ins(mn, R8(r), Indexed(x, d), 0)
           op == 64 * 0 + 8 * RotateCode[mn] + register8Code[r]
<1>1. /\ R8(r).kind = "reg8"
      /\ R8(r).reg = r
      /\ Indexed(x, d).kind = "indexed"
      /\ Indexed(x, d).reg = x
      /\ Indexed(x, d).val = d
      /\ None.kind = "none"
  BY DEF Indexed, None, R8, Operand
<1>2. /\ 203 \in Byte
      /\ indexPrefix[x] \in Byte
      /\ op \in Byte
      /\ Row(op) = RotateCode[mn]
      /\ Column(op) = register8Code[r]
      /\ op = rotateShiftOpcodeBase[mn] + register8Code[r]
      /\ CbInstruction(op, Indexed(x, d), R8(r)) = Ins(mn, R8(r), Indexed(x, d), 0)
      /\ mn # "sls"
      /\ R8(r) # None
      /\ register8Code[r] # 6
  <2>1. /\ 203 \in Byte
        /\ indexPrefix[x] \in Byte
        /\ op \in Byte
        /\ Row(op) = RotateCode[mn]
        /\ Column(op) = register8Code[r]
        /\ op = rotateShiftOpcodeBase[mn] + register8Code[r]
        /\ CbInstruction(op, Indexed(x, d), R8(r)) = Ins(mn, R8(r), Indexed(x, d), 0)
        /\ mn # "sls"
    BY RegisterCodes, OpcodeParts, CbRow, IndexPrefixes, RotateCodes DEF Byte
  <2>2. /\ R8(r) # None
        /\ register8Code[r] # 6
    BY RegisterCodes, Distinct
  <2> QED BY <2>1, <2>2
<1> HIDE DEF op
<1>3. encodeZ80Instruction(i) = Encoding(4, <<Op(indexPrefix[x]), Op(203), D8(d), Op(op)>>)
  <2>1. encodeZ80Instruction(i) = encodeRotateShift(Ins(mn, R8(r), Indexed(x, d), 0))
    BY EncodingOf
  <2>2. encodeRotateShift(Ins(mn, R8(r), Indexed(x, d), 0)) = Encoding(4, <<Op(indexPrefix[x]), Op(203), D8(d), Op(op)>>)
    BY <1>1, <1>2, Fields DEF encodeRotateShift, cbInstruction, cbOperandCode
  <2> QED BY <2>1, <2>2
<1>4. AsDecoded(i) = Ins(mn, R8(r), Indexed(x, d), 0)
  <2>1. i.mn = mn /\ i.dst = R8(r) /\ i.src = Indexed(x, d)
    BY Fields
  <2>2. Narrowed(i, R8(r)) = R8(r)
    BY <1>1, <2>1, NarrowedOperands, NarrowedValues
  <2>3. Narrowed(i, Indexed(x, d)) = Indexed(x, d)
    BY <1>1, <2>1, NarrowedOperands, NarrowedValues
  <2>4. AsDecoded(i) = Ins(mn, Narrowed(i, R8(r)), Narrowed(i, Indexed(x, d)), 0)
    BY DecodedIns, <1>2
  <2> QED BY <2>2, <2>3, <2>4
<1>5. ASSUME NEW m, NEW a \in Int, At(m, a) = indexPrefix[x], At(m, a + 1) = 203, Signed(At(m, a + 2)) = d, At(m, a + 3) = op PROVE Decodes(i, 4, m, a)
  <2>1. decodeInstruction(m, a) = DdHigh(m, a, 203, x)
    BY <1>2, <1>5, DecodeDdcb
  <2>2. DdHigh(m, a, 203, x) = Decoded(Ins(mn, R8(r), Indexed(x, d), 0), 4)
    BY <1>2, <1>5, RegisterCodes DEF DdHigh, DdcbTable
  <2> QED BY <1>4, <2>1, <2>2 DEF Decodes
<1>6. \A m : \A a \in Int : (At(m, a) = indexPrefix[x] /\ At(m, a + 1) = 203 /\ Signed(At(m, a + 2)) = d /\ At(m, a + 3) = op) => Decodes(i, 4, m, a)
  BY <1>5
<1> DEFINE p == indexPrefix[x]
<1>7. encodeZ80Instruction(i) = Encoding(4, <<Op(p), Op(203), D8(d), Op(op)>>) /\ p \in Byte /\ op \in Byte
  BY <1>2, <1>3
<1>8. \A m : \A a \in Int : (At(m, a) = p /\ At(m, a + 1) = 203 /\ Signed(At(m, a + 2)) = d /\ At(m, a + 3) = op) => Decodes(i, 4, m, a)
  BY <1>6
<1> HIDE DEF p, i
<1>9. RoundTrips(i, 4)
  BY <1>2, <1>7, <1>8, RoundTripOpOpDispOp
<1> QED BY <1>9 DEF i

LEMMA SlsNamed ==
  ASSUME NEW x \in Index, NEW d \in Int, NEW r \in Bytes8
  PROVE  RoundTrips(Ins("sls", R8(r), Indexed(x, d), 0), 4)
<1> DEFINE i == Ins("sls", R8(r), Indexed(x, d), 0)
           op == 64 * 0 + 8 * RotateCode["sls"] + register8Code[r]
<1>1. /\ R8(r).kind = "reg8"
      /\ R8(r).reg = r
      /\ Indexed(x, d).kind = "indexed"
      /\ Indexed(x, d).reg = x
      /\ Indexed(x, d).val = d
      /\ None.kind = "none"
  BY DEF Indexed, None, R8, Operand
<1>2. /\ 203 \in Byte
      /\ indexPrefix[x] \in Byte
      /\ op \in Byte
      /\ Row(op) = RotateCode["sls"]
      /\ Column(op) = register8Code[r]
      /\ op = rotateShiftOpcodeBase["sls"] + register8Code[r]
      /\ CbInstruction(op, Indexed(x, d), R8(r)) = Ins("sll", R8(r), Indexed(x, d), 0)
      /\ R8(r) # None
      /\ register8Code[r] # 6
  <2>1. /\ 203 \in Byte
        /\ indexPrefix[x] \in Byte
        /\ op \in Byte
        /\ Row(op) = RotateCode["sls"]
        /\ Column(op) = register8Code[r]
        /\ op = rotateShiftOpcodeBase["sls"] + register8Code[r]
        /\ CbInstruction(op, Indexed(x, d), R8(r)) = Ins("sll", R8(r), Indexed(x, d), 0)
    BY RegisterCodes, OpcodeParts, CbRow, IndexPrefixes, RotateCodes DEF Byte, RotateMnemonics
  <2>2. /\ R8(r) # None
        /\ register8Code[r] # 6
    BY RegisterCodes, Distinct
  <2> QED BY <2>1, <2>2
<1> HIDE DEF op
<1>3. encodeZ80Instruction(i) = Encoding(4, <<Op(indexPrefix[x]), Op(203), D8(d), Op(op)>>)
  <2>1. encodeZ80Instruction(i) = encodeRotateShift(Ins("sls", R8(r), Indexed(x, d), 0))
    BY EncodingOf DEF RotateMnemonics
  <2>2. encodeRotateShift(Ins("sls", R8(r), Indexed(x, d), 0)) = Encoding(4, <<Op(indexPrefix[x]), Op(203), D8(d), Op(op)>>)
    BY <1>1, <1>2, Fields DEF encodeRotateShift, cbInstruction, cbOperandCode
  <2> QED BY <2>1, <2>2
<1>4. AsDecoded(i) = Ins("sll", R8(r), Indexed(x, d), 0)
  <2>1. i.mn = "sls" /\ i.dst = R8(r) /\ i.src = Indexed(x, d)
    BY Fields
  <2>2. Narrowed(i, R8(r)) = R8(r)
    BY <1>1, <2>1, NarrowedOperands, NarrowedValues
  <2>3. Narrowed(i, Indexed(x, d)) = Indexed(x, d)
    BY <1>1, <2>1, NarrowedOperands, NarrowedValues
  <2>4. AsDecoded(i) = Ins("sll", Narrowed(i, R8(r)), Narrowed(i, Indexed(x, d)), 0)
    BY DecodedIns, <1>2
  <2> QED BY <2>2, <2>3, <2>4
<1>5. ASSUME NEW m, NEW a \in Int, At(m, a) = indexPrefix[x], At(m, a + 1) = 203, Signed(At(m, a + 2)) = d, At(m, a + 3) = op PROVE Decodes(i, 4, m, a)
  <2>1. decodeInstruction(m, a) = DdHigh(m, a, 203, x)
    BY <1>2, <1>5, DecodeDdcb
  <2>2. DdHigh(m, a, 203, x) = Decoded(Ins("sll", R8(r), Indexed(x, d), 0), 4)
    BY <1>2, <1>5, RegisterCodes DEF DdHigh, DdcbTable
  <2> QED BY <1>4, <2>1, <2>2 DEF Decodes
<1>6. \A m : \A a \in Int : (At(m, a) = indexPrefix[x] /\ At(m, a + 1) = 203 /\ Signed(At(m, a + 2)) = d /\ At(m, a + 3) = op) => Decodes(i, 4, m, a)
  BY <1>5
<1> DEFINE p == indexPrefix[x]
<1>7. encodeZ80Instruction(i) = Encoding(4, <<Op(p), Op(203), D8(d), Op(op)>>) /\ p \in Byte /\ op \in Byte
  BY <1>2, <1>3
<1>8. \A m : \A a \in Int : (At(m, a) = p /\ At(m, a + 1) = 203 /\ Signed(At(m, a + 2)) = d /\ At(m, a + 3) = op) => Decodes(i, 4, m, a)
  BY <1>6
<1> HIDE DEF p, i
<1>9. RoundTrips(i, 4)
  BY <1>2, <1>7, <1>8, RoundTripOpOpDispOp
<1> QED BY <1>9 DEF i

(* Opcodes of the second and third rows' columns are none of the exceptions there.  *)
LEMMA ConditionCodes ==
  ASSUME NEW k \in 1..8
  PROVE  /\ 64 * 3 + 8 * (k - 1) + 0 \notin {195, 201, 203, 205, 211, 217, 219, 221, 227, 233, 235, 237, 243, 249, 251, 253}
         /\ 64 * 3 + 8 * (k - 1) + 2 \notin {195, 201, 203, 205, 211, 217, 219, 221, 227, 233, 235, 237, 243, 249, 251, 253}
         /\ 64 * 3 + 8 * (k - 1) + 4 \notin {195, 201, 203, 205, 211, 217, 219, 221, 227, 233, 235, 237, 243, 249, 251, 253}
         /\ 64 * 3 + 8 * (k - 1) + 7 \notin {195, 201, 203, 205, 211, 217, 219, 221, 227, 233, 235, 237, 243, 249, 251, 253}
         /\ k - 1 \in 0..7 /\ k # 0
  OBVIOUS

LEMMA VectorParts ==
  ASSUME NEW n \in Vectors
  PROVE  n \in Int /\ n \div 8 \in 0..7 /\ 8 * (n \div 8) = n /\ LowByte(n) = n
  BY DEF Vectors, LowByte

LEMMA JpAlways ==
  ASSUME NEW n \in Int
  PROVE  RoundTrips(Ins("jp", None, Imm(n), 0), 3)
<1> DEFINE i == Ins("jp", None, Imm(n), 0)
<1>1. /\ None.kind = "none"
      /\ Imm(n).kind = "imm"
      /\ Imm(n).val = n
  BY DEF Imm, None, Operand
<1>2. /\ 195 \in Byte
  BY DEF Byte
<1>3. encodeZ80Instruction(i) = Encoding(3, <<Op(195), A16(n)>>)
  <2>1. encodeZ80Instruction(i) = encodeBranch(Ins("jp", None, Imm(n), 0))
    BY EncodingOfBranch
  <2>2. encodeBranch(Ins("jp", None, Imm(n), 0)) = Encoding(3, <<Op(195), A16(n)>>)
    BY <1>1, <1>2, Fields DEF encodeBranch, jumpOpcode
  <2> QED BY <2>1, <2>2
<1>4. AsDecoded(i) = Ins("jp", None, Imm(Wrapped(n)), 0)
  <2>1. i.mn = "jp" /\ i.dst = None /\ i.src = Imm(n)
    BY Fields
  <2>2. Narrowed(i, None) = None
    BY <1>1, <2>1, NarrowedOperands, NarrowedValues
  <2>3. Narrowed(i, Imm(n)) = Imm(Wrapped(n))
    BY <1>1, <2>1, NarrowedOperands, NarrowedValues
  <2>4. AsDecoded(i) = Ins("jp", Narrowed(i, None), Narrowed(i, Imm(n)), 0)
    BY DecodedIns
  <2> QED BY <2>2, <2>3, <2>4
<1>5. ASSUME NEW m, NEW a \in Int, At(m, a) = 195, WordAt(m, a + 1) = Wrapped(n) PROVE Decodes(i, 3, m, a)
  <2>1. decodeInstruction(m, a) = HighPrimary(m, a, 195)
    BY <1>2, <1>5, DecodePrimary DEF Byte
  <2>2. HighPrimary(m, a, 195) = Decoded(Ins("jp", None, Imm(Wrapped(n)), 0), 3)
    BY <1>2, <1>5 DEF HighPrimary, Column
  <2> QED BY <1>4, <2>1, <2>2 DEF Decodes
<1>6. \A m : \A a \in Int : (At(m, a) = 195 /\ WordAt(m, a + 1) = Wrapped(n)) => Decodes(i, 3, m, a)
  BY <1>5
<1> QED BY <1>2, <1>3, <1>6, RoundTripOpWord

LEMMA JpConditional ==
  ASSUME NEW n \in Int, NEW k \in 1..8
  PROVE  RoundTrips(Ins("jp", None, Imm(n), k), 3)
<1> DEFINE i == Ins("jp", None, Imm(n), k)
           op == 64 * 3 + 8 * (k - 1) + 2
<1>1. /\ None.kind = "none"
      /\ Imm(n).kind = "imm"
      /\ Imm(n).val = n
  BY DEF Imm, None, Operand
<1>2. /\ op \in Byte
      /\ Row(op) = k - 1
      /\ Column(op) = 2
      /\ op >= 192
      /\ op \notin {195, 201, 203, 205, 211, 217, 219, 221, 227, 233, 235, 237, 243, 249, 251, 253}
      /\ op = 194 + (k - 1) * 8
      /\ k # 0
      /\ k - 1 + 1 = k
  BY ConditionCodes, OpcodeParts
<1> HIDE DEF op
<1>3. encodeZ80Instruction(i) = Encoding(3, <<Op(op), A16(n)>>)
  <2>1. encodeZ80Instruction(i) = encodeBranch(Ins("jp", None, Imm(n), k))
    BY EncodingOfBranch
  <2>2. encodeBranch(Ins("jp", None, Imm(n), k)) = Encoding(3, <<Op(op), A16(n)>>)
    BY <1>1, <1>2, Fields DEF encodeBranch, jumpOpcode
  <2> QED BY <2>1, <2>2
<1>4. AsDecoded(i) = Ins("jp", None, Imm(Wrapped(n)), k)
  <2>1. i.mn = "jp" /\ i.dst = None /\ i.src = Imm(n)
    BY Fields
  <2>2. Narrowed(i, None) = None
    BY <1>1, <2>1, NarrowedOperands, NarrowedValues
  <2>3. Narrowed(i, Imm(n)) = Imm(Wrapped(n))
    BY <1>1, <2>1, NarrowedOperands, NarrowedValues
  <2>4. AsDecoded(i) = Ins("jp", Narrowed(i, None), Narrowed(i, Imm(n)), k)
    BY DecodedIns
  <2> QED BY <2>2, <2>3, <2>4
<1>5. ASSUME NEW m, NEW a \in Int, At(m, a) = op, WordAt(m, a + 1) = Wrapped(n) PROVE Decodes(i, 3, m, a)
  <2>1. decodeInstruction(m, a) = HighPrimary(m, a, op)
    BY <1>2, <1>5, DecodePrimary DEF Byte
  <2>2. HighPrimary(m, a, op) = Decoded(Ins("jp", None, Imm(Wrapped(n)), k), 3)
    BY <1>2, <1>5 DEF HighPrimary
  <2> QED BY <1>4, <2>1, <2>2 DEF Decodes
<1>6. \A m : \A a \in Int : (At(m, a) = op /\ WordAt(m, a + 1) = Wrapped(n)) => Decodes(i, 3, m, a)
  BY <1>5
<1> QED BY <1>2, <1>3, <1>6, RoundTripOpWord

LEMMA CallAlways ==
  ASSUME NEW n \in Int
  PROVE  RoundTrips(Ins("call", None, Imm(n), 0), 3)
<1> DEFINE i == Ins("call", None, Imm(n), 0)
<1>1. /\ None.kind = "none"
      /\ Imm(n).kind = "imm"
      /\ Imm(n).val = n
  BY DEF Imm, None, Operand
<1>2. /\ 205 \in Byte
  BY DEF Byte
<1>3. encodeZ80Instruction(i) = Encoding(3, <<Op(205), A16(n)>>)
  <2>1. encodeZ80Instruction(i) = encodeBranch(Ins("call", None, Imm(n), 0))
    BY EncodingOfBranch
  <2>2. encodeBranch(Ins("call", None, Imm(n), 0)) = Encoding(3, <<Op(205), A16(n)>>)
    BY <1>1, <1>2, Fields DEF encodeBranch, jumpOpcode
  <2> QED BY <2>1, <2>2
<1>4. AsDecoded(i) = Ins("call", None, Imm(Wrapped(n)), 0)
  <2>1. i.mn = "call" /\ i.dst = None /\ i.src = Imm(n)
    BY Fields
  <2>2. Narrowed(i, None) = None
    BY <1>1, <2>1, NarrowedOperands, NarrowedValues
  <2>3. Narrowed(i, Imm(n)) = Imm(Wrapped(n))
    BY <1>1, <2>1, NarrowedOperands, NarrowedValues
  <2>4. AsDecoded(i) = Ins("call", Narrowed(i, None), Narrowed(i, Imm(n)), 0)
    BY DecodedIns
  <2> QED BY <2>2, <2>3, <2>4
<1>5. ASSUME NEW m, NEW a \in Int, At(m, a) = 205, WordAt(m, a + 1) = Wrapped(n) PROVE Decodes(i, 3, m, a)
  <2>1. decodeInstruction(m, a) = HighPrimary(m, a, 205)
    BY <1>2, <1>5, DecodePrimary DEF Byte
  <2>2. HighPrimary(m, a, 205) = Decoded(Ins("call", None, Imm(Wrapped(n)), 0), 3)
    BY <1>2, <1>5 DEF HighPrimary, Column
  <2> QED BY <1>4, <2>1, <2>2 DEF Decodes
<1>6. \A m : \A a \in Int : (At(m, a) = 205 /\ WordAt(m, a + 1) = Wrapped(n)) => Decodes(i, 3, m, a)
  BY <1>5
<1> QED BY <1>2, <1>3, <1>6, RoundTripOpWord

LEMMA CallConditional ==
  ASSUME NEW n \in Int, NEW k \in 1..8
  PROVE  RoundTrips(Ins("call", None, Imm(n), k), 3)
<1> DEFINE i == Ins("call", None, Imm(n), k)
           op == 64 * 3 + 8 * (k - 1) + 4
<1>1. /\ None.kind = "none"
      /\ Imm(n).kind = "imm"
      /\ Imm(n).val = n
  BY DEF Imm, None, Operand
<1>2. /\ op \in Byte
      /\ Row(op) = k - 1
      /\ Column(op) = 4
      /\ op >= 192
      /\ op \notin {195, 201, 203, 205, 211, 217, 219, 221, 227, 233, 235, 237, 243, 249, 251, 253}
      /\ op = 196 + (k - 1) * 8
      /\ k # 0
      /\ k - 1 + 1 = k
  BY ConditionCodes, OpcodeParts
<1> HIDE DEF op
<1>3. encodeZ80Instruction(i) = Encoding(3, <<Op(op), A16(n)>>)
  <2>1. encodeZ80Instruction(i) = encodeBranch(Ins("call", None, Imm(n), k))
    BY EncodingOfBranch
  <2>2. encodeBranch(Ins("call", None, Imm(n), k)) = Encoding(3, <<Op(op), A16(n)>>)
    BY <1>1, <1>2, Fields DEF encodeBranch, jumpOpcode
  <2> QED BY <2>1, <2>2
<1>4. AsDecoded(i) = Ins("call", None, Imm(Wrapped(n)), k)
  <2>1. i.mn = "call" /\ i.dst = None /\ i.src = Imm(n)
    BY Fields
  <2>2. Narrowed(i, None) = None
    BY <1>1, <2>1, NarrowedOperands, NarrowedValues
  <2>3. Narrowed(i, Imm(n)) = Imm(Wrapped(n))
    BY <1>1, <2>1, NarrowedOperands, NarrowedValues
  <2>4. AsDecoded(i) = Ins("call", Narrowed(i, None), Narrowed(i, Imm(n)), k)
    BY DecodedIns
  <2> QED BY <2>2, <2>3, <2>4
<1>5. ASSUME NEW m, NEW a \in Int, At(m, a) = op, WordAt(m, a + 1) = Wrapped(n) PROVE Decodes(i, 3, m, a)
  <2>1. decodeInstruction(m, a) = HighPrimary(m, a, op)
    BY <1>2, <1>5, DecodePrimary DEF Byte
  <2>2. HighPrimary(m, a, op) = Decoded(Ins("call", None, Imm(Wrapped(n)), k), 3)
    BY <1>2, <1>5 DEF HighPrimary
  <2> QED BY <1>4, <2>1, <2>2 DEF Decodes
<1>6. \A m : \A a \in Int : (At(m, a) = op /\ WordAt(m, a + 1) = Wrapped(n)) => Decodes(i, 3, m, a)
  BY <1>5
<1> QED BY <1>2, <1>3, <1>6, RoundTripOpWord

LEMMA JrAlways ==
  ASSUME NEW n \in Int
  PROVE  RoundTrips(Ins("jr", None, Imm(n), 0), 2)
<1> DEFINE i == Ins("jr", None, Imm(n), 0)
<1>1. /\ None.kind = "none"
      /\ Imm(n).kind = "imm"
      /\ Imm(n).val = n
  BY DEF Imm, None, Operand
<1>2. /\ 24 \in Byte
  BY DEF Byte
<1>3. encodeZ80Instruction(i) = Encoding(2, <<Op(24), Rel(n)>>)
  <2>1. encodeZ80Instruction(i) = encodeBranch(Ins("jr", None, Imm(n), 0))
    BY EncodingOfBranch
  <2>2. encodeBranch(Ins("jr", None, Imm(n), 0)) = Encoding(2, <<Op(24), Rel(n)>>)
    BY <1>1, <1>2, Fields DEF encodeBranch, jumpOpcode
  <2> QED BY <2>1, <2>2
<1>4. AsDecoded(i) = Ins("jr", None, Imm(Wrapped(n)), 0)
  <2>1. i.mn = "jr" /\ i.dst = None /\ i.src = Imm(n)
    BY Fields
  <2>2. Narrowed(i, None) = None
    BY <1>1, <2>1, NarrowedOperands, NarrowedValues
  <2>3. Narrowed(i, Imm(n)) = Imm(Wrapped(n))
    BY <1>1, <2>1, NarrowedOperands, NarrowedValues
  <2>4. AsDecoded(i) = Ins("jr", Narrowed(i, None), Narrowed(i, Imm(n)), 0)
    BY DecodedIns
  <2> QED BY <2>2, <2>3, <2>4
<1>5. ASSUME NEW m, NEW a \in Int, At(m, a) = 24, Target(m, a) = Imm(Wrapped(n)) PROVE Decodes(i, 2, m, a)
  <2>1. decodeInstruction(m, a) = LowPrimary(m, a, 24)
    BY <1>2, <1>5, DecodePrimary DEF Byte
  <2>2. LowPrimary(m, a, 24) = Decoded(Ins("jr", None, Imm(Wrapped(n)), 0), 2)
    BY <1>2, <1>5 DEF LowPrimary
  <2> QED BY <1>4, <2>1, <2>2 DEF Decodes
<1>6. \A m : \A a \in Int : (At(m, a) = 24 /\ Target(m, a) = Imm(Wrapped(n))) => Decodes(i, 2, m, a)
  BY <1>5
<1> QED BY <1>2, <1>3, <1>6, RoundTripOpBranch

LEMMA DjnzAlways ==
  ASSUME NEW n \in Int
  PROVE  RoundTrips(Ins("djnz", None, Imm(n), 0), 2)
<1> DEFINE i == Ins("djnz", None, Imm(n), 0)
<1>1. /\ None.kind = "none"
      /\ Imm(n).kind = "imm"
      /\ Imm(n).val = n
  BY DEF Imm, None, Operand
<1>2. /\ 16 \in Byte
  BY DEF Byte
<1>3. encodeZ80Instruction(i) = Encoding(2, <<Op(16), Rel(n)>>)
  <2>1. encodeZ80Instruction(i) = encodeBranch(Ins("djnz", None, Imm(n), 0))
    BY EncodingOfBranch
  <2>2. encodeBranch(Ins("djnz", None, Imm(n), 0)) = Encoding(2, <<Op(16), Rel(n)>>)
    BY <1>1, <1>2, Fields DEF encodeBranch, jumpOpcode
  <2> QED BY <2>1, <2>2
<1>4. AsDecoded(i) = Ins("djnz", None, Imm(Wrapped(n)), 0)
  <2>1. i.mn = "djnz" /\ i.dst = None /\ i.src = Imm(n)
    BY Fields
  <2>2. Narrowed(i, None) = None
    BY <1>1, <2>1, NarrowedOperands, NarrowedValues
  <2>3. Narrowed(i, Imm(n)) = Imm(Wrapped(n))
    BY <1>1, <2>1, NarrowedOperands, NarrowedValues
  <2>4. AsDecoded(i) = Ins("djnz", Narrowed(i, None), Narrowed(i, Imm(n)), 0)
    BY DecodedIns
  <2> QED BY <2>2, <2>3, <2>4
<1>5. ASSUME NEW m, NEW a \in Int, At(m, a) = 16, Target(m, a) = Imm(Wrapped(n)) PROVE Decodes(i, 2, m, a)
  <2>1. decodeInstruction(m, a) = LowPrimary(m, a, 16)
    BY <1>2, <1>5, DecodePrimary DEF Byte
  <2>2. LowPrimary(m, a, 16) = Decoded(Ins("djnz", None, Imm(Wrapped(n)), 0), 2)
    BY <1>2, <1>5 DEF LowPrimary
  <2> QED BY <1>4, <2>1, <2>2 DEF Decodes
<1>6. \A m : \A a \in Int : (At(m, a) = 16 /\ Target(m, a) = Imm(Wrapped(n))) => Decodes(i, 2, m, a)
  BY <1>5
<1> QED BY <1>2, <1>3, <1>6, RoundTripOpBranch

LEMMA JrConditional ==
  ASSUME NEW n \in Int, NEW k \in 1..4
  PROVE  RoundTrips(Ins("jr", None, Imm(n), k), 2)
<1> DEFINE i == Ins("jr", None, Imm(n), k)
           op == 64 * 0 + 8 * (k + 3) + 0
<1>1. /\ None.kind = "none"
      /\ Imm(n).kind = "imm"
      /\ Imm(n).val = n
  BY DEF Imm, None, Operand
<1>2. /\ op \in Byte
      /\ Row(op) = k + 3
      /\ Column(op) = 0
      /\ op >= 32 /\ op < 64
      /\ op = 32 + (k - 1) * 8
      /\ k # 0
      /\ k + 3 - 3 = k
      /\ k + 3 \in 0..7
  BY OpcodeParts
<1> HIDE DEF op
<1>3. encodeZ80Instruction(i) = Encoding(2, <<Op(op), Rel(n)>>)
  <2>1. encodeZ80Instruction(i) = encodeBranch(Ins("jr", None, Imm(n), k))
    BY EncodingOfBranch
  <2>2. encodeBranch(Ins("jr", None, Imm(n), k)) = Encoding(2, <<Op(op), Rel(n)>>)
    BY <1>1, <1>2, Fields DEF encodeBranch, jumpOpcode
  <2> QED BY <2>1, <2>2
<1>4. AsDecoded(i) = Ins("jr", None, Imm(Wrapped(n)), k)
  <2>1. i.mn = "jr" /\ i.dst = None /\ i.src = Imm(n)
    BY Fields
  <2>2. Narrowed(i, None) = None
    BY <1>1, <2>1, NarrowedOperands, NarrowedValues
  <2>3. Narrowed(i, Imm(n)) = Imm(Wrapped(n))
    BY <1>1, <2>1, NarrowedOperands, NarrowedValues
  <2>4. AsDecoded(i) = Ins("jr", Narrowed(i, None), Narrowed(i, Imm(n)), k)
    BY DecodedIns
  <2> QED BY <2>2, <2>3, <2>4
<1>5. ASSUME NEW m, NEW a \in Int, At(m, a) = op, Target(m, a) = Imm(Wrapped(n)) PROVE Decodes(i, 2, m, a)
  <2>1. decodeInstruction(m, a) = LowPrimary(m, a, op)
    BY <1>2, <1>5, DecodePrimary DEF Byte
  <2>2. LowPrimary(m, a, op) = Decoded(Ins("jr", None, Imm(Wrapped(n)), k), 2)
    BY <1>2, <1>5 DEF LowPrimary
  <2> QED BY <1>4, <2>1, <2>2 DEF Decodes
<1>6. \A m : \A a \in Int : (At(m, a) = op /\ Target(m, a) = Imm(Wrapped(n))) => Decodes(i, 2, m, a)
  BY <1>5
<1> QED BY <1>2, <1>3, <1>6, RoundTripOpBranch

LEMMA JpHl ==
  RoundTrips(Ins("jp", None, R16("hl"), 0), 1)
<1> DEFINE i == Ins("jp", None, R16("hl"), 0)
<1>1. /\ None.kind = "none"
      /\ R16("hl").kind = "reg16"
      /\ R16("hl").reg = "hl"
  BY DEF None, R16, Operand
<1>2. /\ 233 \in Byte
      /\ "hl" \notin Index
  BY DEF Byte, Index
<1>3. encodeZ80Instruction(i) = Encoding(1, <<Op(233)>>)
  <2>1. encodeZ80Instruction(i) = encodeBranch(Ins("jp", None, R16("hl"), 0))
    BY EncodingOfBranch
  <2>2. encodeBranch(Ins("jp", None, R16("hl"), 0)) = Encoding(1, <<Op(233)>>)
    BY <1>1, <1>2, Fields DEF encodeBranch, jumpOpcode, IsIndex
  <2> QED BY <2>1, <2>2
<1>4. AsDecoded(i) = Ins("jp", None, R16("hl"), 0)
  <2>1. i.mn = "jp" /\ i.dst = None /\ i.src = R16("hl")
    BY Fields
  <2>2. Narrowed(i, None) = None
    BY <1>1, <2>1, NarrowedOperands, NarrowedValues
  <2>3. Narrowed(i, R16("hl")) = R16("hl")
    BY <1>1, <2>1, NarrowedOperands, NarrowedValues
  <2>4. AsDecoded(i) = Ins("jp", Narrowed(i, None), Narrowed(i, R16("hl")), 0)
    BY DecodedIns
  <2> QED BY <2>2, <2>3, <2>4
<1>5. ASSUME NEW m, NEW a \in Int, At(m, a) = 233 PROVE Decodes(i, 1, m, a)
  <2>1. decodeInstruction(m, a) = HighPrimary(m, a, 233)
    BY <1>2, <1>5, DecodePrimary DEF Byte
  <2>2. HighPrimary(m, a, 233) = Decoded(Ins("jp", None, R16("hl"), 0), 1)
    BY <1>2, <1>5 DEF HighPrimary, Column
  <2> QED BY <1>4, <2>1, <2>2 DEF Decodes
<1>6. \A m : \A a \in Int : (At(m, a) = 233) => Decodes(i, 1, m, a)
  BY <1>5
<1> QED BY <1>2, <1>3, <1>6, RoundTripOp

LEMMA JpIndex ==
  ASSUME NEW x \in Index
  PROVE  RoundTrips(Ins("jp", None, R16(x), 0), 2)
<1> DEFINE i == Ins("jp", None, R16(x), 0)
<1>1. /\ None.kind = "none"
      /\ R16(x).kind = "reg16"
      /\ R16(x).reg = x
  BY DEF None, R16, Operand
<1>2. /\ indexPrefix[x] \in Byte
      /\ x \notin {"bc", "de", "hl", "sp", "af"}
      /\ 233 \in Byte
  BY IndexPrefixes DEF Byte
<1>3. encodeZ80Instruction(i) = Encoding(2, <<Op(indexPrefix[x]), Op(233)>>)
  <2>1. encodeZ80Instruction(i) = encodeBranch(Ins("jp", None, R16(x), 0))
    BY EncodingOfBranch
  <2>2. encodeBranch(Ins("jp", None, R16(x), 0)) = Encoding(2, <<Op(indexPrefix[x]), Op(233)>>)
    BY <1>1, <1>2, Fields DEF encodeBranch, jumpOpcode, IsIndex
  <2> QED BY <2>1, <2>2
<1>4. AsDecoded(i) = Ins("jp", None, R16(x), 0)
  <2>1. i.mn = "jp" /\ i.dst = None /\ i.src = R16(x)
    BY Fields
  <2>2. Narrowed(i, None) = None
    BY <1>1, <2>1, NarrowedOperands, NarrowedValues
  <2>3. Narrowed(i, R16(x)) = R16(x)
    BY <1>1, <2>1, NarrowedOperands, NarrowedValues
  <2>4. AsDecoded(i) = Ins("jp", Narrowed(i, None), Narrowed(i, R16(x)), 0)
    BY DecodedIns
  <2> QED BY <2>2, <2>3, <2>4
<1>5. ASSUME NEW m, NEW a \in Int, At(m, a) = indexPrefix[x], At(m, a + 1) = 233 PROVE Decodes(i, 2, m, a)
  <2>1. decodeInstruction(m, a) = DdHigh(m, a, 233, x)
    BY <1>2, <1>5, DecodeIndex
  <2>2. DdHigh(m, a, 233, x) = Decoded(Ins("jp", None, R16(x), 0), 2)
    BY <1>2, <1>5 DEF DdHigh
  <2> QED BY <1>4, <2>1, <2>2 DEF Decodes
<1>6. \A m : \A a \in Int : (At(m, a) = indexPrefix[x] /\ At(m, a + 1) = 233) => Decodes(i, 2, m, a)
  BY <1>5
<1> DEFINE p == indexPrefix[x]
<1>7. encodeZ80Instruction(i) = Encoding(2, <<Op(p), Op(233)>>) /\ p \in Byte
  BY <1>2, <1>3
<1>8. \A m : \A a \in Int : (At(m, a) = p /\ At(m, a + 1) = 233) => Decodes(i, 2, m, a)
  BY <1>6
<1> HIDE DEF p, i
<1>9. RoundTrips(i, 2)
  BY <1>2, <1>7, <1>8, RoundTripOpOp
<1> QED BY <1>9 DEF i

LEMMA RetAlways ==
  RoundTrips(Ins("ret", None, None, 0), 1)
<1> DEFINE i == Ins("ret", None, None, 0)
<1>1. /\ None.kind = "none"
  BY DEF None, Operand
<1>2. /\ 201 \in Byte
  BY DEF Byte
<1>3. encodeZ80Instruction(i) = Encoding(1, <<Op(201)>>)
  <2>1. encodeZ80Instruction(i) = encodeBranch(Ins("ret", None, None, 0))
    BY EncodingOfBranch
  <2>2. encodeBranch(Ins("ret", None, None, 0)) = Encoding(1, <<Op(201)>>)
    BY <1>1, <1>2, Fields DEF encodeBranch, jumpOpcode
  <2> QED BY <2>1, <2>2
<1>4. AsDecoded(i) = Ins("ret", None, None, 0)
  <2>1. i.mn = "ret" /\ i.dst = None /\ i.src = None
    BY Fields
  <2>2. Narrowed(i, None) = None
    BY <1>1, <2>1, NarrowedOperands, NarrowedValues
  <2>3. Narrowed(i, None) = None
    BY <1>1, <2>1, NarrowedOperands, NarrowedValues
  <2>4. AsDecoded(i) = Ins("ret", Narrowed(i, None), Narrowed(i, None), 0)
    BY DecodedIns
  <2> QED BY <2>2, <2>3, <2>4
<1>5. ASSUME NEW m, NEW a \in Int, At(m, a) = 201 PROVE Decodes(i, 1, m, a)
  <2>1. decodeInstruction(m, a) = HighPrimary(m, a, 201)
    BY <1>2, <1>5, DecodePrimary DEF Byte
  <2>2. HighPrimary(m, a, 201) = Decoded(Ins("ret", None, None, 0), 1)
    BY <1>2, <1>5 DEF HighPrimary, Column, Bare
  <2> QED BY <1>4, <2>1, <2>2 DEF Decodes
<1>6. \A m : \A a \in Int : (At(m, a) = 201) => Decodes(i, 1, m, a)
  BY <1>5
<1> QED BY <1>2, <1>3, <1>6, RoundTripOp

LEMMA RetConditional ==
  ASSUME NEW k \in 1..8
  PROVE  RoundTrips(Ins("ret", None, None, k), 1)
<1> DEFINE i == Ins("ret", None, None, k)
           op == 64 * 3 + 8 * (k - 1) + 0
<1>1. /\ None.kind = "none"
  BY DEF None, Operand
<1>2. /\ op \in Byte
      /\ Row(op) = k - 1
      /\ Column(op) = 0
      /\ op >= 192
      /\ op \notin {195, 201, 203, 205, 211, 217, 219, 221, 227, 233, 235, 237, 243, 249, 251, 253}
      /\ op = 192 + (k - 1) * 8
      /\ k # 0
      /\ k - 1 + 1 = k
  BY ConditionCodes, OpcodeParts
<1> HIDE DEF op
<1>3. encodeZ80Instruction(i) = Encoding(1, <<Op(op)>>)
  <2>1. encodeZ80Instruction(i) = encodeBranch(Ins("ret", None, None, k))
    BY EncodingOfBranch
  <2>2. encodeBranch(Ins("ret", None, None, k)) = Encoding(1, <<Op(op)>>)
    BY <1>1, <1>2, Fields DEF encodeBranch, jumpOpcode
  <2> QED BY <2>1, <2>2
<1>4. AsDecoded(i) = Ins("ret", None, None, k)
  <2>1. i.mn = "ret" /\ i.dst = None /\ i.src = None
    BY Fields
  <2>2. Narrowed(i, None) = None
    BY <1>1, <2>1, NarrowedOperands, NarrowedValues
  <2>3. Narrowed(i, None) = None
    BY <1>1, <2>1, NarrowedOperands, NarrowedValues
  <2>4. AsDecoded(i) = Ins("ret", Narrowed(i, None), Narrowed(i, None), k)
    BY DecodedIns
  <2> QED BY <2>2, <2>3, <2>4
<1>5. ASSUME NEW m, NEW a \in Int, At(m, a) = op PROVE Decodes(i, 1, m, a)
  <2>1. decodeInstruction(m, a) = HighPrimary(m, a, op)
    BY <1>2, <1>5, DecodePrimary DEF Byte
  <2>2. HighPrimary(m, a, op) = Decoded(Ins("ret", None, None, k), 1)
    BY <1>2, <1>5 DEF HighPrimary
  <2> QED BY <1>4, <2>1, <2>2 DEF Decodes
<1>6. \A m : \A a \in Int : (At(m, a) = op) => Decodes(i, 1, m, a)
  BY <1>5
<1> QED BY <1>2, <1>3, <1>6, RoundTripOp

LEMMA RstVector ==
  ASSUME NEW n \in Vectors
  PROVE  RoundTrips(Ins("rst", None, Imm(n), 0), 1)
<1> DEFINE i == Ins("rst", None, Imm(n), 0)
           op == 64 * 3 + 8 * (n \div 8) + 7
<1>1. /\ None.kind = "none"
      /\ Imm(n).kind = "imm"
      /\ Imm(n).val = n
  BY DEF Imm, None, Operand
<1>2. /\ n \in Int
      /\ LowByte(n) = n
      /\ 8 * (n \div 8) = n
      /\ n \div 8 \in 0..7
      /\ op \in Byte
      /\ Row(op) = n \div 8
      /\ Column(op) = 7
      /\ op >= 192
      /\ op \notin {195, 201, 203, 205, 211, 217, 219, 221, 227, 233, 235, 237, 243, 249, 251, 253}
      /\ op = 199 + n
  <2>1. /\ n \in Int
        /\ LowByte(n) = n
        /\ 8 * (n \div 8) = n
        /\ n \div 8 \in 0..7
    BY VectorParts
  <2>2. /\ op \in Byte
        /\ Row(op) = n \div 8
        /\ Column(op) = 7
        /\ op >= 192
        /\ op \notin {195, 201, 203, 205, 211, 217, 219, 221, 227, 233, 235, 237, 243, 249, 251, 253}
        /\ op = 199 + n
    BY <2>1, OpcodeParts
  <2> QED BY <2>1, <2>2
<1> HIDE DEF op
<1>3. encodeZ80Instruction(i) = Encoding(1, <<Op(op)>>)
  <2>1. encodeZ80Instruction(i) = encodeBranch(Ins("rst", None, Imm(n), 0))
    BY EncodingOfBranch
  <2>2. encodeBranch(Ins("rst", None, Imm(n), 0)) = Encoding(1, <<Op(op)>>)
    <3>1. i.mn = "rst" /\ i.src = Imm(n) /\ Imm(n).val = n
      BY Fields, WrittenValues
    <3> HIDE DEF i
    <3>2. encodeBranch(i) = Encoding(1, <<Op(199 + n)>>)
      BY <3>1, Zenon DEF encodeBranch
    <3> QED BY <1>2, <3>2 DEF i
  <2> QED BY <2>1, <2>2
<1>4. AsDecoded(i) = Ins("rst", None, Imm(n), 0)
  <2>1. i.mn = "rst" /\ i.dst = None /\ i.src = Imm(n)
    BY Fields
  <2>2. Narrowed(i, None) = None
    BY NarrowedOperands
  <2>3. Narrowed(i, Imm(n)) = Imm(n)
    BY <1>1, <2>1, NarrowedOperands, NarrowedValues, <1>2
  <2>4. AsDecoded(i) = Ins("rst", Narrowed(i, None), Narrowed(i, Imm(n)), 0)
    BY DecodedIns
  <2> QED BY <2>2, <2>3, <2>4
<1>5. ASSUME NEW m, NEW a \in Int, At(m, a) = op PROVE Decodes(i, 1, m, a)
  <2>1. decodeInstruction(m, a) = HighPrimary(m, a, op)
    BY <1>2, <1>5, DecodePrimary DEF Byte
  <2>2. HighPrimary(m, a, op) = Decoded(Ins("rst", None, Imm(n), 0), 1)
    BY <1>2, <1>5 DEF HighPrimary
  <2> QED BY <1>4, <2>1, <2>2 DEF Decodes
<1>6. \A m : \A a \in Int : (At(m, a) = op) => Decodes(i, 1, m, a)
  BY <1>5
<1> QED BY <1>2, <1>3, <1>6, RoundTripOp

LEMMA Im0 ==
  RoundTrips(Ins("im", None, None, 0), 2)
<1> DEFINE i == Ins("im", None, None, 0)
<1>1. /\ None.kind = "none"
  BY DEF None, Operand
<1>2. /\ 237 \in Byte
      /\ 70 \in Byte
  BY DEF Byte
<1>3. encodeZ80Instruction(i) = Encoding(2, <<Op(237), Op(70)>>)
  <2>1. encodeZ80Instruction(i) = Encoding(2, <<Op(237), Op(imOpcode[0 + 1])>>)
    BY EncodingOfIm
  <2>2. Encoding(2, <<Op(237), Op(imOpcode[0 + 1])>>) = Encoding(2, <<Op(237), Op(70)>>)
    BY <1>1, <1>2 DEF imOpcode
  <2> QED BY <2>1, <2>2
<1>4. AsDecoded(i) = Ins("im", None, None, 0)
  <2>1. i.mn = "im" /\ i.dst = None /\ i.src = None
    BY Fields
  <2>2. Narrowed(i, None) = None
    BY <1>1, <2>1, NarrowedOperands, NarrowedValues
  <2>3. Narrowed(i, None) = None
    BY <1>1, <2>1, NarrowedOperands, NarrowedValues
  <2>4. AsDecoded(i) = Ins("im", Narrowed(i, None), Narrowed(i, None), 0)
    BY DecodedIns
  <2> QED BY <2>2, <2>3, <2>4
<1>5. ASSUME NEW m, NEW a \in Int, At(m, a) = 237, At(m, a + 1) = 70 PROVE Decodes(i, 2, m, a)
  <2>1. decodeInstruction(m, a) = EdTable(m, a)
    BY <1>2, <1>5, DecodePrimary DEF Byte
  <2>2. EdTable(m, a) = Decoded(Ins("im", None, None, 0), 2)
    BY <1>2, <1>5 DEF EdTable, Column, Row
  <2> QED BY <1>4, <2>1, <2>2 DEF Decodes
<1>6. \A m : \A a \in Int : (At(m, a) = 237 /\ At(m, a + 1) = 70) => Decodes(i, 2, m, a)
  BY <1>5
<1> QED BY <1>2, <1>3, <1>6, RoundTripOpOp

LEMMA Im1 ==
  RoundTrips(Ins("im", None, None, 1), 2)
<1> DEFINE i == Ins("im", None, None, 1)
<1>1. /\ None.kind = "none"
  BY DEF None, Operand
<1>2. /\ 237 \in Byte
      /\ 86 \in Byte
  BY DEF Byte
<1>3. encodeZ80Instruction(i) = Encoding(2, <<Op(237), Op(86)>>)
  <2>1. encodeZ80Instruction(i) = Encoding(2, <<Op(237), Op(imOpcode[1 + 1])>>)
    BY EncodingOfIm
  <2>2. Encoding(2, <<Op(237), Op(imOpcode[1 + 1])>>) = Encoding(2, <<Op(237), Op(86)>>)
    BY <1>1, <1>2 DEF imOpcode
  <2> QED BY <2>1, <2>2
<1>4. AsDecoded(i) = Ins("im", None, None, 1)
  <2>1. i.mn = "im" /\ i.dst = None /\ i.src = None
    BY Fields
  <2>2. Narrowed(i, None) = None
    BY <1>1, <2>1, NarrowedOperands, NarrowedValues
  <2>3. Narrowed(i, None) = None
    BY <1>1, <2>1, NarrowedOperands, NarrowedValues
  <2>4. AsDecoded(i) = Ins("im", Narrowed(i, None), Narrowed(i, None), 1)
    BY DecodedIns
  <2> QED BY <2>2, <2>3, <2>4
<1>5. ASSUME NEW m, NEW a \in Int, At(m, a) = 237, At(m, a + 1) = 86 PROVE Decodes(i, 2, m, a)
  <2>1. decodeInstruction(m, a) = EdTable(m, a)
    BY <1>2, <1>5, DecodePrimary DEF Byte
  <2>2. EdTable(m, a) = Decoded(Ins("im", None, None, 1), 2)
    BY <1>2, <1>5 DEF EdTable, Column, Row
  <2> QED BY <1>4, <2>1, <2>2 DEF Decodes
<1>6. \A m : \A a \in Int : (At(m, a) = 237 /\ At(m, a + 1) = 86) => Decodes(i, 2, m, a)
  BY <1>5
<1> QED BY <1>2, <1>3, <1>6, RoundTripOpOp

LEMMA Im2 ==
  RoundTrips(Ins("im", None, None, 2), 2)
<1> DEFINE i == Ins("im", None, None, 2)
<1>1. /\ None.kind = "none"
  BY DEF None, Operand
<1>2. /\ 237 \in Byte
      /\ 94 \in Byte
  BY DEF Byte
<1>3. encodeZ80Instruction(i) = Encoding(2, <<Op(237), Op(94)>>)
  <2>1. encodeZ80Instruction(i) = Encoding(2, <<Op(237), Op(imOpcode[2 + 1])>>)
    BY EncodingOfIm
  <2>2. Encoding(2, <<Op(237), Op(imOpcode[2 + 1])>>) = Encoding(2, <<Op(237), Op(94)>>)
    BY <1>1, <1>2 DEF imOpcode
  <2> QED BY <2>1, <2>2
<1>4. AsDecoded(i) = Ins("im", None, None, 2)
  <2>1. i.mn = "im" /\ i.dst = None /\ i.src = None
    BY Fields
  <2>2. Narrowed(i, None) = None
    BY <1>1, <2>1, NarrowedOperands, NarrowedValues
  <2>3. Narrowed(i, None) = None
    BY <1>1, <2>1, NarrowedOperands, NarrowedValues
  <2>4. AsDecoded(i) = Ins("im", Narrowed(i, None), Narrowed(i, None), 2)
    BY DecodedIns
  <2> QED BY <2>2, <2>3, <2>4
<1>5. ASSUME NEW m, NEW a \in Int, At(m, a) = 237, At(m, a + 1) = 94 PROVE Decodes(i, 2, m, a)
  <2>1. decodeInstruction(m, a) = EdTable(m, a)
    BY <1>2, <1>5, DecodePrimary DEF Byte
  <2>2. EdTable(m, a) = Decoded(Ins("im", None, None, 2), 2)
    BY <1>2, <1>5 DEF EdTable, Column, Row
  <2> QED BY <1>4, <2>1, <2>2 DEF Decodes
<1>6. \A m : \A a \in Int : (At(m, a) = 237 /\ At(m, a + 1) = 94) => Decodes(i, 2, m, a)
  BY <1>5
<1> QED BY <1>2, <1>3, <1>6, RoundTripOpOp

LEMMA CorePlain ==
  ASSUME NEW mn \in {"nop", "di", "ei", "scf", "ccf", "cpl", "daa", "exx", "halt", "rlca", "rrca", "rla", "rra"}
  PROVE  RoundTrips(Ins(mn, None, None, 0), 1)
<1> DEFINE i == Ins(mn, None, None, 0)
           x == CORE_OPCODES[mn][1]
<1>1. /\ mn \in CoreMnemonics \cup {"nop"} /\ mn # "sls" /\ x \in Byte
      /\ CORE_OPCODES[mn] = <<x>>
  BY DEF CoreMnemonics, CORE_OPCODES, Byte
<1>2. encodeZ80Instruction(i) = Encoding(1, <<Op(x)>>)
  <2>1. encodeZ80Instruction(i) = encodeCore(mn)
    BY <1>1, EncodingOfCore
  <2> HIDE DEF x
  <2>2. encodeCore(mn) = Encoding(1, <<Op(x)>>)
    BY <1>1 DEF encodeCore
  <2> QED BY <2>1, <2>2
<1>3. AsDecoded(i) = i
  <2>1. AsDecoded(i) = Ins(mn, Narrowed(i, None), Narrowed(i, None), 0)
    BY <1>1, DecodedIns
  <2>2. Narrowed(i, None) = None
    BY NarrowedOperands
  <2> QED BY <2>1, <2>2
<1>4. ASSUME NEW m, NEW a \in Int, At(m, a) = x PROVE Decodes(i, 1, m, a)
  <2>0. decodeInstruction(m, a) = Decoded(i, 1)
    <3>1. CASE mn = "nop"
      <4>1. x = 0 /\ 0 \in Byte
        BY <3>1 DEF CORE_OPCODES, Byte
      <4>2. decodeInstruction(m, a) = LowPrimary(m, a, 0)
        BY <1>4, <4>1, DecodePrimary
      <4> QED BY <3>1, <4>2 DEF LowPrimary, Column, Row, Bare, Nop
    <3>2. CASE mn = "di"
      <4>1. x = 243 /\ 243 \in Byte
        BY <3>2 DEF CORE_OPCODES, Byte
      <4>2. decodeInstruction(m, a) = HighPrimary(m, a, 243)
        BY <1>4, <4>1, DecodePrimary
      <4> QED BY <3>2, <4>2 DEF HighPrimary, Column, Row, Bare, Nop
    <3>3. CASE mn = "ei"
      <4>1. x = 251 /\ 251 \in Byte
        BY <3>3 DEF CORE_OPCODES, Byte
      <4>2. decodeInstruction(m, a) = HighPrimary(m, a, 251)
        BY <1>4, <4>1, DecodePrimary
      <4> QED BY <3>3, <4>2 DEF HighPrimary, Column, Row, Bare, Nop
    <3>4. CASE mn = "scf"
      <4>1. x = 55 /\ 55 \in Byte
        BY <3>4 DEF CORE_OPCODES, Byte
      <4>2. decodeInstruction(m, a) = LowPrimary(m, a, 55)
        BY <1>4, <4>1, DecodePrimary
      <4> QED BY <3>4, <4>2 DEF LowPrimary, Column, Row, Bare, Nop
    <3>5. CASE mn = "ccf"
      <4>1. x = 63 /\ 63 \in Byte
        BY <3>5 DEF CORE_OPCODES, Byte
      <4>2. decodeInstruction(m, a) = LowPrimary(m, a, 63)
        BY <1>4, <4>1, DecodePrimary
      <4> QED BY <3>5, <4>2 DEF LowPrimary, Column, Row, Bare, Nop
    <3>6. CASE mn = "cpl"
      <4>1. x = 47 /\ 47 \in Byte
        BY <3>6 DEF CORE_OPCODES, Byte
      <4>2. decodeInstruction(m, a) = LowPrimary(m, a, 47)
        BY <1>4, <4>1, DecodePrimary
      <4> QED BY <3>6, <4>2 DEF LowPrimary, Column, Row, Bare, Nop
    <3>7. CASE mn = "daa"
      <4>1. x = 39 /\ 39 \in Byte
        BY <3>7 DEF CORE_OPCODES, Byte
      <4>2. decodeInstruction(m, a) = LowPrimary(m, a, 39)
        BY <1>4, <4>1, DecodePrimary
      <4> QED BY <3>7, <4>2 DEF LowPrimary, Column, Row, Bare, Nop
    <3>8. CASE mn = "exx"
      <4>1. x = 217 /\ 217 \in Byte
        BY <3>8 DEF CORE_OPCODES, Byte
      <4>2. decodeInstruction(m, a) = HighPrimary(m, a, 217)
        BY <1>4, <4>1, DecodePrimary
      <4> QED BY <3>8, <4>2 DEF HighPrimary, Column, Row, Bare, Nop
    <3>9. CASE mn = "halt"
      <4>1. x = 118 /\ 118 \in Byte
        BY <3>9 DEF CORE_OPCODES, Byte
      <4>2. decodeInstruction(m, a) = MatrixPrimary(118)
        BY <1>4, <4>1, DecodePrimary
      <4> QED BY <3>9, <4>2 DEF MatrixPrimary, Column, Row, Bare, Nop
    <3>10. CASE mn = "rlca"
      <4>1. x = 7 /\ 7 \in Byte
        BY <3>10 DEF CORE_OPCODES, Byte
      <4>2. decodeInstruction(m, a) = LowPrimary(m, a, 7)
        BY <1>4, <4>1, DecodePrimary
      <4> QED BY <3>10, <4>2 DEF LowPrimary, Column, Row, Bare, Nop
    <3>11. CASE mn = "rrca"
      <4>1. x = 15 /\ 15 \in Byte
        BY <3>11 DEF CORE_OPCODES, Byte
      <4>2. decodeInstruction(m, a) = LowPrimary(m, a, 15)
        BY <1>4, <4>1, DecodePrimary
      <4> QED BY <3>11, <4>2 DEF LowPrimary, Column, Row, Bare, Nop
    <3>12. CASE mn = "rla"
      <4>1. x = 23 /\ 23 \in Byte
        BY <3>12 DEF CORE_OPCODES, Byte
      <4>2. decodeInstruction(m, a) = LowPrimary(m, a, 23)
        BY <1>4, <4>1, DecodePrimary
      <4> QED BY <3>12, <4>2 DEF LowPrimary, Column, Row, Bare, Nop
    <3>13. CASE mn = "rra"
      <4>1. x = 31 /\ 31 \in Byte
        BY <3>13 DEF CORE_OPCODES, Byte
      <4>2. decodeInstruction(m, a) = LowPrimary(m, a, 31)
        BY <1>4, <4>1, DecodePrimary
      <4> QED BY <3>13, <4>2 DEF LowPrimary, Column, Row, Bare, Nop
    <3> QED BY <3>1, <3>2, <3>3, <3>4, <3>5, <3>6, <3>7, <3>8, <3>9, <3>10, <3>11, <3>12, <3>13
  <2> QED BY <1>3, <2>0 DEF Decodes
<1>5. \A m : \A a \in Int : (At(m, a) = x) => Decodes(i, 1, m, a)
  BY <1>4
<1> HIDE DEF x, i
<1>6. RoundTrips(i, 1)
  BY <1>1, <1>2, <1>5, RoundTripOp
<1> QED BY <1>6 DEF i

LEMMA CoreExtended ==
  ASSUME NEW mn \in {"neg", "rrd", "rld", "ldi", "ldir", "ldd", "lddr", "cpi", "cpir", "cpd", "cpdr", "ini", "inir", "ind", "indr", "outi", "otir", "outd", "otdr", "reti", "retn"}
  PROVE  RoundTrips(Ins(mn, None, None, 0), 2)
<1> DEFINE i == Ins(mn, None, None, 0)
           x == CORE_OPCODES[mn][1]
           y == CORE_OPCODES[mn][2]
<1>1. /\ mn \in CoreMnemonics \cup {"nop"} /\ mn # "sls" /\ x \in Byte /\ y \in Byte
      /\ CORE_OPCODES[mn] = <<x, y>>
  BY DEF CoreMnemonics, CORE_OPCODES, Byte
<1>2. encodeZ80Instruction(i) = Encoding(2, <<Op(x), Op(y)>>)
  <2>1. encodeZ80Instruction(i) = encodeCore(mn)
    BY <1>1, EncodingOfCore
  <2> HIDE DEF x, y
  <2>2. encodeCore(mn) = Encoding(2, <<Op(x), Op(y)>>)
    BY <1>1 DEF encodeCore
  <2> QED BY <2>1, <2>2
<1>3. AsDecoded(i) = i
  <2>1. AsDecoded(i) = Ins(mn, Narrowed(i, None), Narrowed(i, None), 0)
    BY <1>1, DecodedIns
  <2>2. Narrowed(i, None) = None
    BY NarrowedOperands
  <2> QED BY <2>1, <2>2
<1>4. ASSUME NEW m, NEW a \in Int, At(m, a) = x, At(m, a + 1) = y PROVE Decodes(i, 2, m, a)
  <2>0. decodeInstruction(m, a) = Decoded(i, 2)
    <3>1. CASE mn = "neg"
      <4>1. x = 237 /\ y = 68 /\ 237 \in Byte
        BY <3>1 DEF CORE_OPCODES, Byte
      <4>2. decodeInstruction(m, a) = EdTable(m, a)
        BY <1>4, <4>1, DecodePrimary
      <4> QED BY <1>4, <3>1, <4>1, <4>2 DEF EdTable, EdBlock, Column, Row, Bare
    <3>2. CASE mn = "rrd"
      <4>1. x = 237 /\ y = 103 /\ 237 \in Byte
        BY <3>2 DEF CORE_OPCODES, Byte
      <4>2. decodeInstruction(m, a) = EdTable(m, a)
        BY <1>4, <4>1, DecodePrimary
      <4> QED BY <1>4, <3>2, <4>1, <4>2 DEF EdTable, EdBlock, Column, Row, Bare
    <3>3. CASE mn = "rld"
      <4>1. x = 237 /\ y = 111 /\ 237 \in Byte
        BY <3>3 DEF CORE_OPCODES, Byte
      <4>2. decodeInstruction(m, a) = EdTable(m, a)
        BY <1>4, <4>1, DecodePrimary
      <4> QED BY <1>4, <3>3, <4>1, <4>2 DEF EdTable, EdBlock, Column, Row, Bare
    <3>4. CASE mn = "ldi"
      <4>1. x = 237 /\ y = 160 /\ 237 \in Byte
        BY <3>4 DEF CORE_OPCODES, Byte
      <4>2. decodeInstruction(m, a) = EdTable(m, a)
        BY <1>4, <4>1, DecodePrimary
      <4> QED BY <1>4, <3>4, <4>1, <4>2 DEF EdTable, EdBlock, Column, Row, Bare
    <3>5. CASE mn = "ldir"
      <4>1. x = 237 /\ y = 176 /\ 237 \in Byte
        BY <3>5 DEF CORE_OPCODES, Byte
      <4>2. decodeInstruction(m, a) = EdTable(m, a)
        BY <1>4, <4>1, DecodePrimary
      <4> QED BY <1>4, <3>5, <4>1, <4>2 DEF EdTable, EdBlock, Column, Row, Bare
    <3>6. CASE mn = "ldd"
      <4>1. x = 237 /\ y = 168 /\ 237 \in Byte
        BY <3>6 DEF CORE_OPCODES, Byte
      <4>2. decodeInstruction(m, a) = EdTable(m, a)
        BY <1>4, <4>1, DecodePrimary
      <4> QED BY <1>4, <3>6, <4>1, <4>2 DEF EdTable, EdBlock, Column, Row, Bare
    <3>7. CASE mn = "lddr"
      <4>1. x = 237 /\ y = 184 /\ 237 \in Byte
        BY <3>7 DEF CORE_OPCODES, Byte
      <4>2. decodeInstruction(m, a) = EdTable(m, a)
        BY <1>4, <4>1, DecodePrimary
      <4> QED BY <1>4, <3>7, <4>1, <4>2 DEF EdTable, EdBlock, Column, Row, Bare
    <3>8. CASE mn = "cpi"
      <4>1. x = 237 /\ y = 161 /\ 237 \in Byte
        BY <3>8 DEF CORE_OPCODES, Byte
      <4>2. decodeInstruction(m, a) = EdTable(m, a)
        BY <1>4, <4>1, DecodePrimary
      <4> QED BY <1>4, <3>8, <4>1, <4>2 DEF EdTable, EdBlock, Column, Row, Bare
    <3>9. CASE mn = "cpir"
      <4>1. x = 237 /\ y = 177 /\ 237 \in Byte
        BY <3>9 DEF CORE_OPCODES, Byte
      <4>2. decodeInstruction(m, a) = EdTable(m, a)
        BY <1>4, <4>1, DecodePrimary
      <4> QED BY <1>4, <3>9, <4>1, <4>2 DEF EdTable, EdBlock, Column, Row, Bare
    <3>10. CASE mn = "cpd"
      <4>1. x = 237 /\ y = 169 /\ 237 \in Byte
        BY <3>10 DEF CORE_OPCODES, Byte
      <4>2. decodeInstruction(m, a) = EdTable(m, a)
        BY <1>4, <4>1, DecodePrimary
      <4> QED BY <1>4, <3>10, <4>1, <4>2 DEF EdTable, EdBlock, Column, Row, Bare
    <3>11. CASE mn = "cpdr"
      <4>1. x = 237 /\ y = 185 /\ 237 \in Byte
        BY <3>11 DEF CORE_OPCODES, Byte
      <4>2. decodeInstruction(m, a) = EdTable(m, a)
        BY <1>4, <4>1, DecodePrimary
      <4> QED BY <1>4, <3>11, <4>1, <4>2 DEF EdTable, EdBlock, Column, Row, Bare
    <3>12. CASE mn = "ini"
      <4>1. x = 237 /\ y = 162 /\ 237 \in Byte
        BY <3>12 DEF CORE_OPCODES, Byte
      <4>2. decodeInstruction(m, a) = EdTable(m, a)
        BY <1>4, <4>1, DecodePrimary
      <4> QED BY <1>4, <3>12, <4>1, <4>2 DEF EdTable, EdBlock, Column, Row, Bare
    <3>13. CASE mn = "inir"
      <4>1. x = 237 /\ y = 178 /\ 237 \in Byte
        BY <3>13 DEF CORE_OPCODES, Byte
      <4>2. decodeInstruction(m, a) = EdTable(m, a)
        BY <1>4, <4>1, DecodePrimary
      <4> QED BY <1>4, <3>13, <4>1, <4>2 DEF EdTable, EdBlock, Column, Row, Bare
    <3>14. CASE mn = "ind"
      <4>1. x = 237 /\ y = 170 /\ 237 \in Byte
        BY <3>14 DEF CORE_OPCODES, Byte
      <4>2. decodeInstruction(m, a) = EdTable(m, a)
        BY <1>4, <4>1, DecodePrimary
      <4> QED BY <1>4, <3>14, <4>1, <4>2 DEF EdTable, EdBlock, Column, Row, Bare
    <3>15. CASE mn = "indr"
      <4>1. x = 237 /\ y = 186 /\ 237 \in Byte
        BY <3>15 DEF CORE_OPCODES, Byte
      <4>2. decodeInstruction(m, a) = EdTable(m, a)
        BY <1>4, <4>1, DecodePrimary
      <4> QED BY <1>4, <3>15, <4>1, <4>2 DEF EdTable, EdBlock, Column, Row, Bare
    <3>16. CASE mn = "outi"
      <4>1. x = 237 /\ y = 163 /\ 237 \in Byte
        BY <3>16 DEF CORE_OPCODES, Byte
      <4>2. decodeInstruction(m, a) = EdTable(m, a)
        BY <1>4, <4>1, DecodePrimary
      <4> QED BY <1>4, <3>16, <4>1, <4>2 DEF EdTable, EdBlock, Column, Row, Bare
    <3>17. CASE mn = "otir"
      <4>1. x = 237 /\ y = 179 /\ 237 \in Byte
        BY <3>17 DEF CORE_OPCODES, Byte
      <4>2. decodeInstruction(m, a) = EdTable(m, a)
        BY <1>4, <4>1, DecodePrimary
      <4> QED BY <1>4, <3>17, <4>1, <4>2 DEF EdTable, EdBlock, Column, Row, Bare
    <3>18. CASE mn = "outd"
      <4>1. x = 237 /\ y = 171 /\ 237 \in Byte
        BY <3>18 DEF CORE_OPCODES, Byte
      <4>2. decodeInstruction(m, a) = EdTable(m, a)
        BY <1>4, <4>1, DecodePrimary
      <4> QED BY <1>4, <3>18, <4>1, <4>2 DEF EdTable, EdBlock, Column, Row, Bare
    <3>19. CASE mn = "otdr"
      <4>1. x = 237 /\ y = 187 /\ 237 \in Byte
        BY <3>19 DEF CORE_OPCODES, Byte
      <4>2. decodeInstruction(m, a) = EdTable(m, a)
        BY <1>4, <4>1, DecodePrimary
      <4> QED BY <1>4, <3>19, <4>1, <4>2 DEF EdTable, EdBlock, Column, Row, Bare
    <3>20. CASE mn = "reti"
      <4>1. x = 237 /\ y = 77 /\ 237 \in Byte
        BY <3>20 DEF CORE_OPCODES, Byte
      <4>2. decodeInstruction(m, a) = EdTable(m, a)
        BY <1>4, <4>1, DecodePrimary
      <4> QED BY <1>4, <3>20, <4>1, <4>2 DEF EdTable, EdBlock, Column, Row, Bare
    <3>21. CASE mn = "retn"
      <4>1. x = 237 /\ y = 69 /\ 237 \in Byte
        BY <3>21 DEF CORE_OPCODES, Byte
      <4>2. decodeInstruction(m, a) = EdTable(m, a)
        BY <1>4, <4>1, DecodePrimary
      <4> QED BY <1>4, <3>21, <4>1, <4>2 DEF EdTable, EdBlock, Column, Row, Bare
    <3> QED BY <3>1, <3>2, <3>3, <3>4, <3>5, <3>6, <3>7, <3>8, <3>9, <3>10, <3>11, <3>12, <3>13, <3>14, <3>15, <3>16, <3>17, <3>18, <3>19, <3>20, <3>21
  <2> QED BY <1>3, <2>0 DEF Decodes
<1>5. \A m : \A a \in Int : (At(m, a) = x /\ At(m, a + 1) = y) => Decodes(i, 2, m, a)
  BY <1>4
<1> HIDE DEF x, y, i
<1>6. RoundTrips(i, 2)
  BY <1>1, <1>2, <1>5, RoundTripOpOp
<1> QED BY <1>6 DEF i


(* ----------------------- every instruction, any value ------------------------ *)
(* The instruction with another value in its source operand.                       *)
WithValue(i, v) == Ins(i.mn, i.dst, Operand(i.src.kind, i.src.reg, v), i.arg)
(* Of one size, whatever value an expression gives its operand, and read back.      *)
ReadsBack(i, size) == \A v \in Int : (v = i.src.val \/ TakesExpression(i)) => RoundTrips(WithValue(i, v), size)
IsOperand(o) == o = Operand(o.kind, o.reg, o.val) /\ o.val \in Int
Faithful(i) ==
  /\ i = Ins(i.mn, i.dst, i.src, i.arg) /\ IsOperand(i.src)
  /\ \E size \in 1..4 : ReadsBack(i, size)

LEMMA PlainOperands ==
  /\ IsOperand(None) /\ IsOperand(PortC)
  /\ \A r : IsOperand(R8(r)) /\ IsOperand(R16(r)) /\ IsOperand(Half(r)) /\ IsOperand(Special(r)) /\ IsOperand(Indirect(r))
  /\ \A n \in Int : IsOperand(Imm(n)) /\ IsOperand(Abs(n)) /\ IsOperand(PortN(n))
  /\ \A r : \A n \in Int : IsOperand(Indexed(r, n))
  BY DEF IsOperand, None, PortC, R8, R16, Half, Special, Indirect, Imm, Abs, PortN, Indexed, Operand

LEMMA FaithfulStill ==
  ASSUME NEW mn, NEW dst, NEW src, NEW arg, IsOperand(src), NEW size \in 1..4,
         src.kind \notin {"imm", "abs", "indexed"} \/ mn \in {"rst", "out", "in"},
         RoundTrips(Ins(mn, dst, src, arg), size)
  PROVE  Faithful(Ins(mn, dst, src, arg))
<1> DEFINE i == Ins(mn, dst, src, arg)
<1>1. i.mn = mn /\ i.dst = dst /\ i.src = src /\ i.arg = arg
  BY Fields
<1>2. ~TakesExpression(i)
  BY <1>1 DEF TakesExpression, AluMnemonics, RotateMnemonics
<1>3. WithValue(i, src.val) = i
  BY <1>1 DEF WithValue, IsOperand
<1> HIDE DEF i
<1>4. RoundTrips(i, size)
  BY DEF i
<1>5. ReadsBack(i, size)
  BY <1>1, <1>2, <1>3, <1>4, Zenon DEF ReadsBack
<1>6. i = Ins(i.mn, i.dst, i.src, i.arg)
  BY <1>1 DEF i
<1> QED BY <1>1, <1>5, <1>6, Zenon DEF Faithful, i

LEMMA FaithfulValue ==
  ASSUME NEW mn, NEW dst, NEW src, NEW arg, IsOperand(src), NEW size \in 1..4,
         \A v \in Int : RoundTrips(Ins(mn, dst, Operand(src.kind, src.reg, v), arg), size)
  PROVE  Faithful(Ins(mn, dst, src, arg))
<1> DEFINE i == Ins(mn, dst, src, arg)
<1>1. i.mn = mn /\ i.dst = dst /\ i.src = src /\ i.arg = arg
  BY Fields
<1>2. \A v : WithValue(i, v) = Ins(mn, dst, Operand(src.kind, src.reg, v), arg)
  BY <1>1 DEF WithValue
<1>6. i = Ins(i.mn, i.dst, i.src, i.arg)
  BY <1>1
<1> HIDE DEF i
<1>5. ReadsBack(i, size)
  BY <1>2, Zenon DEF ReadsBack
<1> QED BY <1>1, <1>5, <1>6, Zenon DEF Faithful, i

LEMMA FaithfulImm ==
  ASSUME NEW mn, NEW dst, NEW arg, NEW n \in Int, NEW size \in 1..4, \A v \in Int : RoundTrips(Ins(mn, dst, Imm(v), arg), size)
  PROVE  Faithful(Ins(mn, dst, Imm(n), arg))
<1>1. \A v : Operand(Imm(n).kind, Imm(n).reg, v) = Imm(v)
  BY DEF Imm, Operand
<1>2. \A v \in Int : RoundTrips(Ins(mn, dst, Operand(Imm(n).kind, Imm(n).reg, v), arg), size)
  BY <1>1, Zenon
<1>3. IsOperand(Imm(n))
  BY PlainOperands
<1> QED BY <1>2, <1>3, FaithfulValue, Zenon
LEMMA FaithfulAbs ==
  ASSUME NEW mn, NEW dst, NEW arg, NEW n \in Int, NEW size \in 1..4, \A v \in Int : RoundTrips(Ins(mn, dst, Abs(v), arg), size)
  PROVE  Faithful(Ins(mn, dst, Abs(n), arg))
<1>1. \A v : Operand(Abs(n).kind, Abs(n).reg, v) = Abs(v)
  BY DEF Abs, Operand
<1>2. \A v \in Int : RoundTrips(Ins(mn, dst, Operand(Abs(n).kind, Abs(n).reg, v), arg), size)
  BY <1>1, Zenon
<1>3. IsOperand(Abs(n))
  BY PlainOperands
<1> QED BY <1>2, <1>3, FaithfulValue, Zenon
LEMMA FaithfulIndexed ==
  ASSUME NEW mn, NEW dst, NEW arg, NEW r, NEW n \in Int, NEW size \in 1..4,
         \A v \in Int : RoundTrips(Ins(mn, dst, Indexed(r, v), arg), size)
  PROVE  Faithful(Ins(mn, dst, Indexed(r, n), arg))
<1>1. \A v : Operand(Indexed(r, n).kind, Indexed(r, n).reg, v) = Indexed(r, v)
  BY DEF Indexed, Operand
<1>2. \A v \in Int : RoundTrips(Ins(mn, dst, Operand(Indexed(r, n).kind, Indexed(r, n).reg, v), arg), size)
  BY <1>1, Zenon
<1>3. IsOperand(Indexed(r, n))
  BY PlainOperands
<1> QED BY <1>2, <1>3, FaithfulValue, Zenon

LEMMA FaithfulNone ==
  ASSUME NEW mn, NEW dst, NEW arg, NEW size \in 1..4, RoundTrips(Ins(mn, dst, None, arg), size)
  PROVE  Faithful(Ins(mn, dst, None, arg))
<1>1. IsOperand(None)
  BY PlainOperands
<1>2. None.kind \notin {"imm", "abs", "indexed"}
  BY Told
<1> QED BY <1>1, <1>2, FaithfulStill, Zenon
LEMMA FaithfulR8 ==
  ASSUME NEW mn, NEW dst, NEW arg, NEW r, NEW size \in 1..4, RoundTrips(Ins(mn, dst, R8(r), arg), size)
  PROVE  Faithful(Ins(mn, dst, R8(r), arg))
<1>1. IsOperand(R8(r))
  BY PlainOperands
<1>2. R8(r).kind \notin {"imm", "abs", "indexed"}
  BY Told
<1> QED BY <1>1, <1>2, FaithfulStill, Zenon
LEMMA FaithfulR16 ==
  ASSUME NEW mn, NEW dst, NEW arg, NEW r, NEW size \in 1..4, RoundTrips(Ins(mn, dst, R16(r), arg), size)
  PROVE  Faithful(Ins(mn, dst, R16(r), arg))
<1>1. IsOperand(R16(r))
  BY PlainOperands
<1>2. R16(r).kind \notin {"imm", "abs", "indexed"}
  BY Told
<1> QED BY <1>1, <1>2, FaithfulStill, Zenon
LEMMA FaithfulHalf ==
  ASSUME NEW mn, NEW dst, NEW arg, NEW r, NEW size \in 1..4, RoundTrips(Ins(mn, dst, Half(r), arg), size)
  PROVE  Faithful(Ins(mn, dst, Half(r), arg))
<1>1. IsOperand(Half(r))
  BY PlainOperands
<1>2. Half(r).kind \notin {"imm", "abs", "indexed"}
  BY Told
<1> QED BY <1>1, <1>2, FaithfulStill, Zenon
LEMMA FaithfulSpecial ==
  ASSUME NEW mn, NEW dst, NEW arg, NEW r, NEW size \in 1..4, RoundTrips(Ins(mn, dst, Special(r), arg), size)
  PROVE  Faithful(Ins(mn, dst, Special(r), arg))
<1>1. IsOperand(Special(r))
  BY PlainOperands
<1>2. Special(r).kind \notin {"imm", "abs", "indexed"}
  BY Told
<1> QED BY <1>1, <1>2, FaithfulStill, Zenon
LEMMA FaithfulIndirect ==
  ASSUME NEW mn, NEW dst, NEW arg, NEW r, NEW size \in 1..4, RoundTrips(Ins(mn, dst, Indirect(r), arg), size)
  PROVE  Faithful(Ins(mn, dst, Indirect(r), arg))
<1>1. IsOperand(Indirect(r))
  BY PlainOperands
<1>2. Indirect(r).kind \notin {"imm", "abs", "indexed"}
  BY Told
<1> QED BY <1>1, <1>2, FaithfulStill, Zenon
LEMMA FaithfulPortC ==
  ASSUME NEW mn, NEW dst, NEW arg, NEW size \in 1..4, RoundTrips(Ins(mn, dst, PortC, arg), size)
  PROVE  Faithful(Ins(mn, dst, PortC, arg))
<1>1. IsOperand(PortC)
  BY PlainOperands
<1>2. PortC.kind \notin {"imm", "abs", "indexed"}
  BY Told
<1> QED BY <1>1, <1>2, FaithfulStill, Zenon
LEMMA FaithfulPortN ==
  ASSUME NEW mn, NEW dst, NEW arg, NEW n \in Int, NEW size \in 1..4, RoundTrips(Ins(mn, dst, PortN(n), arg), size)
  PROVE  Faithful(Ins(mn, dst, PortN(n), arg))
<1>1. IsOperand(PortN(n))
  BY PlainOperands
<1>2. PortN(n).kind \notin {"imm", "abs", "indexed"}
  BY Told
<1> QED BY <1>1, <1>2, FaithfulStill, Zenon

(* ------------------------ the instructions, set by set ----------------------- *)
LEMMA WrittenInts ==
  /\ \A n \in Imm8 : n \in Int
  /\ \A n \in Imm16 : n \in Int
  /\ \A n \in Disp : n \in Int
  /\ \A n \in Vectors : n \in Int
<1>1. Imm8 \subseteq Int /\ Imm16 \subseteq Int /\ Disp \subseteq Int
  BY SMT, ImmediatesAssumption
<1>2. \A n \in Vectors : n \in Int
  BY VectorParts
<1> QED BY <1>1, <1>2

LEMMA FaithfulCore ==
  ASSUME NEW m \in CoreMnemonics \cup {"nop"}
  PROVE  Faithful(Ins(m, None, None, 0))
<1>1. CASE m \in {"nop", "di", "ei", "scf", "ccf", "cpl", "daa", "exx", "halt", "rlca", "rrca", "rla", "rra"}
  <2>1. RoundTrips(Ins(m, None, None, 0), 1)
    BY <1>1, CorePlain
  <2> QED BY <2>1, FaithfulNone
<1>2. CASE m \notin {"nop", "di", "ei", "scf", "ccf", "cpl", "daa", "exx", "halt", "rlca", "rrca", "rla", "rra"}
  <2>1. m \in {"neg", "rrd", "rld", "ldi", "ldir", "ldd", "lddr", "cpi", "cpir", "cpd", "cpdr", "ini", "inir", "ind", "indr", "outi", "otir", "outd", "otdr", "reti", "retn"}
    BY <1>2 DEF CoreMnemonics
  <2>2. RoundTrips(Ins(m, None, None, 0), 2)
    BY <2>1, CoreExtended
  <2> QED BY <2>2, FaithfulNone
<1> QED BY <1>1, <1>2

LEMMA FaithfulIm ==
  ASSUME NEW k \in 0..2
  PROVE  Faithful(Ins("im", None, None, k))
<1>1. RoundTrips(Ins("im", None, None, k), 2)
  <2>1. k = 0 \/ k = 1 \/ k = 2
    OBVIOUS
  <2> QED BY <2>1, Im0, Im1, Im2
<1> QED BY <1>1, FaithfulNone

LEMMA FaithfulCount ==
  ASSUME NEW m \in {"inc", "dec"}, NEW o \in IncDecOperands
  PROVE  Faithful(Ins(m, o, None, 0))
<1>1. \E size \in 1..4 : RoundTrips(Ins(m, o, None, 0), size)
  <2>1. CASE o \in {R8(r) : r \in Bytes8}
    <3>1. RoundTrips(Ins(m, o, None, 0), 1)
      BY <2>1, CountRegister
    <3> QED BY <3>1
  <2>2. CASE o \in {R16(r) : r \in Pairs}
    <3>1. RoundTrips(Ins(m, o, None, 0), 1)
      BY <2>2, IncPair, DecPair
    <3> QED BY <3>1
  <2>3. CASE o \in {R16(r) : r \in Index}
    <3>1. RoundTrips(Ins(m, o, None, 0), 2)
      BY <2>3, IncIndex, DecIndex
    <3> QED BY <3>1
  <2>4. CASE o \in {Half(r) : r \in Halves}
    <3>1. RoundTrips(Ins(m, o, None, 0), 2)
      BY <2>4, IncHalf, DecHalf
    <3> QED BY <3>1
  <2>5. CASE o = Indirect("hl")
    <3>1. RoundTrips(Ins(m, o, None, 0), 1)
      BY <2>5, CountMemory
    <3> QED BY <3>1
  <2>6. CASE o \in {Indexed(r, d) : r \in Index, d \in Disp}
    <3>1. RoundTrips(Ins(m, o, None, 0), 3)
      BY <2>6, IncIndexed, DecIndexed, WrittenInts
    <3> QED BY <3>1
  <2> QED BY <2>1, <2>2, <2>3, <2>4, <2>5, <2>6 DEF IncDecOperands
<1> QED BY <1>1, FaithfulNone

LEMMA FaithfulAlu ==
  ASSUME NEW i \in AluInstructions
  PROVE  Faithful(i)
<1>1. ASSUME NEW m \in AluMnemonics, NEW s \in AluSources PROVE Faithful(Ins(m, R8("a"), s, 0))
  <2>1. CASE s \in {R8(r) : r \in Bytes8}
    <3>1. PICK r \in Bytes8 : s = R8(r)
      BY <2>1
    <3>2. RoundTrips(Ins(m, R8("a"), R8(r), 0), 1)
      BY AluRegister
    <3> QED BY <3>1, <3>2, FaithfulR8
  <2>2. CASE s \in {Half(r) : r \in Halves}
    <3>1. PICK r \in Halves : s = Half(r)
      BY <2>2
    <3>2. RoundTrips(Ins(m, R8("a"), Half(r), 0), 2)
      BY AluHalf
    <3> QED BY <3>1, <3>2, FaithfulHalf
  <2>3. CASE s = Indirect("hl")
    <3>2. RoundTrips(Ins(m, R8("a"), Indirect("hl"), 0), 1)
      BY AluMemory
    <3> QED BY <2>3, <3>2, FaithfulIndirect
  <2>4. CASE s \in {Indexed(r, d) : r \in Index, d \in Disp}
    <3>1. PICK r \in Index, d \in Disp : s = Indexed(r, d)
      BY <2>4
    <3>2. \A v \in Int : RoundTrips(Ins(m, R8("a"), Indexed(r, v), 0), 3)
      BY AluIndexed
    <3>3. d \in Int
      BY WrittenInts
    <3> QED BY <3>1, <3>2, <3>3, FaithfulIndexed
  <2>5. CASE s \in {Imm(n) : n \in Imm8}
    <3>1. PICK n \in Imm8 : s = Imm(n)
      BY <2>5
    <3>2. \A v \in Int : RoundTrips(Ins(m, R8("a"), Imm(v), 0), 2)
      BY AluByte
    <3>3. n \in Int
      BY WrittenInts
    <3> QED BY <3>1, <3>2, <3>3, FaithfulImm
  <2> QED BY <2>1, <2>2, <2>3, <2>4, <2>5 DEF AluSources
<1>2. ASSUME NEW m \in {"add", "adc", "sbc"}, NEW p \in Pairs PROVE Faithful(Ins(m, R16("hl"), R16(p), 0))
  <2>1. RoundTrips(Ins("add", R16("hl"), R16(p), 0), 1) /\ RoundTrips(Ins("adc", R16("hl"), R16(p), 0), 2)
        /\ RoundTrips(Ins("sbc", R16("hl"), R16(p), 0), 2)
    BY AddPair, AdcPair, SbcPair
  <2>2. \E size \in 1..4 : RoundTrips(Ins(m, R16("hl"), R16(p), 0), size)
    BY <2>1
  <2> QED BY <2>2, FaithfulR16
<1>3. ASSUME NEW x \in Index, NEW p \in {"bc", "de", "sp"} PROVE Faithful(Ins("add", R16(x), R16(p), 0))
  <2>1. RoundTrips(Ins("add", R16(x), R16(p), 0), 2)
    BY AddIndexBc, AddIndexDe, AddIndexSp
  <2> QED BY <2>1, FaithfulR16
<1>4. ASSUME NEW x \in Index PROVE Faithful(Ins("add", R16(x), R16(x), 0))
  <2>1. RoundTrips(Ins("add", R16(x), R16(x), 0), 2)
    BY AddIndexIndex
  <2> QED BY <2>1, FaithfulR16
<1> QED BY <1>1, <1>2, <1>3, <1>4 DEF AluInstructions

LEMMA FaithfulBits ==
  ASSUME NEW i \in BitInstructions
  PROVE  Faithful(i)
<1>1. ASSUME NEW m \in {"bit", "res", "set"}, NEW o \in CbOperands, NEW k \in 0..7 PROVE Faithful(Ins(m, None, o, k))
  <2>1. CASE o \in {R8(r) : r \in Bytes8}
    <3>1. PICK r \in Bytes8 : o = R8(r)
      BY <2>1
    <3>2. RoundTrips(Ins(m, None, R8(r), k), 2)
      BY BitRegister, ResRegister, SetRegister
    <3> QED BY <3>1, <3>2, FaithfulR8
  <2>2. CASE o = Indirect("hl")
    <3>2. RoundTrips(Ins(m, None, Indirect("hl"), k), 2)
      BY BitMemory, ResMemory, SetMemory
    <3> QED BY <2>2, <3>2, FaithfulIndirect
  <2> QED BY <2>1, <2>2 DEF CbOperands
<1>2. ASSUME NEW m \in {"bit", "res", "set"}, NEW o \in IndexedOperands, NEW k \in 0..7 PROVE Faithful(Ins(m, None, o, k))
  <2>1. PICK r \in Index, d \in Disp : o = Indexed(r, d)
    BY DEF IndexedOperands
  <2>2. \A v \in Int : RoundTrips(Ins(m, None, Indexed(r, v), k), 4)
    BY BitIndexed, ResIndexed, SetIndexed
  <2>3. d \in Int
    BY WrittenInts
  <2> QED BY <2>1, <2>2, <2>3, FaithfulIndexed
<1>3. ASSUME NEW m \in {"res", "set"}, NEW r \in Bytes8, NEW o \in IndexedOperands, NEW k \in 0..7
      PROVE  Faithful(Ins(m, R8(r), o, k))
  <2>1. PICK x \in Index, d \in Disp : o = Indexed(x, d)
    BY DEF IndexedOperands
  <2>2. \A v \in Int : RoundTrips(Ins(m, R8(r), Indexed(x, v), k), 4)
    BY ResNamed, SetNamed
  <2>3. d \in Int
    BY WrittenInts
  <2> QED BY <2>1, <2>2, <2>3, FaithfulIndexed
<1> QED BY <1>1, <1>2, <1>3 DEF BitInstructions

LEMMA FaithfulRotates ==
  ASSUME NEW i \in RotateInstructions
  PROVE  Faithful(i)
<1>1. ASSUME NEW m \in RotateMnemonics, NEW o \in CbOperands PROVE Faithful(Ins(m, None, o, 0))
  <2>1. CASE o \in {R8(r) : r \in Bytes8}
    <3>1. PICK r \in Bytes8 : o = R8(r)
      BY <2>1
    <3>2. RoundTrips(Ins(m, None, R8(r), 0), 2)
      BY RotateRegister, SlsRegister
    <3> QED BY <3>1, <3>2, FaithfulR8
  <2>2. CASE o = Indirect("hl")
    <3>2. RoundTrips(Ins(m, None, Indirect("hl"), 0), 2)
      BY RotateMemory, SlsMemory
    <3> QED BY <2>2, <3>2, FaithfulIndirect
  <2> QED BY <2>1, <2>2 DEF CbOperands
<1>2. ASSUME NEW m \in RotateMnemonics, NEW o \in IndexedOperands PROVE Faithful(Ins(m, None, o, 0))
  <2>1. PICK r \in Index, d \in Disp : o = Indexed(r, d)
    BY DEF IndexedOperands
  <2>2. \A v \in Int : RoundTrips(Ins(m, None, Indexed(r, v), 0), 4)
    BY RotateIndexed, SlsIndexed
  <2>3. d \in Int
    BY WrittenInts
  <2> QED BY <2>1, <2>2, <2>3, FaithfulIndexed
<1>3. ASSUME NEW m \in RotateMnemonics, NEW r \in Bytes8, NEW o \in IndexedOperands PROVE Faithful(Ins(m, R8(r), o, 0))
  <2>1. PICK x \in Index, d \in Disp : o = Indexed(x, d)
    BY DEF IndexedOperands
  <2>2. \A v \in Int : RoundTrips(Ins(m, R8(r), Indexed(x, v), 0), 4)
    BY RotateNamed, SlsNamed
  <2>3. d \in Int
    BY WrittenInts
  <2> QED BY <2>1, <2>2, <2>3, FaithfulIndexed
<1> QED BY <1>1, <1>2, <1>3 DEF RotateInstructions

LEMMA FaithfulBranches ==
  ASSUME NEW i \in OtherControl \cup Branches(Imm16)
  PROVE  Faithful(i)
<1>1. ASSUME NEW m \in {"jp", "call"}, NEW n \in Imm16, NEW k \in 0..8 PROVE Faithful(Ins(m, None, Imm(n), k))
  <2>1. k = 0 \/ k \in 1..8
    OBVIOUS
  <2>2. \A v \in Int : RoundTrips(Ins(m, None, Imm(v), k), 3)
    BY <2>1, JpAlways, JpConditional, CallAlways, CallConditional
  <2> QED BY <2>2, WrittenInts, FaithfulImm
<1>2. ASSUME NEW n \in Imm16, NEW k \in 0..4 PROVE Faithful(Ins("jr", None, Imm(n), k))
  <2>1. k = 0 \/ k \in 1..4
    OBVIOUS
  <2>2. \A v \in Int : RoundTrips(Ins("jr", None, Imm(v), k), 2)
    BY <2>1, JrAlways, JrConditional
  <2> QED BY <2>2, WrittenInts, FaithfulImm
<1>3. ASSUME NEW n \in Imm16 PROVE Faithful(Ins("djnz", None, Imm(n), 0))
  <2>2. \A v \in Int : RoundTrips(Ins("djnz", None, Imm(v), 0), 2)
    BY DjnzAlways
  <2> QED BY <2>2, WrittenInts, FaithfulImm
<1>4. ASSUME NEW p \in {"hl", "ix", "iy"} PROVE Faithful(Ins("jp", None, R16(p), 0))
  <2>1. p = "hl" \/ p \in Index
    BY DEF Index
  <2>2. \E size \in 1..4 : RoundTrips(Ins("jp", None, R16(p), 0), size)
    BY <2>1, JpHl, JpIndex
  <2> QED BY <2>2, FaithfulR16
<1>5. ASSUME NEW k \in 0..8 PROVE Faithful(Ins("ret", None, None, k))
  <2>1. k = 0 \/ k \in 1..8
    OBVIOUS
  <2>2. RoundTrips(Ins("ret", None, None, k), 1)
    BY <2>1, RetAlways, RetConditional
  <2> QED BY <2>2, FaithfulNone
<1>6. ASSUME NEW v \in Vectors PROVE Faithful(Ins("rst", None, Imm(v), 0))
  <2>1. RoundTrips(Ins("rst", None, Imm(v), 0), 1) /\ IsOperand(Imm(v))
    BY RstVector, WrittenInts, PlainOperands
  <2> QED BY <2>1, FaithfulStill
<1>7. CASE i \in OtherControl
  BY <1>4, <1>5, <1>6, <1>7 DEF OtherControl
<1>8. CASE i \in Branches(Imm16)
  BY <1>1, <1>2, <1>3, <1>8 DEF Branches
<1> QED BY <1>7, <1>8

LEMMA FaithfulStackAndPorts ==
  ASSUME NEW i \in TransferInstructions \ LdInstructions
  PROVE  Faithful(i)
<1>1. ASSUME NEW m \in {"push", "pop"}, NEW p \in {"bc", "de", "hl", "af", "ix", "iy"} PROVE Faithful(Ins(m, R16(p), None, 0))
  <2>1. p \in {"bc", "de", "hl", "af"} \/ p \in Index
    BY DEF Index
  <2>2. \E size \in 1..4 : RoundTrips(Ins(m, R16(p), None, 0), size)
    BY <2>1, PushPair, PopPair, PushIndex, PopIndex
  <2> QED BY <2>2, FaithfulNone
<1>2. Faithful(Ins("ex", R16("af"), R16("af"), 0)) /\ Faithful(Ins("ex", R16("de"), R16("hl"), 0))
  <2>1. RoundTrips(Ins("ex", R16("af"), R16("af"), 0), 1) /\ RoundTrips(Ins("ex", R16("de"), R16("hl"), 0), 1)
    BY ExAf, ExDeHl
  <2> QED BY <2>1, FaithfulR16
<1>3. ASSUME NEW p \in {"hl", "ix", "iy"} PROVE Faithful(Ins("ex", Indirect("sp"), R16(p), 0))
  <2>1. p = "hl" \/ p \in Index
    BY DEF Index
  <2>2. \E size \in 1..4 : RoundTrips(Ins("ex", Indirect("sp"), R16(p), 0), size)
    BY <2>1, ExStackHl, ExStackIndex
  <2> QED BY <2>2, FaithfulR16
<1>4. ASSUME NEW r \in Bytes8 PROVE Faithful(Ins("in", R8(r), PortC, 0)) /\ Faithful(Ins("out", PortC, R8(r), 0))
  <2>1. RoundTrips(Ins("in", R8(r), PortC, 0), 2) /\ RoundTrips(Ins("out", PortC, R8(r), 0), 2)
    BY InRegister, OutRegister
  <2> QED BY <2>1, FaithfulPortC, FaithfulR8
<1>5. Faithful(Ins("in", None, PortC, 0))
  BY InFlags, FaithfulPortC
<1>6. ASSUME NEW n \in Imm8 PROVE Faithful(Ins("in", R8("a"), PortN(n), 0)) /\ Faithful(Ins("out", PortN(n), R8("a"), 0))
  <2>0. n \in Int
    BY WrittenInts
  <2>1. RoundTrips(Ins("in", R8("a"), PortN(n), 0), 2) /\ RoundTrips(Ins("out", PortN(n), R8("a"), 0), 2)
    BY <2>0, InPort, OutPort
  <2> QED BY <2>0, <2>1, FaithfulPortN, FaithfulR8
<1>7. Faithful(Ins("out", PortC, Imm(0), 0))
  <2>1. IsOperand(Imm(0))
    BY PlainOperands
  <2> QED BY <2>1, OutZero, FaithfulStill
<1> QED BY <1>1, <1>2, <1>3, <1>4, <1>5, <1>6, <1>7 DEF TransferInstructions

(* ---------------------------------- LD --------------------------------------- *)
LEMMA ByteOperands ==
  ASSUME NEW o \in Operands8
  PROVE  /\ o.kind \in {"reg8", "half", "special8", "indirect", "abs", "indexed", "imm"}
         /\ o.kind = "reg8" => \E r \in Bytes8 : o = R8(r)
         /\ o.kind = "half" => \E r \in Halves : o = Half(r)
         /\ o.kind = "special8" => o = Special("i") \/ o = Special("r")
         /\ o.kind = "indirect" => o = Indirect("bc") \/ o = Indirect("de") \/ o = Indirect("hl")
         /\ o.kind = "abs" => \E n \in Int : o = Abs(n)
         /\ o.kind = "indexed" => \E x \in Index : \E d \in Int : o = Indexed(x, d)
         /\ o.kind = "imm" => \E n \in Int : o = Imm(n)
<1>1. CASE o \in {R8(r) : r \in Bytes8}
  <2>1. PICK r \in Bytes8 : o = R8(r)
    BY <1>1
  <2>2. o.kind = "reg8"
    BY <2>1, Told
  <2> QED BY <2>1, <2>2
<1>2. CASE o \in {Half(r) : r \in Halves}
  <2>1. PICK r \in Halves : o = Half(r)
    BY <1>2
  <2>2. o.kind = "half"
    BY <2>1, Told
  <2> QED BY <2>1, <2>2
<1>3. CASE o \in {Special(r) : r \in {"i", "r"}}
  <2>1. PICK r \in {"i", "r"} : o = Special(r)
    BY <1>3
  <2>2. o.kind = "special8"
    BY <2>1, Told
  <2> QED BY <2>1, <2>2
<1>4. CASE o \in {Indirect(r) : r \in {"bc", "de", "hl"}}
  <2>1. PICK r \in {"bc", "de", "hl"} : o = Indirect(r)
    BY <1>4
  <2>2. o.kind = "indirect"
    BY <2>1, Told
  <2> QED BY <2>1, <2>2
<1>5. CASE o \in {Abs(n) : n \in Imm16}
  <2>1. PICK n \in Imm16 : o = Abs(n)
    BY <1>5
  <2>2. o.kind = "abs"
    BY <2>1, Told
  <2> QED BY <2>1, <2>2, WrittenInts
<1>6. CASE o \in {Indexed(r, d) : r \in Index, d \in Disp}
  <2>1. PICK r \in Index, d \in Disp : o = Indexed(r, d)
    BY <1>6
  <2>2. o.kind = "indexed"
    BY <2>1 DEF Indexed, Operand
  <2> QED BY <2>1, <2>2, WrittenInts
<1>7. CASE o \in {Imm(n) : n \in Imm8}
  <2>1. PICK n \in Imm8 : o = Imm(n)
    BY <1>7
  <2>2. o.kind = "imm"
    BY <2>1, Told
  <2> QED BY <2>1, <2>2, WrittenInts
<1> QED BY <1>1, <1>2, <1>3, <1>4, <1>5, <1>6, <1>7 DEF Operands8

LEMMA WordOperands ==
  ASSUME NEW o \in Operands16
  PROVE  /\ o.kind \in {"reg16", "abs", "imm"}
         /\ o.kind = "reg16" => \E r \in Pairs \cup Index : o = R16(r)
         /\ o.kind = "abs" => \E n \in Int : o = Abs(n)
         /\ o.kind = "imm" => \E n \in Int : o = Imm(n)
<1>1. CASE o \in {R16(r) : r \in Pairs \cup Index}
  <2>1. PICK r \in Pairs \cup Index : o = R16(r)
    BY <1>1
  <2>2. o.kind = "reg16"
    BY <2>1, Told
  <2> QED BY <2>1, <2>2
<1>2. CASE o \in {Abs(n) : n \in Imm16}
  <2>1. PICK n \in Imm16 : o = Abs(n)
    BY <1>2
  <2>2. o.kind = "abs"
    BY <2>1, Told
  <2> QED BY <2>1, <2>2, WrittenInts
<1>3. CASE o \in {Imm(n) : n \in Imm16}
  <2>1. PICK n \in Imm16 : o = Imm(n)
    BY <1>3
  <2>2. o.kind = "imm"
    BY <2>1, Told
  <2> QED BY <2>1, <2>2, WrittenInts
<1> QED BY <1>1, <1>2, <1>3 DEF Operands16

LEMMA FaithfulHalfLd ==
  ASSUME NEW t \in Operands8, NEW s \in Operands8, SupportedHalfLd(t, s)
  PROVE  Faithful(Ins("ld", t, s, 0))
<1>1. /\ t.kind = "half" \/ s.kind = "half"
      /\ t.kind = "half" \/ (t.kind = "reg8" /\ t.reg \notin {"h", "l"})
      /\ s.kind = "half" \/ (s.kind = "reg8" /\ s.reg \notin {"h", "l"})
      /\ t.kind = "half" /\ s.kind = "half" => IndexOf[t.reg] = IndexOf[s.reg]
  BY DEF SupportedHalfLd, HalfCompatible
<1>2. CASE t.kind = "half" /\ s.kind = "half"
  <2>1. PICK r \in Halves, q \in Halves : t = Half(r) /\ s = Half(q)
    BY <1>2, ByteOperands
  <2>r. Half(r).reg = r /\ Half(q).reg = q
    BY Told
  <2>2. IndexOf[r] = IndexOf[q]
    BY <1>1, <1>2, <2>1, <2>r
  <2>3. RoundTrips(Ins("ld", Half(r), Half(q), 0), 2)
    BY <2>2, LdHalfHalf
  <2> QED BY <2>1, <2>3, FaithfulHalf
<1>3. CASE t.kind = "half" /\ s.kind = "reg8"
  <2>1. PICK r \in Halves, q \in Bytes8 : t = Half(r) /\ s = R8(q)
    BY <1>3, ByteOperands
  <2>2. q \notin {"h", "l"}
    BY <1>1, <1>3, <2>1, Told
  <2>3. RoundTrips(Ins("ld", Half(r), R8(q), 0), 2)
    BY <2>2, LdHalfRegister
  <2> QED BY <2>1, <2>3, FaithfulR8
<1>4. CASE t.kind = "reg8" /\ s.kind = "half"
  <2>1. PICK r \in Bytes8, q \in Halves : t = R8(r) /\ s = Half(q)
    BY <1>4, ByteOperands
  <2>2. r \notin {"h", "l"}
    BY <1>1, <1>4, <2>1, Told
  <2>3. RoundTrips(Ins("ld", R8(r), Half(q), 0), 2)
    BY <2>2, LdRegisterHalf
  <2> QED BY <2>1, <2>3, FaithfulHalf
<1> QED BY <1>1, <1>2, <1>3, <1>4

LEMMA FaithfulIndirectLd ==
  ASSUME NEW t \in Operands8, NEW s \in Operands8,
         \/ t = R8("a") /\ s.kind = "indirect"
         \/ t.kind = "indirect" /\ s = R8("a")
         \/ t = Indirect("hl") /\ s.kind \in {"reg8", "imm"}
         \/ t.kind = "reg8" /\ s = Indirect("hl")
  PROVE  Faithful(Ins("ld", t, s, 0))
<1>1. CASE t = R8("a") /\ s.kind = "indirect"
  <2>1. s = Indirect("bc") \/ s = Indirect("de") \/ s = Indirect("hl")
    BY <1>1, ByteOperands
  <2>2. /\ Faithful(Ins("ld", R8("a"), Indirect("bc"), 0)) /\ Faithful(Ins("ld", R8("a"), Indirect("de"), 0))
        /\ Faithful(Ins("ld", R8("a"), Indirect("hl"), 0))
    BY LdAccumulatorFromBc, LdAccumulatorFromDe, LdAccumulatorFromHl, FaithfulIndirect
  <2> QED BY <1>1, <2>1, <2>2
<1>2. CASE t.kind = "indirect" /\ s = R8("a")
  <2>1. t = Indirect("bc") \/ t = Indirect("de") \/ t = Indirect("hl")
    BY <1>2, ByteOperands
  <2>2. /\ Faithful(Ins("ld", Indirect("bc"), R8("a"), 0)) /\ Faithful(Ins("ld", Indirect("de"), R8("a"), 0))
        /\ Faithful(Ins("ld", Indirect("hl"), R8("a"), 0))
    BY LdToBc, LdToDe, LdToHl, FaithfulR8
  <2> QED BY <1>2, <2>1, <2>2
<1>3. CASE t = Indirect("hl") /\ s.kind = "reg8"
  <2>1. PICK r \in Bytes8 : s = R8(r)
    BY <1>3, ByteOperands
  <2>2. RoundTrips(Ins("ld", Indirect("hl"), R8(r), 0), 1)
    BY LdMemoryRegister, LdToHl
  <2> QED BY <1>3, <2>1, <2>2, FaithfulR8
<1>4. CASE t = Indirect("hl") /\ s.kind = "imm"
  <2>1. PICK n \in Int : s = Imm(n)
    BY <1>4, ByteOperands
  <2>2. \A v \in Int : RoundTrips(Ins("ld", Indirect("hl"), Imm(v), 0), 2)
    BY LdMemoryByte
  <2> QED BY <1>4, <2>1, <2>2, FaithfulImm
<1>5. CASE t.kind = "reg8" /\ s = Indirect("hl")
  <2>1. PICK r \in Bytes8 : t = R8(r)
    BY <1>5, ByteOperands
  <2>2. RoundTrips(Ins("ld", R8(r), Indirect("hl"), 0), 1)
    BY LdRegisterMemory, LdAccumulatorFromHl
  <2> QED BY <1>5, <2>1, <2>2, FaithfulIndirect
<1> QED BY <1>1, <1>2, <1>3, <1>4, <1>5

LEMMA FaithfulByteLd ==
  ASSUME NEW t \in Operands8, NEW s \in Operands8, SupportedLd(t, s)
  PROVE  Faithful(Ins("ld", t, s, 0))
<1>0. /\ t.kind # "reg16" /\ s.kind # "reg16" /\ R16("de").kind = "reg16" /\ R16("sp").kind = "reg16"
  BY ByteOperands, Told
<1>1. CASE {t, s} \in {{Special(r), R8("a")} : r \in {"i", "r"}}
  <2>1. PICK r \in {"i", "r"} : {t, s} = {Special(r), R8("a")}
    BY <1>1
  <2>k. Special(r).kind = "special8" /\ R8("a").kind = "reg8"
    BY Told
  <2>2. Special(r) # R8("a")
    BY <2>k
  <2>3. (t = Special(r) /\ s = R8("a")) \/ (t = R8("a") /\ s = Special(r))
    BY <2>1, <2>2
  <2>4. RoundTrips(Ins("ld", Special(r), R8("a"), 0), 2) /\ RoundTrips(Ins("ld", R8("a"), Special(r), 0), 2)
    BY LdIAccumulator, LdAccumulatorI, LdRAccumulator, LdAccumulatorR
  <2>5. Faithful(Ins("ld", Special(r), R8("a"), 0)) /\ Faithful(Ins("ld", R8("a"), Special(r), 0))
    BY <2>4, FaithfulR8, FaithfulSpecial
  <2> QED BY <2>3, <2>5
<1>2. CASE SupportedHalfLd(t, s)
  BY <1>2, FaithfulHalfLd
<1>3. CASE t.kind = "reg8" /\ s.kind \in {"reg8", "imm", "indexed"}
  <2>1. PICK r \in Bytes8 : t = R8(r)
    BY <1>3, ByteOperands
  <2>2. CASE s.kind = "reg8"
    <3>1. PICK q \in Bytes8 : s = R8(q)
      BY <2>2, ByteOperands
    <3>2. RoundTrips(Ins("ld", R8(r), R8(q), 0), 1)
      BY LdRegisterRegister
    <3> QED BY <2>1, <3>1, <3>2, FaithfulR8
  <2>3. CASE s.kind = "imm"
    <3>1. PICK n \in Int : s = Imm(n)
      BY <2>3, ByteOperands
    <3>2. \A v \in Int : RoundTrips(Ins("ld", R8(r), Imm(v), 0), 2)
      BY LdRegisterByte
    <3> QED BY <2>1, <3>1, <3>2, FaithfulImm
  <2>4. CASE s.kind = "indexed"
    <3>1. PICK x \in Index, d \in Int : s = Indexed(x, d)
      BY <2>4, ByteOperands
    <3>2. \A v \in Int : RoundTrips(Ins("ld", R8(r), Indexed(x, v), 0), 3)
      BY LdRegisterIndexed
    <3> QED BY <2>1, <3>1, <3>2, FaithfulIndexed
  <2> QED BY <1>3, <2>2, <2>3, <2>4
<1>4. CASE t.kind = "indexed" /\ s.kind \in {"reg8", "imm"}
  <2>1. PICK x \in Index, d \in Int : t = Indexed(x, d)
    BY <1>4, ByteOperands
  <2>2. CASE s.kind = "reg8"
    <3>1. PICK q \in Bytes8 : s = R8(q)
      BY <2>2, ByteOperands
    <3>2. RoundTrips(Ins("ld", Indexed(x, d), R8(q), 0), 3)
      BY LdIndexedRegister
    <3> QED BY <2>1, <3>1, <3>2, FaithfulR8
  <2>3. CASE s.kind = "imm"
    <3>1. PICK n \in Int : s = Imm(n)
      BY <2>3, ByteOperands
    <3>2. \A v \in Int : RoundTrips(Ins("ld", Indexed(x, d), Imm(v), 0), 4)
      BY LdIndexedByte
    <3> QED BY <2>1, <3>1, <3>2, FaithfulImm
  <2> QED BY <1>4, <2>2, <2>3
<1>5. CASE t = R8("a") /\ s.kind = "abs"
  <2>1. PICK n \in Int : s = Abs(n)
    BY <1>5, ByteOperands
  <2>2. \A v \in Int : RoundTrips(Ins("ld", R8("a"), Abs(v), 0), 3)
    BY LdAccumulatorAbsolute
  <2> QED BY <1>5, <2>1, <2>2, FaithfulAbs
<1>6. CASE t.kind = "abs" /\ s = R8("a")
  <2>1. PICK n \in Int : t = Abs(n)
    BY <1>6, ByteOperands
  <2>2. RoundTrips(Ins("ld", Abs(n), R8("a"), 0), 3)
    BY LdAbsoluteAccumulator
  <2> QED BY <1>6, <2>1, <2>2, FaithfulR8
<1>7. CASE \/ t = R8("a") /\ s.kind = "indirect"
           \/ t.kind = "indirect" /\ s = R8("a")
           \/ t = Indirect("hl") /\ s.kind \in {"reg8", "imm"}
           \/ t.kind = "reg8" /\ s = Indirect("hl")
  BY <1>7, FaithfulIndirectLd
<1> QED BY <1>0, <1>1, <1>2, <1>3, <1>4, <1>5, <1>6, <1>7 DEF SupportedLd

LEMMA FaithfulWordLd ==
  ASSUME NEW t \in Operands16, NEW s \in Operands16, SupportedLd(t, s)
  PROVE  Faithful(Ins("ld", t, s, 0)) \/ (t \in {R16("hl"), R16("bc")} /\ s = R16("de"))
<1>0. /\ t.kind \in {"reg16", "abs", "imm"} /\ s.kind \in {"reg16", "abs", "imm"}
      /\ R8("a").kind = "reg8" /\ Indirect("hl").kind = "indirect" /\ Special("i").kind = "special8" /\ Special("r").kind = "special8"
  BY WordOperands, Told
<1>1. {t, s} \notin {{Special(r), R8("a")} : r \in {"i", "r"}}
  <2>1. t # R8("a") /\ s # R8("a")
    BY <1>0
  <2> QED BY <2>1
<1>2. ~SupportedHalfLd(t, s)
  BY <1>0 DEF SupportedHalfLd
<1>3. CASE t.kind = "reg16" /\ s.kind = "imm"
  <2>1. PICK r \in Pairs \cup Index, n \in Int : t = R16(r) /\ s = Imm(n)
    BY <1>3, WordOperands
  <2>2. CASE r \in Pairs
    <3>1. \A v \in Int : RoundTrips(Ins("ld", R16(r), Imm(v), 0), 3)
      BY <2>2, LdPairWord
    <3> QED BY <2>1, <3>1, FaithfulImm
  <2>3. CASE r \in Index
    <3>1. \A v \in Int : RoundTrips(Ins("ld", R16(r), Imm(v), 0), 4)
      BY <2>3, LdIndexWord
    <3> QED BY <2>1, <3>1, FaithfulImm
  <2> QED BY <2>2, <2>3
<1>4. CASE t = R16("sp") /\ s \in {R16("hl"), R16("ix"), R16("iy")}
  <2>1. "ix" \in Index /\ "iy" \in Index
    BY DEF Index
  <2>2. /\ Faithful(Ins("ld", R16("sp"), R16("hl"), 0)) /\ Faithful(Ins("ld", R16("sp"), R16("ix"), 0))
        /\ Faithful(Ins("ld", R16("sp"), R16("iy"), 0))
    BY <2>1, LdStackHl, LdStackIndex, FaithfulR16
  <2> QED BY <1>4, <2>2
<1>5. CASE t.kind = "reg16" /\ s.kind = "abs"
  <2>1. PICK r \in Pairs \cup Index, n \in Int : t = R16(r) /\ s = Abs(n)
    BY <1>5, WordOperands
  <2>2. CASE r \in Pairs \ {"hl"}
    <3>1. \A v \in Int : RoundTrips(Ins("ld", R16(r), Abs(v), 0), 4)
      BY <2>2, LdPairAbsolute
    <3> QED BY <2>1, <3>1, FaithfulAbs
  <2>3. CASE r = "hl"
    <3>1. \A v \in Int : RoundTrips(Ins("ld", R16(r), Abs(v), 0), 3)
      BY <2>3, LdHlAbsolute
    <3> QED BY <2>1, <3>1, FaithfulAbs
  <2>4. CASE r \in Index
    <3>1. \A v \in Int : RoundTrips(Ins("ld", R16(r), Abs(v), 0), 4)
      BY <2>4, LdIndexAbsolute
    <3> QED BY <2>1, <3>1, FaithfulAbs
  <2> QED BY <2>2, <2>3, <2>4
<1>6. CASE t.kind = "abs" /\ s.kind = "reg16"
  <2>1. PICK r \in Pairs \cup Index, n \in Int : s = R16(r) /\ t = Abs(n)
    BY <1>6, WordOperands
  <2>2. CASE r \in Pairs \ {"hl"}
    <3>1. RoundTrips(Ins("ld", Abs(n), R16(r), 0), 4)
      BY <2>2, LdAbsolutePair
    <3> QED BY <2>1, <3>1, FaithfulR16
  <2>3. CASE r = "hl"
    <3>1. RoundTrips(Ins("ld", Abs(n), R16(r), 0), 3)
      BY <2>3, LdAbsoluteHl
    <3> QED BY <2>1, <3>1, FaithfulR16
  <2>4. CASE r \in Index
    <3>1. RoundTrips(Ins("ld", Abs(n), R16(r), 0), 4)
      BY <2>4, LdAbsoluteIndex
    <3> QED BY <2>1, <3>1, FaithfulR16
  <2> QED BY <2>2, <2>3, <2>4
<1> QED BY <1>0, <1>1, <1>2, <1>3, <1>4, <1>5, <1>6 DEF SupportedLd

(* The legacy transfers between register pairs, which are two instructions.         *)
LEMMA EncodingOfPairTransfer ==
  ASSUME NEW r \in {"hl", "bc"}, NEW k
  PROVE  /\ encodeZ80Instruction(Ins("ld", R16(r), R16("de"), k)) = Encoding(2, IF r = "hl" THEN <<Op(98), Op(107)>> ELSE <<Op(66), Op(75)>>)
         /\ TwoTransfers(Ins("ld", R16(r), R16("de"), k))
<1>1. encodeZ80Instruction(Ins("ld", R16(r), R16("de"), k)) = encodeLd(R16(r), R16("de"))
  BY EncodingOf
<1>2. R16(r).kind = "reg16" /\ R16(r).reg = r
  BY Told
<1>3. encodeLd(R16(r), R16("de")) = Encoding(2, IF r = "hl" THEN <<Op(98), Op(107)>> ELSE <<Op(66), Op(75)>>)
  BY <1>2 DEF encodeLd, legacyReg16ByteTransfer
<1>4. TwoTransfers(Ins("ld", R16(r), R16("de"), k))
  BY Fields DEF TwoTransfers
<1> QED BY <1>1, <1>3, <1>4

(* Any instruction the parser accepts, with any number for its operand: if it is    *)
(* assembled, decoding its bytes gives it back, and its length is the size planned  *)
(* for it (encodeZ80Instruction, instructionSize, decodeInstruction).  The only     *)
(* ones that are not are AZM's two-byte transfers LD HL,DE and LD BC,DE.            *)
THEOREM InstructionsReadBack ==
  ASSUME NEW i \in Instructions
  PROVE  Faithful(i) \/ \E r \in {"hl", "bc"} : i = Ins("ld", R16(r), R16("de"), 0)
<1>1. CASE i \in OtherControl \cup Branches(Imm16)
  BY <1>1, FaithfulBranches
<1>2. CASE i \in TransferInstructions \ LdInstructions
  BY <1>2, FaithfulStackAndPorts
<1>3. CASE i \in LdInstructions
  <2>1. PICK q \in {q \in (Operands8 \X Operands8) : SupportedLd(q[1], q[2])}
                   \cup {q \in (Operands16 \X Operands16) : SupportedLd(q[1], q[2])} : i = Ins("ld", q[1], q[2], 0)
    BY <1>3, Zenon DEF LdInstructions
  <2>2. CASE q \in {p \in (Operands8 \X Operands8) : SupportedLd(p[1], p[2])}
    <3>1. q[1] \in Operands8 /\ q[2] \in Operands8 /\ SupportedLd(q[1], q[2])
      BY <2>2
    <3> QED BY <2>1, <3>1, FaithfulByteLd
  <2>3. CASE q \in {p \in (Operands16 \X Operands16) : SupportedLd(p[1], p[2])}
    <3>1. q[1] \in Operands16 /\ q[2] \in Operands16 /\ SupportedLd(q[1], q[2])
      BY <2>3
    <3>2. Faithful(i) \/ (q[1] \in {R16("hl"), R16("bc")} /\ q[2] = R16("de"))
      BY <2>1, <3>1, FaithfulWordLd
    <3> QED BY <2>1, <3>2
  <2> QED BY <2>1, <2>2, <2>3
<1>4. CASE i \in AluInstructions \cup BitInstructions \cup RotateInstructions
  BY <1>4, FaithfulAlu, FaithfulBits, FaithfulRotates
<1>5. CASE i \in {Ins(m, None, None, 0) : m \in CoreMnemonics \cup {"nop"}}
               \cup {Ins("im", None, None, k) : k \in 0..2}
               \cup {Ins(m, o, None, 0) : m \in {"inc", "dec"}, o \in IncDecOperands}
  BY <1>5, FaithfulCore, FaithfulIm, FaithfulCount
<1> QED BY <1>1, <1>2, <1>3, <1>4, <1>5 DEF Instructions, StraightInstructions
=============================================================================
