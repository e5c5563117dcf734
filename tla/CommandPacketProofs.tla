------------------------ MODULE CommandPacketProofs ------------------------
(***************************************************************************)
(* Proofs about CommandPacket, for every set of commands, every number of  *)
(* them in a packet and every buffer that has room for them and for the    *)
(* padding of the cipher: what is packed, converted, sent and taken out    *)
(* stays inside the buffer and arrives as it was, and is reported as what  *)
(* it is.                                                                  *)
(***************************************************************************)
EXTENDS CommandPacket, TLAPS

-----------------------------------------------------------------------------
(***************************************************************************)
(* Formats, and the conversion between the orders.                         *)
(***************************************************************************)

\* A field and a format, whatever the command.
Field == [t : {"b", "w", "d", "q", "s", "v"}, n : Nat]
Formats == {fmt \in Seq(Field) : Len(fmt) <= 4}

\* A field starts where the one before it ends.
LEMMA StartStep ==
  ASSUME NEW fmt \in Formats
  PROVE  /\ Start(fmt, 1) = 0
         /\ \A j \in 1 .. Len(fmt) : Start(fmt, j + 1) = Start(fmt, j) + fmt[j].n
<1> DEFINE L == Len(fmt)
           w == [k \in 1 .. L + 1 |->
                   IF k = 1 THEN 0
                   ELSE IF k = 2 THEN fmt[1].n
                   ELSE IF k = 3 THEN fmt[1].n + fmt[2].n
                   ELSE IF k = 4 THEN fmt[1].n + fmt[2].n + fmt[3].n
                   ELSE fmt[1].n + fmt[2].n + fmt[3].n + fmt[4].n]
           Def(f) == f = [k \in 1 .. L + 1 |-> IF k = 1 THEN 0 ELSE f[k - 1] + fmt[k - 1].n]
           start == CHOOSE f : Def(f)
<1>1. L \in 0 .. 4 /\ \A j \in 1 .. L : fmt[j].n \in Nat
  <2>1. fmt \in Seq(Field) /\ L <= 4
    BY DEF Formats
  <2>2. \A j \in 1 .. L : fmt[j] \in Field
    BY <2>1
  <2>3. L \in Nat
    BY <2>1
  <2>4. \A j \in 1 .. L : fmt[j].n \in Nat
    BY <2>2 DEF Field
  <2> HIDE DEF L
  <2> QED BY <2>1, <2>3, <2>4
<1>2. Def(w)
  <2> SUFFICES ASSUME NEW k \in 1 .. L + 1
               PROVE  w[k] = IF k = 1 THEN 0 ELSE w[k - 1] + fmt[k - 1].n
    OBVIOUS
  <2> HIDE DEF L
  <2> QED BY <1>1
<1>3. Def(start)
  BY <1>2
<1>4. \A j : Start(fmt, j) = start[j]
  BY DEF Start
<1>5. start[1] = 0 /\ \A j \in 1 .. L : start[j + 1] = start[j] + fmt[j].n
  <2> HIDE DEF start
  <2> QED BY <1>1, <1>3
<1> QED BY <1>4, <1>5

\* The fields follow each other from 0 to the size of the format.
LEMMA StartOrder ==
  ASSUME NEW fmt \in Formats
  PROVE  /\ Len(fmt) \in 0 .. 4 /\ Size(fmt) \in Nat
         /\ \A j \in 1 .. Len(fmt) + 1 : Start(fmt, j) \in 0 .. Size(fmt)
         /\ \A j, k \in 1 .. Len(fmt) + 1 : j <= k => Start(fmt, j) <= Start(fmt, k)
         /\ \A j \in 1 .. Len(fmt) : fmt[j] \in Field
<1> DEFINE L == Len(fmt)
           S(j) == Start(fmt, j)
<1>1. fmt \in Seq(Field) /\ L <= 4
  BY DEF Formats
<1>2. L \in 0 .. 4 /\ \A j \in 1 .. L : fmt[j] \in Field
  <2>1. L \in Nat /\ \A j \in 1 .. L : fmt[j] \in Field
    BY <1>1
  <2> HIDE DEF L
  <2> QED BY <1>1, <2>1
<1>3. \A j \in 1 .. L : fmt[j].n \in Nat
  BY <1>2 DEF Field
<1>4. S(1) = 0 /\ \A j \in 1 .. L : S(j + 1) = S(j) + fmt[j].n
  BY StartStep
<1> HIDE DEF S, L
<1>5. \A j \in 1 .. L + 1 : S(j) \in Nat
  <2>1. \A j \in 1 .. L : S(j) \in Nat => S(j + 1) \in Nat
    BY <1>3, <1>4
  <2> QED BY <1>2, <1>4, <2>1
<1>6. \A j \in 1 .. L : S(j) <= S(j + 1)
  <2> SUFFICES ASSUME NEW j \in 1 .. L
               PROVE  S(j) <= S(j + 1)
    OBVIOUS
  <2>1. S(j) \in Nat /\ S(j + 1) = S(j) + fmt[j].n /\ fmt[j].n \in Nat
    BY <1>2, <1>3, <1>4, <1>5
  <2> QED BY <2>1
<1>7. \A j, k \in 1 .. L + 1 : j <= k => S(j) <= S(k)
  BY <1>2, <1>5, <1>6
<1> QED BY <1>2, <1>5, <1>7 DEF S, L, Size

\* Every byte stands in one field.
LEMMA FieldAtFact ==
  ASSUME NEW fmt \in Formats, NEW p \in 1 .. Size(fmt)
  PROVE  /\ FieldAt(fmt, p) \in 1 .. Len(fmt)
         /\ Start(fmt, FieldAt(fmt, p)) < p /\ p <= Start(fmt, FieldAt(fmt, p) + 1)
         /\ \A j \in 1 .. Len(fmt) :
              Start(fmt, j) < p /\ p <= Start(fmt, j + 1) => j = FieldAt(fmt, p)
<1> DEFINE L == Len(fmt)
           S(j) == Start(fmt, j)
<1>1. /\ L \in 0 .. 4 /\ S(1) = 0 /\ p \in Nat /\ 1 <= p /\ p <= S(L + 1)
      /\ \A j \in 1 .. L + 1 : S(j) \in Nat
      /\ \A j, k \in 1 .. L + 1 : j <= k => S(j) <= S(k)
  BY StartOrder, StartStep DEF Size
<1>2. FieldAt(fmt, p) = CHOOSE j \in 1 .. L : S(j) < p /\ p <= S(j + 1)
  BY DEF FieldAt
<1> HIDE DEF S, L
<1>3. \E j \in 1 .. L : S(j) < p /\ p <= S(j + 1)
  BY <1>1
<1>4. FieldAt(fmt, p) \in 1 .. L /\ S(FieldAt(fmt, p)) < p /\ p <= S(FieldAt(fmt, p) + 1)
  BY <1>2, <1>3
<1>5. \A j, k \in 1 .. L : S(j) < p /\ p <= S(j + 1) /\ S(k) < p /\ p <= S(k + 1) => j = k
  BY <1>1
<1> QED BY <1>4, <1>5 DEF S, L

\* The fields the formats are made of.
Fields == {Byte, Word, Dword, Uint64, Text, Rest}

\* A conversion takes every byte from a place inside the format, and without a
\* number of eight bytes it is undone by a second one.
LEMMA ConvertedFact ==
  ASSUME NEW fmt \in Formats, \A j \in 1 .. Len(fmt) : fmt[j] \in Fields,
         NEW p \in 1 .. Size(fmt)
  PROVE  /\ Converted(fmt, p) \in 0 .. Size(fmt)
         /\ (\A j \in 1 .. Len(fmt) : fmt[j].t # "q") =>
              Converted(fmt, p) \in 1 .. Size(fmt) /\ Converted(fmt, Converted(fmt, p)) = p
<1> DEFINE j == FieldAt(fmt, p)
           S == Start(fmt, j)
           f == fmt[j]
           q == Converted(fmt, p)
<1>1. /\ j \in 1 .. Len(fmt) /\ S < p /\ p <= S + f.n /\ S \in Nat /\ S + f.n \in Nat
      /\ S + f.n <= Size(fmt) /\ Start(fmt, j + 1) = S + f.n /\ Size(fmt) \in Nat
  BY FieldAtFact, StartStep, StartOrder
<1>2. f \in Fields
  BY <1>1
<1>3. q = CASE f.t \in {"w", "d"} -> S + f.n + 1 - (p - S)
            [] f.t = "q" -> IF p - S <= 4 THEN S + 5 - (p - S) ELSE 0
            [] OTHER -> p
  BY <1>1 DEF Converted
<1>4. f.n \in Nat /\ (f.t = "q" => f.n = 8)
  BY <1>2 DEF Fields, Byte, Word, Dword, Uint64, Text, Rest
<1>5. q \in 0 .. Size(fmt) /\ (f.t # "q" => S < q /\ q <= S + f.n)
  <2> DEFINE w == f.n
             z == Size(fmt)
  <2> HIDE DEF j, S, f, q
  <2>0. /\ S < p /\ p <= S + w /\ S \in Nat /\ S + w <= z /\ z \in Nat /\ w \in Nat
        /\ p \in Nat /\ (f.t = "q" => w = 8)
    BY <1>1, <1>4
  <2> HIDE DEF w, z
  <2>1. CASE f.t \in {"w", "d"}
    <3>1. q = S + w + 1 - (p - S)
      BY <1>3, <2>1 DEF w
    <3>2. q \in 0 .. z /\ S < q /\ q <= S + w
      BY <2>0, <3>1
    <3> QED BY <3>2 DEF w, z
  <2>2. CASE f.t = "q"
    <3>1. q = IF p - S <= 4 THEN S + 5 - (p - S) ELSE 0
      BY <1>3, <2>2
    <3>2. q \in 0 .. z
      BY <2>0, <2>2, <3>1
    <3> QED BY <2>2, <3>2 DEF z
  <2>3. CASE f.t \notin {"w", "d", "q"}
    <3>1. q = p
      BY <1>3, <2>3
    <3>2. q \in 0 .. z /\ S < q /\ q <= S + w
      BY <2>0, <3>1
    <3> QED BY <3>2 DEF w, z
  <2> QED BY <2>1, <2>2, <2>3
<1>6. ASSUME f.t # "q"
      PROVE  Converted(fmt, q) = p
  <2>1. q \in 1 .. Size(fmt) /\ FieldAt(fmt, q) = j
    <3>1. S < q /\ q <= Start(fmt, j + 1) /\ q \in 1 .. Size(fmt)
      <4> HIDE DEF j, S, f, q
      <4> QED BY <1>1, <1>5, <1>6
    <3> HIDE DEF q
    <3> QED BY <1>1, <3>1, FieldAtFact
  <2>2. Converted(fmt, q) = CASE f.t \in {"w", "d"} -> S + f.n + 1 - (q - S)
            [] f.t = "q" -> IF q - S <= 4 THEN S + 5 - (q - S) ELSE 0
            [] OTHER -> q
    <3> HIDE DEF q
    <3> QED BY <1>1, <2>1 DEF Converted
  <2> HIDE DEF j, S, f, q
  <2>3. CASE f.t \in {"w", "d"}
    <3>1. q = S + f.n + 1 - (p - S) /\ Converted(fmt, q) = S + f.n + 1 - (q - S)
      BY <1>3, <2>2, <2>3
    <3>2. \A x \in Nat : S + x + 1 - ((S + x + 1 - (p - S)) - S) = p
      BY <1>1
    <3> QED BY <1>4, <3>1, <3>2
  <2>4. CASE f.t \notin {"w", "d", "q"}
    BY <1>3, <2>2, <2>4
  <2> QED BY <1>6, <2>3, <2>4
<1>7. (\A k \in 1 .. Len(fmt) : fmt[k].t # "q") => f.t # "q"
  BY <1>1
<1> QED
  <2> HIDE DEF S, f, q
  <2> QED BY <1>1, <1>5, <1>6, <1>7 DEF q

\* The formats of responses.
RspFormats ==
  {<<Word>>, <<Word, Dword>>, <<Word, Rest>>, <<Word, Text, Dword>>, <<Word, Dword, Word>>,
   <<Word, Dword, Dword>>}

\* What a field adds to Offset.
Skipped(f) == IF f.t \in {"s", "f", "v"} THEN 0 ELSE f.n

\* Offset grows field by field.
LEMMA CountedStep ==
  ASSUME NEW fmt \in Formats
  PROVE  \E g \in Formats :
           /\ Len(g) = Len(fmt) /\ Counted(fmt) = Start(g, Len(fmt) + 1) /\ Start(g, 1) = 0
           /\ \A j \in 1 .. Len(fmt) : Start(g, j + 1) = Start(g, j) + Skipped(fmt[j])
<1> DEFINE g == [j \in 1 .. Len(fmt) |->
                   [fmt[j] EXCEPT !.n = IF fmt[j].t \in {"s", "f", "v"} THEN 0 ELSE @]]
<1>1. Len(fmt) \in 0 .. 4 /\ \A j \in 1 .. Len(fmt) : fmt[j] \in Field
  BY StartOrder
<1>2. \A j \in 1 .. Len(fmt) : g[j] \in Field /\ g[j].n = Skipped(fmt[j])
  BY <1>1 DEF Field, Skipped
<1>3. g \in Seq(Field) /\ Len(g) = Len(fmt)
  BY <1>1, <1>2
<1>4. Counted(fmt) = Size(g)
  BY DEF Counted
<1> HIDE DEF g
<1>5. g \in Formats
  BY <1>1, <1>3 DEF Formats
<1>6. Start(g, 1) = 0 /\ \A j \in 1 .. Len(g) : Start(g, j + 1) = Start(g, j) + g[j].n
  BY <1>5, StartStep
<1> QED BY <1>2, <1>3, <1>4, <1>5, <1>6 DEF Size

\* The size of a format of one field.
LEMMA Sizes1 ==
  ASSUME NEW a \in Fields
  PROVE  /\ <<a>> \in Formats /\ Len(<<a>>) = 1 /\ \A j \in 1 .. 1 : <<a>>[j] \in Fields
         /\ Size(<<a>>) = a.n /\ Counted(<<a>>) = Skipped(a)
<1>1. \A f \in Fields : f \in Field
  BY DEF Fields, Field, Byte, Word, Dword, Uint64, Text, Rest
<1> DEFINE fmt == <<a>>
<1>2. fmt \in Formats /\ Len(fmt) = 1 /\ fmt[1] = a
  BY <1>1 DEF Formats
<1> HIDE DEF fmt
<1>3. Start(fmt, 1) = 0 /\ \A j \in 1 .. Len(fmt) : Start(fmt, j + 1) = Start(fmt, j) + fmt[j].n
  BY <1>2, StartStep
<1>4. PICK g \in Formats :
        /\ Counted(fmt) = Start(g, Len(fmt) + 1) /\ Start(g, 1) = 0
        /\ \A j \in 1 .. Len(fmt) : Start(g, j + 1) = Start(g, j) + Skipped(fmt[j])
  BY <1>2, CountedStep
<1>5. a.n \in Nat /\ Skipped(a) \in Nat
  BY <1>1 DEF Field, Skipped
<1>6. Size(fmt) = a.n /\ Counted(fmt) = Skipped(a)
  BY <1>2, <1>3, <1>4, <1>5 DEF Size
<1> QED BY <1>2, <1>6 DEF fmt

\* The same of two fields.
LEMMA Sizes2 ==
  ASSUME NEW a \in Fields, NEW b \in Fields
  PROVE  /\ <<a, b>> \in Formats /\ Len(<<a, b>>) = 2 /\ \A j \in 1 .. 2 : <<a, b>>[j] \in Fields
         /\ Size(<<a, b>>) = a.n + b.n /\ Counted(<<a, b>>) = Skipped(a) + Skipped(b)
<1>1. \A f \in Fields : f \in Field
  BY DEF Fields, Field, Byte, Word, Dword, Uint64, Text, Rest
<1> DEFINE fmt == <<a, b>>
<1>2. fmt \in Formats /\ Len(fmt) = 2 /\ fmt[1] = a /\ fmt[2] = b
  BY <1>1 DEF Formats
<1> HIDE DEF fmt
<1>3. Start(fmt, 1) = 0 /\ \A j \in 1 .. Len(fmt) : Start(fmt, j + 1) = Start(fmt, j) + fmt[j].n
  BY <1>2, StartStep
<1>4. PICK g \in Formats :
        /\ Counted(fmt) = Start(g, Len(fmt) + 1) /\ Start(g, 1) = 0
        /\ \A j \in 1 .. Len(fmt) : Start(g, j + 1) = Start(g, j) + Skipped(fmt[j])
  BY <1>2, CountedStep
<1>5. \A f \in {a, b} : f.n \in Nat /\ Skipped(f) \in Nat
  BY <1>1 DEF Field, Skipped
<1>6. Size(fmt) = a.n + b.n /\ Counted(fmt) = Skipped(a) + Skipped(b)
  <2>1. Start(fmt, 2) = a.n /\ Start(fmt, 3) = Start(fmt, 2) + b.n
    BY <1>2, <1>3, <1>5
  <2>2. Start(g, 2) = Skipped(a) /\ Start(g, 3) = Start(g, 2) + Skipped(b)
    BY <1>2, <1>4, <1>5
  <2> QED BY <1>2, <1>4, <2>1, <2>2 DEF Size
<1> QED BY <1>2, <1>6 DEF fmt

\* The same of three fields.
LEMMA Sizes3 ==
  ASSUME NEW a \in Fields, NEW b \in Fields, NEW c \in Fields
  PROVE  /\ <<a, b, c>> \in Formats /\ Len(<<a, b, c>>) = 3
         /\ \A j \in 1 .. 3 : <<a, b, c>>[j] \in Fields
         /\ Size(<<a, b, c>>) = a.n + b.n + c.n
         /\ Counted(<<a, b, c>>) = Skipped(a) + Skipped(b) + Skipped(c)
<1>1. \A f \in Fields : f \in Field
  BY DEF Fields, Field, Byte, Word, Dword, Uint64, Text, Rest
<1> DEFINE fmt == <<a, b, c>>
<1>2. fmt \in Formats /\ Len(fmt) = 3 /\ fmt[1] = a /\ fmt[2] = b /\ fmt[3] = c
  BY <1>1 DEF Formats
<1> HIDE DEF fmt
<1>3. Start(fmt, 1) = 0 /\ \A j \in 1 .. Len(fmt) : Start(fmt, j + 1) = Start(fmt, j) + fmt[j].n
  BY <1>2, StartStep
<1>4. PICK g \in Formats :
        /\ Counted(fmt) = Start(g, Len(fmt) + 1) /\ Start(g, 1) = 0
        /\ \A j \in 1 .. Len(fmt) : Start(g, j + 1) = Start(g, j) + Skipped(fmt[j])
  BY <1>2, CountedStep
<1>5. \A f \in {a, b, c} : f.n \in Nat /\ Skipped(f) \in Nat
  BY <1>1 DEF Field, Skipped
<1>6. Size(fmt) = a.n + b.n + c.n /\ Counted(fmt) = Skipped(a) + Skipped(b) + Skipped(c)
  <2>1. /\ Start(fmt, 2) = a.n /\ Start(fmt, 3) = Start(fmt, 2) + b.n
        /\ Start(fmt, 4) = Start(fmt, 3) + c.n
    BY <1>2, <1>3, <1>5
  <2>2. /\ Start(g, 2) = Skipped(a) /\ Start(g, 3) = Start(g, 2) + Skipped(b)
        /\ Start(g, 4) = Start(g, 3) + Skipped(c)
    BY <1>2, <1>4, <1>5
  <2> QED BY <1>2, <1>4, <2>1, <2>2 DEF Size
<1> QED BY <1>2, <1>6 DEF fmt

\* The sizes of the fields.
LEMMA FieldSizes ==
  /\ {Byte, Word, Dword, Uint64, Text, Rest} \subseteq Fields /\ Fields \subseteq Field
  /\ Byte.n = 1 /\ Word.n = 2 /\ Dword.n = 4 /\ Uint64.n = 8 /\ Text.n = 3 /\ Rest.n = 2
  /\ Byte.t = "b" /\ Word.t = "w" /\ Dword.t = "d" /\ Uint64.t = "q" /\ Text.t = "s" /\ Rest.t = "v"
  /\ Skipped(Word) = 2 /\ Skipped(Dword) = 4 /\ Skipped(Text) = 0 /\ Skipped(Rest) = 0
BY DEF Fields, Field, Skipped, Byte, Word, Dword, Uint64, Text, Rest

\* A format of these fields.
WellFormed(fmt) == fmt \in Formats /\ \A j \in 1 .. Len(fmt) : fmt[j] \in Fields

\* The header is four numbers of two bytes, whose bytes change places.
LEMMA HeaderFormatFact ==
  /\ WellFormed(HeaderFormat) /\ Size(HeaderFormat) = TLV
  /\ \A j \in 1 .. Len(HeaderFormat) : HeaderFormat[j].t = "w"
  /\ \A p \in 1 .. TLV : Converted(HeaderFormat, p) = IF p % 2 = 1 THEN p + 1 ELSE p - 1
<1> DEFINE fmt == HeaderFormat
<1>1. /\ fmt \in Formats /\ Len(fmt) = 4 /\ \A j \in 1 .. 4 : fmt[j] = Word
      /\ Word \in Fields /\ Word.n = 2 /\ Word.t = "w"
  BY FieldSizes DEF Formats, HeaderFormat
<1> HIDE DEF fmt
<1>2. Start(fmt, 1) = 0 /\ \A j \in 1 .. Len(fmt) : Start(fmt, j + 1) = Start(fmt, j) + fmt[j].n
  BY <1>1, StartStep
<1>3. Start(fmt, 2) = 2 /\ Start(fmt, 3) = 4 /\ Start(fmt, 4) = 6 /\ Start(fmt, 5) = 8
  BY <1>1, <1>2
<1>4. WellFormed(fmt) /\ Size(fmt) = TLV /\ \A j \in 1 .. Len(fmt) : fmt[j].t = "w"
  BY <1>1, <1>3 DEF WellFormed, Size, TLV
<1>5. ASSUME NEW p \in 1 .. TLV
      PROVE  Converted(fmt, p) = IF p % 2 = 1 THEN p + 1 ELSE p - 1
  <2> DEFINE j == FieldAt(fmt, p)
  <2>1. j \in 1 .. 4 /\ Start(fmt, j) < p /\ p <= Start(fmt, j + 1)
    BY <1>1, <1>4, FieldAtFact
  <2>2. Converted(fmt, p) = Start(fmt, j) + 3 - (p - Start(fmt, j))
    <3>1. ~(p > Size(fmt)) /\ fmt[j].t \in {"w", "d"} /\ fmt[j].n = 2 /\ Start(fmt, j) \in Nat
      BY <1>1, <1>2, <1>3, <1>4, <2>1 DEF TLV
    <3>2. Converted(fmt, p) = Start(fmt, j) + fmt[j].n + 1 - (p - Start(fmt, j))
      BY <3>1 DEF Converted
    <3> QED BY <3>1, <3>2
  <2> HIDE DEF j
  <2>3. p \in 1 .. 8
    BY DEF TLV
  <2> DEFINE x == Start(fmt, j)
             y == Start(fmt, j + 1)
  <2>4. x \in {0, 2, 4, 6} /\ y = x + 2
    BY <1>2, <1>3, <2>1
  <2>5. x < p /\ p <= y /\ Converted(fmt, p) = x + 3 - (p - x)
    BY <2>1, <2>2
  <2> HIDE DEF x, y
  <2>6. p = x + 1 \/ p = x + 2
    BY <2>3, <2>4, <2>5
  <2>7. CASE p = x + 1
    <3>1. p % 2 = 1 /\ x + 3 - (p - x) = p + 1
      BY <2>4, <2>7
    <3> QED BY <2>5, <3>1
  <2>8. CASE p = x + 2
    <3>1. p % 2 = 0 /\ x + 3 - (p - x) = p - 1
      BY <2>4, <2>8
    <3> QED BY <2>5, <3>1
  <2> QED BY <2>6, <2>7, <2>8
<1> QED BY <1>4, <1>5 DEF fmt

\* In a response the error code comes first, and at most three bytes are not
\* counted.
LEMMA RspFormatFact ==
  ASSUME NEW fmt \in RspFormats
  PROVE  /\ WellFormed(fmt) /\ Len(fmt) >= 1 /\ fmt[1] = Word
         /\ Size(fmt) \in 2 .. ParaBuf /\ Counted(fmt) \in 2 .. Size(fmt)
         /\ Size(fmt) - Counted(fmt) \in 0 .. 3
         /\ (Size(fmt) = 2 => fmt = <<Word>>)
         /\ (\A j \in 1 .. Len(fmt) : fmt[j].t \notin {"s", "v"}) => Counted(fmt) = Size(fmt)
         /\ \A j \in 1 .. Len(fmt) : fmt[j].t # "q"
<1>1. CASE fmt = <<Word>>
  BY <1>1, FieldSizes, Sizes1 DEF WellFormed, ParaBuf
<1>2. CASE \E b \in {Dword, Rest} : fmt = <<Word, b>>
  <2> PICK b \in {Dword, Rest} : fmt = <<Word, b>>
    BY <1>2
  <2>1. /\ fmt \in Formats /\ Len(fmt) = 2 /\ \A j \in 1 .. 2 : fmt[j] \in Fields
        /\ Size(fmt) = 2 + b.n /\ Counted(fmt) = 2 + Skipped(b)
    BY FieldSizes, Sizes2
  <2> QED BY <2>1, FieldSizes DEF WellFormed, ParaBuf
<1>3. CASE \E b \in {Text, Dword}, c \in {Word, Dword} : fmt = <<Word, b, c>>
  <2> PICK b \in {Text, Dword}, c \in {Word, Dword} : fmt = <<Word, b, c>>
    BY <1>3
  <2>1. /\ fmt \in Formats /\ Len(fmt) = 3 /\ \A j \in 1 .. 3 : fmt[j] \in Fields
        /\ Size(fmt) = 2 + b.n + c.n /\ Counted(fmt) = 2 + Skipped(b) + Skipped(c)
    BY FieldSizes, Sizes3
  <2> QED BY <2>1, FieldSizes DEF WellFormed, ParaBuf
<1> QED BY <1>1, <1>2, <1>3 DEF RspFormats

\* A byte, named by the command, the field and its place there.
Cell == Nat \X Nat \X Nat

\* cvt_fmt_ntoh undoes cvt_fmt_hton when there is no number of eight bytes, and
\* both convert alike when there is no v.
LEMMA CvtFact ==
  ASSUME NEW fmt, WellFormed(fmt), NEW bytes \in Seq(Cell), Len(bytes) = Size(fmt)
  PROVE  /\ cvt_fmt(fmt, bytes) \in Seq(Cell) /\ Len(cvt_fmt(fmt, bytes)) = Size(fmt)
         /\ (\A j \in 1 .. Len(fmt) : fmt[j].t # "q") =>
              cvt_fmt(fmt, cvt_fmt(fmt, bytes)) = bytes
         /\ cvt_fmt_out(fmt, bytes) \in Seq(Cell) /\ Len(cvt_fmt_out(fmt, bytes)) = Size(fmt)
         /\ (Len(fmt) >= 1 /\ \A j \in 1 .. Len(fmt) : fmt[j].t # "v") =>
              cvt_fmt_out(fmt, bytes) = cvt_fmt(fmt, bytes)
<1> DEFINE n == Size(fmt)
           C(p) == Converted(fmt, p)
           in == cvt_fmt(fmt, bytes)
           out == cvt_fmt_out(fmt, bytes)
<1>1. /\ n \in Nat /\ Len(fmt) \in 0 .. 4
      /\ \A p \in 1 .. n : bytes[p] \in Cell /\ C(p) \in 0 .. n
  BY StartOrder, ConvertedFact DEF WellFormed
<1>2. Zero \in Cell
  BY DEF Zero, Cell
<1>3. in = [p \in 1 .. n |-> IF C(p) = 0 THEN Zero ELSE bytes[C(p)]]
  BY DEF cvt_fmt
<1>4. out = [p \in 1 .. n |->
              IF fmt[Len(fmt)].t = "v" /\ p > Start(fmt, Len(fmt)) THEN Zero ELSE in[p]]
  BY DEF cvt_fmt_out
<1> HIDE DEF n, C
<1>5. in \in [1 .. n -> Cell]
  <2> SUFFICES ASSUME NEW p \in 1 .. n
               PROVE  (IF C(p) = 0 THEN Zero ELSE bytes[C(p)]) \in Cell
    BY <1>3
  <2> QED BY <1>1, <1>2
<1>6. out \in [1 .. n -> Cell]
  <2> HIDE DEF in, out
  <2> QED BY <1>2, <1>4, <1>5
<1>7. in \in Seq(Cell) /\ Len(in) = n /\ out \in Seq(Cell) /\ Len(out) = n
  <2> HIDE DEF in, out
  <2> QED BY <1>1, <1>5, <1>6
<1>8. ASSUME \A j \in 1 .. Len(fmt) : fmt[j].t # "q"
      PROVE  cvt_fmt(fmt, in) = bytes
  <2>1. \A p \in 1 .. n : C(p) \in 1 .. n /\ C(C(p)) = p
    BY <1>8, ConvertedFact DEF C, n, WellFormed
  <2>2. cvt_fmt(fmt, in) = [p \in 1 .. n |-> IF C(p) = 0 THEN Zero ELSE in[C(p)]]
    BY <1>7 DEF cvt_fmt, C
  <2>3. \A p \in 1 .. n : cvt_fmt(fmt, in)[p] = bytes[p]
    <3> SUFFICES ASSUME NEW p \in 1 .. n
                 PROVE  cvt_fmt(fmt, in)[p] = bytes[p]
      OBVIOUS
    <3>1. C(p) \in 1 .. n /\ C(C(p)) = p /\ C(p) # 0 /\ C(C(p)) # 0
      BY <1>1, <2>1
    <3> HIDE DEF in
    <3> QED BY <1>3, <2>2, <3>1
  <2>4. bytes = [p \in 1 .. n |-> bytes[p]]
    BY DEF n
  <2> HIDE DEF in
  <2> QED BY <2>2, <2>3, <2>4
<1>9. ASSUME Len(fmt) >= 1 /\ \A j \in 1 .. Len(fmt) : fmt[j].t # "v"
      PROVE  out = in
  <2>1. fmt[Len(fmt)].t # "v"
    BY <1>1, <1>9
  <2> HIDE DEF in, out
  <2> QED BY <1>4, <1>5, <2>1
<1> QED BY <1>7, <1>8, <1>9 DEF n

-----------------------------------------------------------------------------
(***************************************************************************)
(* What is packed.                                                         *)
(***************************************************************************)

\* The formats of commands.
CmdFormats == {<<Dword>>, <<Text>>, <<Byte, Rest>>, <<Uint64, Word>>, <<Text, Text>>}

\* Which format a command has.
LEMMA FormatFact ==
  ASSUME NEW cmd \in DOMAIN Format
  PROVE  /\ Registered(cmd) <=> cmd # "ps"
         /\ cmd # "ps" => Format[cmd].cmd \in CmdFormats /\ Format[cmd].rsp \in RspFormats
         /\ cmd \in Statuses => Format[cmd].rsp = <<Word>>
         /\ cmd = "query" => Format[cmd].rsp = <<Word, Dword>>
<1>1. cmd \in {"query", "commit", "delete", "modify", "store", "qrget", "list", "ps", "login",
               "active"}
  BY DEF Format
<1>2. Format["ps"].cmd = <<>>
  BY DEF Format
<1>3. cmd # "ps" => Format[cmd].cmd \in CmdFormats
  BY <1>1 DEF Format, CmdFormats
<1>4. cmd # "ps" => Format[cmd].rsp \in RspFormats
  BY <1>1 DEF Format, RspFormats
<1>5. \A fmt \in CmdFormats : fmt # <<>>
  BY DEF CmdFormats
<1>6. Registered(cmd) <=> cmd # "ps"
  BY <1>2, <1>3, <1>5 DEF Registered
<1>7. cmd \in Statuses => Format[cmd].rsp = <<Word>>
  BY DEF Format, Statuses
<1>8. cmd = "query" => Format[cmd].rsp = <<Word, Dword>>
  BY DEF Format
<1> QED BY <1>3, <1>4, <1>6, <1>7, <1>8

\* A command has at least one field, and its parameters fit into their buffer.
LEMMA CmdFormatFact ==
  ASSUME NEW fmt \in CmdFormats
  PROVE  WellFormed(fmt) /\ Len(fmt) \in 1 .. 3 /\ Size(fmt) \in 1 .. ParaBuf
<1>1. CASE \E a \in {Dword, Text} : fmt = <<a>>
  BY <1>1, FieldSizes, Sizes1 DEF WellFormed, ParaBuf
<1>2. CASE \E a \in {Byte, Uint64, Text}, b \in {Rest, Word, Text} : fmt = <<a, b>>
  <2> PICK a \in {Byte, Uint64, Text}, b \in {Rest, Word, Text} : fmt = <<a, b>>
    BY <1>2
  <2>1. /\ fmt \in Formats /\ Len(fmt) = 2 /\ \A j \in 1 .. 2 : fmt[j] \in Fields
        /\ Size(fmt) = a.n + b.n
    BY FieldSizes, Sizes2
  <2> QED BY <2>1, FieldSizes DEF WellFormed, ParaBuf
<1> QED BY <1>1, <1>2 DEF CmdFormats

\* What the application hands over has the format of its command.
LEMMA InputFact ==
  ASSUME NEW c \in Inputs
  PROVE  /\ c.cmd \in Cmds /\ c.cmd \in DOMAIN Format /\ c.rsp \in BOOLEAN /\ c.failed \in BOOLEAN
         /\ c.given \in 0 .. Len(FormatOf(c.cmd, c.rsp))
         /\ c.failed => c.rsp
         /\ c.rsp => c.given = Len(FormatOf(c.cmd, c.rsp))
         /\ c.cmd # "ps" =>
              /\ FormatOf(c.cmd, c.rsp) \in CmdFormats \cup RspFormats
              /\ c.rsp => FormatOf(c.cmd, c.rsp) \in RspFormats
<1>1. c \in [cmd : Cmds, rsp : BOOLEAN, failed : BOOLEAN, given : 0 .. 3]
  BY DEF Inputs
<1>2. /\ c.failed => c.rsp
      /\ c.given <= Len(FormatOf(c.cmd, c.rsp))
      /\ c.rsp => c.given = Len(FormatOf(c.cmd, c.rsp))
  BY DEF Inputs
<1>3. c.cmd \in DOMAIN Format
  BY <1>1, PacketAssumption
<1>4. c.cmd # "ps" =>
        /\ FormatOf(c.cmd, c.rsp) \in CmdFormats \cup RspFormats
        /\ c.rsp => FormatOf(c.cmd, c.rsp) \in RspFormats
  BY <1>3, FormatFact DEF FormatOf
<1>5. c.given \in 0 .. Len(FormatOf(c.cmd, c.rsp))
  <2>1. CASE c.cmd = "ps"
    <3>1. FormatOf(c.cmd, c.rsp) = <<>>
      BY <1>1, <2>1 DEF FormatOf, Format
    <3> QED BY <1>1, <1>2, <3>1
  <2>2. CASE c.cmd # "ps"
    <3>1. Len(FormatOf(c.cmd, c.rsp)) \in Nat
      BY <1>4, <2>2, CmdFormatFact, RspFormatFact, StartOrder DEF WellFormed
    <3> QED BY <1>1, <1>2, <3>1
  <2> QED BY <2>1, <2>2
<1> QED BY <1>1, <1>2, <1>3, <1>4, <1>5

\* The bytes of the values that were packed.
LEMMA PackedFact ==
  ASSUME NEW i \in Nat, NEW c \in Inputs, WellFormed(FormatOf(c.cmd, c.rsp)),
         NEW n \in 0 .. Len(FormatOf(c.cmd, c.rsp))
  PROVE  /\ Packed(i, c, n) \in Seq(Cell)
         /\ Len(Packed(i, c, n)) = Start(FormatOf(c.cmd, c.rsp), n + 1)
         /\ \A p \in 1 .. Start(FormatOf(c.cmd, c.rsp), n + 1) :
              LET j == FieldAt(FormatOf(c.cmd, c.rsp), p)
              IN Packed(i, c, n)[p] = FieldBytes(i, c, j)[p - Start(FormatOf(c.cmd, c.rsp), j)]
<1> DEFINE fmt == FormatOf(c.cmd, c.rsp)
           m == Start(fmt, n + 1)
           J(p) == FieldAt(fmt, p)
           At0(p) == FieldBytes(i, c, J(p))[p - Start(fmt, J(p))]
<1>1. fmt \in Formats /\ m \in 0 .. Size(fmt) /\ Size(fmt) \in Nat /\ n + 1 \in 1 .. Len(fmt) + 1
  BY StartOrder DEF WellFormed
<1>2. ASSUME NEW p \in 1 .. m
      PROVE  At0(p) \in Cell
  <2>1. p \in 1 .. Size(fmt)
    BY <1>1
  <2>2. /\ J(p) \in 1 .. Len(fmt) /\ Start(fmt, J(p)) < p /\ p <= Start(fmt, J(p) + 1)
        /\ Start(fmt, J(p) + 1) = Start(fmt, J(p)) + fmt[J(p)].n
        /\ Start(fmt, J(p)) \in Nat /\ fmt[J(p)].n \in Nat
    BY <1>1, <2>1, FieldAtFact, StartStep, StartOrder DEF Field
  <2> DEFINE k == p - Start(fmt, J(p))
             f == fmt[J(p)]
  <2>3. k \in 1 .. f.n /\ k \in Nat /\ J(p) \in Nat
    <3> DEFINE s == Start(fmt, J(p))
               x == f.n
    <3>1. s \in Nat /\ x \in Nat /\ p \in Nat /\ s < p /\ p <= s + x
      BY <1>1, <2>1, <2>2
    <3>2. J(p) \in Nat
      BY <2>2
    <3> HIDE DEF s, x
    <3>3. p - s \in 1 .. x /\ p - s \in Nat
      BY <3>1
    <3> QED BY <3>2, <3>3 DEF s, x
  <2>4. FieldBytes(i, c, J(p)) =
          [x \in 1 .. f.n |->
             IF (f.t = "s" /\ x = f.n) \/ (c.rsp /\ J(p) = 1 /\ ~c.failed) THEN Zero
             ELSE <<i, J(p), x>>]
    BY DEF FieldBytes
  <2> HIDE DEF J, k, f
  <2>5. FieldBytes(i, c, J(p))[k] \in {Zero, <<i, J(p), k>>}
    BY <2>3, <2>4
  <2> QED BY <2>3, <2>5 DEF Zero, Cell, k
<1>3. Packed(i, c, n) = [p \in 1 .. m |-> At0(p)]
  BY DEF Packed
<1> HIDE DEF At0, m
<1>4. Packed(i, c, n) \in [1 .. m -> Cell]
  BY <1>2, <1>3
<1>5. Packed(i, c, n) \in Seq(Cell) /\ Len(Packed(i, c, n)) = m
  BY <1>1, <1>4
<1>6. \A p \in 1 .. m : Packed(i, c, n)[p] = At0(p)
  BY <1>3
<1> QED BY <1>5, <1>6 DEF m, At0

\* The error code of a response is what its first two bytes say.
CodeCells(i, c) == [j \in 1 .. 2 |-> IF c.failed THEN <<i, 1, j>> ELSE Zero]

\* The parameters fill at most the buffer for them; a response that has a format
\* is packed without an error and starts with its error code.
LEMMA PacketParamFact ==
  ASSUME NEW i \in Nat, NEW c \in Inputs
  PROVE  LET q == PacketParam(i, c)
             fmt == FormatOf(c.cmd, c.rsp)
         IN /\ q.para \in Seq(Cell) /\ Len(q.para) \in 1 .. ParaBuf /\ q.error \in BOOLEAN
            /\ c.cmd = "ps" => Len(q.para) = ParaBuf /\ q.error
            /\ c.rsp /\ c.cmd # "ps" =>
                 /\ ~q.error /\ Len(q.para) = (IF c.failed THEN 2 ELSE Size(fmt))
                 /\ \A j \in 1 .. 2 : q.para[j] = CodeCells(i, c)[j]
<1> DEFINE q == PacketParam(i, c)
           fmt == FormatOf(c.cmd, c.rsp)
           fits == {j \in 0 .. c.given : Start(fmt, j + 1) <= ParaBuf}
           n == CHOOSE j \in fits : \A k \in fits : k <= j
<1>1. \A m \in Nat : JunkBytes(m) \in Seq(Cell) /\ Len(JunkBytes(m)) = m
  <2> SUFFICES ASSUME NEW m \in Nat
               PROVE  JunkBytes(m) \in Seq(Cell) /\ Len(JunkBytes(m)) = m
    OBVIOUS
  <2>1. JunkBytes(m) \in [1 .. m -> Cell]
    BY DEF JunkBytes, Junk, Cell
  <2>2. JunkBytes(m) \in Seq(Cell)
    BY <2>1
  <2> QED BY <2>1, <2>2
<1>2. c.cmd \in DOMAIN Format /\ (Registered(c.cmd) <=> c.cmd # "ps")
  BY InputFact, FormatFact
<1>3. CASE c.cmd = "ps"
  <2>1. q = [para |-> JunkBytes(ParaBuf), error |-> TRUE]
    BY <1>2, <1>3 DEF PacketParam
  <2>2. ParaBuf \in Nat /\ ParaBuf \in 1 .. ParaBuf
    BY DEF ParaBuf
  <2>3. q.para = JunkBytes(ParaBuf) /\ q.error = TRUE
    BY <2>1
  <2>4. q.para \in Seq(Cell) /\ Len(q.para) = ParaBuf
    BY <1>1, <2>2, <2>3
  <2> HIDE DEF q
  <2> QED BY <1>3, <2>2, <2>3, <2>4 DEF q
<1>4. CASE c.cmd # "ps"
  <2>1. /\ WellFormed(fmt) /\ Len(fmt) \in Nat /\ Len(fmt) >= 1 /\ Size(fmt) \in 1 .. ParaBuf
        /\ c.rsp => fmt \in RspFormats /\ fmt[1] = Word
        /\ \A j \in 1 .. Len(fmt) + 1 : Start(fmt, j) \in 0 .. Size(fmt)
        /\ \A j, k \in 1 .. Len(fmt) + 1 : j <= k => Start(fmt, j) <= Start(fmt, k)
        /\ \A j \in 1 .. Len(fmt) : fmt[j].n \in Nat \ {0}
    <3>1. /\ WellFormed(fmt) /\ Len(fmt) >= 1 /\ Size(fmt) \in 1 .. ParaBuf
          /\ c.rsp => fmt \in RspFormats /\ fmt[1] = Word
      BY <1>4, InputFact, CmdFormatFact, RspFormatFact DEF ParaBuf
    <3>2. \A j \in 1 .. Len(fmt) : fmt[j].n \in Nat \ {0}
      BY <3>1 DEF WellFormed, Fields, Byte, Word, Dword, Uint64, Text, Rest
    <3> HIDE DEF fmt
    <3>3. fmt \in Formats
      BY <3>1 DEF WellFormed
    <3>4. /\ Len(fmt) \in Nat
          /\ \A j \in 1 .. Len(fmt) + 1 : Start(fmt, j) \in 0 .. Size(fmt)
          /\ \A j, k \in 1 .. Len(fmt) + 1 : j <= k => Start(fmt, j) <= Start(fmt, k)
      BY <3>3, StartOrder
    <3> QED BY <3>1, <3>2, <3>4
  <2>2. /\ c.given \in 0 .. Len(fmt) /\ (c.failed => c.rsp) /\ (c.rsp => c.given = Len(fmt))
        /\ c.failed \in BOOLEAN /\ c.rsp \in BOOLEAN
    BY InputFact
  <2>3. n = c.given
    <3> HIDE DEF fmt
    <3>1. fits = 0 .. c.given
      <4> SUFFICES ASSUME NEW j \in 0 .. c.given
                   PROVE  Start(fmt, j + 1) <= ParaBuf
        OBVIOUS
      <4>1. j + 1 \in 1 .. Len(fmt) + 1
        BY <2>1, <2>2
      <4>2. Start(fmt, j + 1) \in 0 .. Size(fmt) /\ Size(fmt) \in 1 .. ParaBuf
        BY <2>1, <4>1
      <4> QED BY <4>2 DEF ParaBuf
    <3> HIDE DEF fits
    <3>2. c.given \in fits /\ \A k \in fits : k <= c.given
      BY <2>2, <3>1
    <3>3. n \in fits /\ \A k \in fits : k <= n
      BY <3>2
    <3> HIDE DEF n
    <3> QED BY <2>2, <3>1, <3>2, <3>3
  <2>4. /\ c.failed => q = [para |-> Packed(i, c, 1), error |-> FALSE]
        /\ ~c.failed /\ n = Len(fmt) => q = [para |-> Packed(i, c, n), error |-> FALSE]
        /\ ~c.failed /\ n < Len(fmt) =>
             q = [para |-> Packed(i, c, n) \o JunkBytes(fmt[n + 1].n), error |-> TRUE]
    <3>1. ~(n < Len(fmt) /\ n = Len(fmt))
      <4> HIDE DEF n, fmt
      <4> QED BY <2>1, <2>2, <2>3
    <3> QED BY <1>2, <1>4, <2>2, <3>1 DEF PacketParam
  <2> HIDE DEF n
  <2>5. \A m \in 0 .. Len(fmt) :
          Packed(i, c, m) \in Seq(Cell) /\ Len(Packed(i, c, m)) = Start(fmt, m + 1)
    BY <2>1, PackedFact
  <2>6. CASE c.rsp
    <3> DEFINE m == IF c.failed THEN 1 ELSE Len(fmt)
    <3>1. q.para = Packed(i, c, m) /\ q.error = FALSE /\ m \in 1 .. Len(fmt)
      <4>1. m \in 1 .. Len(fmt)
        <5> HIDE DEF fmt
        <5> QED BY <2>1
      <4>2. n = Len(fmt)
        BY <2>2, <2>3, <2>6
      <4> HIDE DEF fmt
      <4> QED BY <2>4, <4>1, <4>2
    <3>2. /\ Start(fmt, 1) = 0 /\ Start(fmt, 2) = 2 /\ 2 <= Start(fmt, m + 1)
          /\ Start(fmt, m + 1) = IF c.failed THEN 2 ELSE Size(fmt)
      <4>1. Word.n = 2 /\ fmt \in Formats /\ fmt[1] = Word /\ fmt \in RspFormats
        BY <2>1, <2>6, FieldSizes DEF WellFormed
      <4>2. Start(fmt, 1) = 0 /\ Start(fmt, 1 + 1) = Start(fmt, 1) + fmt[1].n
        BY <2>1, <4>1, StartStep
      <4>3. Size(fmt) \in 2 .. ParaBuf
        BY <4>1, RspFormatFact
      <4> HIDE DEF fmt
      <4> QED BY <4>1, <4>2, <4>3 DEF Size
    <3>3. q.para \in Seq(Cell) /\ Len(q.para) = Start(fmt, m + 1)
      <4> HIDE DEF m, q, fmt
      <4> QED BY <2>5, <3>1
    <3>4. Start(fmt, m + 1) \in 2 .. ParaBuf
      <4> HIDE DEF fmt
      <4> QED BY <2>1, <3>2 DEF ParaBuf
    <3>5. ASSUME NEW j \in 1 .. 2
          PROVE  q.para[j] = CodeCells(i, c)[j]
      <4>1. j \in 1 .. Start(fmt, m + 1) /\ j \in 1 .. Size(fmt) /\ m \in 0 .. Len(fmt)
        <5> HIDE DEF fmt
        <5> QED BY <2>1, <3>1, <3>2, <3>4
      <4>2. FieldAt(fmt, j) = 1
        <5>1. Start(fmt, 1) < j /\ j <= Start(fmt, 1 + 1) /\ 1 \in 1 .. Len(fmt)
          BY <2>1, <3>2
        <5> QED BY <2>1, <4>1, <5>1, FieldAtFact DEF WellFormed
      <4>3. q.para[j] = FieldBytes(i, c, 1)[j - Start(fmt, 1)]
        <5>1. Packed(i, c, m)[j] =
                FieldBytes(i, c, FieldAt(fmt, j))[j - Start(fmt, FieldAt(fmt, j))]
          <6> HIDE DEF m
          <6> QED BY <2>1, <4>1, PackedFact
        <5> QED BY <3>1, <4>2, <5>1
      <4>4. FieldBytes(i, c, 1)[j] = IF c.failed THEN <<i, 1, j>> ELSE Zero
        <5>1. fmt[1].n = 2 /\ fmt[1].t = "w"
          BY <2>1, <2>6, FieldSizes
        <5> QED BY <2>6, <5>1 DEF FieldBytes
      <4> QED BY <3>2, <4>3, <4>4 DEF CodeCells
    <3>6. Len(q.para) \in 1 .. ParaBuf
      BY <3>3, <3>4 DEF ParaBuf
    <3>7. Len(q.para) = IF c.failed THEN 2 ELSE Size(fmt)
      BY <3>2, <3>3
    <3> HIDE DEF q, fmt, m
    <3> QED BY <1>4, <3>1, <3>3, <3>5, <3>6, <3>7 DEF q, fmt
  <2>7. CASE ~c.rsp
    <3>1. n \in 0 .. Len(fmt) /\ ~c.failed
      BY <2>2, <2>3, <2>7
    <3>2. Packed(i, c, n) \in Seq(Cell) /\ Len(Packed(i, c, n)) = Start(fmt, n + 1)
      BY <2>5, <3>1
    <3>3. CASE n = Len(fmt)
      <4>1. q.para = Packed(i, c, n) /\ q.error = FALSE
        BY <2>4, <3>1, <3>3
      <4>2. Start(fmt, n + 1) \in 1 .. ParaBuf
        BY <2>1, <3>3 DEF Size
      <4> QED BY <1>4, <2>7, <3>2, <4>1, <4>2
    <3>4. CASE n < Len(fmt)
      <4>1. q.para = Packed(i, c, n) \o JunkBytes(fmt[n + 1].n) /\ q.error = TRUE
        BY <2>4, <3>1, <3>4
      <4>2. n + 1 \in 1 .. Len(fmt) /\ fmt[n + 1].n \in Nat \ {0}
        BY <2>1, <3>1, <3>4
      <4>3. Start(fmt, n + 2) = Start(fmt, n + 1) + fmt[n + 1].n /\ Start(fmt, n + 1) \in Nat
        <5>1. Start(fmt, (n + 1) + 1) = Start(fmt, n + 1) + fmt[n + 1].n
          BY <2>1, <4>2, StartStep DEF WellFormed
        <5>2. (n + 1) + 1 = n + 2
          BY <3>1
        <5> QED BY <2>1, <4>2, <5>1, <5>2
      <4>4. Start(fmt, n + 2) \in 1 .. ParaBuf
        <5>1. n + 2 \in 1 .. Len(fmt) + 1
          BY <2>1, <3>1, <3>4
        <5>2. Start(fmt, n + 2) \in 0 .. Size(fmt)
          BY <2>1, <5>1
        <5>3. Size(fmt) \in 1 .. 12 /\ fmt[n + 1].n >= 1 /\ fmt[n + 1].n \in Nat
          BY <2>1, <4>2 DEF ParaBuf
        <5> HIDE DEF fmt
        <5> QED BY <4>3, <5>2, <5>3 DEF ParaBuf
      <4>5. JunkBytes(fmt[n + 1].n) \in Seq(Cell) /\ Len(JunkBytes(fmt[n + 1].n)) = fmt[n + 1].n
        BY <1>1, <4>2
      <4>6. q.para \in Seq(Cell) /\ Len(q.para) = Start(fmt, n + 1) + fmt[n + 1].n
        <5> DEFINE a == Packed(i, c, n)
                   b == JunkBytes(fmt[n + 1].n)
        <5>1. a \in Seq(Cell) /\ b \in Seq(Cell) /\ q.para = a \o b
          BY <3>2, <4>1, <4>5
        <5>2. Len(a) = Start(fmt, n + 1) /\ Len(b) = fmt[n + 1].n
          BY <3>2, <4>5
        <5> HIDE DEF a, b, fmt, q
        <5>3. a \o b \in Seq(Cell) /\ Len(a \o b) = Len(a) + Len(b)
          BY <5>1
        <5> QED BY <5>1, <5>2, <5>3
      <4> QED BY <1>4, <2>7, <4>1, <4>3, <4>4, <4>6
    <3> QED BY <2>1, <3>1, <3>3, <3>4
  <2> QED BY <2>2, <2>6, <2>7
<1> QED BY <1>3, <1>4

-----------------------------------------------------------------------------
(***************************************************************************)
(* The inductive invariant. The last bytes of a command are written over   *)
(* by the header of the next, as Offset does not count texts: the          *)
(* invariant follows the bytes of every command up to there, from the      *)
(* packer to the reader.                                                   *)
(***************************************************************************)

\* The most a command takes in a packet.
Slot == TLV + ParaBuf

Put == [c : Inputs, para : Seq(Cell), error : BOOLEAN, written : BOOLEAN, at : Nat]
Got == [i : Nat, para : Seq(Cell)]
File == [cmd : Statuses \cap Cmds, zip : FileLens, named : FileLens, over : BOOLEAN]

\* What AddToPacket counted is what PacketParam made of the input.
PutOK(o, k, p) ==
  /\ p.c \in Inputs
  /\ p.para = PacketParam(k, p.c).para /\ p.error = PacketParam(k, p.c).error
  /\ p.written = (o = "host" \/ Known(p.c, Len(p.para)))
  /\ o = "host" \/ p.c.rsp

\* The types.
TypeInv ==
  /\ helper \in {"raw", "crm", "bdt"} /\ order \in {"host", "net"}
  /\ phase \in {"pack", "sent", "read", "done", "handed"}
  /\ mem \in [1 .. MsgBuf -> Cell] /\ puts \in Seq(Put) /\ got \in Seq(Got)
  /\ offset \in Nat /\ num \in Nat /\ len \in Nat /\ msgLen \in Nat /\ staleLen \in 0 .. ParaBuf
  /\ file \in File \cup {NoFile}

PutsInv == Len(puts) <= MaxCmds /\ \A k \in 1 .. Len(puts) : PutOK(order, k, puts[k])

\* The counters agree with the lists of commands at every stage.
StageInv ==
  /\ num <= Len(puts) /\ Len(got) <= Len(puts)
  /\ phase = "pack" => num = Len(puts) /\ got = <<>> /\ file = NoFile /\ staleLen = 0
  /\ phase = "read" => num + Len(got) = Len(puts) /\ helper # "bdt"
  /\ phase = "sent" => helper = "bdt" /\ file \in File
  /\ helper = "bdt" => puts = <<>> /\ offset = 0 /\ len = 0 /\ staleLen = 0
  /\ phase # "handed" => calls = <<>>

\* The message of a file has the buffer of the length that was named.
FileInv ==
  /\ phase = "sent" => /\ msgLen = FileBuffer(file.named)
                       /\ file.over = (BigHead + GzipHead + file.zip > FileBuffer(file.named))
  /\ helper = "bdt" /\ phase # "sent" => msgLen = 0

\* No position goes beyond the room of the commands that were put in, or taken
\* out, so far.
BoundInv ==
  /\ len <= HeadLen + Slot * Len(puts)
  /\ offset <= MsgBuf
  /\ phase = "pack" => offset <= HeadLen + Slot * Len(puts) /\ msgLen = 0
  /\ phase = "read" => offset <= HeadLen + Slot * Len(got)
  /\ helper # "bdt" => msgLen <= RoundUp(HeadLen + Slot * Len(puts))
  /\ \A k \in 1 .. Len(got) : got[k].i <= Len(puts)

\* Of a command p in order o: its format, the bytes Offset moved over its
\* parameters, those it did not move over, the cells of its header and of its
\* parameters, and where it ends for the next one.
Fmt(p) == ParaFormat(p.c, Len(p.para))
Moved(o, p) == IF o = "host" THEN Len(p.para) ELSE Counted(Fmt(p))
Over(o, p) == Len(p.para) - Moved(o, p)
HeadCells(o, k) == IF o = "host" THEN HeaderBytes(k) ELSE cvt_fmt(HeaderFormat, HeaderBytes(k))
ParaCells(o, p) == IF o = "host" THEN p.para ELSE cvt_fmt_out(Fmt(p), p.para)
EndOf(o, p) == p.at + TLV + Moved(o, p)

\* The packet has every command it counts, in its own order.
Clean == order = "host" \/ (file = NoFile /\ \A j \in 1 .. Len(puts) : puts[j].written)

\* Where the reader stands.
ReadAt == IF offset = 0 THEN HeadLen ELSE offset

\* Each command is where the one before it ends, and inside the packet.
PlacesInv ==
  /\ \A k \in 1 .. Len(puts) :
       /\ puts[k].at + TLV + Len(puts[k].para) <= len
       /\ puts[k].at >= HeadLen
       /\ k = 1 => puts[k].at = HeadLen
       /\ k < Len(puts) => puts[k + 1].at = EndOf(order, puts[k])
  /\ \A j, k \in 1 .. Len(puts) : j < k => EndOf(order, puts[j]) <= puts[k].at
  /\ phase = "pack" /\ puts # <<>> => offset = EndOf(order, puts[Len(puts)])
  /\ phase \in {"read", "done"} =>
       \A k \in 1 .. Len(puts) : puts[k].at + TLV + Len(puts[k].para) <= msgLen

\* The memory m holds the header of p but for its first bytes, up to low, and the
\* parameters up to high: the rest is written over by the neighbour.
HeadIs(m, o, k, p, low) == \A j \in 1 .. TLV : j > low => m[p.at + j] = HeadCells(o, k)[j]
ParaIs(m, o, p, high) == \A j \in 1 .. high : m[p.at + TLV + j] = ParaCells(o, p)[j]

\* The commands that are still to be taken out are in the memory as they were put
\* there: a command is written over the end of the one before it.
CellsInv ==
  phase \in {"pack", "read"} =>
  \A k \in 1 .. Len(puts) : k > Len(got) =>
    /\ HeadIs(mem, order, k, puts[k], IF k = 1 THEN 0 ELSE Over(order, puts[k - 1]))
    /\ ParaIs(mem, order, puts[k],
              IF k = Len(puts) THEN Len(puts[k].para) ELSE Moved(order, puts[k]))

\* The reader stands where the next command was put.
ReadInv ==
  /\ phase = "read" /\ Len(got) < Len(puts) => ReadAt = puts[Len(got) + 1].at
  /\ phase = "read" => staleLen = IF got = <<>> THEN 0 ELSE Len(puts[Len(got)].para)
  /\ \A k \in 1 .. Len(got) : got[k].i = k

\* What a clean packet holds.
LayoutInv == Clean => PlacesInv /\ CellsInv /\ ReadInv

\* The inductive invariant: the types, the bounds, what the packet holds while it
\* is clean, and the three properties.
IInv ==
  /\ TypeInv /\ PutsInv /\ StageInv /\ FileInv /\ BoundInv /\ LayoutInv
  /\ Len(calls) <= 1 /\ Intact /\ Complete /\ Reported

-----------------------------------------------------------------------------
(***************************************************************************)
(* The memory.                                                             *)
(***************************************************************************)

\* The buffer has room for the commands and for the padding of the cipher.
LEMMA Buffer ==
  /\ HeadLen = 4 /\ TLV = 8 /\ ParaBuf = 12 /\ Slot = 20 /\ MaxCmds \in Nat \ {0} /\ MsgBuf \in Nat
  /\ \A n \in Nat : RoundUp(n) \in Nat /\ n <= RoundUp(n) /\ RoundUp(n) <= n + 15
  /\ \A m, n \in Nat : m <= n => RoundUp(m) <= RoundUp(n)
  /\ \A k \in 0 .. MaxCmds : RoundUp(HeadLen + Slot * k) <= MsgBuf /\ HeadLen + Slot * k <= MsgBuf
<1>1. HeadLen = 4 /\ TLV = 8 /\ ParaBuf = 12 /\ Slot = 20
  BY DEF HeadLen, TLV, ParaBuf, Slot
<1>2. \A n \in Nat : RoundUp(n) \in Nat /\ n <= RoundUp(n) /\ RoundUp(n) <= n + 15
  BY DEF RoundUp
<1>3. \A m, n \in Nat : m <= n => RoundUp(m) <= RoundUp(n)
  BY DEF RoundUp
<1>4. MaxCmds \in Nat \ {0} /\ MsgBuf \in Nat /\ RoundUp(4 + MaxCmds * 20) <= MsgBuf
  <2>1. MaxCmds \in Nat \ {0} /\ MsgBuf \in Nat /\ 4 + MaxCmds * 20 <= (MsgBuf \div 16) * 16
    BY <1>1, PacketAssumption
  <2>2. ASSUME NEW n \in Nat, n <= (MsgBuf \div 16) * 16
        PROVE  RoundUp(n) <= MsgBuf
    BY <2>1, <2>2 DEF RoundUp
  <2>3. 4 + MaxCmds * 20 \in Nat
    BY <2>1
  <2> QED BY <2>1, <2>2, <2>3
<1>5. ASSUME NEW k \in 0 .. MaxCmds
      PROVE  RoundUp(4 + 20 * k) <= MsgBuf /\ 4 + 20 * k <= MsgBuf
  <2>1. 4 + 20 * k <= 4 + MaxCmds * 20 /\ 4 + 20 * k \in Nat /\ 4 + MaxCmds * 20 \in Nat
    BY <1>4
  <2>2. RoundUp(4 + 20 * k) <= RoundUp(4 + MaxCmds * 20)
    BY <1>3, <2>1
  <2> QED BY <1>2, <1>4, <2>1, <2>2
<1> QED BY <1>1, <1>2, <1>3, <1>4, <1>5

\* A piece of the memory.
LEMMA PieceFact ==
  ASSUME NEW m \in [1 .. MsgBuf -> Cell], NEW off \in Nat, NEW n \in Nat, off + n <= MsgBuf
  PROVE  /\ SubSeq(m, off + 1, off + n) \in Seq(Cell) /\ Len(SubSeq(m, off + 1, off + n)) = n
         /\ \A j \in 1 .. n : SubSeq(m, off + 1, off + n)[j] = m[off + j]
<1>1. MsgBuf \in Nat
  BY Buffer
<1>2. m \in Seq(Cell) /\ Len(m) = MsgBuf
  BY <1>1
<1>3. SubSeq(m, off + 1, off + n) = [j \in 1 .. n |-> m[off + j]]
  BY <1>1, <1>2
<1>4. \A j \in 1 .. n : m[off + j] \in Cell
  BY <1>1
<1>5. SubSeq(m, off + 1, off + n) \in [1 .. n -> Cell]
  BY <1>3, <1>4
<1>6. SubSeq(m, off + 1, off + n) \in Seq(Cell) /\ Len(SubSeq(m, off + 1, off + n)) = n
  <2> DEFINE s == SubSeq(m, off + 1, off + n)
  <2>1. s \in [1 .. n -> Cell]
    BY <1>5
  <2> HIDE DEF s
  <2>2. s \in Seq(Cell) /\ Len(s) = n
    BY <2>1
  <2> QED BY <2>2 DEF s
<1> QED BY <1>3, <1>6

\* Writing changes the bytes that are written, and no other.
LEMMA WrittenFact ==
  ASSUME mem \in [1 .. MsgBuf -> Cell], NEW off \in Nat, NEW bytes \in Seq(Cell)
  PROVE  /\ Written(off, bytes) \in [1 .. MsgBuf -> Cell]
         /\ \A p \in 1 .. MsgBuf :
              p <= off \/ p > off + Len(bytes) => Written(off, bytes)[p] = mem[p]
         /\ \A j \in 1 .. Len(bytes) : off + j <= MsgBuf => Written(off, bytes)[off + j] = bytes[j]
<1>1. MsgBuf \in Nat /\ Len(bytes) \in Nat /\ \A j \in 1 .. Len(bytes) : bytes[j] \in Cell
  <2>1. MsgBuf \in Nat
    BY Buffer
  <2>2. Len(bytes) \in Nat /\ \A j \in 1 .. Len(bytes) : bytes[j] \in Cell
    OBVIOUS
  <2> QED BY <2>1, <2>2
<1>2. Written(off, bytes) =
        [p \in 1 .. MsgBuf |-> IF p > off /\ p <= off + Len(bytes) THEN bytes[p - off] ELSE mem[p]]
  BY DEF Written
<1>3. \A p \in 1 .. MsgBuf : p > off /\ p <= off + Len(bytes) => bytes[p - off] \in Cell
  BY <1>1
<1>4. Written(off, bytes) \in [1 .. MsgBuf -> Cell]
  BY <1>2, <1>3
<1>5. \A p \in 1 .. MsgBuf : p <= off \/ p > off + Len(bytes) => Written(off, bytes)[p] = mem[p]
  BY <1>1, <1>2
<1>6. ASSUME NEW j \in 1 .. Len(bytes), off + j <= MsgBuf
      PROVE  Written(off, bytes)[off + j] = bytes[j]
  <2>1. /\ off + j \in 1 .. MsgBuf /\ off + j > off
        /\ off + j <= off + Len(bytes) /\ (off + j) - off = j
    BY <1>1, <1>6
  <2> QED BY <1>2, <2>1
<1> QED BY <1>4, <1>5, <1>6

\* The last bytes of a header name its command, in both orders.
LEMMA HeaderFact ==
  ASSUME NEW o \in {"host", "net"}, NEW k \in Nat
  PROVE  /\ HeadCells(o, k) \in Seq(Cell) /\ Len(HeadCells(o, k)) = TLV
         /\ HeaderBytes(k) \in Seq(Cell) /\ Len(HeaderBytes(k)) = TLV
         /\ HeadCells("net", k)[7] = <<k, 0, 8>> /\ HeadCells("host", k)[8] = <<k, 0, 8>>
         /\ cvt_fmt(HeaderFormat, HeadCells("net", k)) = HeaderBytes(k)
<1>1. HeaderBytes(k) = [j \in 1 .. 8 |-> <<k, 0, j>>] /\ TLV = 8
  BY DEF HeaderBytes, TLV
<1>2. HeaderBytes(k) \in [1 .. 8 -> Cell]
  BY <1>1 DEF Cell
<1>3. HeaderBytes(k) \in Seq(Cell) /\ Len(HeaderBytes(k)) = TLV
  BY <1>1, <1>2
<1>4. /\ cvt_fmt(HeaderFormat, HeaderBytes(k)) \in Seq(Cell)
      /\ Len(cvt_fmt(HeaderFormat, HeaderBytes(k))) = TLV
      /\ cvt_fmt(HeaderFormat, cvt_fmt(HeaderFormat, HeaderBytes(k))) = HeaderBytes(k)
  <2>1. /\ WellFormed(HeaderFormat) /\ Size(HeaderFormat) = TLV
        /\ \A j \in 1 .. Len(HeaderFormat) : HeaderFormat[j].t # "q"
    BY HeaderFormatFact
  <2> QED BY <1>3, <2>1, CvtFact
<1>5. cvt_fmt(HeaderFormat, HeaderBytes(k))[7] = <<k, 0, 8>>
  <2>1. Converted(HeaderFormat, 7) = 8
    BY <1>1, HeaderFormatFact
  <2>2. cvt_fmt(HeaderFormat, HeaderBytes(k))[7] = HeaderBytes(k)[8]
    BY <1>1, <1>3, <2>1 DEF cvt_fmt
  <2> QED BY <1>1, <2>2
<1> QED BY <1>1, <1>3, <1>4, <1>5 DEF HeadCells

\* The reader takes no command for another.
LEMMA IndexFact ==
  ASSUME NEW bytes, NEW k \in 1 .. Len(puts), Len(puts) \in Nat
  PROVE  /\ IndexOf(bytes) \in 0 .. Len(puts)
         /\ bytes[8] = <<k, 0, 8>> => IndexOf(bytes) \in {0, k}
         /\ bytes = HeaderBytes(k) => IndexOf(bytes) = k
<1>1. \A i \in 1 .. Len(puts) : HeaderBytes(i)[8] = <<i, 0, 8>>
  BY DEF HeaderBytes, TLV
<1>2. \A i \in 1 .. Len(puts) : bytes = HeaderBytes(i) /\ bytes[8] = <<k, 0, 8>> => i = k
  BY <1>1
<1>3. \/ IndexOf(bytes) = 0 /\ ~\E i \in 1 .. Len(puts) : bytes = HeaderBytes(i)
      \/ IndexOf(bytes) \in 1 .. Len(puts) /\ bytes = HeaderBytes(IndexOf(bytes))
  BY DEF IndexOf
<1> QED BY <1>1, <1>2, <1>3

\* The command found is one that was put in, or none.
LEMMA IndexType ==
  ASSUME NEW bytes, Len(puts) \in Nat
  PROVE  IndexOf(bytes) \in 0 .. Len(puts)
BY DEF IndexOf

\* What a packed command is, whoever packed it.
LEMMA PutFact ==
  ASSUME NEW o \in {"host", "net"}, NEW k \in Nat, NEW p \in Put, PutOK(o, k, p)
  PROVE  /\ p.c \in Inputs /\ p.para \in Seq(Cell) /\ Len(p.para) \in 1 .. ParaBuf /\ p.at \in Nat
         /\ o = "net" /\ p.written =>
              /\ Fmt(p) \in RspFormats /\ Size(Fmt(p)) = Len(p.para)
              /\ Fmt(p) \in {<<Word>>, FormatOf(p.c.cmd, p.c.rsp)}
         /\ o = "host" \/ p.written =>
              /\ Moved(o, p) \in 1 .. Len(p.para) /\ Over(o, p) \in 0 .. 3
              /\ ParaCells(o, p) \in Seq(Cell) /\ Len(ParaCells(o, p)) = Len(p.para)
         /\ o = "host" => Moved(o, p) = Len(p.para) /\ ParaCells(o, p) = p.para
<1> DEFINE c == p.c
           n == Len(p.para)
           fmt == FormatOf(c.cmd, c.rsp)
<1>1. /\ c \in Inputs /\ p.para \in Seq(Cell) /\ n \in 1 .. ParaBuf /\ p.at \in Nat
      /\ c.cmd = "ps" => n = ParaBuf
      /\ c.rsp /\ c.cmd # "ps" => n = IF c.failed THEN 2 ELSE Size(fmt)
  <2>1. c \in Inputs /\ p.para \in Seq(Cell) /\ p.at \in Nat
    BY DEF Put
  <2>2. p.para = PacketParam(k, c).para
    BY DEF PutOK
  <2> HIDE DEF c
  <2>3. LET q == PacketParam(k, c)
        IN /\ Len(q.para) \in 1 .. ParaBuf
           /\ c.cmd = "ps" => Len(q.para) = ParaBuf
           /\ c.rsp /\ c.cmd # "ps" => Len(q.para) = IF c.failed THEN 2 ELSE Size(fmt)
    BY <2>1, PacketParamFact
  <2> QED BY <2>1, <2>2, <2>3
<1>2. /\ c.cmd \in DOMAIN Format /\ c.rsp \in BOOLEAN
      /\ c.rsp /\ c.cmd # "ps" => fmt \in RspFormats
  BY <1>1, InputFact
<1>3. ASSUME o = "net", p.written
      PROVE  /\ Fmt(p) \in RspFormats /\ Size(Fmt(p)) = n
             /\ Fmt(p) \in {<<Word>>, fmt}
  <2>1. c.rsp /\ (ShortResponse(c, n) \/ Registered(c.cmd))
    BY <1>3 DEF PutOK, Known
  <2>2. CASE n = 2
    <3>1. Fmt(p) = <<Word>>
      BY <2>1, <2>2, FieldSizes DEF Fmt, ParaFormat, ShortResponse
    <3>2. <<Word>> \in RspFormats /\ Size(<<Word>>) = 2
      BY FieldSizes, Sizes1 DEF RspFormats
    <3> QED BY <2>2, <3>1, <3>2
  <2>3. CASE n # 2
    <3>1. ~ShortResponse(c, n) /\ Fmt(p) = fmt
      BY <2>3, FieldSizes DEF Fmt, ParaFormat, ShortResponse
    <3>2. c.cmd # "ps"
      BY <1>2, <2>1, <3>1, FormatFact
    <3>3. fmt \in RspFormats /\ n = Size(fmt)
      BY <1>1, <1>2, <2>1, <2>3, <3>2
    <3> QED BY <3>1, <3>3
  <2> QED BY <2>2, <2>3
<1>4. ASSUME o = "net", p.written
      PROVE  /\ Moved(o, p) \in 1 .. n /\ Over(o, p) \in 0 .. 3
             /\ ParaCells(o, p) \in Seq(Cell) /\ Len(ParaCells(o, p)) = n
  <2> DEFINE f == Fmt(p)
  <2>1. /\ WellFormed(f) /\ Counted(f) \in 2 .. Size(f) /\ Size(f) - Counted(f) \in 0 .. 3
        /\ Size(f) = n /\ Size(f) \in 2 .. ParaBuf
    BY <1>3, <1>4, RspFormatFact
  <2>2. Moved(o, p) = Counted(f) /\ ParaCells(o, p) = cvt_fmt_out(f, p.para)
    BY <1>4 DEF Moved, ParaCells
  <2>3. Moved(o, p) \in 1 .. n /\ Over(o, p) \in 0 .. 3
    <3> HIDE DEF f
    <3> QED BY <2>1, <2>2 DEF Over
  <2>4. ParaCells(o, p) \in Seq(Cell) /\ Len(ParaCells(o, p)) = n
    BY <1>1, <2>1, <2>2, CvtFact
  <2> QED BY <2>3, <2>4
<1>5. ASSUME o = "host"
      PROVE  /\ Moved(o, p) = n /\ Over(o, p) = 0 /\ ParaCells(o, p) = p.para
  <2>1. Moved(o, p) = n /\ ParaCells(o, p) = p.para
    BY <1>5 DEF Moved, ParaCells
  <2>2. n - n = 0
    BY <1>1
  <2> QED BY <2>1, <2>2 DEF Over
<1>6. n \in 1 .. n /\ 0 \in 0 .. 3
  <2> HIDE DEF n
  <2> QED BY <1>1 DEF ParaBuf
<1> HIDE DEF fmt, n, c
<1> QED BY <1>1, <1>3, <1>4, <1>5, <1>6 DEF fmt, n, c

\* A command without a v and without a number of eight bytes is read as it was
\* packed, and one without a text as well ends where the next begins.
LEMMA ReadBack ==
  ASSUME NEW k \in Nat, NEW p \in Put, PutOK("net", k, p), p.written, ~Has(p, {"v", "q"})
  PROVE  /\ cvt_fmt(Fmt(p), ParaCells("net", p)) = p.para
         /\ ~Has(p, {"s"}) => Over("net", p) = 0
<1> DEFINE f == Fmt(p)
<1>1. /\ f \in RspFormats /\ Size(f) = Len(p.para) /\ p.para \in Seq(Cell)
      /\ f \in {<<Word>>, FormatOf(p.c.cmd, p.c.rsp)}
  BY PutFact
<1>2. WellFormed(f) /\ Len(f) >= 1 /\ \A j \in 1 .. Len(f) : f[j].t # "q"
  BY <1>1, RspFormatFact
<1>3. \A j \in 1 .. Len(<<Word>>) : <<Word>>[j].t = "w"
  BY FieldSizes
<1>4. \A j \in 1 .. Len(f) : f[j].t # "v"
  BY <1>1, <1>3 DEF Has
<1>5. cvt_fmt_out(f, p.para) = cvt_fmt(f, p.para) /\ cvt_fmt(f, cvt_fmt(f, p.para)) = p.para
  BY <1>1, <1>2, <1>4, CvtFact
<1>6. cvt_fmt(f, ParaCells("net", p)) = p.para
  BY <1>5 DEF ParaCells
<1>7. ASSUME ~Has(p, {"s"})
      PROVE  Over("net", p) = 0
  <2>1. \A j \in 1 .. Len(f) : f[j].t \notin {"s", "v"}
    BY <1>1, <1>3, <1>4, <1>7 DEF Has
  <2>2. Counted(f) = Size(f) /\ Size(f) \in Nat
    BY <1>1, <2>1, RspFormatFact
  <2> HIDE DEF f
  <2> QED BY <1>1, <2>2 DEF Over, Moved, f
<1> QED BY <1>6, <1>7

-----------------------------------------------------------------------------
(***************************************************************************)
(* The steps of the packer and of the reader, whichever helper takes them. *)
(***************************************************************************)

\* The step of both AddToPacket with command c.
Place == IF offset = 0 \/ num = 0 THEN HeadLen ELSE offset
NewPut(c) ==
  LET q == PacketParam(Len(puts) + 1, c)
  IN [c |-> c, para |-> q.para, error |-> q.error,
      written |-> order = "host" \/ Known(c, Len(q.para)), at |-> Place]

AddStep(c) ==
  /\ phase = "pack" /\ helper # "bdt" /\ Len(puts) < MaxCmds /\ (order = "host" \/ c.rsp)
  /\ num' = num + 1 /\ puts' = Append(puts, NewPut(c))
  /\ len' = (IF offset = 0 \/ num = 0 THEN HeadLen ELSE len) + TLV + Len(NewPut(c).para)
  /\ IF NewPut(c).written
     THEN /\ mem' = Written(Place, HeadCells(order, Len(puts) + 1) \o ParaCells(order, NewPut(c)))
          /\ offset' = EndOf(order, NewPut(c))
     ELSE mem' = mem /\ offset' = Place
  /\ UNCHANGED <<helper, file, order, msgLen, phase, staleLen, got, calls>>

\* Both AddToPacket take that step.
LEMMA AddNormal ==
  ASSUME TypeInv, RawAddToPacket \/ CRMAddToPacket
  PROVE  \E c \in Inputs : AddStep(c)
<1>1. PICK c \in Inputs :
        /\ phase = "pack" /\ helper # "bdt" /\ Len(puts) < MaxCmds
        /\ \/ Add(c, LAMBDA n : TLV + n)
           \/ Add(c, LAMBDA n : IF n = 0 THEN 0 ELSE TLV + n)
  BY DEF RawAddToPacket, CRMAddToPacket
<1> DEFINE i == Len(puts) + 1
           q == PacketParam(i, c)
           n == Len(q.para)
           p == NewPut(c)
<1>2. Len(puts) \in Nat /\ order \in {"host", "net"} /\ offset \in Nat
  BY DEF TypeInv
<1>3. q.para \in Seq(Cell) /\ n \in 1 .. ParaBuf
  BY <1>2, PacketParamFact
<1>4. n # 0
  <2> HIDE DEF n
  <2> QED BY <1>3 DEF ParaBuf
<1>5. /\ p.c = c /\ p.para = q.para /\ p.error = q.error /\ p.at = Place
      /\ p.written = (order = "host" \/ Known(c, n))
      /\ p = [c |-> c, para |-> q.para, error |-> q.error,
              written |-> order = "host" \/ Known(c, n), at |-> Place]
  BY DEF NewPut
<1>6. /\ ~c.rsp => order = "host"
      /\ num' = num + 1 /\ puts' = Append(puts, p)
      /\ len' = (IF offset = 0 \/ num = 0 THEN HeadLen ELSE len) + TLV + n
      /\ IF order = "host"
         THEN mem' = Written(Place, HeaderBytes(i) \o q.para) /\ offset' = Place + (TLV + n)
         ELSE cvt_tlv_hton(Place, i, c, q.para)
      /\ UNCHANGED <<helper, file, order, msgLen, phase, staleLen, got, calls>>
  <2>1. CASE Add(c, LAMBDA x : TLV + x)
    BY <2>1, <1>5 DEF Add, Place
  <2>2. CASE Add(c, LAMBDA x : IF x = 0 THEN 0 ELSE TLV + x)
    BY <2>2, <1>4, <1>5 DEF Add, Place
  <2> QED BY <1>1, <2>1, <2>2
<1>7. IF p.written
      THEN /\ mem' = Written(Place, HeadCells(order, i) \o ParaCells(order, p))
           /\ offset' = EndOf(order, p)
      ELSE mem' = mem /\ offset' = Place
  <2>1. Place \in Nat /\ TLV \in Nat
    BY <1>2, Buffer DEF Place
  <2> HIDE DEF p, q, n
  <2>2. CASE order = "host"
    <3>1. HeadCells(order, i) = HeaderBytes(i) /\ ParaCells(order, p) = q.para
      BY <1>5, <2>2 DEF HeadCells, ParaCells
    <3>2. EndOf(order, p) = Place + TLV + n
      BY <1>5, <2>2 DEF EndOf, Moved, n
    <3>3. Place + (TLV + n) = Place + TLV + n
      BY <1>3, <2>1 DEF ParaBuf
    <3> QED BY <1>5, <1>6, <2>2, <3>1, <3>2, <3>3
  <2>3. CASE order = "net"
    <3>1. HeadCells(order, i) = cvt_fmt(HeaderFormat, HeaderBytes(i))
      BY <2>3 DEF HeadCells
    <3>2. Fmt(p) = ParaFormat(c, n)
      BY <1>5 DEF Fmt, n
    <3>3. ParaCells(order, p) = cvt_fmt_out(ParaFormat(c, n), q.para)
      BY <1>5, <2>3, <3>2 DEF ParaCells
    <3>4. EndOf(order, p) = Place + TLV + Counted(ParaFormat(c, n))
      BY <1>5, <2>3, <3>2 DEF EndOf, Moved
    <3>5. cvt_tlv_hton(Place, i, c, q.para) /\ order # "host"
      BY <1>6, <2>3
    <3>6. p.written <=> Known(c, Len(q.para))
      BY <1>5, <3>5 DEF n
    <3>7. IF Known(c, Len(q.para))
          THEN /\ mem' = Written(Place, cvt_fmt(HeaderFormat, HeaderBytes(i))
                                        \o cvt_fmt_out(ParaFormat(c, Len(q.para)), q.para))
               /\ offset' = Place + TLV + Counted(ParaFormat(c, Len(q.para)))
          ELSE mem' = mem /\ offset' = Place
      BY <3>5 DEF cvt_tlv_hton
    <3> QED BY <3>1, <3>3, <3>4, <3>6, <3>7 DEF n
  <2> QED BY <1>2, <2>2, <2>3
<1>8. order = "host" \/ c.rsp
  BY <1>6
<1> QED BY <1>1, <1>5, <1>6, <1>7, <1>8 DEF AddStep

\* The command that stands where the reader is, its length and its format, and the
\* three outcomes of both GetFromPacket.
Found == IndexOf(Swapped(order, HeaderFormat, At(ReadAt, TLV)))
FoundCmd == IF Found = 0 THEN NoCommand ELSE puts[Found].c
FoundLen == IF Found = 0 THEN 0 ELSE Len(puts[Found].para)
FoundFmt == IF order = "host" THEN <<>> ELSE ParaFormat(FoundCmd, FoundLen)

ReadFrame == UNCHANGED <<helper, file, order, puts, len, msgLen, calls>>
Reading == phase = "read" /\ helper \in {"raw", "crm"}

Ended ==
  /\ num = 0 \/ (helper = "crm" /\ ReadAt + TLV + staleLen > msgLen)
  /\ phase' = "done" /\ UNCHANGED <<mem, got, offset, num, staleLen>>
Stopped ==
  /\ num # 0 /\ num' = num - 1 /\ staleLen' = FoundLen
  /\ IF order = "host" THEN helper = "raw" /\ ReadAt + TLV + FoundLen > msgLen
     ELSE ~Known(FoundCmd, FoundLen) \/ FoundLen + TLV > msgLen - ReadAt
  /\ offset' \in {ReadAt + TLV, ReadAt + TLV + FoundLen}
  /\ phase' = "done" /\ UNCHANGED <<mem, got>>
Taken ==
  /\ num # 0 /\ num' = num - 1 /\ staleLen' = FoundLen /\ phase' = phase
  /\ order = "net" => Known(FoundCmd, FoundLen)
  /\ offset' = ReadAt + TLV + (IF order = "host" THEN FoundLen ELSE Counted(FoundFmt))
  /\ mem' = Written(ReadAt + TLV, Swapped(order, FoundFmt, At(ReadAt + TLV, Size(FoundFmt))))
  /\ got' = Append(got, [i |-> Found,
                         para |-> SubSeq(mem', ReadAt + TLV + 1, ReadAt + TLV + FoundLen)])

\* Both GetFromPacket have one of these outcomes.
LEMMA GetNormal ==
  ASSUME TypeInv, RawGetFromPacket \/ CRMGetFromPacket
  PROVE  Reading /\ ReadFrame /\ (Ended \/ Stopped \/ Taken)
<1>1. Reading /\ ReadFrame
  BY DEF RawGetFromPacket, CRMGetFromPacket, Reading, ReadFrame
<1>2. order \in {"host", "net"}
  BY DEF TypeInv
<1>3. \/ EndOfPacket /\ (num = 0 \/ (helper = "crm" /\ ReadAt + TLV + staleLen > msgLen))
      \/ num # 0 /\ helper = "raw" /\ Get(LAMBDA end : end <= msgLen)
      \/ num # 0 /\ helper = "crm" /\ Get(LAMBDA end : TRUE)
  BY DEF RawGetFromPacket, CRMGetFromPacket, ReadAt
<1>4. CASE EndOfPacket /\ (num = 0 \/ (helper = "crm" /\ ReadAt + TLV + staleLen > msgLen))
  BY <1>1, <1>4 DEF EndOfPacket, Stop, Ended
<1>5. ASSUME num # 0, num' = num - 1, staleLen' = FoundLen, order = "net",
             cvt_tlv_ntoh(ReadAt, Found, FoundCmd, FoundLen)
      PROVE  Stopped \/ Taken
  BY <1>5 DEF cvt_tlv_ntoh, Stop, Take, Stopped, Taken, FoundFmt
<1>6. CASE num # 0 /\ helper = "raw" /\ Get(LAMBDA end : end <= msgLen)
  <2>1. /\ num' = num - 1 /\ staleLen' = FoundLen
        /\ IF order = "net" THEN cvt_tlv_ntoh(ReadAt, Found, FoundCmd, FoundLen)
           ELSE /\ offset' = ReadAt + TLV + FoundLen
                /\ IF offset' <= msgLen THEN Take(ReadAt, Found, FoundLen, <<>>) ELSE Stop
    BY <1>6 DEF Get, ReadAt, Found, FoundCmd, FoundLen
  <2>2. CASE order = "host"
    <3>1. CASE offset' <= msgLen
      BY <1>1, <1>6, <2>1, <2>2, <3>1 DEF Take, Taken, FoundFmt
    <3>2. CASE ~(offset' <= msgLen)
      <4>1. offset' \in Int /\ msgLen \in Nat
        <5>1. FoundLen \in Nat
          <6>1. Len(puts) \in Nat /\ \A k \in 1 .. Len(puts) : Len(puts[k].para) \in Nat
            BY DEF TypeInv, Put
          <6>2. Found \in 0 .. Len(puts)
            BY <6>1, IndexType DEF Found
          <6> HIDE DEF Found
          <6> QED BY <6>1, <6>2 DEF FoundLen
        <5>2. ReadAt \in Nat /\ TLV \in Nat /\ msgLen \in Nat
          BY Buffer DEF TypeInv, ReadAt
        <5> QED BY <2>1, <2>2, <5>1, <5>2
      <4>2. ReadAt + TLV + FoundLen > msgLen
        BY <2>1, <2>2, <3>2, <4>1
      <4> QED BY <1>1, <1>6, <2>1, <2>2, <3>2, <4>2 DEF Stop, Stopped
    <3> QED BY <3>1, <3>2
  <2>3. CASE order = "net"
    BY <1>1, <1>5, <1>6, <2>1, <2>3
  <2> QED BY <1>1, <1>2, <2>2, <2>3
<1>7. CASE num # 0 /\ helper = "crm" /\ Get(LAMBDA end : TRUE)
  <2>1. /\ num' = num - 1 /\ staleLen' = FoundLen
        /\ IF order = "net" THEN cvt_tlv_ntoh(ReadAt, Found, FoundCmd, FoundLen)
           ELSE offset' = ReadAt + TLV + FoundLen /\ Take(ReadAt, Found, FoundLen, <<>>)
    BY <1>7 DEF Get, ReadAt, Found, FoundCmd, FoundLen
  <2>2. CASE order = "host"
    BY <1>1, <1>7, <2>1, <2>2 DEF Take, Taken, FoundFmt
  <2>3. CASE order = "net"
    BY <1>1, <1>5, <1>7, <2>1, <2>3
  <2> QED BY <1>1, <1>2, <2>2, <2>3
<1> QED BY <1>1, <1>3, <1>4, <1>6, <1>7

-----------------------------------------------------------------------------
(***************************************************************************)
(* Packing.                                                                *)
(***************************************************************************)

\* A sequence with one element more.
LEMMA AppendFact ==
  ASSUME NEW S, NEW s \in Seq(S), NEW e \in S
  PROVE  /\ Append(s, e) \in Seq(S) /\ Len(s) \in Nat /\ Len(Append(s, e)) = Len(s) + 1
         /\ \A k \in 1 .. Len(s) : Append(s, e)[k] = s[k]
         /\ Append(s, e)[Len(s) + 1] = e /\ Append(s, e) # <<>>
OBVIOUS

\* What the type and the packer say of every command that was put in.
LEMMA PutsFact ==
  ASSUME TypeInv, PutsInv, NEW k \in 1 .. Len(puts)
  PROVE  /\ puts[k] \in Put /\ puts[k].c \in Inputs /\ puts[k].para \in Seq(Cell)
         /\ Len(puts[k].para) \in 1 .. ParaBuf /\ puts[k].at \in Nat /\ k \in Nat
         /\ PutOK(order, k, puts[k]) /\ order \in {"host", "net"}
<1>1. /\ puts[k] \in Put /\ k \in Nat /\ PutOK(order, k, puts[k]) /\ order \in {"host", "net"}
  BY DEF TypeInv, PutsInv
<1> QED BY <1>1, PutFact

\* Where a command ends.
LEMMA EndFact ==
  ASSUME NEW o \in {"host", "net"}, NEW k \in Nat, NEW p \in Put, PutOK(o, k, p),
         o = "host" \/ p.written
  PROVE  /\ EndOf(o, p) \in Nat /\ Moved(o, p) \in Nat /\ Over(o, p) \in 0 .. 3
         /\ p.at + TLV < EndOf(o, p) /\ EndOf(o, p) <= p.at + TLV + Len(p.para)
         /\ Moved(o, p) <= Len(p.para) /\ Len(p.para) = Moved(o, p) + Over(o, p)
         /\ EndOf(o, p) = p.at + TLV + Moved(o, p)
<1>1. /\ p.at \in Nat /\ Len(p.para) \in 1 .. ParaBuf /\ Moved(o, p) \in 1 .. Len(p.para)
      /\ Over(o, p) \in 0 .. 3
  BY PutFact
<1>2. TLV = 8 /\ ParaBuf = 12
  BY Buffer
<1> DEFINE a == p.at
           n == Len(p.para)
           m == Moved(o, p)
           v == Over(o, p)
           e == EndOf(o, p)
<1>3. v = n - m /\ e = a + TLV + m
  BY DEF Over, EndOf
<1>4. a \in Nat /\ n \in 1 .. 12 /\ m \in 1 .. n /\ v \in 0 .. 3
  BY <1>1, <1>2
<1> HIDE DEF a, n, m, v, e
<1>5. e \in Nat /\ m \in Nat /\ a + TLV < e /\ e <= a + TLV + n /\ m <= n /\ n = m + v
  BY <1>2, <1>3, <1>4
<1> QED BY <1>3, <1>4, <1>5 DEF a, n, m, v, e

\* The command that is put in.
LEMMA NewPutFact ==
  ASSUME TypeInv, NEW c \in Inputs, order = "host" \/ c.rsp
  PROVE  /\ NewPut(c) \in Put /\ PutOK(order, Len(puts) + 1, NewPut(c)) /\ Len(puts) + 1 \in Nat
         /\ NewPut(c).at = Place /\ Place \in Nat /\ NewPut(c).written \in BOOLEAN
         /\ order = "host" => NewPut(c).written
<1> DEFINE q == PacketParam(Len(puts) + 1, c)
<1>1. Len(puts) + 1 \in Nat /\ Place \in Nat
  BY Buffer DEF TypeInv, Place
<1>2. q.para \in Seq(Cell) /\ q.error \in BOOLEAN
  BY <1>1, PacketParamFact
<1>3. (order = "host" \/ Known(c, Len(q.para))) \in BOOLEAN
  OBVIOUS
<1>4. NewPut(c) = [c |-> c, para |-> q.para, error |-> q.error,
                   written |-> order = "host" \/ Known(c, Len(q.para)), at |-> Place]
  BY DEF NewPut
<1> HIDE DEF q
<1>5. NewPut(c) \in Put
  BY <1>1, <1>2, <1>3, <1>4 DEF Put
<1>6. PutOK(order, Len(puts) + 1, NewPut(c))
  BY <1>4 DEF PutOK, q
<1>7. NewPut(c).at = Place
  BY <1>4
<1>8. NewPut(c).written = (order = "host" \/ Known(c, Len(q.para)))
  BY <1>4
<1>9. order = "host" => NewPut(c).written
  BY <1>8
<1>10. NewPut(c).written \in BOOLEAN
  BY <1>3, <1>8
<1> QED BY <1>1, <1>5, <1>6, <1>7, <1>9, <1>10

\* AddToPacket keeps the types, the counters and the bounds.
LEMMA AddBasic ==
  ASSUME TypeInv, PutsInv, StageInv, FileInv, BoundInv, NEW c \in Inputs, AddStep(c)
  PROVE  TypeInv' /\ PutsInv' /\ StageInv' /\ FileInv' /\ BoundInv'
<1> DEFINE L == Len(puts)
           p == NewPut(c)
           bytes == HeadCells(order, L + 1) \o ParaCells(order, p)
<1>1. /\ p \in Put /\ PutOK(order, L + 1, p) /\ L + 1 \in Nat /\ p.at = Place /\ Place \in Nat
      /\ order \in {"host", "net"} /\ puts \in Seq(Put) /\ L \in Nat /\ L < MaxCmds
      /\ order = "host" => p.written
  BY NewPutFact DEF AddStep, TypeInv
<1>2. Len(p.para) \in 1 .. ParaBuf
  BY <1>1, PutFact
<1>3. /\ puts' \in Seq(Put) /\ Len(puts') = L + 1 /\ puts' # <<>> /\ puts'[L + 1] = p
      /\ \A k \in 1 .. L : puts'[k] = puts[k]
  BY <1>1, AppendFact DEF AddStep
<1>4. ASSUME p.written
      PROVE  /\ bytes \in Seq(Cell) /\ Len(bytes) = TLV + Len(p.para)
             /\ EndOf(order, p) \in Nat /\ EndOf(order, p) <= Place + TLV + Len(p.para)
  <2>1. /\ HeadCells(order, L + 1) \in Seq(Cell) /\ Len(HeadCells(order, L + 1)) = TLV
        /\ ParaCells(order, p) \in Seq(Cell) /\ Len(ParaCells(order, p)) = Len(p.para)
    BY <1>1, <1>4, PutFact, HeaderFact
  <2>2. bytes \in Seq(Cell) /\ Len(bytes) = TLV + Len(p.para)
    <3> DEFINE a == HeadCells(order, L + 1)
               b == ParaCells(order, p)
    <3>1. a \in Seq(Cell) /\ b \in Seq(Cell) /\ Len(a) = TLV /\ Len(b) = Len(p.para)
      BY <2>1
    <3> HIDE DEF a, b, p
    <3>2. a \o b \in Seq(Cell) /\ Len(a \o b) = Len(a) + Len(b)
      BY <3>1
    <3> QED BY <3>1, <3>2 DEF a, b
  <2>3. EndOf(order, p) \in Nat /\ EndOf(order, p) <= p.at + TLV + Len(p.para)
    BY <1>1, <1>4, EndFact
  <2> QED BY <1>1, <2>2, <2>3
<1>5. mem' \in [1 .. MsgBuf -> Cell]
  <2>1. mem \in [1 .. MsgBuf -> Cell]
    BY DEF TypeInv
  <2>2. CASE p.written
    <3>1. mem' = Written(Place, bytes)
      BY <2>2 DEF AddStep
    <3> HIDE DEF bytes
    <3> QED BY <1>1, <1>4, <2>1, <2>2, <3>1, WrittenFact
  <2>3. CASE ~p.written
    BY <2>1, <2>3 DEF AddStep
  <2> QED BY <2>2, <2>3
<1>6. Place <= HeadLen + Slot * L /\ len' <= HeadLen + Slot * (L + 1) /\ len' \in Nat
  <2>1. /\ offset \in Nat /\ len \in Nat
        /\ offset <= HeadLen + Slot * L /\ len <= HeadLen + Slot * L
    BY DEF TypeInv, BoundInv, AddStep
  <2>2. len' = (IF offset = 0 \/ num = 0 THEN HeadLen ELSE len) + TLV + Len(p.para)
    BY DEF AddStep
  <2>3. HeadLen = 4 /\ TLV = 8 /\ ParaBuf = 12 /\ Slot = 20
    BY Buffer
  <2> DEFINE x == Slot * L
             n == Len(p.para)
  <2>4. x \in Nat /\ Slot * (L + 1) = x + 20
    <3> HIDE DEF L
    <3> QED BY <1>1, <2>3
  <2>5. Place <= HeadLen + x
    BY <2>1, <2>3, <2>4 DEF Place
  <2>6. len' \in Nat /\ len' <= HeadLen + x + 20
    <3> HIDE DEF L, p, x, n
    <3>1. n \in 1 .. 12 /\ len <= HeadLen + x
      BY <1>2, <2>1, <2>3 DEF n, x
    <3>2. len' = (IF offset = 0 \/ num = 0 THEN HeadLen ELSE len) + TLV + n
      BY <2>2 DEF n
    <3> QED BY <2>1, <2>3, <2>4, <3>1, <3>2
  <2> HIDE DEF L
  <2> QED BY <2>3, <2>4, <2>5, <2>6
<1>7. offset' \in Nat /\ offset' <= HeadLen + Slot * (L + 1)
  <2>1. offset' = IF p.written THEN EndOf(order, p) ELSE Place
    BY DEF AddStep
  <2>2. HeadLen = 4 /\ TLV = 8 /\ ParaBuf = 12 /\ Slot = 20
    BY Buffer
  <2> DEFINE x == Slot * L
             n == Len(p.para)
             e == EndOf(order, p)
  <2>3. x \in Nat /\ Slot * (L + 1) = x + 20
    <3> HIDE DEF L
    <3> QED BY <1>1, <2>2
  <2>4. /\ n \in 1 .. 12 /\ Place \in Nat /\ Place <= HeadLen + x
        /\ p.written => e \in Nat /\ e <= Place + TLV + n
        /\ offset' = IF p.written THEN e ELSE Place
    BY <1>1, <1>2, <1>4, <1>6, <2>1, <2>2
  <2> HIDE DEF L, p, n, e, x
  <2> QED BY <2>2, <2>3, <2>4
<1>8. TypeInv'
  <2>1. num' \in Nat /\ UNCHANGED <<helper, file, order, msgLen, phase, staleLen, got, calls>>
    BY DEF AddStep, TypeInv
  <2> QED BY <1>3, <1>5, <1>6, <1>7, <2>1 DEF TypeInv
<1>9. PutsInv'
  <2>1. Len(puts') <= MaxCmds
    <3> HIDE DEF L
    <3> QED BY <1>1, <1>3, Buffer
  <2>2. ASSUME NEW k \in 1 .. L + 1
        PROVE  PutOK(order, k, puts'[k])
    <3>1. CASE k = L + 1
      BY <1>1, <1>3, <3>1
    <3>2. CASE k # L + 1
      <4>1. k \in 1 .. L
        BY <1>1, <3>2
      <4> QED BY <1>3, <4>1 DEF PutsInv
    <3> QED BY <3>1, <3>2
  <2>3. order' = order
    BY DEF AddStep
  <2> QED BY <1>3, <2>1, <2>2, <2>3 DEF PutsInv
<1>10. StageInv'
  <2>1. /\ phase = "pack" /\ phase' = phase /\ helper # "bdt" /\ helper' = helper /\ got' = got
        /\ file' = file /\ staleLen' = staleLen /\ calls' = calls /\ num' = num + 1
    BY DEF AddStep
  <2>2. num = L /\ got = <<>> /\ file = NoFile /\ staleLen = 0 /\ calls = <<>>
    BY <2>1 DEF StageInv
  <2> HIDE DEF L
  <2> QED BY <1>1, <1>3, <2>1, <2>2 DEF StageInv
<1>11. FileInv'
  BY DEF FileInv, AddStep
<1>12. BoundInv'
  <2>1. /\ phase = "pack" /\ phase' = phase /\ helper' = helper /\ got' = <<>>
        /\ msgLen' = msgLen /\ msgLen = 0
    BY DEF AddStep, StageInv, BoundInv
  <2>2. L + 1 \in 0 .. MaxCmds
    <3> HIDE DEF L
    <3> QED BY <1>1, Buffer
  <2>3. HeadLen + Slot * (L + 1) <= MsgBuf /\ RoundUp(HeadLen + Slot * (L + 1)) \in Nat
    <3>1. HeadLen + Slot * (L + 1) \in Nat
      <4> HIDE DEF L
      <4> QED BY <1>1, Buffer
    <3> QED BY <2>2, <3>1, Buffer
  <2>4. offset' <= MsgBuf
    <3>1. MsgBuf \in Nat /\ HeadLen + Slot * (L + 1) \in Nat
      <4> HIDE DEF L
      <4> QED BY <1>1, Buffer
    <3> HIDE DEF L
    <3> QED BY <1>7, <2>3, <3>1
  <2>5. msgLen' <= RoundUp(HeadLen + Slot * (L + 1))
    <3> HIDE DEF L
    <3> QED BY <2>1, <2>3
  <2> HIDE DEF L
  <2> QED BY <1>3, <1>6, <1>7, <2>1, <2>4, <2>5 DEF BoundInv
<1> QED BY <1>8, <1>9, <1>10, <1>11, <1>12

\* Two runs of cells, one behind the other.
LEMMA ConcatFact ==
  ASSUME NEW a \in Seq(Cell), NEW b \in Seq(Cell)
  PROVE  /\ a \o b \in Seq(Cell) /\ Len(a \o b) = Len(a) + Len(b)
         /\ Len(a) \in Nat /\ Len(b) \in Nat
         /\ \A j \in 1 .. Len(a) : (a \o b)[j] = a[j]
         /\ \A j \in 1 .. Len(b) : (a \o b)[Len(a) + j] = b[j]
<1>1. \A j \in 1 .. Len(a) + Len(b) : (a \o b)[j] = IF j <= Len(a) THEN a[j] ELSE b[j - Len(a)]
  OBVIOUS
<1>2. Len(a) \in Nat /\ Len(b) \in Nat /\ a \o b \in Seq(Cell) /\ Len(a \o b) = Len(a) + Len(b)
  OBVIOUS
<1>3. \A j \in 1 .. Len(a) : (a \o b)[j] = a[j]
  BY <1>1, <1>2
<1>4. ASSUME NEW j \in 1 .. Len(b)
      PROVE  (a \o b)[Len(a) + j] = b[j]
  <2>1. /\ Len(a) + j \in 1 .. Len(a) + Len(b) /\ ~(Len(a) + j <= Len(a))
        /\ (Len(a) + j) - Len(a) = j
    BY <1>2
  <2> QED BY <1>1, <2>1
<1> QED BY <1>2, <1>3, <1>4

\* AddToPacket puts the next command behind the others and writes over the end of
\* the last one at most.
LEMMA AddLayout ==
  ASSUME TypeInv, PutsInv, StageInv, FileInv, BoundInv, LayoutInv, NEW c \in Inputs, AddStep(c),
         Clean'
  PROVE  PlacesInv' /\ CellsInv' /\ ReadInv'
<1> DEFINE L == Len(puts)
           p == NewPut(c)
           n == Len(p.para)
           At0(k) == puts[k].at
           N(k) == Len(puts[k].para)
           E(k) == EndOf(order, puts[k])
           bytes == HeadCells(order, L + 1) \o ParaCells(order, p)
<1>1. /\ p \in Put /\ PutOK(order, L + 1, p) /\ L + 1 \in Nat /\ p.at = Place /\ Place \in Nat
      /\ order \in {"host", "net"} /\ puts \in Seq(Put) /\ L \in Nat /\ L < MaxCmds
      /\ order = "host" => p.written
  BY NewPutFact DEF AddStep, TypeInv
<1>2. /\ puts' \in Seq(Put) /\ Len(puts') = L + 1 /\ puts' # <<>> /\ puts'[L + 1] = p
      /\ \A k \in 1 .. L : puts'[k] = puts[k]
  BY <1>1, AppendFact DEF AddStep
<1>3. /\ phase = "pack" /\ phase' = phase /\ order' = order /\ got = <<>> /\ got' = got
      /\ num = L /\ file' = file /\ Len(got) = 0
  <2>1. got = <<>> => Len(got) = 0
    OBVIOUS
  <2> QED BY <2>1 DEF AddStep, StageInv
<1>4. Clean /\ p.written /\ \A k \in 1 .. L : order = "host" \/ puts[k].written
  <2>1. order = "host" \/ (file = NoFile /\ \A k \in 1 .. L + 1 : puts'[k].written)
    BY <1>2, <1>3 DEF Clean
  <2>2. 1 .. L \subseteq 1 .. L + 1 /\ L + 1 \in 1 .. L + 1
    BY <1>1
  <2> HIDE DEF p
  <2> QED BY <1>1, <1>2, <2>1, <2>2 DEF Clean
<1>5. PlacesInv /\ CellsInv
  BY <1>4 DEF LayoutInv
<1>6. HeadLen = 4 /\ TLV = 8 /\ ParaBuf = 12 /\ Slot = 20 /\ MsgBuf \in Nat
  BY Buffer
<1>7. /\ n \in 1 .. ParaBuf /\ EndOf(order, p) \in Nat
      /\ ParaCells(order, p) \in Seq(Cell) /\ Len(ParaCells(order, p)) = n
  BY <1>1, <1>4, PutFact, EndFact
<1>8. ASSUME NEW k \in 1 .. L
      PROVE  /\ At0(k) \in Nat /\ N(k) \in 1 .. ParaBuf /\ E(k) \in Nat
             /\ Moved(order, puts[k]) \in Nat /\ Moved(order, puts[k]) <= N(k)
             /\ E(k) = At0(k) + TLV + Moved(order, puts[k])
             /\ At0(k) + TLV < E(k) /\ E(k) <= At0(k) + TLV + N(k)
             /\ At0(k) >= HeadLen /\ At0(k) + TLV + N(k) <= len
  <2>1. /\ puts[k] \in Put /\ PutOK(order, k, puts[k]) /\ At0(k) \in Nat /\ N(k) \in 1 .. ParaBuf
        /\ k \in Nat
    BY PutsFact
  <2>2. At0(k) >= HeadLen /\ At0(k) + TLV + N(k) <= len
    BY <1>5 DEF PlacesInv
  <2> HIDE DEF At0, N, E
  <2> QED BY <1>1, <1>4, <2>1, <2>2, EndFact DEF At0, N, E
<1>9. /\ L = 0 => Place = HeadLen
      /\ L # 0 => Place = E(L) /\ Place = offset /\ offset # 0
  <2>1. CASE L = 0
    BY <1>3, <2>1 DEF Place
  <2>2. CASE L # 0
    <3>1. L \in 1 .. L /\ puts # <<>>
      BY <1>1, <2>2
    <3>2. offset = E(L)
      BY <1>3, <1>5, <3>1 DEF PlacesInv
    <3>3. E(L) # 0
      <4>1. E(L) \in Nat /\ At0(L) \in Nat /\ At0(L) + TLV < E(L)
        BY <1>8, <3>1
      <4> HIDE DEF E, At0
      <4> QED BY <1>6, <4>1
    <3> HIDE DEF E
    <3> QED BY <1>3, <2>2, <3>2, <3>3 DEF Place
  <2> QED BY <2>1, <2>2
<1>10. /\ len \in Nat /\ len' = (IF L = 0 THEN HeadLen ELSE len) + TLV + n
  <2>1. len' = (IF offset = 0 \/ num = 0 THEN HeadLen ELSE len) + TLV + n
    BY DEF AddStep
  <2> HIDE DEF n
  <2> QED BY <1>3, <1>9, <2>1 DEF TypeInv
<1>11. ASSUME NEW k \in 1 .. L
       PROVE  E(k) <= Place
  <2>1. L # 0 /\ Place = E(L) /\ L \in 1 .. L
    BY <1>1, <1>9
  <2>2. CASE k = L
    <3>1. E(L) \in Nat
      BY <1>8, <2>1
    <3> HIDE DEF E
    <3> QED BY <2>1, <2>2, <3>1
  <2>3. CASE k # L
    <3>1. k < L
      BY <1>1, <2>3
    <3>2. E(k) <= At0(L)
      BY <1>5, <2>1, <3>1 DEF PlacesInv
    <3>3. E(k) \in Nat /\ At0(L) \in Nat /\ E(L) \in Nat /\ At0(L) + TLV < E(L)
      BY <1>8, <2>1
    <3> HIDE DEF E, At0
    <3> QED BY <1>6, <2>1, <3>2, <3>3
  <2> QED BY <2>2, <2>3
<1>12. /\ Place + TLV + n <= len' /\ Place >= HeadLen
       /\ \A k \in 1 .. L : At0(k) + TLV + N(k) <= len'
  <2>1. CASE L = 0
    <3>1. 1 .. L = {}
      BY <2>1
    <3>2. Place = HeadLen /\ len' = HeadLen + TLV + n
      BY <1>9, <1>10, <2>1
    <3>3. n \in Nat
      BY <1>6, <1>7
    <3> HIDE DEF n, L, At0, N
    <3> QED BY <1>6, <3>1, <3>2, <3>3
  <2>2. CASE L # 0
    <3>1. L \in 1 .. L
      BY <1>1, <2>2
    <3>2. /\ E(L) \in Nat /\ At0(L) \in Nat /\ N(L) \in 1 .. ParaBuf /\ At0(L) + TLV < E(L)
          /\ E(L) <= At0(L) + TLV + N(L) /\ At0(L) + TLV + N(L) <= len /\ At0(L) >= HeadLen
      BY <1>8, <3>1
    <3>3. Place = E(L) /\ len' = len + TLV + n /\ len \in Nat /\ n \in 1 .. ParaBuf
      BY <1>7, <1>9, <1>10, <2>2
    <3>4. \A k \in 1 .. L : At0(k) + TLV + N(k) <= len /\ At0(k) \in Nat /\ N(k) \in 1 .. ParaBuf
      BY <1>8
    <3> HIDE DEF n, L, At0, N, E
    <3>5. Place + TLV + n <= len' /\ Place >= HeadLen
      BY <1>6, <3>2, <3>3
    <3>6. \A k \in 1 .. L : At0(k) + TLV + N(k) <= len'
      BY <1>6, <3>3, <3>4
    <3> QED BY <3>5, <3>6
  <2> QED BY <2>1, <2>2
<1>13. PlacesInv'
  <2>1. ASSUME NEW k \in 1 .. L + 1
        PROVE  /\ puts'[k].at + TLV + Len(puts'[k].para) <= len' /\ puts'[k].at >= HeadLen
               /\ k = 1 => puts'[k].at = HeadLen
               /\ k < L + 1 => puts'[k + 1].at = EndOf(order, puts'[k])
    <3>1. CASE k = L + 1
      <4>1. puts'[k].at = Place /\ Len(puts'[k].para) = n
        BY <1>1, <1>2, <3>1
      <4>2. k = 1 => Place = HeadLen
        BY <1>1, <1>9, <3>1
      <4>3. ~(k < L + 1)
        BY <1>1, <3>1
      <4> QED BY <1>12, <4>1, <4>2, <4>3
    <3>2. CASE k # L + 1
      <4>1. k \in 1 .. L /\ puts'[k] = puts[k] /\ k \in Nat /\ L # 0
        BY <1>1, <1>2, <3>2
      <4>2. k = 1 => At0(k) = HeadLen
        BY <1>5, <4>1 DEF PlacesInv
      <4>3. puts'[k + 1].at = E(k)
        <5>1. CASE k = L
          BY <1>1, <1>2, <1>9, <4>1, <5>1
        <5>2. CASE k # L
          <6>1. k + 1 \in 1 .. L /\ k < L
            BY <1>1, <4>1, <5>2
          <6>2. puts'[k + 1] = puts[k + 1]
            BY <1>2, <6>1
          <6> QED BY <1>5, <4>1, <6>1, <6>2 DEF PlacesInv
        <5> QED BY <5>1, <5>2
      <4> QED BY <1>8, <1>12, <4>1, <4>2, <4>3
    <3> QED BY <3>1, <3>2
  <2>2. ASSUME NEW j \in 1 .. L + 1, NEW k \in 1 .. L + 1, j < k
        PROVE  EndOf(order, puts'[j]) <= puts'[k].at
    <3>1. j \in 1 .. L /\ puts'[j] = puts[j]
      BY <1>1, <1>2, <2>2
    <3>2. CASE k = L + 1
      BY <1>1, <1>2, <1>11, <3>1, <3>2
    <3>3. CASE k # L + 1
      <4>1. k \in 1 .. L /\ puts'[k] = puts[k]
        BY <1>1, <1>2, <3>3
      <4> QED BY <1>5, <2>2, <3>1, <4>1 DEF PlacesInv
    <3> QED BY <3>2, <3>3
  <2>3. offset' = EndOf(order, puts'[Len(puts')])
    BY <1>2, <1>4 DEF AddStep
  <2>4. phase' \notin {"read", "done"}
    BY <1>3
  <2> HIDE DEF L
  <2> QED BY <1>2, <1>3, <2>1, <2>2, <2>3, <2>4 DEF PlacesInv
<1>14. /\ mem \in [1 .. MsgBuf -> Cell] /\ mem' = Written(Place, bytes) /\ bytes \in Seq(Cell)
       /\ Len(bytes) = TLV + n /\ Place + TLV + n <= MsgBuf
       /\ \A j \in 1 .. TLV : bytes[j] = HeadCells(order, L + 1)[j]
       /\ \A j \in 1 .. n : bytes[TLV + j] = ParaCells(order, p)[j]
  <2>1. mem \in [1 .. MsgBuf -> Cell] /\ mem' = Written(Place, bytes)
    BY <1>4 DEF TypeInv, AddStep
  <2>2. HeadCells(order, L + 1) \in Seq(Cell) /\ Len(HeadCells(order, L + 1)) = TLV
    BY <1>1, HeaderFact
  <2>3. /\ bytes \in Seq(Cell) /\ Len(bytes) = TLV + n
        /\ \A j \in 1 .. TLV : bytes[j] = HeadCells(order, L + 1)[j]
        /\ \A j \in 1 .. n : bytes[TLV + j] = ParaCells(order, p)[j]
    <3> DEFINE a == HeadCells(order, L + 1)
               b == ParaCells(order, p)
    <3>1. a \in Seq(Cell) /\ b \in Seq(Cell) /\ Len(a) = TLV /\ Len(b) = n
      BY <1>7, <2>2
    <3> HIDE DEF a, b, n
    <3> QED BY <3>1, ConcatFact DEF a, b
  <2>4. Place + TLV + n <= MsgBuf
    <3>1. BoundInv'
      BY AddBasic
    <3>2. len' <= HeadLen + Slot * (L + 1) /\ L + 1 \in 0 .. MaxCmds
      <4>1. L + 1 \in 0 .. MaxCmds
        <5> HIDE DEF L
        <5> QED BY <1>1, Buffer
      <4> QED BY <1>2, <3>1, <4>1 DEF BoundInv
    <3>3. HeadLen + Slot * (L + 1) <= MsgBuf /\ HeadLen + Slot * (L + 1) \in Nat
      <4>1. HeadLen + Slot * (L + 1) \in Nat
        <5> HIDE DEF L
        <5> QED BY <1>1, <1>6
      <4> QED BY <3>2, <4>1, Buffer
    <3>4. Place + TLV + n \in Nat /\ len' \in Nat
      <4>1. len' \in Nat
        <5>1. TypeInv'
          BY AddBasic
        <5> QED BY <5>1 DEF TypeInv
      <4> HIDE DEF n
      <4> QED BY <1>1, <1>6, <1>7, <4>1
    <3> DEFINE x == HeadLen + Slot * (L + 1)
               y == Place + TLV + n
    <3>5. x \in Nat /\ y \in Nat /\ x <= MsgBuf /\ y <= len' /\ len' <= x
      BY <1>12, <3>2, <3>3, <3>4
    <3> HIDE DEF x, y
    <3>6. y <= MsgBuf
      BY <1>6, <3>4, <3>5
    <3> QED BY <3>6 DEF y
  <2> QED BY <2>1, <2>3, <2>4
<1>15. ASSUME NEW x \in 1 .. MsgBuf, x <= Place
       PROVE  mem'[x] = mem[x]
  <2> HIDE DEF bytes
  <2> QED BY <1>1, <1>14, <1>15, WrittenFact
<1>16. ASSUME NEW j \in 1 .. TLV + n
       PROVE  mem'[Place + j] = bytes[j]
  <2>1. Place + j <= MsgBuf
    <3> HIDE DEF p, bytes
    <3>1. n \in Nat /\ Place \in Nat /\ Place + TLV + n <= MsgBuf /\ TLV = 8 /\ MsgBuf \in Nat
      <4>1. n \in 1 .. ParaBuf /\ Place \in Nat /\ TLV = 8 /\ MsgBuf \in Nat
        BY <1>1, <1>6, <1>7
      <4>2. Place + TLV + n <= MsgBuf
        BY <1>14
      <4> HIDE DEF n
      <4> QED BY <4>1, <4>2
    <3> HIDE DEF n
    <3> QED BY <3>1
  <2> HIDE DEF bytes, n
  <2> QED BY <1>1, <1>14, <1>16, <2>1, WrittenFact
<1>17. ASSUME NEW k \in 1 .. L + 1
       PROVE  /\ HeadIs(mem', order, k, puts'[k], IF k = 1 THEN 0 ELSE Over(order, puts'[k - 1]))
              /\ ParaIs(mem', order, puts'[k],
                        IF k = L + 1 THEN Len(puts'[k].para) ELSE Moved(order, puts'[k]))
  <2>1. CASE k = L + 1
    <3>1. puts'[k] = p
      BY <1>2, <2>1
    <3>2. \A j \in 1 .. TLV : mem'[p.at + j] = HeadCells(order, k)[j]
      <4> SUFFICES ASSUME NEW j \in 1 .. TLV
                   PROVE  mem'[Place + j] = HeadCells(order, L + 1)[j]
        BY <1>1, <2>1
      <4>1. j \in 1 .. TLV + n
        <5> HIDE DEF n
        <5> QED BY <1>6, <1>7
      <4> QED BY <1>14, <1>16, <4>1
    <3>3. \A j \in 1 .. n : mem'[p.at + TLV + j] = ParaCells(order, p)[j]
      <4> SUFFICES ASSUME NEW j \in 1 .. n
                   PROVE  mem'[Place + TLV + j] = ParaCells(order, p)[j]
        BY <1>1
      <4>1. TLV + j \in 1 .. TLV + n /\ Place + (TLV + j) = Place + TLV + j
        <5> HIDE DEF n
        <5> QED BY <1>1, <1>6, <1>7
      <4> QED BY <1>14, <1>16, <4>1
    <3> HIDE DEF p
    <3> QED BY <2>1, <3>1, <3>2, <3>3 DEF HeadIs, ParaIs
  <2>2. CASE k # L + 1
    <3>1. /\ k \in 1 .. L /\ puts'[k] = puts[k]
          /\ k # 1 => puts'[k - 1] = puts[k - 1]
      BY <1>1, <1>2, <2>2
    <3>2. /\ HeadIs(mem, order, k, puts[k], IF k = 1 THEN 0 ELSE Over(order, puts[k - 1]))
          /\ ParaIs(mem, order, puts[k], IF k = L THEN N(k) ELSE Moved(order, puts[k]))
      <4>1. k > Len(got)
        BY <1>1, <1>3, <3>1
      <4> QED BY <1>3, <1>5, <3>1, <4>1 DEF CellsInv
    <3>3. /\ At0(k) \in Nat /\ N(k) \in 1 .. ParaBuf /\ Moved(order, puts[k]) \in Nat
          /\ Moved(order, puts[k]) <= N(k) /\ E(k) = At0(k) + TLV + Moved(order, puts[k])
          /\ E(k) <= Place /\ At0(k) + TLV < E(k) /\ E(k) \in Nat /\ Place <= MsgBuf
      <4>1. Place <= MsgBuf
        <5> HIDE DEF p, bytes
        <5>1. /\ n \in Nat /\ Place \in Nat /\ Place + TLV + n <= MsgBuf
              /\ TLV = 8 /\ MsgBuf \in Nat
          <6>1. n \in 1 .. ParaBuf /\ Place \in Nat /\ TLV = 8 /\ MsgBuf \in Nat
            BY <1>1, <1>6, <1>7
          <6>2. Place + TLV + n <= MsgBuf
            BY <1>14
          <6> HIDE DEF n
          <6> QED BY <6>1, <6>2
        <5> HIDE DEF n
        <5> QED BY <5>1
      <4> QED BY <1>8, <1>11, <3>1, <4>1
    <3>4. \A j \in 1 .. TLV : mem'[At0(k) + j] = mem[At0(k) + j]
      <4> SUFFICES ASSUME NEW j \in 1 .. TLV
                   PROVE  mem'[At0(k) + j] = mem[At0(k) + j]
        OBVIOUS
      <4>1. At0(k) + j \in 1 .. MsgBuf /\ At0(k) + j <= Place
        <5> DEFINE a == At0(k)
                   e == E(k)
        <5>1. /\ a \in Nat /\ e \in Nat /\ a + 8 < e /\ e <= Place /\ Place <= MsgBuf
              /\ j \in 1 .. 8 /\ Place \in Nat /\ MsgBuf \in Nat
          BY <1>1, <1>6, <3>3
        <5> HIDE DEF a, e
        <5>2. a + j \in 1 .. MsgBuf /\ a + j <= Place
          BY <5>1
        <5> QED BY <5>2 DEF a
      <4> QED BY <1>15, <4>1
    <3>5. \A j \in 1 .. Moved(order, puts[k]) : mem'[At0(k) + TLV + j] = mem[At0(k) + TLV + j]
      <4> SUFFICES ASSUME NEW j \in 1 .. Moved(order, puts[k])
                   PROVE  mem'[At0(k) + TLV + j] = mem[At0(k) + TLV + j]
        OBVIOUS
      <4>1. At0(k) + TLV + j \in 1 .. MsgBuf /\ At0(k) + TLV + j <= Place
        <5> DEFINE a == At0(k)
                   e == E(k)
                   m == Moved(order, puts[k])
        <5>1. /\ a \in Nat /\ m \in Nat /\ e = a + TLV + m /\ e <= Place /\ Place <= MsgBuf
              /\ j \in 1 .. m /\ Place \in Nat /\ MsgBuf \in Nat /\ TLV = 8
          BY <1>1, <1>6, <3>3
        <5> HIDE DEF a, e, m
        <5>2. a + TLV + j \in 1 .. MsgBuf /\ a + TLV + j <= Place
          BY <5>1
        <5> QED BY <5>2 DEF a
      <4> QED BY <1>15, <4>1
    <3>6. \A j \in 1 .. Moved(order, puts[k]) : mem[At0(k) + TLV + j] = ParaCells(order, puts[k])[j]
      <4>1. \A j \in 1 .. Moved(order, puts[k]) : j \in 1 .. N(k)
        <5> DEFINE m == Moved(order, puts[k])
                   n0 == N(k)
        <5>1. m \in Nat /\ n0 \in 1 .. 12 /\ m <= n0
          BY <1>6, <3>3
        <5> HIDE DEF m, n0
        <5>2. \A j \in 1 .. m : j \in 1 .. n0
          BY <5>1
        <5> QED BY <5>2 DEF m, n0
      <4> QED BY <3>2, <4>1 DEF ParaIs
    <3>7. \A j \in 1 .. TLV : j > (IF k = 1 THEN 0 ELSE Over(order, puts'[k - 1])) =>
             mem[At0(k) + j] = HeadCells(order, k)[j]
      BY <3>1, <3>2 DEF HeadIs
    <3> QED BY <2>2, <3>1, <3>4, <3>5, <3>6, <3>7 DEF HeadIs, ParaIs
  <2> QED BY <2>1, <2>2
<1>18. CellsInv'
  <2> HIDE DEF L
  <2> QED BY <1>2, <1>3, <1>17 DEF CellsInv
<1>19. ReadInv'
  <2>1. \A k \in 1 .. Len(got) : FALSE
    BY <1>3
  <2>2. phase' # "read" /\ got' = got
    BY <1>3
  <2> QED BY <2>1, <2>2 DEF ReadInv
<1> QED BY <1>13, <1>18, <1>19

-----------------------------------------------------------------------------
(***************************************************************************)
(* Sending.                                                                *)
(***************************************************************************)

\* The step of both PacketFrame.
SendStep ==
  /\ phase = "pack" /\ helper # "bdt" /\ puts # <<>> /\ phase' = "read" /\ offset' = 0
  /\ msgLen' = IF helper = "raw" THEN len ELSE RoundUp(IF puts[1].c.rsp THEN len ELSE offset)
  /\ UNCHANGED <<helper, file, order, puts, mem, num, len, staleLen, got, calls>>

\* Both PacketFrame take that step.
LEMMA SendNormal ==
  ASSUME RawPacketFrame \/ CRMPacketFrame
  PROVE  SendStep
BY DEF RawPacketFrame, CRMPacketFrame, Send, SendStep, header

\* PacketFrame keeps the types, the counters and the bounds.
LEMMA SendBasic ==
  ASSUME TypeInv, PutsInv, StageInv, FileInv, BoundInv, SendStep
  PROVE  TypeInv' /\ PutsInv' /\ StageInv' /\ FileInv' /\ BoundInv'
<1>1. /\ len \in Nat /\ offset \in Nat /\ puts \in Seq(Put) /\ Len(puts) \in Nat
      /\ HeadLen = 4 /\ Slot = 20
  BY Buffer DEF TypeInv
<1>2. HeadLen + Slot * Len(puts) \in Nat
  BY <1>1
<1>3. /\ len <= HeadLen + Slot * Len(puts) /\ offset <= HeadLen + Slot * Len(puts)
  BY DEF BoundInv, SendStep
<1>4. \A n \in Nat : n <= HeadLen + Slot * Len(puts) =>
        /\ n <= RoundUp(HeadLen + Slot * Len(puts))
        /\ RoundUp(n) \in Nat /\ RoundUp(n) <= RoundUp(HeadLen + Slot * Len(puts))
  <2> DEFINE x == HeadLen + Slot * Len(puts)
  <2>1. x \in Nat
    BY <1>2
  <2> HIDE DEF x
  <2> SUFFICES ASSUME NEW n \in Nat, n <= x
               PROVE  /\ n <= RoundUp(x)
                      /\ RoundUp(n) \in Nat /\ RoundUp(n) <= RoundUp(x)
    BY DEF x
  <2>2. RoundUp(x) \in Nat /\ x <= RoundUp(x)
    BY <2>1, Buffer
  <2>3. n <= RoundUp(x)
    BY <2>1, <2>2
  <2> QED BY <2>1, <2>3, Buffer
<1>5. msgLen' \in Nat /\ msgLen' <= RoundUp(HeadLen + Slot * Len(puts))
  BY <1>1, <1>3, <1>4 DEF SendStep
<1>6. TypeInv'
  BY <1>5 DEF TypeInv, SendStep
<1>7. PutsInv'
  BY DEF PutsInv, SendStep
<1>8. StageInv'
  <2>1. Len(got) = 0
    BY DEF StageInv, SendStep
  <2> QED BY <1>1, <2>1 DEF StageInv, SendStep
<1>9. FileInv'
  BY DEF FileInv, SendStep
<1>10. BoundInv'
  <2>1. Len(got) = 0 /\ 0 <= MsgBuf /\ HeadLen + Slot * 0 >= 0
    BY <1>1, Buffer DEF StageInv, SendStep
  <2> QED BY <1>5, <2>1 DEF BoundInv, SendStep
<1> QED BY <1>6, <1>7, <1>8, <1>9, <1>10

\* PacketFrame sends every command whole.
LEMMA SendLayout ==
  ASSUME TypeInv, PutsInv, StageInv, BoundInv, LayoutInv, SendStep, Clean'
  PROVE  PlacesInv' /\ CellsInv' /\ ReadInv'
<1> DEFINE L == Len(puts)
           At0(k) == puts[k].at
           N(k) == Len(puts[k].para)
           E(k) == EndOf(order, puts[k])
<1>1. /\ phase = "pack" /\ phase' = "read" /\ offset' = 0 /\ puts # <<>>
      /\ UNCHANGED <<helper, file, order, puts, mem, num, len, staleLen, got, calls>>
      /\ got = <<>> /\ Len(got) = 0 /\ staleLen = 0
  BY DEF SendStep, StageInv
<1>2. Clean /\ L \in Nat /\ L >= 1 /\ len \in Nat /\ offset \in Nat
  BY <1>1 DEF Clean, TypeInv
<1>3. PlacesInv /\ CellsInv
  BY <1>2 DEF LayoutInv
<1>4. HeadLen = 4 /\ TLV = 8 /\ ParaBuf = 12
  BY Buffer
<1>5. ASSUME NEW k \in 1 .. L
      PROVE  /\ At0(k) \in Nat /\ N(k) \in 1 .. ParaBuf /\ At0(k) + TLV + N(k) <= len
  <2>1. At0(k) \in Nat /\ N(k) \in 1 .. ParaBuf
    BY PutsFact
  <2> QED BY <1>3, <2>1 DEF PlacesInv
<1>6. ASSUME NEW k \in 1 .. L, ~puts[1].c.rsp
      PROVE  At0(k) + TLV + N(k) <= offset
  <2>1. 1 \in 1 .. L /\ L \in 1 .. L
    BY <1>2
  <2>2. order = "host"
    <3>1. PutOK(order, 1, puts[1])
      BY <2>1, PutsFact
    <3> QED BY <1>6, <3>1 DEF PutOK
  <2>3. \A j \in 1 .. L : E(j) = At0(j) + TLV + N(j)
    BY <2>2 DEF EndOf, Moved
  <2>4. offset = E(L)
    BY <1>1, <1>3 DEF PlacesInv
  <2>5. k < L => E(k) <= At0(L)
    BY <1>3, <2>1 DEF PlacesInv
  <2>6. /\ At0(L) \in Nat /\ N(L) \in 1 .. ParaBuf /\ At0(k) \in Nat /\ N(k) \in 1 .. ParaBuf
        /\ E(k) = At0(k) + TLV + N(k) /\ E(L) = At0(L) + TLV + N(L)
    BY <1>5, <2>1, <2>3
  <2>7. CASE k = L
    <3> HIDE DEF E, At0, N, L
    <3> QED BY <1>4, <2>4, <2>6, <2>7
  <2>8. CASE k # L
    <3>1. k < L
      BY <1>2, <2>8
    <3> HIDE DEF E, At0, N, L
    <3> QED BY <1>4, <2>4, <2>5, <2>6, <3>1
  <2> QED BY <2>7, <2>8
<1>7. ASSUME NEW k \in 1 .. L
      PROVE  At0(k) + TLV + N(k) <= msgLen'
  <2> DEFINE x == At0(k) + TLV + N(k)
  <2>1. x \in Nat /\ x <= len /\ (~puts[1].c.rsp => x <= offset)
    <3>1. At0(k) \in Nat /\ N(k) \in 1 .. ParaBuf /\ At0(k) + TLV + N(k) <= len
      BY <1>5
    <3> HIDE DEF At0, N
    <3> QED BY <1>4, <1>6, <3>1
  <2>2. msgLen' = IF helper = "raw" THEN len ELSE RoundUp(IF puts[1].c.rsp THEN len ELSE offset)
    BY DEF SendStep
  <2>3. \A n \in Nat : RoundUp(n) \in Nat /\ n <= RoundUp(n)
    BY Buffer
  <2> HIDE DEF x
  <2>4. x <= msgLen'
    <3>1. \A n \in Nat : x <= n => x <= RoundUp(n)
      <4> SUFFICES ASSUME NEW n \in Nat, x <= n
                   PROVE  x <= RoundUp(n)
        OBVIOUS
      <4>1. RoundUp(n) \in Nat /\ n <= RoundUp(n)
        BY <2>3
      <4> QED BY <2>1, <4>1
    <3> QED BY <1>2, <2>1, <2>2, <3>1
  <2> QED BY <2>4 DEF x
<1>8. PlacesInv'
  BY <1>1, <1>3, <1>7 DEF PlacesInv
<1>9. CellsInv'
  BY <1>1, <1>3 DEF CellsInv
<1>10. ReadInv'
  <2>1. 1 \in 1 .. L
    BY <1>2
  <2>2. ReadAt' = puts[Len(got) + 1].at
    BY <1>1, <1>3, <2>1 DEF PlacesInv, ReadAt
  <2>3. \A k \in 1 .. Len(got) : FALSE
    BY <1>1
  <2> QED BY <1>1, <2>2, <2>3 DEF ReadInv
<1> QED BY <1>8, <1>9, <1>10

-----------------------------------------------------------------------------
(***************************************************************************)
(* Reading.                                                                *)
(***************************************************************************)

\* The reader finds the command whose header stands before it, or none when the
\* first bytes of the header are written over.
LEMMA HeadRead ==
  ASSUME TypeInv, NEW k \in 1 .. Len(puts), ReadAt = puts[k].at, puts[k].at \in Nat,
         puts[k].at + TLV <= MsgBuf, NEW low \in 0 .. 3, HeadIs(mem, order, k, puts[k], low)
  PROVE  Found \in {0, k} /\ (low = 0 => Found = k)
<1> DEFINE off == ReadAt
           a == At(off, TLV)
           b == Swapped(order, HeaderFormat, a)
<1>1. /\ Len(puts) \in Nat /\ k \in Nat /\ order \in {"host", "net"} /\ TLV = 8
      /\ mem \in [1 .. MsgBuf -> Cell] /\ off \in Nat
  <2>1. TLV = 8 /\ off \in Nat
    BY Buffer
  <2>2. Len(puts) \in Nat /\ order \in {"host", "net"} /\ mem \in [1 .. MsgBuf -> Cell]
    BY DEF TypeInv
  <2>3. k \in Nat
    BY <2>2
  <2> QED BY <2>1, <2>2, <2>3
<1>2. a \in Seq(Cell) /\ Len(a) = 8 /\ \A j \in 1 .. 8 : a[j] = mem[off + j]
  <2>1. a = SubSeq(mem, off + 1, off + TLV) /\ off + TLV <= MsgBuf
    BY DEF At
  <2>2. mem \in [1 .. MsgBuf -> Cell] /\ off \in Nat /\ TLV \in Nat
    BY <1>1
  <2> HIDE DEF a, off
  <2>3. a \in Seq(Cell) /\ Len(a) = TLV /\ \A j \in 1 .. TLV : a[j] = mem[off + j]
    BY <2>1, <2>2, PieceFact
  <2> QED BY <1>1, <2>3
<1>3. \A j \in 1 .. 8 : j > low => a[j] = HeadCells(order, k)[j]
  BY <1>1, <1>2 DEF HeadIs
<1> HIDE DEF a
<1>4. /\ HeadCells(order, k) \in Seq(Cell) /\ Len(HeadCells(order, k)) = 8
      /\ HeaderBytes(k) \in Seq(Cell) /\ Len(HeaderBytes(k)) = 8
      /\ HeadCells("net", k)[7] = <<k, 0, 8>> /\ HeadCells("host", k)[8] = <<k, 0, 8>>
      /\ cvt_fmt(HeaderFormat, HeadCells("net", k)) = HeaderBytes(k)
  BY <1>1, HeaderFact
<1>5. low = 0 => a = HeadCells(order, k)
  <2> DEFINE h == HeadCells(order, k)
  <2>1. a = [j \in 1 .. 8 |-> a[j]]
    BY <1>2
  <2>2. h = [j \in 1 .. 8 |-> h[j]]
    <3> HIDE DEF h
    <3> QED BY <1>4 DEF h
  <2>3. low = 0 => \A j \in 1 .. 8 : a[j] = h[j]
    BY <1>3
  <2> HIDE DEF h
  <2>4. low = 0 => a = h
    BY <2>1, <2>2, <2>3
  <2> QED BY <2>4 DEF h
<1>6. CASE order = "host"
  <2>1. b = a
    BY <1>6 DEF Swapped
  <2>2. b[8] = <<k, 0, 8>>
    BY <1>3, <1>4, <1>6, <2>1
  <2>3. low = 0 => b = HeaderBytes(k)
    BY <1>5, <1>6, <2>1 DEF HeadCells
  <2> QED BY <1>1, <2>2, <2>3, IndexFact DEF Found, a
<1>7. CASE order = "net"
  <2>1. b = cvt_fmt(HeaderFormat, a)
    BY <1>7 DEF Swapped
  <2>2. b[8] = <<k, 0, 8>>
    <3>1. Converted(HeaderFormat, 8) = 7
      BY <1>1, HeaderFormatFact
    <3>2. b[8] = a[7]
      BY <1>2, <2>1, <3>1 DEF cvt_fmt
    <3> QED BY <1>3, <1>4, <1>7, <3>2
  <2>3. low = 0 => b = HeaderBytes(k)
    BY <1>4, <1>5, <1>7, <2>1
  <2> QED BY <1>1, <2>2, <2>3, IndexFact DEF Found, a
<1> QED BY <1>1, <1>6, <1>7

\* While commands are left the reader has room for one more.
LEMMA ReadPlace ==
  ASSUME TypeInv, PutsInv, StageInv, BoundInv, phase = "read", num # 0
  PROVE  /\ Len(got) \in Nat /\ Len(got) < Len(puts) /\ Len(puts) \in Nat
         /\ ReadAt \in Nat /\ ReadAt + Slot <= MsgBuf
         /\ ReadAt + Slot <= HeadLen + Slot * (Len(got) + 1)
         /\ Found \in 0 .. Len(puts) /\ FoundLen \in 0 .. ParaBuf
         /\ Found # 0 => FoundCmd = puts[Found].c /\ FoundLen = Len(puts[Found].para)
<1>1. /\ Len(got) \in Nat /\ Len(puts) \in Nat /\ num \in Nat /\ offset \in Nat
      /\ num + Len(got) = Len(puts) /\ Len(puts) <= MaxCmds
  BY DEF TypeInv, StageInv, PutsInv
<1>2. HeadLen = 4 /\ Slot = 20 /\ MsgBuf \in Nat /\ MaxCmds \in Nat /\ ParaBuf = 12
  BY Buffer
<1>3. Len(got) < Len(puts) /\ Len(got) + 1 \in 0 .. MaxCmds
  BY <1>1, <1>2
<1>4. HeadLen + Slot * (Len(got) + 1) <= MsgBuf
  BY <1>3, Buffer
<1>5. offset <= HeadLen + Slot * Len(got)
  BY DEF BoundInv
<1>6. ReadAt \in Nat /\ ReadAt <= HeadLen + Slot * Len(got)
  BY <1>1, <1>2, <1>5 DEF ReadAt
<1>7. ReadAt + Slot <= HeadLen + Slot * (Len(got) + 1) /\ ReadAt + Slot <= MsgBuf
  <2> DEFINE x == Slot * Len(got)
  <2>1. x \in Nat /\ Slot * (Len(got) + 1) = x + 20
    BY <1>1, <1>2
  <2>2. ReadAt <= HeadLen + x /\ HeadLen + (x + 20) <= MsgBuf
    BY <1>4, <1>6, <2>1
  <2> HIDE DEF x
  <2> QED BY <1>2, <1>6, <2>1, <2>2
<1>8. Found \in 0 .. Len(puts)
  BY <1>1, IndexType DEF Found
<1>9. FoundLen \in 0 .. ParaBuf
  <2>1. CASE Found = 0
    BY <1>2, <2>1 DEF FoundLen
  <2>2. CASE Found # 0
    <3>1. Found \in 1 .. Len(puts)
      BY <1>1, <1>8, <2>2
    <3>2. Len(puts[Found].para) \in 1 .. ParaBuf
      BY <3>1, PutsFact
    <3> HIDE DEF Found
    <3> QED BY <1>2, <2>2, <3>2 DEF FoundLen
  <2> QED BY <2>1, <2>2
<1> QED BY <1>1, <1>3, <1>6, <1>7, <1>8, <1>9 DEF FoundCmd, FoundLen

\* Taking a command out converts the bytes of its parameters, and no other.
LEMMA TakenFact ==
  ASSUME TypeInv, PutsInv, StageInv, BoundInv, phase = "read", Taken
  PROVE  LET z == Size(FoundFmt)
             off == ReadAt + TLV
             w == Swapped(order, FoundFmt, At(off, z))
             q == SubSeq(mem', off + 1, off + FoundLen)
         IN /\ z \in 0 .. FoundLen /\ (order = "host" => z = 0) /\ off \in Nat
            /\ order = "net" =>
                 /\ Found # 0 /\ puts[Found].written /\ z = FoundLen
                 /\ FoundFmt = Fmt(puts[Found]) /\ Counted(FoundFmt) \in 0 .. FoundLen
            /\ off + FoundLen <= MsgBuf
            /\ mem' \in [1 .. MsgBuf -> Cell]
            /\ \A x \in 1 .. MsgBuf : x <= off \/ x > off + z => mem'[x] = mem[x]
            /\ \A j \in 1 .. z : mem'[off + j] = w[j]
            /\ At(off, z) \in Seq(Cell) /\ Len(At(off, z)) = z
            /\ \A j \in 1 .. z : At(off, z)[j] = mem[off + j]
            /\ q \in Seq(Cell) /\ Len(q) = FoundLen
            /\ \A j \in 1 .. FoundLen : q[j] = mem'[off + j]
<1> DEFINE z == Size(FoundFmt)
           off == ReadAt + TLV
           w == Swapped(order, FoundFmt, At(off, z))
           q == SubSeq(mem', off + 1, off + FoundLen)
<1>1. /\ num # 0 /\ Len(puts) \in Nat /\ ReadAt \in Nat /\ ReadAt + Slot <= MsgBuf
      /\ Found \in 0 .. Len(puts) /\ FoundLen \in 0 .. ParaBuf
      /\ Found # 0 => FoundCmd = puts[Found].c /\ FoundLen = Len(puts[Found].para)
  BY ReadPlace DEF Taken
<1>2. order \in {"host", "net"} /\ mem \in [1 .. MsgBuf -> Cell]
  BY DEF TypeInv
<1>3. TLV = 8 /\ ParaBuf = 12 /\ Slot = 20 /\ MsgBuf \in Nat
  BY Buffer
<1>4. off \in Nat /\ FoundLen \in Nat /\ off + FoundLen <= MsgBuf
  BY <1>1, <1>3
<1>5. ASSUME order = "host"
      PROVE  z = 0
  <2>1. FoundFmt = <<>> /\ z = 0
    <3>1. <<>> \in Formats /\ Len(<<>>) = 0
      BY DEF Formats
    <3>2. Start(<<>>, 1) = 0
      BY <3>1, StartStep
    <3> QED BY <1>5, <3>1, <3>2 DEF FoundFmt, Size
  <2> QED BY <2>1
<1>6. ASSUME order = "net"
      PROVE  /\ Found # 0 /\ puts[Found].written /\ z = FoundLen
             /\ FoundFmt = Fmt(puts[Found]) /\ Counted(FoundFmt) \in 0 .. FoundLen
  <2>1. Known(FoundCmd, FoundLen) /\ FoundFmt = ParaFormat(FoundCmd, FoundLen)
    BY <1>6 DEF Taken, FoundFmt
  <2>2. Found # 0
    <3>1. SUFFICES ASSUME Found = 0
                   PROVE  FALSE
      OBVIOUS
    <3>2. FoundCmd = NoCommand
      BY <3>1 DEF FoundCmd
    <3>3. ~Registered("ps")
      BY DEF Registered, Format
    <3> QED BY <2>1, <3>2, <3>3 DEF Known, ShortResponse, NoCommand
  <2>3. /\ puts[Found] \in Put /\ PutOK(order, Found, puts[Found]) /\ Found \in Nat
        /\ FoundCmd = puts[Found].c /\ FoundLen = Len(puts[Found].para)
    <3>1. Found \in 1 .. Len(puts)
      BY <1>1, <2>2
    <3> HIDE DEF Found
    <3> QED BY <1>1, <2>2, <3>1, PutsFact
  <2>4. puts[Found].written
    BY <2>1, <2>3 DEF PutOK
  <2>5. FoundFmt = Fmt(puts[Found])
    BY <2>1, <2>3 DEF Fmt
  <2>6. FoundFmt \in RspFormats /\ z = FoundLen
    <3>1. Fmt(puts[Found]) \in RspFormats /\ Size(Fmt(puts[Found])) = Len(puts[Found].para)
      BY <1>2, <1>6, <2>3, <2>4, PutFact
    <3> QED BY <2>3, <2>5, <3>1
  <2>7. Counted(FoundFmt) \in 0 .. FoundLen
    <3>1. Counted(FoundFmt) \in 2 .. Size(FoundFmt)
      BY <2>6, RspFormatFact
    <3> HIDE DEF FoundFmt
    <3> QED BY <1>1, <1>3, <2>6, <3>1
  <2> QED BY <2>2, <2>4, <2>5, <2>6, <2>7
<1>7. z \in 0 .. FoundLen /\ z \in Nat /\ off + z <= MsgBuf
  <2>1. z \in 0 .. FoundLen
    BY <1>2, <1>4, <1>5, <1>6
  <2> HIDE DEF z, off
  <2> QED BY <1>3, <1>4, <2>1
<1>8. /\ At(off, z) \in Seq(Cell) /\ Len(At(off, z)) = z
      /\ \A j \in 1 .. z : At(off, z)[j] = mem[off + j]
  <2>1. At(off, z) = SubSeq(mem, off + 1, off + z)
    BY DEF At
  <2> DEFINE s == SubSeq(mem, off + 1, off + z)
  <2>2. /\ s \in Seq(Cell) /\ Len(s) = z
        /\ \A j \in 1 .. z : s[j] = mem[off + j]
    <3> HIDE DEF off, z
    <3> QED BY <1>2, <1>4, <1>7, PieceFact
  <2> HIDE DEF off, z, s
  <2> QED BY <2>1, <2>2 DEF s
<1>9. w \in Seq(Cell) /\ Len(w) = z
  <2>1. CASE order = "host"
    <3>1. w = At(off, z)
      BY <2>1 DEF Swapped
    <3> QED BY <1>8, <3>1
  <2>2. CASE order = "net"
    <3>1. FoundFmt \in RspFormats
      <4>1. Found \in 1 .. Len(puts) /\ puts[Found].written /\ FoundFmt = Fmt(puts[Found])
        BY <1>1, <1>6, <2>2
      <4>2. puts[Found] \in Put /\ PutOK(order, Found, puts[Found]) /\ Found \in Nat
        BY <4>1, PutsFact
      <4> QED BY <1>2, <2>2, <4>1, <4>2, PutFact
    <3>2. WellFormed(FoundFmt)
      BY <3>1, RspFormatFact
    <3>3. w = cvt_fmt(FoundFmt, At(off, z))
      BY <2>2 DEF Swapped
    <3> QED BY <1>8, <3>2, <3>3, CvtFact
  <2> QED BY <1>2, <2>1, <2>2
<1>10. mem' = Written(off, w)
  BY DEF Taken
<1>11. /\ mem' \in [1 .. MsgBuf -> Cell]
       /\ \A x \in 1 .. MsgBuf : x <= off \/ x > off + z => mem'[x] = mem[x]
       /\ \A j \in 1 .. z : mem'[off + j] = w[j]
  <2>1. \A j \in 1 .. z : off + j <= MsgBuf
    <3> HIDE DEF z, off
    <3> QED BY <1>3, <1>4, <1>7
  <2> HIDE DEF w, off, z
  <2> QED BY <1>2, <1>4, <1>9, <1>10, <2>1, WrittenFact
<1>12. /\ q \in Seq(Cell) /\ Len(q) = FoundLen
       /\ \A j \in 1 .. FoundLen : q[j] = mem'[off + j]
  <2> HIDE DEF off
  <2> QED BY <1>4, <1>11, PieceFact
<1> HIDE DEF z, off, w, q
<1>13. /\ order = "host" => z = 0
       /\ order = "net" =>
            /\ Found # 0 /\ puts[Found].written /\ z = FoundLen
            /\ FoundFmt = Fmt(puts[Found]) /\ Counted(FoundFmt) \in 0 .. FoundLen
  BY <1>5, <1>6
<1> QED BY <1>4, <1>7, <1>8, <1>11, <1>12, <1>13 DEF z, off, w, q

\* GetFromPacket keeps the types, the counters and the bounds when it ends.
LEMMA EndedBasic ==
  ASSUME TypeInv, PutsInv, StageInv, FileInv, BoundInv, Reading, ReadFrame, Ended
  PROVE  TypeInv' /\ PutsInv' /\ StageInv' /\ FileInv' /\ BoundInv'
<1>1. /\ phase = "read" /\ helper # "bdt" /\ phase' = "done"
      /\ UNCHANGED <<helper, file, order, puts, len, msgLen, calls, mem, got, offset, num,
                     staleLen>>
  BY DEF Reading, ReadFrame, Ended
<1>2. TypeInv'
  BY <1>1 DEF TypeInv
<1>3. PutsInv'
  BY <1>1 DEF PutsInv
<1>4. StageInv'
  BY <1>1 DEF StageInv
<1>5. FileInv'
  BY <1>1 DEF FileInv
<1>6. BoundInv'
  BY <1>1 DEF BoundInv
<1> QED BY <1>2, <1>3, <1>4, <1>5, <1>6

\* The same when it refuses a command.
LEMMA StoppedBasic ==
  ASSUME TypeInv, PutsInv, StageInv, FileInv, BoundInv, Reading, ReadFrame, Stopped
  PROVE  TypeInv' /\ PutsInv' /\ StageInv' /\ FileInv' /\ BoundInv'
<1>1. /\ phase = "read" /\ helper # "bdt" /\ phase' = "done" /\ num # 0
      /\ num' = num - 1 /\ staleLen' = FoundLen
      /\ offset' \in {ReadAt + TLV, ReadAt + TLV + FoundLen}
      /\ UNCHANGED <<helper, file, order, puts, len, msgLen, calls, mem, got>>
  BY DEF Reading, ReadFrame, Stopped
<1>2. /\ ReadAt \in Nat /\ ReadAt + Slot <= MsgBuf /\ FoundLen \in 0 .. ParaBuf
      /\ Len(puts) \in Nat
  BY <1>1, ReadPlace
<1>3. TLV = 8 /\ ParaBuf = 12 /\ Slot = 20 /\ MsgBuf \in Nat
  BY Buffer
<1>4. offset' \in Nat /\ offset' <= MsgBuf
  <2> HIDE DEF ReadAt, FoundLen
  <2> QED BY <1>1, <1>2, <1>3
<1>5. num \in Nat /\ num' \in Nat /\ num' <= num /\ num <= Len(puts)
  BY <1>1 DEF TypeInv, StageInv
<1>6. TypeInv'
  BY <1>1, <1>2, <1>4, <1>5 DEF TypeInv
<1>7. PutsInv'
  BY <1>1 DEF PutsInv
<1>8. StageInv'
  <2>1. num' <= Len(puts)
    BY <1>2, <1>5
  <2> QED BY <1>1, <2>1 DEF StageInv
<1>9. FileInv'
  BY <1>1 DEF FileInv
<1>10. BoundInv'
  BY <1>1, <1>4 DEF BoundInv
<1> QED BY <1>6, <1>7, <1>8, <1>9, <1>10

\* What a command that is taken out adds to got.
Piece == [i |-> Found, para |-> SubSeq(mem', ReadAt + TLV + 1, ReadAt + TLV + FoundLen)]

\* A command that is taken out is appended to got.
LEMMA GotFact ==
  ASSUME TypeInv, PutsInv, StageInv, BoundInv, phase = "read", Taken
  PROVE  /\ Piece \in Got /\ Piece.i = Found /\ got' = Append(got, Piece) /\ got' \in Seq(Got)
         /\ Len(got) \in Nat /\ Len(got') = Len(got) + 1 /\ got'[Len(got) + 1] = Piece
         /\ Piece.para \in Seq(Cell) /\ Len(Piece.para) = FoundLen
         /\ \A k \in 1 .. Len(got) : got'[k] = got[k]
<1> DEFINE q == SubSeq(mem', ReadAt + TLV + 1, ReadAt + TLV + FoundLen)
<1>1. q \in Seq(Cell) /\ Len(q) = FoundLen
  BY TakenFact
<1>2. Found \in Nat
  BY ReadPlace DEF Taken
<1>3. got' = Append(got, Piece) /\ Piece = [i |-> Found, para |-> q]
  BY DEF Taken, Piece
<1> HIDE DEF q
<1>4. Piece \in Got /\ Piece.i = Found /\ Piece.para = q
  BY <1>1, <1>2, <1>3 DEF Got
<1>5. got \in Seq(Got)
  BY DEF TypeInv
<1> QED BY <1>1, <1>3, <1>4, <1>5, AppendFact

\* The same when it takes one out.
LEMMA TakenBasic ==
  ASSUME TypeInv, PutsInv, StageInv, FileInv, BoundInv, Reading, ReadFrame, Taken
  PROVE  TypeInv' /\ PutsInv' /\ StageInv' /\ FileInv' /\ BoundInv'
<1>1. /\ phase = "read" /\ helper # "bdt" /\ phase' = phase /\ num # 0
      /\ num' = num - 1 /\ staleLen' = FoundLen
      /\ UNCHANGED <<helper, file, order, puts, len, msgLen, calls>>
  BY DEF Reading, ReadFrame, Taken
<1>2. /\ ReadAt \in Nat /\ ReadAt + Slot <= MsgBuf /\ FoundLen \in 0 .. ParaBuf
      /\ ReadAt + Slot <= HeadLen + Slot * (Len(got) + 1)
      /\ Len(puts) \in Nat /\ Len(got) \in Nat /\ Len(got) < Len(puts)
      /\ Found \in 0 .. Len(puts)
  BY <1>1, ReadPlace
<1>3. TLV = 8 /\ ParaBuf = 12 /\ Slot = 20 /\ MsgBuf \in Nat /\ HeadLen = 4
  BY Buffer
<1>4. /\ got' \in Seq(Got) /\ Len(got') = Len(got) + 1 /\ got'[Len(got) + 1].i = Found
      /\ \A k \in 1 .. Len(got) : got'[k] = got[k]
  BY <1>1, GotFact
<1>5. /\ offset' \in Nat /\ offset' <= MsgBuf
      /\ offset' <= HeadLen + Slot * (Len(got) + 1)
  <2> DEFINE m == IF order = "host" THEN FoundLen ELSE Counted(FoundFmt)
             x == Slot * (Len(got) + 1)
  <2>1. m \in 0 .. FoundLen
    <3>1. FoundLen \in 0 .. FoundLen
      <4> HIDE DEF FoundLen
      <4> QED BY <1>2, <1>3
    <3>2. order = "net" => Counted(FoundFmt) \in 0 .. FoundLen
      BY <1>1, TakenFact
    <3>3. order \in {"host", "net"}
      BY DEF TypeInv
    <3> QED BY <3>1, <3>2, <3>3
  <2>2. offset' = ReadAt + TLV + m
    BY DEF Taken
  <2>3. x \in Nat
    BY <1>2, <1>3
  <2>4. ReadAt + Slot <= HeadLen + x
    BY <1>2
  <2> HIDE DEF m, x, ReadAt, FoundLen
  <2>5. offset' \in Nat /\ offset' <= MsgBuf /\ offset' <= HeadLen + x
    BY <1>2, <1>3, <2>1, <2>2, <2>3, <2>4
  <2> QED BY <2>5 DEF x
<1>6. /\ num \in Nat /\ num' \in Nat /\ num' = num - 1
      /\ num <= Len(puts) /\ num + Len(got) = Len(puts)
  BY <1>1 DEF TypeInv, StageInv
<1>7. TypeInv'
  <2>1. mem' \in [1 .. MsgBuf -> Cell]
    BY <1>1, TakenFact
  <2> QED BY <1>1, <1>2, <1>4, <1>5, <1>6, <2>1 DEF TypeInv
<1>8. PutsInv'
  BY <1>1 DEF PutsInv
<1>9. StageInv'
  <2>1. num' <= Len(puts) /\ Len(got') <= Len(puts) /\ num' + Len(got') = Len(puts)
    BY <1>2, <1>4, <1>6
  <2> QED BY <1>1, <2>1 DEF StageInv
<1>10. FileInv'
  BY <1>1 DEF FileInv
<1>11. BoundInv'
  <2>1. \A k \in 1 .. Len(got') : got'[k].i <= Len(puts)
    <3> SUFFICES ASSUME NEW k \in 1 .. Len(got')
                 PROVE  got'[k].i <= Len(puts)
      OBVIOUS
    <3>1. CASE k = Len(got) + 1
      BY <1>2, <1>4, <3>1
    <3>2. CASE k # Len(got) + 1
      <4>1. k \in 1 .. Len(got)
        BY <1>2, <1>4, <3>2
      <4> QED BY <1>4, <4>1 DEF BoundInv
    <3> QED BY <3>1, <3>2
  <2> QED BY <1>1, <1>4, <1>5, <2>1 DEF BoundInv
<1> QED BY <1>7, <1>8, <1>9, <1>10, <1>11

\* The same of all three outcomes.
LEMMA GetBasic ==
  ASSUME TypeInv, PutsInv, StageInv, FileInv, BoundInv, Reading, ReadFrame,
         Ended \/ Stopped \/ Taken
  PROVE  TypeInv' /\ PutsInv' /\ StageInv' /\ FileInv' /\ BoundInv'
BY EndedBasic, StoppedBasic, TakenBasic

-----------------------------------------------------------------------------
(***************************************************************************)
(* Reading a clean packet.                                                 *)
(***************************************************************************)

\* The place of a command in a clean packet.
LEMMA PlaceFact ==
  ASSUME TypeInv, PutsInv, BoundInv, Clean, PlacesInv, NEW k \in 1 .. Len(puts)
  PROVE  /\ puts[k].at \in Nat /\ Len(puts[k].para) \in 1 .. ParaBuf /\ k \in Nat
         /\ Moved(order, puts[k]) \in Nat /\ Over(order, puts[k]) \in 0 .. 3
         /\ EndOf(order, puts[k]) \in Nat /\ puts[k].at + TLV < EndOf(order, puts[k])
         /\ EndOf(order, puts[k]) = puts[k].at + TLV + Moved(order, puts[k])
         /\ Len(puts[k].para) = Moved(order, puts[k]) + Over(order, puts[k])
         /\ puts[k].at + TLV + Len(puts[k].para) <= MsgBuf
         /\ order = "host" => Over(order, puts[k]) = 0 /\ Moved(order, puts[k]) = Len(puts[k].para)
         /\ order = "host" \/ puts[k].written
         /\ puts[k] \in Put /\ PutOK(order, k, puts[k]) /\ order \in {"host", "net"}
<1>1. /\ puts[k] \in Put /\ puts[k].at \in Nat /\ Len(puts[k].para) \in 1 .. ParaBuf
      /\ PutOK(order, k, puts[k]) /\ order \in {"host", "net"} /\ k \in Nat
  BY PutsFact
<1>2. order = "host" \/ puts[k].written
  BY DEF Clean
<1> DEFINE p == puts[k]
           at == p.at
           n == Len(p.para)
           m == Moved(order, p)
           v == Over(order, p)
           e == EndOf(order, p)
<1>3. /\ e \in Nat /\ m \in Nat /\ v \in 0 .. 3 /\ at + TLV < e /\ m <= n /\ n = m + v
      /\ e = at + TLV + m
  BY <1>1, <1>2, EndFact
<1>4. order = "host" => m = n
  BY DEF Moved
<1>5. order = "host" => v = 0
  <2> HIDE DEF m, n, v, p
  <2> QED BY <1>3, <1>4
<1>6. at + TLV + n <= MsgBuf
  <2>1. at + TLV + n <= len
    BY DEF PlacesInv
  <2>2. len <= HeadLen + Slot * Len(puts) /\ len \in Nat
    BY DEF TypeInv, BoundInv
  <2>3. Len(puts) \in 0 .. MaxCmds
    BY Buffer DEF TypeInv, PutsInv
  <2> DEFINE y == HeadLen + Slot * Len(puts)
  <2>4. y <= MsgBuf /\ y \in Nat
    <3>1. y <= MsgBuf
      BY <2>3, Buffer
    <3>2. HeadLen = 4 /\ Slot = 20 /\ Len(puts) \in Nat
      BY <2>3, Buffer
    <3>3. y \in Nat
      BY <3>2
    <3> QED BY <3>1, <3>3
  <2>5. TLV = 8 /\ ParaBuf = 12 /\ MsgBuf \in Nat
    BY Buffer
  <2>6. at \in Nat /\ n \in 1 .. ParaBuf /\ len <= y
    BY <1>1, <2>2
  <2> HIDE DEF y, at, n
  <2> QED BY <2>1, <2>2, <2>4, <2>5, <2>6
<1> HIDE DEF m, n, v, p, e, at
<1>7. /\ e \in Nat /\ m \in Nat /\ v \in 0 .. 3 /\ at + TLV < e /\ n = m + v
      /\ e = at + TLV + m /\ (order = "host" => v = 0 /\ m = n) /\ at + TLV + n <= MsgBuf
  BY <1>3, <1>4, <1>5, <1>6
<1> QED BY <1>1, <1>2, <1>7 DEF m, n, v, p, e, at

\* The next command is found where it was put.
LEMMA FoundFact ==
  ASSUME TypeInv, PutsInv, StageInv, BoundInv, LayoutInv, phase = "read", num # 0, Clean
  PROVE  LET k == Len(got) + 1
             low == IF k = 1 THEN 0 ELSE Over(order, puts[k - 1])
         IN /\ k \in 1 .. Len(puts) /\ ReadAt = puts[k].at /\ low \in 0 .. 3
            /\ Found \in {0, k} /\ (low = 0 => Found = k) /\ (order = "host" => Found = k)
            /\ Found # 0 => /\ Found = k /\ FoundCmd = puts[k].c
                            /\ FoundLen = Len(puts[k].para)
<1> DEFINE k == Len(got) + 1
           low == IF k = 1 THEN 0 ELSE Over(order, puts[k - 1])
<1>1. PlacesInv /\ CellsInv /\ ReadInv
  BY DEF LayoutInv
<1>2. /\ Len(got) \in Nat /\ Len(got) < Len(puts) /\ Len(puts) \in Nat
      /\ Found # 0 => FoundCmd = puts[Found].c /\ FoundLen = Len(puts[Found].para)
  BY ReadPlace
<1>3. k \in 1 .. Len(puts) /\ k \in Nat /\ k > Len(got) /\ (k # 1 => k - 1 \in 1 .. Len(puts))
  BY <1>2
<1>4. ReadAt = puts[k].at
  BY <1>1, <1>2 DEF ReadInv
<1>5. HeadIs(mem, order, k, puts[k], low)
  BY <1>1, <1>3 DEF CellsInv
<1>6. low \in 0 .. 3 /\ (order = "host" => low = 0)
  <2>1. CASE k = 1
    BY <2>1
  <2>2. CASE k # 1
    <3>1. k - 1 \in 1 .. Len(puts)
      BY <1>3, <2>2
    <3>2. Over(order, puts[k - 1]) \in 0 .. 3 /\ (order = "host" => Over(order, puts[k - 1]) = 0)
      <4> HIDE DEF k
      <4> QED BY <1>1, <3>1, PlaceFact
    <3> QED BY <2>2, <3>2
  <2> QED BY <2>1, <2>2
<1>7. puts[k].at \in Nat /\ puts[k].at + TLV <= MsgBuf
  <2> HIDE DEF k
  <2>1. /\ puts[k].at \in Nat /\ puts[k].at + TLV + Len(puts[k].para) <= MsgBuf
        /\ Len(puts[k].para) \in 1 .. ParaBuf
    BY <1>1, <1>3, PlaceFact
  <2>2. TLV = 8 /\ ParaBuf = 12 /\ MsgBuf \in Nat
    BY Buffer
  <2> QED BY <2>1, <2>2
<1> HIDE DEF k, low
<1>8. Found \in {0, k} /\ (low = 0 => Found = k)
  BY <1>3, <1>4, <1>5, <1>6, <1>7, HeadRead
<1>9. order = "host" => Found = k
  BY <1>6, <1>8
<1>10. Found # 0 => Found = k /\ FoundCmd = puts[k].c /\ FoundLen = Len(puts[k].para)
  BY <1>2, <1>8
<1> QED BY <1>3, <1>4, <1>6, <1>8, <1>9, <1>10 DEF k, low

\* Taking it out leaves the reader at its end, and the later bytes as they were.
LEMMA TakenPlace ==
  ASSUME TypeInv, PutsInv, StageInv, BoundInv, LayoutInv, phase = "read", Taken, Clean
  PROVE  LET k == Len(got) + 1
         IN /\ k \in 1 .. Len(puts) /\ ReadAt = puts[k].at /\ Found = k
            /\ FoundLen = Len(puts[k].para) /\ offset' = EndOf(order, puts[k])
            /\ \A x \in 1 .. MsgBuf :
                 order = "host" \/ x > EndOf(order, puts[k]) + Over(order, puts[k]) =>
                   mem'[x] = mem[x]
<1> DEFINE k == Len(got) + 1
           z == Size(FoundFmt)
<1>1. num # 0
  BY DEF Taken
<1>2. order = "net" => Found # 0 /\ z = FoundLen /\ FoundFmt = Fmt(puts[Found])
  BY TakenFact
<1>3. /\ k \in 1 .. Len(puts) /\ ReadAt = puts[k].at
      /\ (order = "host" => Found = k)
      /\ Found # 0 => Found = k /\ FoundLen = Len(puts[k].para)
  BY <1>1, FoundFact
<1>4. PlacesInv
  BY DEF LayoutInv
<1>5. /\ puts[k].at \in Nat /\ order \in {"host", "net"} /\ k \in Nat
      /\ EndOf(order, puts[k]) = puts[k].at + TLV + Moved(order, puts[k])
      /\ Len(puts[k].para) = Moved(order, puts[k]) + Over(order, puts[k])
      /\ Moved(order, puts[k]) \in Nat /\ Over(order, puts[k]) \in 0 .. 3
      /\ order = "host" => Moved(order, puts[k]) = Len(puts[k].para)
  <2> HIDE DEF k
  <2> QED BY <1>3, <1>4, PlaceFact
<1>6. Found = k /\ FoundLen = Len(puts[k].para)
  <2> HIDE DEF k
  <2>1. k # 0
    BY <1>3
  <2> QED BY <1>2, <1>3, <1>5, <2>1
<1>7. (IF order = "host" THEN FoundLen ELSE Counted(FoundFmt)) = Moved(order, puts[k])
  BY <1>2, <1>5, <1>6 DEF Moved
<1>8. offset' = EndOf(order, puts[k])
  <2>1. offset' = ReadAt + TLV + (IF order = "host" THEN FoundLen ELSE Counted(FoundFmt))
    BY DEF Taken
  <2> QED BY <1>3, <1>5, <1>7, <2>1
<1>9. /\ \A x \in 1 .. MsgBuf : x <= ReadAt + TLV \/ x > ReadAt + TLV + z => mem'[x] = mem[x]
      /\ order = "host" => z = 0
  BY TakenFact
<1>10. ASSUME NEW x \in 1 .. MsgBuf,
              order = "host" \/ x > EndOf(order, puts[k]) + Over(order, puts[k])
       PROVE  mem'[x] = mem[x]
  <2> DEFINE off == ReadAt + TLV
  <2>1. off \in Nat /\ MsgBuf \in Nat
    <3>1. ReadAt \in Nat
      BY <1>3, <1>5
    <3>2. TLV \in Nat /\ MsgBuf \in Nat
      BY Buffer
    <3> QED BY <3>1, <3>2
  <2>2. CASE order = "host"
    <3>1. off + z = off /\ (x <= off \/ x > off)
      <4> HIDE DEF off
      <4> QED BY <1>9, <2>1, <2>2
    <3> QED BY <1>9, <3>1
  <2>3. CASE order = "net"
    <3>1. z = FoundLen
      BY <1>2, <2>3
    <3>2. EndOf(order, puts[k]) + Over(order, puts[k]) = off + Len(puts[k].para)
      <4> DEFINE m == Moved(order, puts[k])
                 v == Over(order, puts[k])
                 n == Len(puts[k].para)
      <4>1. EndOf(order, puts[k]) = off + m /\ n = m + v /\ m \in Nat /\ v \in 0 .. 3
        BY <1>3, <1>5
      <4> HIDE DEF m, n, v, off
      <4>2. EndOf(order, puts[k]) + v = off + n
        BY <2>1, <4>1
      <4> QED BY <4>2 DEF v, n
    <3>3. order # "host"
      BY <2>3
    <3>4. x > off + z
      BY <1>6, <1>10, <3>1, <3>2, <3>3
    <3> QED BY <1>9, <3>4
  <2> QED BY <1>5, <2>2, <2>3
<1> HIDE DEF k
<1>11. k \in 1 .. Len(puts) /\ ReadAt = puts[k].at
  BY <1>3
<1> QED BY <1>6, <1>8, <1>10, <1>11 DEF k

\* GetFromPacket leaves the commands it has not taken out as they were.
LEMMA DoneLayout ==
  ASSUME TypeInv, PutsInv, StageInv, BoundInv, LayoutInv, Reading, ReadFrame, Ended \/ Stopped,
         Clean
  PROVE  PlacesInv' /\ CellsInv' /\ ReadInv'
<1>1. /\ phase = "read" /\ phase' = "done"
      /\ UNCHANGED <<helper, file, order, puts, len, msgLen, calls, mem, got>>
  BY DEF Reading, ReadFrame, Ended, Stopped
<1>2. PlacesInv /\ ReadInv
  BY DEF LayoutInv
<1>3. PlacesInv'
  BY <1>1, <1>2 DEF PlacesInv
<1>4. CellsInv'
  BY <1>1 DEF CellsInv
<1>5. ReadInv'
  BY <1>1, <1>2 DEF ReadInv
<1> QED BY <1>3, <1>4, <1>5

\* Taking a command out leaves the later ones as they were, and the reader before
\* the next.
LEMMA TakenLayout ==
  ASSUME TypeInv, PutsInv, StageInv, BoundInv, LayoutInv, Reading, ReadFrame, Taken, Clean
  PROVE  PlacesInv' /\ CellsInv' /\ ReadInv'
<1> DEFINE L == Len(puts)
           k == Len(got) + 1
           A(j) == puts[j].at
           N(j) == Len(puts[j].para)
           E(j) == EndOf(order, puts[j])
           V(j) == Over(order, puts[j])
<1>1. /\ phase = "read" /\ phase' = "read" /\ num # 0 /\ staleLen' = FoundLen
      /\ UNCHANGED <<helper, file, order, puts, len, msgLen, calls>>
  BY DEF Reading, ReadFrame, Taken
<1>2. PlacesInv /\ CellsInv /\ ReadInv
  BY DEF LayoutInv
<1>3. /\ k \in 1 .. L /\ Found = k /\ FoundLen = N(k) /\ offset' = E(k)
      /\ \A x \in 1 .. MsgBuf : order = "host" \/ x > E(k) + V(k) => mem'[x] = mem[x]
  BY <1>1, TakenPlace
<1>4. /\ Len(got) \in Nat /\ L \in Nat /\ Len(got') = k /\ got'[k].i = k
      /\ \A j \in 1 .. Len(got) : got'[j] = got[j]
  <2>1. Len(got) \in Nat /\ L \in Nat
    BY DEF TypeInv
  <2> QED BY <1>1, <1>3, <2>1, GotFact
<1>5. ASSUME NEW j \in 1 .. L
      PROVE  /\ A(j) \in Nat /\ N(j) \in 1 .. ParaBuf /\ V(j) \in 0 .. 3 /\ E(j) \in Nat
             /\ A(j) + TLV < E(j) /\ A(j) + TLV + N(j) <= MsgBuf /\ j \in Nat
             /\ Moved(order, puts[j]) \in Nat /\ N(j) = Moved(order, puts[j]) + V(j)
             /\ order = "host" => V(j) = 0
  BY <1>2, PlaceFact
<1>6. TLV = 8 /\ ParaBuf = 12 /\ MsgBuf \in Nat
  BY Buffer
<1>7. ASSUME NEW j \in 1 .. L, j > k
      PROVE  IF j = k + 1 THEN A(j) = E(k) ELSE A(j) >= E(k) + 8
  <2>1. k + 1 \in 1 .. L /\ k \in 1 .. L /\ k < L /\ j \in Nat /\ k \in Nat
    BY <1>3, <1>4, <1>7
  <2>2. A(k + 1) = E(k)
    BY <1>2, <2>1 DEF PlacesInv
  <2>3. CASE j = k + 1
    BY <2>2, <2>3
  <2>4. CASE j # k + 1
    <3>1. k + 1 < j
      BY <1>7, <2>1, <2>4
    <3>2. E(k + 1) <= A(j)
      BY <1>2, <2>1, <3>1 DEF PlacesInv
    <3>3. A(k + 1) \in Nat /\ E(k + 1) \in Nat /\ A(k + 1) + TLV < E(k + 1)
      BY <1>5, <2>1
    <3>4. A(j) \in Nat
      BY <1>5
    <3> HIDE DEF A, E, k
    <3> QED BY <1>6, <2>2, <2>4, <3>2, <3>3, <3>4
  <2> QED BY <2>3, <2>4
<1>8. ASSUME NEW j \in 1 .. L, j > k, NEW i \in Nat, i >= 1, i <= TLV + N(j),
             i > (IF j = 1 THEN 0 ELSE V(j - 1))
      PROVE  A(j) + i \in 1 .. MsgBuf /\ mem'[A(j) + i] = mem[A(j) + i]
  <2>1. A(j) + i \in 1 .. MsgBuf
    <3>1. A(j) \in Nat /\ N(j) \in 1 .. ParaBuf /\ A(j) + TLV + N(j) <= MsgBuf
      BY <1>5
    <3> DEFINE a == A(j)
               n == N(j)
    <3>2. a \in Nat /\ n \in 1 .. 12 /\ a + 8 + n <= MsgBuf /\ i \in Nat /\ i >= 1 /\ i <= 8 + n
      BY <1>6, <1>8, <3>1
    <3> HIDE DEF a, n
    <3>3. a + i \in 1 .. MsgBuf
      BY <1>6, <3>2
    <3> QED BY <3>3 DEF a
  <2>2. order = "host" \/ A(j) + i > E(k) + V(k)
    <3>1. A(j) \in Nat /\ E(k) \in Nat /\ V(k) \in 0 .. 3
      BY <1>3, <1>5
    <3>2. CASE j = k + 1
      <4>1. A(j) = E(k)
        BY <1>7, <1>8, <3>2
      <4>2. i > V(k)
        <5>1. j # 1 /\ j - 1 = k
          BY <1>3, <1>4, <3>2
        <5> HIDE DEF k
        <5> QED BY <1>8, <5>1
      <4> HIDE DEF A, E, V, k, N
      <4> QED BY <1>8, <3>1, <4>1, <4>2
    <3>3. CASE j # k + 1
      <4>1. A(j) >= E(k) + 8
        BY <1>7, <1>8, <3>3
      <4> HIDE DEF A, E, V, k, N
      <4> QED BY <1>8, <3>1, <4>1
    <3> QED BY <3>2, <3>3
  <2> HIDE DEF A, E, V, k
  <2> QED BY <1>3, <2>1, <2>2
<1>9. PlacesInv'
  <2>1. puts' = puts /\ order' = order /\ len' = len /\ msgLen' = msgLen
    BY <1>1
  <2> QED BY <1>1, <1>2, <2>1 DEF PlacesInv
<1>10. ASSUME NEW j \in 1 .. L, j > k
       PROVE  /\ HeadIs(mem', order, j, puts[j], IF j = 1 THEN 0 ELSE V(j - 1))
              /\ ParaIs(mem', order, puts[j], IF j = L THEN N(j) ELSE Moved(order, puts[j]))
  <2> DEFINE low == IF j = 1 THEN 0 ELSE V(j - 1)
             high == IF j = L THEN N(j) ELSE Moved(order, puts[j])
  <2>1. j > Len(got)
    BY <1>3, <1>4, <1>10
  <2>2. HeadIs(mem, order, j, puts[j], low) /\ ParaIs(mem, order, puts[j], high)
    BY <1>1, <1>2, <2>1 DEF CellsInv
  <2>3. /\ A(j) \in Nat /\ N(j) \in 1 .. ParaBuf /\ high \in Nat /\ high <= N(j)
        /\ low \in 0 .. 3
    <3>1. /\ A(j) \in Nat /\ N(j) \in 1 .. ParaBuf /\ Moved(order, puts[j]) \in Nat
          /\ N(j) = Moved(order, puts[j]) + V(j) /\ V(j) \in 0 .. 3
      BY <1>5
    <3>2. high \in Nat /\ high <= N(j)
      <4> DEFINE m == Moved(order, puts[j])
      <4> HIDE DEF m, N, V
      <4> QED BY <1>6, <3>1 DEF m
    <3>3. low \in 0 .. 3
      <4>1. j # 1 => j - 1 \in 1 .. L
        BY <1>4
      <4> HIDE DEF V
      <4> QED BY <4>1, <1>5
    <3> QED BY <3>1, <3>2, <3>3
  <2>4. ASSUME NEW i \in 1 .. TLV, i > low
        PROVE  mem'[A(j) + i] = HeadCells(order, j)[i]
    <3>1. i \in Nat /\ i >= 1 /\ i <= TLV + N(j)
      <4> DEFINE n == N(j)
      <4>1. n \in 1 .. 12 /\ TLV = 8 /\ i \in 1 .. 8
        BY <1>6, <2>3
      <4> HIDE DEF n
      <4>2. i \in Nat /\ i >= 1 /\ i <= TLV + n
        BY <4>1
      <4> QED BY <4>2 DEF n
    <3>2. mem'[A(j) + i] = mem[A(j) + i]
      BY <1>8, <1>10, <2>4, <3>1
    <3> QED BY <2>2, <2>4, <3>2 DEF HeadIs
  <2>5. ASSUME NEW i \in 1 .. high
        PROVE  mem'[A(j) + TLV + i] = ParaCells(order, puts[j])[i]
    <3>1. /\ TLV + i \in Nat /\ TLV + i >= 1 /\ TLV + i <= TLV + N(j) /\ TLV + i > low
          /\ A(j) + (TLV + i) = A(j) + TLV + i
      <4> DEFINE a == A(j)
                 n == N(j)
      <4>1. a \in Nat /\ n \in 1 .. 12 /\ high \in Nat /\ high <= n /\ low \in 0 .. 3
        BY <1>6, <2>3
      <4> HIDE DEF a, n, low, high
      <4>2. /\ TLV + i \in Nat /\ TLV + i >= 1 /\ TLV + i <= TLV + n /\ TLV + i > low
            /\ a + (TLV + i) = a + TLV + i
        BY <1>6, <4>1
      <4> QED BY <4>2 DEF a, n
    <3>2. mem'[A(j) + (TLV + i)] = mem[A(j) + (TLV + i)]
      <4> DEFINE t == TLV + i
      <4>1. t \in Nat /\ t >= 1 /\ t <= TLV + N(j) /\ t > low
        BY <3>1
      <4> HIDE DEF t
      <4>2. mem'[A(j) + t] = mem[A(j) + t]
        BY <1>8, <1>10, <4>1
      <4> QED BY <4>2 DEF t
    <3>3. mem[A(j) + TLV + i] = ParaCells(order, puts[j])[i]
      BY <2>2 DEF ParaIs
    <3> QED BY <3>1, <3>2, <3>3
  <2> QED BY <2>4, <2>5 DEF HeadIs, ParaIs
<1>11. CellsInv'
  <2>1. puts' = puts /\ order' = order /\ Len(got') = k
    BY <1>1, <1>4
  <2> HIDE DEF k
  <2> QED BY <1>10, <2>1 DEF CellsInv
<1>12. ReadInv'
  <2>1. k < L => ReadAt' = puts[k + 1].at
    <3>1. E(k) # 0
      <4>1. A(k) \in Nat /\ A(k) + TLV < E(k)
        BY <1>3, <1>5
      <4> HIDE DEF A, E, k
      <4> QED BY <1>6, <4>1
    <3>2. k < L => A(k + 1) = E(k)
      BY <1>2, <1>3 DEF PlacesInv
    <3> QED BY <1>3, <3>1, <3>2 DEF ReadAt
  <2>2. staleLen' = N(k) /\ got' # <<>>
    <3>1. got' # <<>>
      <4>1. Len(got') # 0
        BY <1>3, <1>4
      <4> QED BY <4>1
    <3> QED BY <1>1, <1>3, <3>1
  <2>3. ASSUME NEW j \in 1 .. k
        PROVE  got'[j].i = j
    <3>1. CASE j = k
      BY <1>4, <3>1
    <3>2. CASE j # k
      <4>1. j \in 1 .. Len(got)
        BY <1>4, <3>2
      <4> QED BY <1>2, <1>4, <4>1 DEF ReadInv
    <3> QED BY <3>1, <3>2
  <2>4. puts' = puts /\ Len(got') = k
    BY <1>1, <1>4
  <2> HIDE DEF k
  <2> QED BY <2>1, <2>2, <2>3, <2>4 DEF ReadInv
<1> QED BY <1>9, <1>11, <1>12

-----------------------------------------------------------------------------
(***************************************************************************)
(* What was taken out is what was put in.                                  *)
(***************************************************************************)

\* Sequences with the same cells are the same.
LEMMA SameCells ==
  ASSUME NEW a \in Seq(Cell), NEW b \in Seq(Cell), Len(a) = Len(b),
         \A j \in 1 .. Len(a) : a[j] = b[j]
  PROVE  a = b
<1>1. a = [j \in 1 .. Len(a) |-> a[j]] /\ b = [j \in 1 .. Len(b) |-> b[j]]
  OBVIOUS
<1> QED BY <1>1

\* A whole command is in a clean packet and is read as it was packed.
LEMMA WholeFact ==
  ASSUME TypeInv, PutsInv, NEW k \in 1 .. Len(puts), Whole(k)
  PROVE  /\ Clean
         /\ order = "net" => /\ cvt_fmt(Fmt(puts[k]), ParaCells("net", puts[k])) = puts[k].para
                             /\ k < Len(puts) => Over("net", puts[k]) = 0
<1>1. Clean
  BY DEF Whole, Clean
<1>2. puts[k] \in Put /\ PutOK(order, k, puts[k]) /\ k \in Nat /\ order \in {"host", "net"}
  BY PutsFact
<1>3. ASSUME order = "net"
      PROVE  /\ cvt_fmt(Fmt(puts[k]), ParaCells("net", puts[k])) = puts[k].para
             /\ k < Len(puts) => Over("net", puts[k]) = 0
  <2>1. /\ puts[k].written /\ ~Has(puts[k], {"v", "q"})
        /\ k < Len(puts) => ~Has(puts[k], {"s"})
    BY <1>3 DEF Whole
  <2> QED BY <1>2, <1>3, <2>1, ReadBack
<1> QED BY <1>1, <1>3

\* A command that is whole is taken out as it was put in.
LEMMA TakenWhole ==
  ASSUME TypeInv, PutsInv, StageInv, BoundInv, LayoutInv, phase = "read", Taken,
         Whole(Len(got) + 1)
  PROVE  Piece = [i |-> Len(got) + 1, para |-> puts[Len(got) + 1].para]
<1> DEFINE k == Len(got) + 1
           p == puts[k]
           n == Len(p.para)
           off == ReadAt + TLV
           z == Size(FoundFmt)
           w == Swapped(order, FoundFmt, At(off, z))
           q == SubSeq(mem', off + 1, off + FoundLen)
           high == IF k = Len(puts) THEN n ELSE Moved(order, p)
<1>1. num # 0 /\ order \in {"host", "net"}
  BY DEF Taken, TypeInv
<1>2. k \in 1 .. Len(puts) /\ k > Len(got) /\ Len(puts) \in Nat /\ k \in Nat
  BY <1>1, ReadPlace
<1>3. /\ Clean
      /\ order = "net" => /\ cvt_fmt(Fmt(p), ParaCells("net", p)) = p.para
                          /\ k < Len(puts) => Over("net", p) = 0
  <2> HIDE DEF k
  <2>1. Whole(k)
    BY DEF k
  <2> QED BY <1>2, <2>1, WholeFact
<1>4. PlacesInv /\ CellsInv
  BY <1>3 DEF LayoutInv
<1>5. ReadAt = p.at /\ Found = k /\ FoundLen = n
  BY <1>3, TakenPlace
<1>6. /\ p.at \in Nat /\ n \in 1 .. ParaBuf /\ Moved(order, p) \in Nat /\ Over(order, p) \in 0 .. 3
      /\ n = Moved(order, p) + Over(order, p)
      /\ (order = "host" => Moved(order, p) = n) /\ (order = "host" \/ p.written)
      /\ p \in Put /\ PutOK(order, k, p) /\ p.para \in Seq(Cell)
  <2> HIDE DEF k
  <2> QED BY <1>2, <1>3, <1>4, PlaceFact, PutsFact
<1>7. high = n
  <2>1. CASE k = Len(puts) \/ order = "host"
    BY <1>6, <2>1
  <2>2. CASE k # Len(puts) /\ order = "net"
    <3>1. k < Len(puts)
      BY <1>2, <2>2
    <3>2. Over(order, p) = 0
      BY <1>3, <2>2, <3>1
    <3>3. Moved(order, p) = n
      <4> DEFINE m == Moved(order, p)
                 v == Over(order, p)
      <4>1. m \in Nat /\ v = 0 /\ n = m + v
        BY <1>6, <2>2, <3>2
      <4> HIDE DEF m, v, n
      <4>2. m = n
        BY <4>1
      <4> QED BY <4>2 DEF m
    <3> QED BY <2>2, <3>3
  <2> QED BY <1>1, <2>1, <2>2
<1>8. ParaIs(mem, order, p, n)
  <2>1. ParaIs(mem, order, p, high)
    <3>1. phase = "read"
      OBVIOUS
    <3> QED BY <1>2, <1>4, <3>1 DEF CellsInv
  <2> QED BY <1>7, <2>1
<1>9. \A j \in 1 .. n : mem[off + j] = ParaCells(order, p)[j]
  BY <1>5, <1>8 DEF ParaIs
<1>10. /\ z \in 0 .. FoundLen /\ (order = "host" => z = 0) /\ off \in Nat
       /\ order = "net" => z = FoundLen /\ FoundFmt = Fmt(puts[Found])
       /\ off + FoundLen <= MsgBuf
       /\ \A x \in 1 .. MsgBuf : x <= off \/ x > off + z => mem'[x] = mem[x]
       /\ \A j \in 1 .. z : mem'[off + j] = w[j]
       /\ At(off, z) \in Seq(Cell) /\ Len(At(off, z)) = z
       /\ \A j \in 1 .. z : At(off, z)[j] = mem[off + j]
       /\ q \in Seq(Cell) /\ Len(q) = FoundLen
       /\ \A j \in 1 .. FoundLen : q[j] = mem'[off + j]
  BY TakenFact
<1>11. \A j \in 1 .. n : mem'[off + j] = p.para[j]
  <2> SUFFICES ASSUME NEW j \in 1 .. n
               PROVE  mem'[off + j] = p.para[j]
    OBVIOUS
  <2>1. CASE order = "host"
    <3>1. off + j \in 1 .. MsgBuf /\ off + j > off + z
      <4>1. MsgBuf \in Nat /\ n \in Nat /\ off \in Nat /\ off + n <= MsgBuf /\ z = 0
        BY <1>5, <1>6, <1>10, <2>1, Buffer
      <4> HIDE DEF n, off, z
      <4> QED BY <4>1
    <3>2. mem'[off + j] = mem[off + j]
      BY <1>10, <3>1
    <3>3. ParaCells(order, p) = p.para
      BY <2>1 DEF ParaCells
    <3> QED BY <1>9, <3>2, <3>3
  <2>2. CASE order = "net"
    <3>1. z = n /\ FoundFmt = Fmt(p)
      BY <1>5, <1>10, <2>2
    <3>2. ParaCells("net", p) \in Seq(Cell) /\ Len(ParaCells("net", p)) = n
      <4> HIDE DEF p, k
      <4> QED BY <1>2, <1>6, <2>2, PutFact
    <3>3. At(off, z) = ParaCells("net", p)
      <4> DEFINE a == At(off, z)
                 b == ParaCells("net", p)
      <4>1. a \in Seq(Cell) /\ b \in Seq(Cell) /\ Len(a) = n /\ Len(b) = n
        BY <1>10, <3>1, <3>2
      <4>2. \A i \in 1 .. n : a[i] = b[i]
        BY <1>9, <1>10, <2>2, <3>1
      <4> HIDE DEF a, b, n
      <4>3. a = b
        BY <4>1, <4>2, SameCells
      <4> QED BY <4>3 DEF a, b
    <3>4. w = p.para
      BY <1>3, <2>2, <3>1, <3>3 DEF Swapped
    <3> QED BY <1>10, <3>1, <3>4
  <2> QED BY <1>1, <2>1, <2>2
<1>12. q = p.para
  <2>1. q \in Seq(Cell) /\ p.para \in Seq(Cell) /\ Len(q) = Len(p.para)
    BY <1>5, <1>6, <1>10
  <2>2. \A j \in 1 .. Len(q) : q[j] = p.para[j]
    BY <1>5, <1>10, <1>11
  <2> HIDE DEF q, p
  <2> QED BY <2>1, <2>2, SameCells
<1> QED BY <1>5, <1>12 DEF Piece

\* Taking a command out keeps what was taken out before.
LEMMA TakenIntact ==
  ASSUME TypeInv, PutsInv, StageInv, BoundInv, LayoutInv, Intact, Reading, ReadFrame, Taken
  PROVE  Intact'
<1>1. /\ phase = "read" /\ num # 0
      /\ UNCHANGED <<helper, file, order, puts, len, msgLen, calls>>
  BY DEF Reading, ReadFrame, Taken
<1>2. /\ Len(got) \in Nat /\ Len(got') = Len(got) + 1 /\ got'[Len(got) + 1] = Piece
      /\ \A k \in 1 .. Len(got) : got'[k] = got[k]
  BY <1>1, GotFact
<1>3. \A k : Whole(k)' => Whole(k)
  BY <1>1 DEF Whole, Has
<1>4. ASSUME NEW k \in 1 .. Len(got'), Whole(k)'
      PROVE  got'[k] = [i |-> k, para |-> puts'[k].para]
  <2>1. CASE k = Len(got) + 1
    BY <1>1, <1>2, <1>3, <1>4, <2>1, TakenWhole
  <2>2. CASE k # Len(got) + 1
    <3>1. k \in 1 .. Len(got)
      BY <1>2, <2>2
    <3> QED BY <1>1, <1>2, <1>3, <1>4, <3>1 DEF Intact
  <2> QED BY <2>1, <2>2
<1> QED BY <1>4 DEF Intact

\* What GetFromPacket takes out is what was put in.
LEMMA GetIntact ==
  ASSUME TypeInv, PutsInv, StageInv, BoundInv, LayoutInv, Intact, Reading, ReadFrame,
         Ended \/ Stopped \/ Taken
  PROVE  Intact'
<1>1. CASE Ended \/ Stopped
  <2>1. UNCHANGED <<helper, file, order, puts, got>>
    BY <1>1 DEF ReadFrame, Ended, Stopped
  <2> QED BY <2>1 DEF Intact, Whole, Has
<1>2. CASE Taken
  BY <1>2, TakenIntact
<1> QED BY <1>1, <1>2

\* When every command is whole the reader stops only behind the last one.
LEMMA GetComplete ==
  ASSUME TypeInv, PutsInv, StageInv, BoundInv, LayoutInv, Reading, ReadFrame,
         Ended \/ Stopped \/ Taken
  PROVE  Complete'
<1>1. /\ phase = "read" /\ UNCHANGED <<helper, file, order, puts, len, msgLen, calls>>
      /\ order \in {"host", "net"} /\ helper \in {"raw", "crm"}
  BY DEF Reading, ReadFrame, TypeInv
<1>2. CASE Taken
  BY <1>1, <1>2 DEF Taken, Complete
<1> SUFFICES ASSUME Ended \/ Stopped, \A k \in 1 .. Len(puts) : Whole(k),
                    \/ helper = "raw"
                    \/ \A j, k \in 1 .. Len(puts) : j < k => Len(puts[j].para) <= Len(puts[k].para)
             PROVE  Len(got) = Len(puts)
  <2>1. got' = got \/ Taken
    BY DEF Ended, Stopped
  <2>2. \A k : Whole(k)' => Whole(k)
    BY <1>1 DEF Whole, Has
  <2> QED BY <1>1, <1>2, <2>1, <2>2 DEF Complete
<1>3. Len(got) \in Nat /\ Len(puts) \in Nat /\ num + Len(got) = Len(puts) /\ num \in Nat
  BY <1>1 DEF TypeInv, StageInv
<1>4. CASE num = 0
  BY <1>3, <1>4
<1>5. CASE num # 0
  <2> DEFINE k == Len(got) + 1
             p == puts[k]
             n == Len(p.para)
             low == IF k = 1 THEN 0 ELSE Over(order, puts[k - 1])
  <2>1. k \in 1 .. Len(puts) /\ k \in Nat
    BY <1>3, <1>5
  <2>2. Clean
    BY <2>1, WholeFact
  <2>3. PlacesInv /\ CellsInv /\ ReadInv
    BY <2>2 DEF LayoutInv
  <2>4. /\ ReadAt = p.at /\ low \in 0 .. 3 /\ Found \in {0, k} /\ (low = 0 => Found = k)
        /\ order = "host" => Found = k
        /\ Found # 0 => Found = k /\ FoundCmd = p.c /\ FoundLen = n
    BY <1>1, <1>5, <2>2, FoundFact
  <2>5. p.at \in Nat /\ n \in 1 .. ParaBuf /\ (p.written = (order = "host" \/ Known(p.c, n)))
        /\ (order = "host" \/ p.written)
    <3>1. PutOK(order, k, p) /\ p.at \in Nat /\ n \in 1 .. ParaBuf /\ (order = "host" \/ p.written)
      <4> HIDE DEF k
      <4> QED BY <2>1, <2>2, <2>3, PlaceFact
    <3> QED BY <3>1 DEF PutOK
  <2>6. p.at + TLV + n <= msgLen
    <3> HIDE DEF k
    <3> QED BY <1>1, <2>1, <2>3 DEF PlacesInv
  <2>7. TLV = 8 /\ ParaBuf = 12 /\ msgLen \in Nat /\ staleLen \in 0 .. ParaBuf
    BY Buffer DEF TypeInv
  <2>8. helper # "raw" => staleLen <= n
    <3>1. staleLen = IF got = <<>> THEN 0 ELSE Len(puts[Len(got)].para)
      BY <1>1, <2>3 DEF ReadInv
    <3>2. CASE got = <<>>
      <4> HIDE DEF n
      <4> QED BY <2>5, <2>7, <3>1, <3>2
    <3>3. CASE got # <<>>
      <4>1. Len(got) \in 1 .. Len(puts) /\ Len(got) < k
        <5>1. Len(got) # 0
          BY <3>3 DEF TypeInv
        <5> QED BY <1>3, <2>1, <5>1
      <4>2. helper # "raw" => Len(puts[Len(got)].para) <= n
        <5> HIDE DEF k
        <5> QED BY <2>1, <4>1
      <4> QED BY <3>1, <3>3, <4>2
    <3> QED BY <3>2, <3>3
  <2>9. Found = k
    <3>1. CASE order = "host"
      BY <2>4, <3>1
    <3>2. CASE order = "net"
      <4>1. low = 0
        <5>1. CASE k = 1
          BY <5>1
        <5>2. CASE k # 1
          <6>1. k - 1 \in 1 .. Len(puts) /\ k - 1 < Len(puts)
            BY <1>3, <2>1, <5>2
          <6>2. Over("net", puts[k - 1]) = 0
            <7> HIDE DEF k
            <7> QED BY <3>2, <6>1, WholeFact
          <6> QED BY <3>2, <5>2, <6>2
        <5> QED BY <5>1, <5>2
      <4> QED BY <2>4, <4>1
    <3> QED BY <1>1, <3>1, <3>2
  <2>10. FoundCmd = p.c /\ FoundLen = n
    <3> HIDE DEF k
    <3>1. k # 0
      BY <2>1
    <3> QED BY <2>4, <2>9, <3>1
  <2>11. ~Ended
    <3>1. Ended => helper # "raw" /\ ReadAt + TLV + staleLen > msgLen
      BY <1>5 DEF Ended
    <3> DEFINE a == p.at
    <3>2. a \in Nat /\ ReadAt = a /\ a + TLV + n <= msgLen
      BY <2>4, <2>5, <2>6
    <3> HIDE DEF a, n, p, k
    <3> QED BY <2>5, <2>7, <2>8, <3>1, <3>2
  <2>12. ~Stopped
    <3> DEFINE a == p.at
    <3>1. a \in Nat /\ ReadAt = a /\ a + TLV + n <= msgLen /\ FoundLen = n
      BY <2>4, <2>5, <2>6, <2>10
    <3>2. Known(FoundCmd, FoundLen) \/ order = "host"
      BY <2>5, <2>10
    <3> HIDE DEF a, n, p, k
    <3>3. ~(ReadAt + TLV + FoundLen > msgLen) /\ ~(FoundLen + TLV > msgLen - ReadAt)
      BY <2>5, <2>7, <3>1
    <3> QED BY <3>2, <3>3 DEF Stopped
  <2> QED BY <2>11, <2>12
<1> QED BY <1>4, <1>5

-----------------------------------------------------------------------------
(***************************************************************************)
(* The actions.                                                            *)
(***************************************************************************)

\* AddToPacket keeps the invariant.
LEMMA AddIInv ==
  ASSUME IInv, NEW c \in Inputs, AddStep(c)
  PROVE  IInv'
<1>1. /\ TypeInv /\ PutsInv /\ StageInv /\ FileInv /\ BoundInv /\ LayoutInv
  BY DEF IInv
<1>2. TypeInv' /\ PutsInv' /\ StageInv' /\ FileInv' /\ BoundInv'
  BY <1>1, AddBasic
<1>3. LayoutInv'
  BY <1>1, AddLayout DEF LayoutInv
<1>4. phase = "pack" /\ phase' = "pack" /\ got' = got /\ calls' = calls
  BY DEF AddStep
<1>5. got = <<>> /\ Len(got) = 0 /\ calls = <<>> /\ Len(calls) = 0
  BY <1>1, <1>4 DEF StageInv
<1>6. Intact' /\ Complete' /\ Reported' /\ Len(calls') <= 1
  BY <1>4, <1>5 DEF Intact, Complete, Reported
<1> QED BY <1>2, <1>3, <1>6 DEF IInv

\* PacketFrame keeps it.
LEMMA SendIInv ==
  ASSUME IInv, SendStep
  PROVE  IInv'
<1>1. /\ TypeInv /\ PutsInv /\ StageInv /\ FileInv /\ BoundInv /\ LayoutInv
  BY DEF IInv
<1>2. TypeInv' /\ PutsInv' /\ StageInv' /\ FileInv' /\ BoundInv'
  BY <1>1, SendBasic
<1>3. LayoutInv'
  BY <1>1, SendLayout DEF LayoutInv
<1>4. phase = "pack" /\ phase' = "read" /\ got' = got /\ calls' = calls
  BY DEF SendStep
<1>5. got = <<>> /\ Len(got) = 0 /\ calls = <<>> /\ Len(calls) = 0
  BY <1>1, <1>4 DEF StageInv
<1>6. Intact' /\ Complete' /\ Reported' /\ Len(calls') <= 1
  BY <1>4, <1>5 DEF Intact, Complete, Reported
<1> QED BY <1>2, <1>3, <1>6 DEF IInv

\* GetFromPacket keeps it.
LEMMA GetIInv ==
  ASSUME IInv, RawGetFromPacket \/ CRMGetFromPacket
  PROVE  IInv'
<1>1. /\ TypeInv /\ PutsInv /\ StageInv /\ FileInv /\ BoundInv /\ LayoutInv /\ Intact
  BY DEF IInv
<1>2. Reading /\ ReadFrame /\ (Ended \/ Stopped \/ Taken)
  BY <1>1, GetNormal
<1>3. TypeInv' /\ PutsInv' /\ StageInv' /\ FileInv' /\ BoundInv'
  BY <1>1, <1>2, GetBasic
<1>4. LayoutInv'
  <2>1. Clean' => Clean
    BY <1>2 DEF ReadFrame, Clean
  <2> QED BY <1>1, <1>2, <2>1, DoneLayout, TakenLayout DEF LayoutInv
<1>5. Intact' /\ Complete'
  BY <1>1, <1>2, GetIntact, GetComplete
<1>6. Reported' /\ Len(calls') <= 1
  <2>1. calls' = calls /\ calls = <<>> /\ Len(calls) = 0
    BY <1>1, <1>2 DEF ReadFrame, Reading, StageInv
  <2> QED BY <2>1 DEF Reported
<1> QED BY <1>3, <1>4, <1>5, <1>6 DEF IInv

\* The first two of a sequence.
LEMMA FirstTwo ==
  ASSUME NEW s \in Seq(Cell), Len(s) >= 2
  PROVE  SubSeq(s, 1, 2) = <<s[1], s[2]>>
<1>1. Len(s) \in Nat /\ SubSeq(s, 1, 2) = [j \in 1 .. 2 |-> s[j]]
  OBVIOUS
<1>2. <<s[1], s[2]>> = [j \in 1 .. 2 |-> s[j]]
  OBVIOUS
<1> QED BY <1>1, <1>2

\* ProcRsp tells a failure from a success by the error code that was packed.
LEMMA CodeFact ==
  ASSUME NEW c \in Inputs, c.rsp, ~PacketParam(1, c).error
  PROVE  LET para == PacketParam(1, c).para
         IN /\ c.cmd \in Statuses => (Fails(para, 2) <=> c.failed)
            /\ c.cmd \in Indexes => (Fails(para, 6) <=> c.failed)
<1> DEFINE q == PacketParam(1, c)
           para == q.para
           fmt == FormatOf(c.cmd, c.rsp)
<1>1. /\ para \in Seq(Cell) /\ c.cmd # "ps" /\ Len(para) = (IF c.failed THEN 2 ELSE Size(fmt))
      /\ \A j \in 1 .. 2 : para[j] = CodeCells(1, c)[j]
  <2>1. 1 \in Nat
    OBVIOUS
  <2> QED BY <2>1, PacketParamFact
<1>2. c.cmd \in DOMAIN Format /\ fmt = Format[c.cmd].rsp /\ c.failed \in BOOLEAN
  BY InputFact DEF FormatOf
<1>3. c.cmd \in Statuses => Size(fmt) = 2
  <2>1. Size(<<Word>>) = 2
    BY FieldSizes, Sizes1
  <2> QED BY <1>2, <2>1, FormatFact
<1>4. c.cmd = "query" => Size(fmt) = 6
  <2>1. Size(<<Word, Dword>>) = 6
    BY FieldSizes, Sizes2
  <2> QED BY <1>2, <2>1, FormatFact
<1>5. /\ c.failed => para[1] # Zero
      /\ ~c.failed => para[1] = Zero /\ para[2] = Zero
  <2>1. \A j \in 1 .. 2 : CodeCells(1, c)[j] = IF c.failed THEN <<1, 1, j>> ELSE Zero
    BY DEF CodeCells
  <2> HIDE DEF q
  <2> QED BY <1>1, <2>1 DEF Zero
<1>6. Len(para) >= 2 => (SubSeq(para, 1, Word.n) # <<Zero, Zero>> <=> c.failed)
  <2>1. Word.n = 2
    BY FieldSizes
  <2>2. Len(para) >= 2 => SubSeq(para, 1, 2) = <<para[1], para[2]>>
    BY <1>1, FirstTwo
  <2> HIDE DEF q
  <2> QED BY <1>2, <1>5, <2>1, <2>2
<1>7. c.cmd \in Indexes => c.cmd = "query"
  BY <1>1 DEF Indexes
<1> HIDE DEF q, fmt
<1>8. c.cmd \in Statuses => (Fails(para, 2) <=> c.failed)
  <2> SUFFICES ASSUME c.cmd \in Statuses
               PROVE  Fails(para, 2) <=> c.failed
    OBVIOUS
  <2>1. Len(para) = 2
    BY <1>1, <1>3
  <2> QED BY <1>6, <2>1 DEF Fails
<1>9. c.cmd \in Indexes => (Fails(para, 6) <=> c.failed)
  <2> SUFFICES ASSUME c.cmd \in Indexes
               PROVE  Fails(para, 6) <=> c.failed
    OBVIOUS
  <2>1. CASE c.failed
    <3>1. Len(para) < 6
      BY <1>1, <2>1
    <3> QED BY <2>1, <3>1 DEF Fails
  <2>2. CASE ~c.failed
    <3>1. Len(para) = 6
      BY <1>1, <1>4, <1>7, <2>2
    <3> QED BY <1>6, <2>2, <3>1 DEF Fails
  <2> QED BY <1>2, <2>1, <2>2
<1> QED BY <1>8, <1>9 DEF q

\* ProcRsp keeps the invariant, and reports once.
LEMMA ProcRspIInv ==
  ASSUME IInv, ProcRsp
  PROVE  IInv'
<1>1. /\ TypeInv /\ PutsInv /\ StageInv /\ FileInv /\ BoundInv /\ LayoutInv /\ Intact
  BY DEF IInv
<1>2. /\ helper = "crm" /\ phase = "read" /\ phase' = "handed" /\ Len(got) = 1
      /\ got[1].i # 0 /\ puts[got[1].i].c.rsp
      /\ UNCHANGED <<helper, file, order, puts, mem, offset, num, len, msgLen, staleLen, got>>
  BY DEF ProcRsp, header
<1>3. TypeInv' /\ PutsInv'
  BY <1>1, <1>2 DEF TypeInv, PutsInv
<1>4. StageInv' /\ FileInv' /\ BoundInv'
  BY <1>1, <1>2 DEF StageInv, FileInv, BoundInv
<1>5. LayoutInv'
  <2>1. Clean' <=> Clean
    BY <1>2 DEF Clean
  <2>2. Clean => PlacesInv' /\ CellsInv' /\ ReadInv'
    BY <1>1, <1>2 DEF LayoutInv, PlacesInv, CellsInv, ReadInv
  <2> QED BY <2>1, <2>2 DEF LayoutInv
<1>6. Intact' /\ Complete'
  BY <1>1, <1>2 DEF Intact, Complete, Whole, Has
<1> DEFINE cmd == puts[got[1].i].c.cmd
           para == got[1].para
<1>7. calls' =
        CASE cmd \in Statuses /\ Fails(para, 2) -> <<[cb |-> "onError", text |-> <<>>]>>
          [] cmd \in Statuses /\ ~Fails(para, 2) -> <<[cb |-> "onCRMRecv", text |-> <<>>]>>
          [] cmd \in Indexes /\ Fails(para, 6) -> <<[cb |-> "onError", text |-> <<>>]>>
          [] cmd \in Indexes /\ ~Fails(para, 6) ->
               <<[cb |-> "onCRMRecv", text |-> Json(SubSeq(para, 3, 6))]>>
          [] OTHER -> <<>>
  BY DEF ProcRsp
<1>8. \A x \in Statuses : x \notin Indexes
  BY DEF Statuses, Indexes
<1>9. /\ cmd \in Statuses =>
           Len(calls') = 1 /\ (calls'[1].cb = "onError" <=> Fails(para, 2))
      /\ cmd \in Indexes =>
           Len(calls') = 1 /\ (calls'[1].cb = "onError" <=> Fails(para, 6))
      /\ cmd \notin Statuses /\ cmd \notin Indexes => calls' = <<>>
  <2> DEFINE err == <<[cb |-> "onError", text |-> <<>>]>>
             ok(t) == <<[cb |-> "onCRMRecv", text |-> t]>>
  <2>1. Len(err) = 1 /\ err[1].cb = "onError" /\ \A t : Len(ok(t)) = 1 /\ ok(t)[1].cb # "onError"
    OBVIOUS
  <2> HIDE DEF cmd, para
  <2>2. CASE cmd \in Statuses
    <3>1. CASE Fails(para, 2)
      <4>1. calls' = err
        BY <1>7, <1>8, <2>2, <3>1
      <4> HIDE DEF err
      <4> QED BY <1>8, <2>1, <2>2, <3>1, <4>1
    <3>2. CASE ~Fails(para, 2)
      <4>1. calls' = ok(<<>>)
        BY <1>7, <1>8, <2>2, <3>2
      <4> HIDE DEF ok
      <4> QED BY <1>8, <2>1, <2>2, <3>2, <4>1
    <3> QED BY <3>1, <3>2
  <2>3. CASE cmd \in Indexes
    <3>1. CASE Fails(para, 6)
      <4>1. calls' = err
        BY <1>7, <1>8, <2>3, <3>1
      <4> HIDE DEF err
      <4> QED BY <1>8, <2>1, <2>3, <3>1, <4>1
    <3>2. CASE ~Fails(para, 6)
      <4>1. calls' = ok(Json(SubSeq(para, 3, 6)))
        BY <1>7, <1>8, <2>3, <3>2
      <4> HIDE DEF ok
      <4> QED BY <1>8, <2>1, <2>3, <3>2, <4>1
    <3> QED BY <3>1, <3>2
  <2>4. CASE cmd \notin Statuses /\ cmd \notin Indexes
    BY <1>7, <2>4
  <2> QED BY <2>2, <2>3, <2>4
<1>10. Len(calls') <= 1
  <2>1. calls' = <<>> => Len(calls') = 0
    OBVIOUS
  <2>2. Len(calls') = 1 \/ calls' = <<>>
    BY <1>9
  <2> QED BY <2>1, <2>2
<1>11. Reported'
  <2> SUFFICES ASSUME calls' # <<>>, Whole(1), ~puts[1].error
               PROVE  calls'[1].cb = "onError" <=> puts[1].c.failed
    <3>1. Whole(1)' => Whole(1)
      BY <1>2 DEF Whole, Has
    <3>2. helper' # "bdt" /\ puts' = puts
      BY <1>2
    <3> QED BY <3>1, <3>2 DEF Reported
  <2>1. 1 \in 1 .. Len(puts) /\ 1 \in 1 .. Len(got)
    BY <1>1, <1>2 DEF TypeInv, StageInv
  <2>2. got[1].i = 1 /\ para = puts[1].para
    <3>1. got[1] = [i |-> 1, para |-> puts[1].para]
      BY <1>1, <2>1 DEF Intact
    <3> QED BY <3>1
  <2>3. /\ puts[1].c \in Inputs /\ puts[1].para = PacketParam(1, puts[1].c).para
        /\ puts[1].error = PacketParam(1, puts[1].c).error
    BY <1>1, <2>1, PutsFact DEF PutOK
  <2>4. puts[1].c.rsp /\ cmd = puts[1].c.cmd
    BY <1>2, <2>2
  <2>5. /\ cmd \in Statuses => (Fails(para, 2) <=> puts[1].c.failed)
        /\ cmd \in Indexes => (Fails(para, 6) <=> puts[1].c.failed)
    BY <2>2, <2>3, <2>4, CodeFact
  <2> HIDE DEF cmd, para
  <2> QED BY <1>9, <2>5
<1> QED BY <1>3, <1>4, <1>5, <1>6, <1>10, <1>11 DEF IInv

\* sendRawMessage keeps the invariant.
LEMMA SendRawIInv ==
  ASSUME IInv, SendRawMessage
  PROVE  IInv'
<1>1. /\ TypeInv /\ PutsInv /\ StageInv /\ FileInv /\ BoundInv /\ LayoutInv
  BY DEF IInv
<1>2. /\ helper = "bdt" /\ phase = "pack" /\ phase' = "sent"
      /\ UNCHANGED <<helper, order, puts, mem, offset, num, len, staleLen, got, calls>>
  BY DEF SendRawMessage, header
<1>3. PICK cmd \in Statuses \cap Cmds, zip \in FileLens, named \in FileLens :
        /\ file' = [cmd |-> cmd, zip |-> zip, named |-> named,
                    over |-> BigHead + GzipHead + zip > FileBuffer(named)]
        /\ msgLen' = FileBuffer(named)
  BY DEF SendRawMessage
<1>4. puts = <<>> /\ Len(puts) = 0 /\ got = <<>> /\ Len(got) = 0 /\ calls = <<>> /\ Len(calls) = 0
  BY <1>1, <1>2 DEF StageInv
<1>5. file'.named = named /\ file'.zip = zip /\ file' \in File
      /\ file'.over = (BigHead + GzipHead + zip > FileBuffer(named))
  <2> DEFINE b == BigHead + GzipHead + zip > FileBuffer(named)
  <2>1. b \in BOOLEAN
    OBVIOUS
  <2>2. file' = [cmd |-> cmd, zip |-> zip, named |-> named, over |-> b]
    BY <1>3
  <2> HIDE DEF b
  <2>3. file' \in File /\ file'.named = named /\ file'.zip = zip
    BY <2>1, <2>2 DEF File
  <2>4. file'.over = b
    BY <2>2
  <2> QED BY <2>3, <2>4 DEF b
<1>6. msgLen' \in Nat
  <2>1. BigHead + GzipHead + named \in Nat
    BY DEF BigHead, GzipHead, FileLens
  <2> QED BY <1>3, <2>1, Buffer DEF FileBuffer
<1>7. TypeInv'
  BY <1>1, <1>2, <1>5, <1>6 DEF TypeInv
<1>8. PutsInv'
  BY <1>1, <1>2 DEF PutsInv
<1>9. StageInv'
  BY <1>1, <1>2, <1>5 DEF StageInv
<1>10. FileInv'
  BY <1>2, <1>3, <1>5 DEF FileInv
<1>11. BoundInv'
  BY <1>1, <1>2 DEF BoundInv
<1>12. LayoutInv'
  BY <1>2, <1>4 DEF LayoutInv, PlacesInv, CellsInv, ReadInv
<1>13. Intact' /\ Complete' /\ Reported' /\ Len(calls') <= 1
  BY <1>2, <1>4 DEF Intact, Complete, Reported
<1> QED BY <1>7, <1>8, <1>9, <1>10, <1>11, <1>12, <1>13 DEF IInv

\* ProcRsp_DBFile keeps the invariant.
LEMMA DBFileIInv ==
  ASSUME IInv, ProcRsp_DBFile
  PROVE  IInv'
<1>1. /\ TypeInv /\ PutsInv /\ StageInv /\ FileInv /\ BoundInv /\ LayoutInv
  BY DEF IInv
<1>2. /\ helper = "bdt" /\ phase = "pack" /\ phase' = "handed"
      /\ UNCHANGED <<helper, file, order, puts, mem, offset, num, len, msgLen, staleLen, got>>
  BY DEF ProcRsp_DBFile, header
<1>3. PICK n \in FileLens, named \in FileLens, target \in {"none", "file"}, unpacked \in BOOLEAN :
        calls' = IF HasFile(n, named) /\ target = "file" /\ unpacked
                 THEN <<[cb |-> "onFileRecv", text |-> <<n, named>>]>>
                 ELSE <<[cb |-> "onError", text |-> <<n, named>>]>>
  BY DEF ProcRsp_DBFile
<1>4. puts = <<>> /\ Len(puts) = 0 /\ got = <<>> /\ Len(got) = 0 /\ msgLen = 0
  BY <1>1, <1>2 DEF StageInv, BoundInv
<1>5. TypeInv' /\ PutsInv'
  BY <1>1, <1>2 DEF TypeInv, PutsInv
<1>6. StageInv' /\ FileInv' /\ BoundInv'
  BY <1>1, <1>2, <1>4 DEF StageInv, FileInv, BoundInv
<1>7. LayoutInv'
  BY <1>2, <1>4 DEF LayoutInv, PlacesInv, CellsInv, ReadInv
<1>8. Intact' /\ Complete'
  BY <1>2, <1>4 DEF Intact, Complete
<1>9. Len(calls') = 1 /\ (calls'[1].cb = "onFileRecv" => n >= GzipHead + named)
      /\ calls'[1].text[1] = n /\ calls'[1].text[2] = named
  <2>1. HasFile(n, named) => n >= GzipHead + named
    BY DEF HasFile, FileLens, GzipHead
  <2>2. CASE HasFile(n, named) /\ target = "file" /\ unpacked
    BY <1>3, <2>1, <2>2
  <2>3. CASE ~(HasFile(n, named) /\ target = "file" /\ unpacked)
    BY <1>3, <2>3
  <2> QED BY <2>2, <2>3
<1>10. Reported' /\ Len(calls') <= 1
  BY <1>2, <1>9 DEF Reported
<1> QED BY <1>5, <1>6, <1>7, <1>8, <1>10 DEF IInv

\* safe_frame_Response_callback makes a packet of one command.
LEMMA ResponseIInv ==
  ASSUME IInv, Response
  PROVE  IInv'
<1> DEFINE c == [cmd |-> file.cmd, rsp |-> TRUE, failed |-> FALSE, given |-> 1]
           p == [c |-> c, para |-> Success(1), error |-> FALSE, written |-> TRUE, at |-> HeadLen]
           bytes == HeaderBytes(1) \o Success(1)
<1>1. /\ TypeInv /\ PutsInv /\ StageInv /\ FileInv /\ BoundInv /\ LayoutInv
  BY DEF IInv
<1>2. HeadLen = 4 /\ TLV = 8 /\ Word.n = 2 /\ Slot = 20 /\ ParaBuf = 12
  BY Buffer, FieldSizes
<1>3. /\ helper = "bdt" /\ phase = "sent" /\ helper' = "crm" /\ phase' = "read"
      /\ puts' = <<p>> /\ mem' = Written(HeadLen, bytes)
      /\ num' = 1 /\ len' = 14 /\ msgLen' = RoundUp(14)
      /\ UNCHANGED <<file, order, offset, staleLen, got, calls>>
  BY <1>2 DEF Response
<1>4. /\ puts = <<>> /\ Len(puts) = 0 /\ got = <<>> /\ Len(got) = 0 /\ offset = 0 /\ staleLen = 0
      /\ calls = <<>> /\ Len(calls) = 0 /\ file \in File
  <2>1. got \in Seq(Got)
    BY <1>1 DEF TypeInv
  <2>2. Len(got) = 0 /\ got = <<>>
    BY <1>1, <1>3, <2>1 DEF StageInv
  <2> QED BY <1>1, <1>3, <2>2 DEF StageInv
<1>5. c \in Inputs /\ c.cmd \in Statuses /\ c.rsp /\ ~c.failed /\ c.cmd # "ps"
      /\ FormatOf(c.cmd, c.rsp) = <<Word>>
  <2>1. c.cmd \in Statuses /\ c.cmd \in Cmds /\ c.cmd \in DOMAIN Format
    BY <1>4, PacketAssumption DEF File
  <2>2. FormatOf(c.cmd, c.rsp) = <<Word>> /\ Len(<<Word>>) = 1 /\ c.given = 1
    BY <2>1, FormatFact DEF FormatOf
  <2>3. c \in [cmd : Cmds, rsp : BOOLEAN, failed : BOOLEAN, given : 0 .. 3]
    BY <2>1
  <2>4. c.rsp = TRUE /\ c.failed = FALSE
    OBVIOUS
  <2> HIDE DEF c
  <2>5. c \in Inputs
    BY <2>2, <2>3, <2>4 DEF Inputs
  <2> QED BY <2>1, <2>2, <2>4, <2>5 DEF Statuses
<1>6. /\ PacketParam(1, c).para = Success(1) /\ PacketParam(1, c).error = FALSE
      /\ Success(1) \in Seq(Cell) /\ Len(Success(1)) = 2
  <2> HIDE DEF c
  <2> DEFINE q == PacketParam(1, c)
  <2>1. Size(<<Word>>) = 2
    BY FieldSizes, Sizes1
  <2>2. 1 \in Nat
    OBVIOUS
  <2>3. /\ q.para \in Seq(Cell) /\ Len(q.para) = 2 /\ q.error = FALSE
        /\ \A j \in 1 .. 2 : q.para[j] = CodeCells(1, c)[j]
    <3>1. /\ q.para \in Seq(Cell) /\ q.error \in BOOLEAN /\ ~q.error
          /\ Len(q.para) = Size(FormatOf(c.cmd, c.rsp))
          /\ \A j \in 1 .. 2 : q.para[j] = CodeCells(1, c)[j]
      BY <1>5, <2>2, PacketParamFact
    <3> QED BY <1>5, <2>1, <3>1
  <2>4. \A j \in 1 .. 2 : CodeCells(1, c)[j] = Zero
    BY <1>5 DEF CodeCells
  <2>5. /\ Success(1) \in Seq(Cell) /\ Len(Success(1)) = 2
        /\ \A j \in 1 .. 2 : Success(1)[j] = Zero
    <3>1. Zero \in Cell
      BY DEF Zero, Cell
    <3> QED BY <3>1 DEF Success
  <2>6. q.para = Success(1)
    <3> HIDE DEF q
    <3>1. \A j \in 1 .. Len(q.para) : q.para[j] = Success(1)[j]
      BY <2>3, <2>4, <2>5
    <3> QED BY <2>3, <2>5, <3>1, SameCells
  <2> QED BY <2>3, <2>5, <2>6
<1>7. /\ p.c = c /\ p.para = Success(1) /\ p.error = FALSE /\ p.written = TRUE /\ p.at = HeadLen
      /\ Len(p.para) = 2
  <2> HIDE DEF c
  <2> QED BY <1>6
<1>8. p \in Put
  <2> HIDE DEF c
  <2>1. HeadLen \in Nat
    BY <1>2
  <2> QED BY <1>5, <1>6, <2>1 DEF Put
<1>9. PutOK(order, 1, p)
  <2>1. Known(p.c, Len(p.para))
    BY <1>2, <1>5, <1>7 DEF Known, ShortResponse
  <2> HIDE DEF p, c
  <2>2. p.written = (order = "host" \/ Known(p.c, Len(p.para)))
    BY <1>7, <2>1
  <2> QED BY <1>5, <1>6, <1>7, <2>2 DEF PutOK
<1> HIDE DEF p, c
<1>10. puts' \in Seq(Put) /\ Len(puts') = 1 /\ puts'[1] = p
  BY <1>3, <1>8
<1>11. /\ bytes \in Seq(Cell) /\ Len(bytes) = 10
       /\ \A j \in 1 .. 8 : bytes[j] = HeaderBytes(1)[j]
       /\ \A j \in 1 .. 2 : bytes[8 + j] = Success(1)[j]
  <2> DEFINE a == HeaderBytes(1)
             b == Success(1)
  <2>1. a \in Seq(Cell) /\ Len(a) = 8 /\ b \in Seq(Cell) /\ Len(b) = 2
    <3>1. 1 \in Nat /\ "host" \in {"host", "net"}
      OBVIOUS
    <3> QED BY <1>2, <1>6, <3>1, HeaderFact
  <2> HIDE DEF a, b
  <2>2. /\ a \o b \in Seq(Cell) /\ Len(a \o b) = 10
        /\ \A j \in 1 .. 8 : (a \o b)[j] = a[j]
        /\ \A j \in 1 .. 2 : (a \o b)[8 + j] = b[j]
    <3> DEFINE s == a \o b
    <3>1. /\ s \in Seq(Cell) /\ Len(s) = Len(a) + Len(b)
          /\ \A j \in 1 .. Len(a) : s[j] = a[j]
          /\ \A j \in 1 .. Len(b) : s[Len(a) + j] = b[j]
      BY <2>1, ConcatFact
    <3> HIDE DEF s
    <3>2. s \in Seq(Cell) /\ Len(s) = 10 /\ (\A j \in 1 .. 8 : s[j] = a[j])
          /\ \A j \in 1 .. 2 : s[8 + j] = b[j]
      BY <2>1, <3>1
    <3> QED BY <3>2 DEF s
  <2> QED BY <2>2 DEF a, b
<1>12. /\ RoundUp(14) \in Nat /\ 14 <= RoundUp(14) /\ RoundUp(14) <= RoundUp(HeadLen + Slot * 1)
       /\ 24 <= MsgBuf /\ MsgBuf \in Nat /\ 1 <= MaxCmds
  <2>1. 14 \in Nat /\ 24 \in Nat /\ 14 <= 24 /\ HeadLen + Slot * 1 = 24
    BY <1>2
  <2>2. MaxCmds \in Nat \ {0} /\ MsgBuf \in Nat
    BY Buffer
  <2>3. 1 \in 0 .. MaxCmds
    BY <2>2
  <2>4. HeadLen + Slot * 1 <= MsgBuf
    BY <2>3, Buffer
  <2>5. RoundUp(14) \in Nat /\ 14 <= RoundUp(14) /\ RoundUp(14) <= RoundUp(24)
    BY <2>1, Buffer
  <2> QED BY <2>1, <2>2, <2>4, <2>5
<1>13. /\ mem' \in [1 .. MsgBuf -> Cell]
       /\ \A j \in 1 .. 10 : mem'[HeadLen + j] = bytes[j]
  <2>1. mem \in [1 .. MsgBuf -> Cell]
    BY <1>1 DEF TypeInv
  <2>2. \A j \in 1 .. Len(bytes) : HeadLen + j <= MsgBuf
    <3>1. \A j \in 1 .. 10 : 4 + j <= MsgBuf
      BY <1>12
    <3> QED BY <1>2, <1>11, <3>1
  <2>3. HeadLen \in Nat /\ mem' = Written(HeadLen, bytes)
    BY <1>2, <1>3
  <2>4. bytes \in Seq(Cell) /\ Len(bytes) = 10
    BY <1>11
  <2> HIDE DEF bytes
  <2>5. /\ mem' \in [1 .. MsgBuf -> Cell]
        /\ \A j \in 1 .. Len(bytes) : mem'[HeadLen + j] = bytes[j]
    BY <2>1, <2>2, <2>3, <2>4, WrittenFact
  <2> QED BY <2>4, <2>5
<1>14. TypeInv'
  BY <1>1, <1>3, <1>10, <1>12, <1>13 DEF TypeInv
<1>15. PutsInv'
  <2>1. order' = order
    BY <1>3
  <2> QED BY <1>9, <1>10, <1>12, <2>1 DEF PutsInv
<1>16. StageInv'
  BY <1>3, <1>4, <1>10 DEF StageInv
<1>17. FileInv'
  BY <1>3 DEF FileInv
<1>18. BoundInv'
  <2>1. HeadLen + Slot * 1 = 24 /\ HeadLen + Slot * 0 = 4
    BY <1>2
  <2> QED BY <1>3, <1>4, <1>10, <1>12, <2>1 DEF BoundInv
<1>19. ASSUME Clean'
       PROVE  PlacesInv' /\ CellsInv' /\ ReadInv'
  <2>1. order = "host" /\ order' = "host"
    <3>1. file.cmd \in Statuses
      BY <1>4 DEF File
    <3>2. file # NoFile
      BY <3>1 DEF NoFile, Statuses
    <3> QED BY <1>3, <1>19, <3>2 DEF Clean
  <2>2. EndOf("host", p) = 14 /\ HeadCells("host", 1) = HeaderBytes(1)
        /\ ParaCells("host", p) = Success(1) /\ p.at = 4 /\ Len(p.para) = 2
    <3>1. Moved("host", p) = 2 /\ ParaCells("host", p) = Success(1)
      BY <1>7 DEF Moved, ParaCells
    <3>2. HeadCells("host", 1) = HeaderBytes(1)
      BY DEF HeadCells
    <3>3. EndOf("host", p) = p.at + TLV + Moved("host", p)
      BY DEF EndOf
    <3> QED BY <1>2, <1>7, <3>1, <3>2, <3>3
  <2>3. \A k \in 1 .. Len(puts') : k = 1
    BY <1>10
  <2>4. PlacesInv'
    <3>1. \A k \in 1 .. Len(puts') :
            /\ puts'[k].at + TLV + Len(puts'[k].para) <= len'
            /\ puts'[k].at + TLV + Len(puts'[k].para) <= msgLen'
            /\ puts'[k].at >= HeadLen /\ puts'[k].at = HeadLen
            /\ ~(k < Len(puts'))
      <4>1. p.at + TLV + Len(p.para) = 14 /\ p.at = HeadLen /\ p.at >= HeadLen
        BY <1>2, <2>2
      <4>2. len' = 14 /\ 14 <= msgLen'
        BY <1>3, <1>12
      <4>3. /\ p.at + TLV + Len(p.para) <= len' /\ p.at + TLV + Len(p.para) <= msgLen'
        BY <4>1, <4>2
      <4>4. \A k \in 1 .. Len(puts') : puts'[k] = p /\ ~(k < Len(puts'))
        BY <1>10
      <4> QED BY <4>1, <4>3, <4>4
    <3>2. \A j, k \in 1 .. Len(puts') : ~(j < k)
      BY <1>10
    <3> QED BY <1>3, <3>1, <3>2 DEF PlacesInv
  <2>5. CellsInv'
    <3>1. \A j \in 1 .. TLV : mem'[p.at + j] = HeadCells("host", 1)[j]
      <4>1. TLV = 8 /\ p.at = HeadLen /\ 1 .. 8 \subseteq 1 .. 10
        BY <1>2, <2>2
      <4>2. \A j \in 1 .. 8 : mem'[HeadLen + j] = HeaderBytes(1)[j]
        BY <1>11, <1>13, <4>1
      <4> QED BY <2>2, <4>1, <4>2
    <3>2. ASSUME NEW j \in 1 .. 2
          PROVE  mem'[p.at + TLV + j] = ParaCells("host", p)[j]
      <4>1. p.at + TLV + j = HeadLen + (8 + j) /\ 8 + j \in 1 .. 10
        <5> DEFINE a == p.at
        <5>1. a = 4 /\ TLV = 8 /\ HeadLen = 4
          BY <1>2, <2>2
        <5> HIDE DEF a
        <5>2. a + TLV + j = HeadLen + (8 + j) /\ 8 + j \in 1 .. 10
          BY <5>1
        <5> QED BY <5>2 DEF a
      <4>2. mem'[HeadLen + (8 + j)] = bytes[8 + j]
        BY <1>13, <4>1
      <4>3. bytes[8 + j] = Success(1)[j]
        BY <1>11
      <4> QED BY <2>2, <4>1, <4>2, <4>3
    <3>3. HeadIs(mem', "host", 1, p, 0) /\ ParaIs(mem', "host", p, Len(p.para))
      BY <2>2, <3>1, <3>2 DEF HeadIs, ParaIs
    <3> QED BY <1>10, <2>1, <2>3, <3>3 DEF CellsInv
  <2>6. ReadInv'
    <3>1. ReadAt' = HeadLen
      BY <1>3, <1>4 DEF ReadAt
    <3> QED BY <1>2, <1>3, <1>4, <1>10, <2>2, <3>1 DEF ReadInv
  <2> QED BY <2>4, <2>5, <2>6
<1>20. Intact' /\ Complete' /\ Reported' /\ Len(calls') <= 1
  BY <1>3, <1>4 DEF Intact, Complete, Reported
<1> QED BY <1>14, <1>15, <1>16, <1>17, <1>18, <1>19, <1>20 DEF IInv, LayoutInv

\* The packet starts empty.
LEMMA InitIInv ==
  ASSUME Init
  PROVE  IInv
<1>1. /\ helper \in {"raw", "crm", "bdt"} /\ order \in {"host", "net"} /\ phase = "pack"
      /\ file = NoFile /\ puts = <<>> /\ mem = [p \in 1 .. MsgBuf |-> Zero]
      /\ offset = 0 /\ num = 0 /\ len = 0 /\ msgLen = 0
      /\ staleLen = 0 /\ got = <<>> /\ calls = <<>>
  BY DEF Init
<1>2. Len(puts) = 0 /\ Len(got) = 0 /\ Len(calls) = 0
  BY <1>1
<1>3. HeadLen = 4 /\ Slot = 20 /\ ParaBuf = 12 /\ MsgBuf \in Nat /\ MaxCmds \in Nat
      /\ HeadLen + Slot * 0 = 4 /\ RoundUp(4) >= 4
  BY Buffer
<1>4. TypeInv
  <2>1. mem \in [1 .. MsgBuf -> Cell]
    BY <1>1 DEF Zero, Cell
  <2>2. puts \in Seq(Put) /\ got \in Seq(Got)
    BY <1>1
  <2> QED BY <1>1, <1>3, <2>1, <2>2 DEF TypeInv
<1>5. PutsInv
  BY <1>2, <1>3 DEF PutsInv
<1>6. StageInv /\ FileInv
  BY <1>1, <1>2 DEF StageInv, FileInv
<1>7. BoundInv
  <2>1. 0 <= RoundUp(4) /\ RoundUp(4) \in Nat
    <3>1. 4 \in Nat
      OBVIOUS
    <3> QED BY <3>1, Buffer
  <2> QED BY <1>1, <1>2, <1>3, <2>1 DEF BoundInv
<1>8. LayoutInv
  BY <1>1, <1>2 DEF LayoutInv, PlacesInv, CellsInv, ReadInv
<1>9. Intact /\ Complete /\ Reported /\ Len(calls) <= 1
  BY <1>1, <1>2 DEF Intact, Complete, Reported
<1> QED BY <1>4, <1>5, <1>6, <1>7, <1>8, <1>9 DEF IInv

\* What changes nothing keeps the invariant.
LEMMA StutterIInv ==
  ASSUME IInv, UNCHANGED vars
  PROVE  IInv'
<1>1. UNCHANGED <<helper, file, order, puts, mem, offset, num, len, msgLen, phase, staleLen,
                  got, calls>>
  BY DEF vars, header
<1>2. TypeInv' /\ PutsInv'
  BY <1>1 DEF IInv, TypeInv, PutsInv
<1>3. StageInv' /\ FileInv' /\ BoundInv'
  BY <1>1 DEF IInv, StageInv, FileInv, BoundInv
<1>4. LayoutInv'
  BY <1>1 DEF IInv, LayoutInv, Clean, PlacesInv, CellsInv, ReadInv, ReadAt
<1>5. Intact' /\ Complete' /\ Reported' /\ Len(calls') <= 1
  BY <1>1 DEF IInv, Intact, Complete, Reported, Whole, Has
<1> QED BY <1>2, <1>3, <1>4, <1>5 DEF IInv

\* Every step keeps the invariant.
LEMMA IInvInductive == IInv /\ [Next]_vars => IInv'
<1> SUFFICES ASSUME IInv, [Next]_vars
             PROVE  IInv'
  OBVIOUS
<1>1. CASE RawAddToPacket \/ CRMAddToPacket
  <2>1. TypeInv
    BY DEF IInv
  <2>2. PICK c \in Inputs : AddStep(c)
    BY <1>1, <2>1, AddNormal
  <2> QED BY <2>2, AddIInv
<1>2. CASE RawPacketFrame \/ CRMPacketFrame
  BY <1>2, SendNormal, SendIInv
<1>3. CASE RawGetFromPacket \/ CRMGetFromPacket
  BY <1>3, GetIInv
<1>4. CASE ProcRsp
  BY <1>4, ProcRspIInv
<1>5. CASE SendRawMessage
  BY <1>5, SendRawIInv
<1>6. CASE Response
  BY <1>6, ResponseIInv
<1>7. CASE ProcRsp_DBFile
  BY <1>7, DBFileIInv
<1>8. CASE UNCHANGED vars
  BY <1>8, StutterIInv
<1> QED BY <1>1, <1>2, <1>3, <1>4, <1>5, <1>6, <1>7, <1>8 DEF Next

-----------------------------------------------------------------------------
(***************************************************************************)
(* The theorems.                                                           *)
(***************************************************************************)

\* Types, bounds, layout of the packet and the properties hold in every state of
\* every packet, for any number of commands and any buffer that has room for them.
THEOREM Invariance == Spec => []IInv
<1>1. Init => IInv
  BY InitIInv
<1>2. IInv /\ [Next]_vars => IInv'
  BY IInvInductive
<1> QED BY <1>1, <1>2, PTL DEF Spec

\* The type invariant follows from the inductive one.
LEMMA TypeOKHolds ==
  ASSUME IInv
  PROVE  TypeOK
<1>1. TypeInv /\ PutsInv /\ StageInv /\ FileInv /\ BoundInv
  BY DEF IInv
<1>2. Len(puts) \in 0 .. MaxCmds /\ num \in 0 .. MaxCmds /\ MsgBuf \in Nat
      /\ HeadLen = 4 /\ Slot = 20 /\ ParaBuf = 12 /\ MaxCmds \in Nat \ {0}
  <2>1. MaxCmds \in Nat \ {0} /\ MsgBuf \in Nat /\ HeadLen = 4 /\ Slot = 20 /\ ParaBuf = 12
    BY Buffer
  <2>2. Len(puts) \in Nat /\ Len(puts) <= MaxCmds /\ num \in Nat /\ num <= Len(puts)
    BY <1>1 DEF TypeInv, PutsInv, StageInv
  <2> QED BY <2>1, <2>2
<1> DEFINE y == HeadLen + Slot * Len(puts)
<1>3. y <= MsgBuf /\ RoundUp(y) <= MsgBuf
  BY <1>2, Buffer
<1>4. 24 <= MsgBuf
  <2>1. 1 \in 0 .. MaxCmds
    BY <1>2
  <2>2. HeadLen + Slot * 1 <= MsgBuf
    BY <2>1, Buffer
  <2> QED BY <1>2, <2>2
<1>5. y \in Nat /\ RoundUp(y) \in Nat
  <2>1. y \in Nat
    BY <1>2
  <2> HIDE DEF y
  <2> QED BY <2>1, Buffer
<1>6. offset \in 0 .. MsgBuf /\ len \in 0 .. MsgBuf /\ staleLen \in 0 .. MsgBuf
  <2>1. /\ offset \in Nat /\ offset <= MsgBuf /\ len \in Nat /\ len <= y
        /\ staleLen \in 0 .. ParaBuf
    BY <1>1 DEF TypeInv, BoundInv
  <2> HIDE DEF y
  <2> QED BY <1>2, <1>3, <1>4, <1>5, <2>1
<1>7. msgLen \in 0 .. (IF helper = "bdt" THEN BigHead + GzipHead + file.named + 15 ELSE MsgBuf)
  <2>1. msgLen \in Nat
    BY <1>1 DEF TypeInv
  <2>2. CASE helper # "bdt"
    <3>1. msgLen <= RoundUp(y)
      BY <1>1, <2>2 DEF BoundInv
    <3> HIDE DEF y
    <3> QED BY <1>2, <1>3, <1>5, <2>1, <2>2, <3>1
  <2>3. CASE helper = "bdt"
    <3>1. file.named \in Nat
      BY <1>1 DEF TypeInv, File, NoFile, FileLens, GzipHead
    <3>2. BigHead + GzipHead + file.named \in Nat
      BY <3>1 DEF BigHead, GzipHead
    <3> DEFINE b == BigHead + GzipHead + file.named
    <3>3. msgLen = 0 \/ msgLen = RoundUp(b)
      BY <1>1, <2>3 DEF FileInv, FileBuffer
    <3>4. b \in Nat
      BY <3>2
    <3> HIDE DEF b
    <3>5. RoundUp(b) \in Nat /\ RoundUp(b) <= b + 15
      BY <3>4, Buffer
    <3>6. msgLen \in 0 .. b + 15
      BY <2>1, <3>3, <3>4, <3>5
    <3> QED BY <2>3, <3>6 DEF b
  <2> QED BY <2>2, <2>3
<1>8. \A k \in 1 .. Len(got) : got[k].i \in 0 .. Len(puts)
  <2> SUFFICES ASSUME NEW k \in 1 .. Len(got)
               PROVE  got[k].i \in 0 .. Len(puts)
    OBVIOUS
  <2>1. got[k].i \in Nat /\ got[k].i <= Len(puts)
    <3>1. got[k] \in Got
      BY <1>1 DEF TypeInv
    <3> QED BY <1>1, <3>1 DEF BoundInv, Got
  <2> QED BY <1>2, <2>1
<1>9. DOMAIN mem = 1 .. MsgBuf
  BY <1>1 DEF TypeInv
<1> HIDE DEF y
<1> QED BY <1>1, <1>2, <1>6, <1>7, <1>8, <1>9 DEF IInv, TypeOK, TypeInv

\* The buffer for the named length holds a packed file that is no longer.
LEMMA FileFoundHolds ==
  ASSUME IInv
  PROVE  FileFound
<1> SUFFICES ASSUME phase = "sent", file.zip <= file.named
             PROVE  ~file.over /\ HasFile(msgLen - BigHead, file.zip)
  BY DEF FileFound
<1>1. /\ file \in File /\ msgLen = FileBuffer(file.named)
      /\ file.over = (BigHead + GzipHead + file.zip > FileBuffer(file.named))
  BY DEF IInv, StageInv, FileInv
<1> DEFINE z == file.zip
           d == file.named
<1>2. z \in Nat /\ d \in Nat /\ z <= d
  BY <1>1 DEF File, FileLens, GzipHead
<1> HIDE DEF z, d
<1>3. BigHead = 12 /\ GzipHead = 8 /\ FileBuffer(d) = RoundUp(20 + d)
  BY <1>2 DEF BigHead, GzipHead, FileBuffer
<1>4. FileBuffer(d) \in Nat /\ 20 + d <= FileBuffer(d)
  <2>1. 20 + d \in Nat
    BY <1>2
  <2> QED BY <1>3, <2>1, Buffer
<1>5. ~(BigHead + GzipHead + z > FileBuffer(d)) /\ HasFile(FileBuffer(d) - BigHead, z)
  BY <1>2, <1>3, <1>4 DEF HasFile
<1> QED BY <1>1, <1>5 DEF z, d

\* The positions and lengths of packer and reader stay inside the buffer made for
\* the packet.
THEOREM TypeCorrect == Spec => []TypeOK
<1>1. IInv => TypeOK
  BY TypeOKHolds
<1> QED BY <1>1, Invariance, PTL

\* What is taken out of a packet is what was put in, in that order and with the
\* same bytes, and all of it; a file is found whole in its message when it is no
\* longer than its sender says.
THEOREM RoundTrips == Spec => []RoundTrip
<1>1. IInv => RoundTrip
  BY FileFoundHolds DEF IInv, RoundTrip
<1> QED BY <1>1, Invariance, PTL

\* A response that arrived whole is reported by one callback, as the error or the
\* success it is; a file only when all its bytes are there.
THEOREM ReportsOnce == Spec => []Reported
<1>1. IInv => Reported
  BY DEF IInv
<1> QED BY <1>1, Invariance, PTL
=============================================================================
