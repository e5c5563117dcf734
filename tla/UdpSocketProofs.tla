-------------------------- MODULE UdpSocketProofs --------------------------
(***************************************************************************)
(* Proofs about UdpSocket, for any addresses, lengths of bodies and number *)
(* of datagrams.                                                           *)
(*                                                                         *)
(* A body may hold the magic word, the length check of search_header adds  *)
(* the position to itself, and a stale header may be in the caller's       *)
(* buffer. What saves the frames is where headers can be: IInv says that   *)
(* the buffer holds what is left of one datagram and at most one whole     *)
(* datagram behind it, and which magic words the search can meet there.    *)
(* SearchSteps draws from it the three outcomes of one turn of SearchFrame *)
(* and ReadSteps those of a datagram read; the lemmas behind them show     *)
(* that each keeps IInv, and the theorems read off what IInv says.         *)
(***************************************************************************)
EXTENDS UdpSocket, SequenceTheorems, WellFoundedInduction, TLAPS

Cell == [what : {"magic1", "magic2", "noise", "header", "body"}, id : Nat, pos : Nat]
IsHeader(c) == c.what = "header"

\* Cells of datagram i behind its header, and whether those behind position p
\* are its whole body.
Size(i) == IF log[i].kind = "cut" THEN log[i].len - 1 ELSE log[i].len
Matches(p, i) ==
  /\ p + log[i].len <= Len(buf)
  /\ \A k \in 1 .. log[i].len : buf[p + k] = Body(i, log[i].len)[k]

\* The types TypeOK leaves open.
Frames == [id : Nat, from : Peers \cup {NoPeer}]
Typed ==
  /\ buf \in Seq(Cell) /\ head \in Cell
  /\ handed \in Seq(Frames)
  /\ IsHeader(head) => head.id \in 1 .. read
  /\ \A p \in 1 .. Len(buf) : buf[p].id <= read

\* A header is followed by all the network left of its datagram: its own body
\* when it came whole or with a wrong header, and else none.
HeadersAre ==
  \A p \in 1 .. Len(buf) : IsHeader(buf[p]) =>
    LET i == buf[p].id
    IN /\ i \in 1 .. read /\ p + Size(i) <= Len(buf)
       /\ \/ log[i].kind = "whole" /\ buf[p].pos = 1 /\ Matches(p, i)
          \/ log[i].kind = "head" /\ buf[p].pos = 0 /\ Matches(p, i)
          \/ log[i].kind \in {"body", "cut"} /\ buf[p].pos = 1 /\ ~Matches(p, i)

\* The last cell of a damaged body is nowhere.
BodiesAre ==
  \A p \in 1 .. Len(buf) : buf[p].what = "body" =>
    LET i == buf[p].id
    IN i \in 1 .. read /\ (log[i].kind \in {"body", "cut"} => buf[p].pos < log[i].len)

\* Headers are in the order of their datagrams, behind those handed up.
Increasing ==
  \A p, q \in 1 .. Len(buf) :
    p < q /\ IsHeader(buf[p]) /\ IsHeader(buf[q]) => buf[p].id < buf[q].id
Fresh ==
  /\ \A k \in 1 .. Len(handed) : handed[k].id \in 1 .. read
  /\ \A k \in 1 .. Len(handed), p \in procPt + 1 .. Len(buf) :
       IsHeader(buf[p]) => handed[k].id < buf[p].id

\* The address beside the buffer is that of a datagram after which only its
\* ip was heard, and of every header unless that is behind another port's.
Origin ==
  buf # <<>> /\ socket => \E j \in 1 .. read :
    log[j].from = peer /\ \A k \in j .. read : log[k].from.ip = peer.ip \/ log[k].kind = "empty"
HeadersFrom ==
  \A p \in 1 .. Len(buf) : IsHeader(buf[p]) =>
    LET i == buf[p].id IN log[i].from.ip = peer.ip /\ (log[i].from = peer \/ Behind(i))

\* What the search leaves behind position pt: a magic word at most three cells
\* on, and a header only at the front and with all of its datagram.
RestOf(pt) ==
  \A m \in Marks(buf, 0) : m >= pt =>
    /\ m - pt <= 3
    /\ m + 3 <= Len(buf) /\ IsHeader(buf[m + 3]) =>
         m = pt /\ Len(buf) - pt = 3 + Size(buf[m + 3].id)

\* What the search meets: such a rest of r cells, and a datagram behind it.
Behinds(r) ==
  /\ r = Len(buf) \/ r + 3 <= Len(buf)
  /\ \A m \in Marks(buf, 0) :
       /\ (m <= 3 /\ m + 2 <= r) \/ m = r \/ m = r + 3
       /\ m + 3 <= Len(buf) /\ IsHeader(buf[m + 3]) =>
            \/ m = 0 /\ r = 3 + Size(buf[m + 3].id)
            \/ m = r /\ Len(buf) = r + 3 + Size(buf[m + 3].id)

Places ==
  /\ at # "idle" => socket
  /\ at = "idle" => procPt \in {0, Len(buf)}
  /\ at = "read" => procPt = 0
  /\ at \in {"idle", "read"} /\ procPt = 0 => RestOf(0)
  /\ at = "search" /\ procPt < Len(buf) =>
       procPt \notin {1, 3} /\ \E r \in 0 .. Len(buf) : Behinds(r)

\* A header that search_header left in the caller's buffer is that of a
\* damaged body, and no magic word ahead has another one behind its header:
\* what follows is never that body.
DoubleMark(from) ==
  \E m \in Marks(buf, from) : m + 5 <= Len(buf) /\ buf[m + 4] = Magic1 /\ buf[m + 5] = Magic2
Stale ==
  at = "search" /\ 0 < procPt /\ procPt < Len(buf) /\ IsHeader(head) =>
    /\ log[head.id].kind \in {"body", "cut"}
    /\ log[head.id].len = 2 => procPt = 2 \/ ~DoubleMark(procPt)

\* A whole frame that was read is handed up, gone with a closed socket, behind
\* another port's remains, or alone in the buffer and searched next.
Waiting ==
  \A i \in 1 .. read : log[i].kind = "whole" =>
    \/ i \in Handed \cup unheard \/ Behind(i)
    \/ at = "search" /\ procPt = 0 /\ buf = Cells(i, log[i])

IInv == /\ TypeOK /\ Typed /\ HeadersAre /\ BodiesAre /\ Increasing
        /\ Fresh /\ Origin /\ HeadersFrom /\ Places /\ Stale /\ Waiting

----------------------------------------------------------------------------
(* Lengths, marks and cells *)

\* The longest body, and the least of some positions, are what they are called.
LEMMA Longest == Max(Lens) \in Lens /\ Max(Lens) \in Nat /\ \A n \in Lens : n <= Max(Lens)
<1>1. PICK m \in Lens : \A n \in Lens : n <= m
  BY UdpAssumption
<1>2. Lens \subseteq Nat
  BY UdpAssumption
<1>3. \A n \in Lens : m >= n
  BY <1>1, <1>2
<1>4. Max(Lens) \in Lens /\ \A n \in Lens : Max(Lens) >= n
  BY <1>3 DEF Max
<1> QED BY <1>2, <1>4

LEMMA Least ==
  ASSUME NEW S, S \subseteq Nat, S # {}
  PROVE  Min(S) \in S /\ \A k \in S : Min(S) <= k
<1>1. PICK x \in S : \A y \in S : ~(<<y, x>> \in OpToRel(<, Nat))
  BY WFMin, NatLessThanWellFounded, Zenon
<1>2. \A y \in S : ~(y < x)
  BY <1>1, Zenon DEF OpToRel
<1>3. \A y \in S : x =< y
  BY <1>2
<1> QED BY <1>3 DEF Min

LEMMA MaxOfTwo ==
  ASSUME NEW a \in Nat, NEW b \in Nat
  PROVE  Max({a, b}) = IF a >= b THEN a ELSE b
<1>1. \E x \in {a, b} : \A y \in {a, b} : x >= y
  OBVIOUS
<1>2. Max({a, b}) \in {a, b} /\ \A y \in {a, b} : Max({a, b}) >= y
  BY <1>1 DEF Max
<1> QED BY <1>2

LEMMA Sizes == Total \in Nat /\ Total >= 3 /\ BufLen = 2 * Total /\ Total = 3 + Max(Lens)
BY Longest DEF Total, Sizeof, BufLen

\* The cells of a frame are told apart by what they are.
LEMMA CellKinds ==
  /\ Magic1 \in Cell /\ Magic2 \in Cell /\ Noise \in Cell
  /\ Magic1.what = "magic1" /\ Magic2.what = "magic2" /\ Noise.what = "noise"
  /\ Magic1.id = 0 /\ Magic2.id = 0 /\ Noise.id = 0
BY DEF Magic1, Magic2, Noise, Cell

LEMMA HeaderIs ==
  ASSUME NEW i \in Nat, NEW ok \in BOOLEAN
  PROVE  /\ Header(i, ok) \in Cell /\ IsHeader(Header(i, ok)) /\ Header(i, ok).id = i
         /\ Header(i, ok).pos = IF ok THEN 1 ELSE 0
BY DEF Header, Cell, IsHeader

LEMMA BodyIs ==
  ASSUME NEW i \in Nat, NEW n \in Nat
  PROVE  /\ Body(i, n) \in Seq(Cell) /\ Len(Body(i, n)) = n
         /\ \A k \in 1 .. n :
              /\ n >= 2 /\ k = 1 => Body(i, n)[k] = Magic1
              /\ n >= 2 /\ k = 2 => Body(i, n)[k] = Magic2
              /\ n < 2 \/ k > 2 => /\ Body(i, n)[k].what = "body"
                                   /\ Body(i, n)[k].id = i /\ Body(i, n)[k].pos = k
              /\ Body(i, n)[k].what \in {"magic1", "magic2", "body"}
<1> DEFINE piece(k) == IF n >= 2 /\ k = 1 THEN Magic1 ELSE IF n >= 2 /\ k = 2 THEN Magic2
                       ELSE [what |-> "body", id |-> i, pos |-> k]
<1>1. Body(i, n) = [k \in 1 .. n |-> piece(k)]
  BY DEF Body
<1>2. ASSUME NEW k \in 1 .. n
      PROVE  /\ piece(k) \in Cell
             /\ n < 2 \/ k > 2 => piece(k) = [what |-> "body", id |-> i, pos |-> k]
  BY CellKinds DEF Cell
<1>3. Body(i, n) \in [1 .. n -> Cell]
  BY <1>1, <1>2
<1>4. Body(i, n) \in Seq(Cell) /\ Len(Body(i, n)) = n
  BY <1>3, SeqDef, LenProperties
<1>5. \A k \in 1 .. n : Body(i, n)[k] = piece(k)
  BY <1>1
<1> QED BY <1>2, <1>4, <1>5, CellKinds

LEMMA BodyLen ==
  ASSUME NEW i \in Nat, NEW n \in Nat
  PROVE  Body(i, n) \in Seq(Cell) /\ Len(Body(i, n)) = n
BY BodyIs

LEMMA BodyOfTwo ==
  ASSUME NEW i \in Nat, NEW n \in Nat, n = 2
  PROVE  Body(i, n)[1] = Magic1 /\ Body(i, n)[2] = Magic2
<1>1. 1 \in 1 .. n /\ 2 \in 1 .. n /\ n >= 2
  OBVIOUS
<1>2. \A k \in 1 .. n : /\ n >= 2 /\ k = 1 => Body(i, n)[k] = Magic1
                        /\ n >= 2 /\ k = 2 => Body(i, n)[k] = Magic2
  BY BodyIs
<1> QED BY <1>1, <1>2

LEMMA BodyAt ==
  ASSUME NEW i \in Nat, NEW n \in Nat, NEW k \in 1 .. n, n < 2 \/ k > 2
  PROVE  Body(i, n)[k].what = "body" /\ Body(i, n)[k].id = i /\ Body(i, n)[k].pos = k
<1>1. Body(i, n)[k] = [what |-> "body", id |-> i, pos |-> k]
  BY DEF Body
<1> QED BY <1>1

LEMMA FrameIs ==
  ASSUME NEW i \in Nat, NEW n \in Nat, NEW ok \in BOOLEAN
  PROVE  /\ Frame(i, n, ok) \in Seq(Cell) /\ Len(Frame(i, n, ok)) = 3 + n
         /\ Frame(i, n, ok)[1] = Magic1 /\ Frame(i, n, ok)[2] = Magic2
         /\ Frame(i, n, ok)[3] = Header(i, ok)
         /\ \A k \in 1 .. n : Frame(i, n, ok)[3 + k] = Body(i, n)[k]
<1> DEFINE h == <<Magic1, Magic2, Header(i, ok)>>
           b == Body(i, n)
<1>1. h \in Seq(Cell) /\ Len(h) = 3 /\ h[1] = Magic1 /\ h[2] = Magic2 /\ h[3] = Header(i, ok)
  BY CellKinds, HeaderIs
<1>2. b \in Seq(Cell) /\ Len(b) = n
  BY BodyIs
<1>3. Frame(i, n, ok) = h \o b
  BY DEF Frame
<1> HIDE DEF h, b
<1>4. /\ h \o b \in Seq(Cell) /\ Len(h \o b) = 3 + n
      /\ \A k \in 1 .. 3 + n : (h \o b)[k] = IF k <= 3 THEN h[k] ELSE b[k - 3]
  <2>1. /\ h \o b \in Seq(Cell) /\ Len(h \o b) = Len(h) + Len(b)
        /\ \A k \in 1 .. Len(h) + Len(b) :
             (h \o b)[k] = IF k <= Len(h) THEN h[k] ELSE b[k - Len(h)]
    BY <1>1, <1>2, ConcatProperties
  <2> QED BY <1>1, <1>2, <2>1
<1>5. \A k \in 1 .. n : (h \o b)[3 + k] = b[k]
  <2> TAKE k \in 1 .. n
  <2>1. 3 + k \in 1 .. 3 + n /\ ~(3 + k <= 3) /\ (3 + k) - 3 = k
    OBVIOUS
  <2> QED BY <1>4, <2>1
<1>6. (h \o b)[1] = h[1] /\ (h \o b)[2] = h[2] /\ (h \o b)[3] = h[3]
  BY <1>2, <1>4
<1> QED BY <1>1, <1>3, <1>4, <1>5, <1>6 DEF b

\* What a datagram puts into the buffer.
Framed == {"whole", "head", "body", "cut"}
SizeOf(d) == IF d.kind = "cut" THEN d.len - 1 ELSE d.len
LEMMA DatagramIs ==
  ASSUME NEW d \in Datagrams
  PROVE  /\ d.kind \in Framed \cup {"noise", "empty"} /\ d.from \in Peers
         /\ d.len \in Nat /\ d.len <= Max(Lens) /\ SizeOf(d) \in Nat
         /\ d.kind \in {"body", "cut"} => d.len > 0
         /\ SizeOf(d) <= d.len /\ (d.kind # "cut" => SizeOf(d) = d.len)
<1>1. /\ d.kind \in AllKinds /\ d.from \in Peers /\ d.len \in Lens
      /\ d.kind \in {"body", "cut"} => d.len > 0
  BY UdpAssumption DEF Datagrams
<1>2. d.len \in Nat
  BY <1>1, UdpAssumption
<1> QED BY <1>1, <1>2, Longest DEF AllKinds, Framed, SizeOf

LEMMA FrontIs ==
  ASSUME NEW s \in Seq(Cell), s # << >>
  PROVE  /\ Front(s) \in Seq(Cell) /\ Len(Front(s)) = Len(s) - 1
         /\ \A k \in 1 .. Len(s) - 1 : Front(s)[k] = s[k]
<1> DEFINE n == Len(s) - 1
<1>1. n \in Nat
  BY EmptySeq
<1>2. \A k \in 1 .. n : s[k] \in Cell
  BY ElementOfSeq, LenProperties
<1>3. Front(s) = SubSeq(s, 1, n)
  BY DEF Front
<1> HIDE DEF n
<1>4. /\ SubSeq(s, 1, n) \in Seq(Cell) /\ Len(SubSeq(s, 1, n)) = IF 1 <= n THEN n - 1 + 1 ELSE 0
      /\ \A k \in 1 .. n - 1 + 1 : SubSeq(s, 1, n)[k] = s[1 + k - 1]
  BY <1>1, <1>2, SubSeqProperties
<1>5. /\ Len(SubSeq(s, 1, n)) = n
      /\ \A k \in 1 .. n : SubSeq(s, 1, n)[k] = s[k]
  BY <1>1, <1>4
<1> QED BY <1>3, <1>4, <1>5 DEF n

LEMMA CellsAre ==
  ASSUME NEW i \in Nat, NEW d \in Datagrams
  PROVE  /\ Cells(i, d) \in Seq(Cell)
         /\ d.kind \in Framed =>
              /\ Len(Cells(i, d)) = 3 + SizeOf(d)
              /\ Cells(i, d)[1] = Magic1 /\ Cells(i, d)[2] = Magic2
              /\ IsHeader(Cells(i, d)[3]) /\ Cells(i, d)[3].id = i
              /\ Cells(i, d)[3].pos = IF d.kind = "head" THEN 0 ELSE 1
              /\ \A k \in 1 .. SizeOf(d) :
                   Cells(i, d)[3 + k] = IF d.kind = "body" /\ k = d.len THEN Noise
                                        ELSE Body(i, d.len)[k]
         /\ d.kind = "noise" =>
              /\ Len(Cells(i, d)) = 3 /\ \A k \in 1 .. 3 : Cells(i, d)[k] = Noise
         /\ d.kind = "empty" => Cells(i, d) = << >>
<1> DEFINE n == d.len
           F == Frame(i, n, TRUE)
           G == Frame(i, n, FALSE)
<1>1. /\ d.kind \in Framed \cup {"noise", "empty"} /\ n \in Nat
      /\ d.kind \in {"body", "cut"} => n > 0
  BY DatagramIs
<1>2. /\ F \in Seq(Cell) /\ Len(F) = 3 + n
      /\ F[1] = Magic1 /\ F[2] = Magic2
      /\ IsHeader(F[3]) /\ F[3].id = i /\ F[3].pos = 1
      /\ \A k \in 1 .. n : F[3 + k] = Body(i, n)[k]
  <2>1. IsHeader(Header(i, TRUE)) /\ Header(i, TRUE).id = i /\ Header(i, TRUE).pos = 1
    BY HeaderIs
  <2> HIDE DEF n
  <2> QED BY <1>1, <2>1, FrameIs, Zenon
<1>3. /\ G \in Seq(Cell) /\ Len(G) = 3 + n
      /\ G[1] = Magic1 /\ G[2] = Magic2
      /\ IsHeader(G[3]) /\ G[3].id = i /\ G[3].pos = 0
      /\ \A k \in 1 .. n : G[3 + k] = Body(i, n)[k]
  <2>1. IsHeader(Header(i, FALSE)) /\ Header(i, FALSE).id = i /\ Header(i, FALSE).pos = 0
    BY HeaderIs
  <2> HIDE DEF n
  <2> QED BY <1>1, <2>1, FrameIs, Zenon
<1> DEFINE f == Front(F)
<1> HIDE DEF F, G
<1>4. n > 0 => /\ f \in Seq(Cell) /\ Len(f) = 2 + n
               /\ f[1] = Magic1 /\ f[2] = Magic2
               /\ IsHeader(f[3]) /\ f[3].id = i /\ f[3].pos = 1
               /\ \A k \in 1 .. n - 1 : f[3 + k] = Body(i, n)[k]
  <2> SUFFICES ASSUME n > 0
               PROVE /\ f \in Seq(Cell) /\ Len(f) = 2 + n
                     /\ f[1] = Magic1 /\ f[2] = Magic2
                     /\ IsHeader(f[3]) /\ f[3].id = i /\ f[3].pos = 1
                     /\ \A k \in 1 .. n - 1 : f[3 + k] = Body(i, n)[k]
    OBVIOUS
  <2>1. F # << >>
    BY <1>1, <1>2, EmptySeq
  <2>2. f \in Seq(Cell) /\ Len(f) = 2 + n /\ \A k \in 1 .. 2 + n : f[k] = F[k]
    <3>1. Len(F) - 1 = 2 + n
      BY <1>1, <1>2
    <3>2. Front(F) \in Seq(Cell) /\ Len(Front(F)) = Len(F) - 1
          /\ \A k \in 1 .. Len(F) - 1 : Front(F)[k] = F[k]
      BY <1>2, <2>1, FrontIs
    <3> QED BY <3>1, <3>2
  <2> HIDE DEF f
  <2>3. \A k \in 1 .. n - 1 : 3 + k \in 1 .. 2 + n /\ k \in 1 .. n
    BY <1>1
  <2>4. f[1] = F[1] /\ f[2] = F[2] /\ f[3] = F[3]
    BY <1>1, <2>2
  <2>5. \A k \in 1 .. n - 1 : f[3 + k] = Body(i, n)[k]
    BY <1>2, <2>2, <2>3
  <2> QED BY <1>2, <2>2, <2>4, <2>5
<1>5. CASE d.kind = "whole"
  <2>1. Cells(i, d) = F
    BY <1>5 DEF Cells, F
  <2> QED BY <1>1, <1>2, <1>5, <2>1 DEF SizeOf
<1>6. CASE d.kind = "head"
  <2>1. Cells(i, d) = G
    BY <1>6 DEF Cells, G
  <2> QED BY <1>1, <1>3, <1>6, <2>1 DEF SizeOf
<1>7. CASE d.kind = "body"
  <2>1. Cells(i, d) = Append(f, Noise)
    BY <1>7 DEF Cells, F
  <2> HIDE DEF f
  <2>2. /\ Append(f, Noise) \in Seq(Cell) /\ Len(Append(f, Noise)) = 3 + n
        /\ \A k \in 1 .. 2 + n : Append(f, Noise)[k] = f[k]
        /\ Append(f, Noise)[3 + n] = Noise
    <3>1. n > 0 /\ f \in Seq(Cell) /\ Len(f) = 2 + n /\ Len(f) + 1 = 3 + n
      BY <1>1, <1>4, <1>7
    <3>2. /\ Append(f, Noise) \in Seq(Cell) /\ Len(Append(f, Noise)) = Len(f) + 1
          /\ \A k \in 1 .. Len(f) : Append(f, Noise)[k] = f[k]
          /\ Append(f, Noise)[Len(f) + 1] = Noise
      BY <3>1, CellKinds, AppendProperties
    <3> QED BY <3>1, <3>2
  <2>3. \A k \in 1 .. n : k # n => 3 + k \in 1 .. 2 + n /\ k \in 1 .. n - 1
    BY <1>1
  <2>4. n > 0 /\ SizeOf(d) = n
    BY <1>1, <1>7 DEF SizeOf
  <2>5. \A k \in 1 .. n : Append(f, Noise)[3 + k] = IF k = n THEN Noise ELSE Body(i, n)[k]
    BY <1>4, <2>2, <2>3, <2>4
  <2> DEFINE c == Append(f, Noise)
  <2>6. c[1] = f[1] /\ c[2] = f[2] /\ c[3] = f[3]
    BY <1>1, <2>2, <2>4
  <2>7. c[1] = Magic1 /\ c[2] = Magic2 /\ IsHeader(c[3]) /\ c[3].id = i /\ c[3].pos = 1
    <3> HIDE DEF c
    <3> QED BY <1>4, <2>4, <2>6
  <2>8. c \in Seq(Cell) /\ Len(c) = 3 + SizeOf(d)
    BY <2>2, <2>4
  <2>9. \A k \in 1 .. SizeOf(d) : c[3 + k] = IF k = n THEN Noise ELSE Body(i, n)[k]
    BY <2>4, <2>5
  <2> HIDE DEF c
  <2> QED BY <1>7, <2>1, <2>7, <2>8, <2>9 DEF c
<1>8. CASE d.kind = "cut"
  <2>1. Cells(i, d) = f
    BY <1>8 DEF Cells, F
  <2> HIDE DEF f
  <2>2. 2 + n = 3 + (n - 1)
    BY <1>1
  <2> QED BY <1>1, <1>4, <1>8, <2>1, <2>2 DEF SizeOf
<1>9. CASE d.kind = "noise"
  <2>1. Cells(i, d) = [k \in 1 .. 3 |-> Noise]
    BY <1>9 DEF Cells, Sizeof
  <2>2. Cells(i, d) \in [1 .. 3 -> Cell]
    BY <2>1, CellKinds
  <2> QED BY <1>9, <2>1, <2>2, SeqDef, LenProperties DEF Framed
<1>10. CASE d.kind = "empty"
  <2>1. Cells(i, d) = << >>
    BY <1>10 DEF Cells
  <2> QED BY <1>10, <2>1, EmptySeq DEF Framed
<1> QED BY <1>1, <1>5, <1>6, <1>7, <1>8, <1>9, <1>10 DEF Framed

\* What IInv says of the types, for use in small proofs.
LEMMA Facts ==
  ASSUME IInv
  PROVE  /\ Len(buf) \in Nat /\ (buf = << >> <=> Len(buf) = 0)
         /\ procPt \in Nat /\ procPt <= Len(buf) /\ read \in Nat /\ read <= Len(log)
         /\ log \in Seq(Datagrams) /\ Len(log) \in Nat
         /\ \A i \in 1 .. Len(log) : log[i] \in Datagrams /\ i \in Nat
         /\ \A i \in 1 .. read : i \in 1 .. Len(log) /\ i \in Nat
         /\ \A p \in 1 .. Len(buf) : p \in Nat /\ buf[p] \in Cell
<1>1. /\ buf \in Seq(Cell) /\ procPt \in 0 .. Len(buf)
      /\ log \in Seq(Datagrams) /\ read \in 0 .. Len(log)
  BY DEF IInv, TypeOK, Typed
<1>2. Len(buf) \in Nat /\ Len(log) \in Nat
  BY <1>1, LenProperties
<1>3. buf = << >> <=> Len(buf) = 0
  BY <1>1, EmptySeq
<1>4. \A i \in 1 .. Len(log) : log[i] \in Datagrams
  BY <1>1, ElementOfSeq
<1>5. \A p \in 1 .. Len(buf) : buf[p] \in Cell
  BY <1>1, ElementOfSeq
<1> QED BY <1>1, <1>2, <1>3, <1>4, <1>5

LEMMA MarksAre ==
  ASSUME Len(buf) \in Nat, NEW from \in Nat
  PROVE  \A k : k \in Marks(buf, from) <=>
            /\ k \in Nat /\ from <= k /\ k + 2 <= Len(buf)
            /\ buf[k + 1] = Magic1 /\ buf[k + 2] = Magic2
<1>1. \A k : k \in from .. Len(buf) - 2 <=> k \in Nat /\ from <= k /\ k + 2 <= Len(buf)
  OBVIOUS
<1> QED BY <1>1 DEF Marks, MagicSize

\* search_header, case by case: nothing to search, no magic word, a magic
\* word that the length check refuses, and a header found.
LEMMA Found ==
  ASSUME IInv, buf # << >>, NEW s, s = search_header(buf, procPt, head)
  PROVE  \/ procPt = Len(buf) /\ s.at >= Len(buf) /\ s.head = head
         \/ /\ procPt < Len(buf) /\ Marks(buf, procPt) = {}
            /\ s.at = Len(buf) - 1 /\ s.head = head
         \/ /\ procPt < Len(buf)
            /\ \E m \in Marks(buf, procPt) :
                 /\ \A k \in Marks(buf, procPt) : m <= k
                 /\ \/ procPt + m + 3 > Len(buf) /\ s.at = m /\ s.head = head
                    \/ /\ procPt + m + 3 <= Len(buf) /\ s.head = buf[m + 3]
                       /\ s.at = IF ValidHead(buf[m + 3]) THEN m ELSE Len(buf) - 2 - procPt
<1> DEFINE M == Marks(buf, procPt)
           L == Len(buf)
<1>1. L \in Nat /\ L > 0 /\ procPt \in Nat /\ procPt <= L
  BY Facts
<1>2. \A k : k \in M <=> /\ k \in Nat /\ procPt <= k /\ k + 2 <= L
                         /\ buf[k + 1] = Magic1 /\ buf[k + 2] = Magic2
  BY <1>1, MarksAre
<1> HIDE DEF M
<1>3. CASE L < 2
  <2>1. M = {}
    BY <1>1, <1>2, <1>3
  <2>2. s = [at |-> procPt, head |-> head]
    BY <1>1, <1>3, <2>1 DEF search_header, MagicSize, M
  <2> QED BY <1>1, <1>3, <2>1, <2>2 DEF M
<1>4. CASE L >= 2 /\ M = {}
  <2>1. s = [at |-> Max({procPt, L - 2 + 1}), head |-> head]
    BY <1>1, <1>4 DEF search_header, MagicSize, M
  <2>2. s.at = IF procPt >= L - 1 THEN procPt ELSE L - 1
    <3>1. L - 2 + 1 = L - 1 /\ L - 1 \in Nat
      BY <1>1
    <3> QED BY <1>1, <2>1, <3>1, MaxOfTwo
  <2> QED BY <1>1, <1>4, <2>1, <2>2 DEF M
<1>5. CASE L >= 2 /\ M # {}
  <2>1. Min(M) \in M /\ \A k \in M : Min(M) <= k
    BY <1>2, <1>5, Least
  <2>2. s = IF procPt + Min(M) + 3 > L THEN [at |-> Min(M), head |-> head]
            ELSE [at |-> IF ValidHead(buf[Min(M) + 3]) THEN Min(M) ELSE L - 3 - procPt + 1,
                  head |-> buf[Min(M) + 3]]
    BY <1>1, <1>5 DEF search_header, MagicSize, Sizeof, M
  <2>3. procPt < L /\ L - 3 - procPt + 1 = L - 2 - procPt
    BY <1>1, <1>2, <2>1
  <2>4. CASE procPt + Min(M) + 3 > L
    <3>1. s.at = Min(M) /\ s.head = head
      BY <2>2, <2>4
    <3> QED BY <2>1, <2>3, <2>4, <3>1 DEF M
  <2>5. CASE ~(procPt + Min(M) + 3 > L)
    <3>1. /\ s.at = IF ValidHead(buf[Min(M) + 3]) THEN Min(M) ELSE L - 2 - procPt
          /\ s.head = buf[Min(M) + 3]
      BY <2>2, <2>3, <2>5
    <3>2. procPt + Min(M) + 3 <= L
      BY <1>1, <1>2, <2>1, <2>5
    <3> QED BY <2>1, <2>3, <3>1, <3>2 DEF M
  <2> QED BY <2>4, <2>5
<1> QED BY <1>1, <1>3, <1>4, <1>5

----------------------------------------------------------------------------
(* SearchFrame: one turn reads on, passes over a header or hands up a frame*)

\* The turn for what search_header found.
Drops == Empty /\ at' = "read" /\ handed' = handed
Rests(pt) == Move(pt, procPt) /\ at' = "read" /\ handed' = handed
Rejects == Reject /\ at' = at /\ handed' = handed
Hands(pt, h) ==
  /\ Move(pt + PackageLen(h) + 3, pt + PackageLen(h) + 3)
  /\ handed' = Append(handed, [id |-> h.id, from |-> peer])
  /\ at' = "idle"
Turn(pt, h) ==
  IF buf = << >> \/ pt >= Len(buf) THEN Drops
  ELSE IF pt + 3 > Len(buf) THEN Rests(pt)
  ELSE IF PackageLen(h) <= Max(Lens) /\ PackageLen(h) + pt + 3 > Len(buf) THEN Rests(pt)
  ELSE IF PackageLen(h) > Max(Lens) \/ ~DataCrcOk(h, pt, PackageLen(h)) THEN Rejects
  ELSE Hands(pt, h)

\* buf' is what buf holds behind position pt.
Suffix(pt) ==
  /\ pt \in 0 .. Len(buf) /\ buf' \in Seq(Cell) /\ Len(buf') = Len(buf) - pt
  /\ \A k \in 1 .. Len(buf) - pt : buf'[k] = buf[pt + k]

ReadsOn ==
  /\ at' = "read" /\ handed' = handed /\ procPt' = 0
  /\ \E pt \in 0 .. Len(buf) :
       pt >= procPt /\ Suffix(pt) /\ RestOf(pt) /\ Len(buf) - pt < Total
PassesOver ==
  /\ at' = "search" /\ handed' = handed /\ buf' = buf
  /\ procPt' = procPt + 2 /\ procPt + 2 < Len(buf)
  /\ IsHeader(head') =>
       /\ log[head'.id].kind \in {"body", "cut"}
       /\ log[head'.id].len = 2 => procPt + 2 = 2 \/ ~DoubleMark(procPt + 2)
HandsUp ==
  /\ at' = "idle"
  /\ \E p \in procPt + 1 .. Len(buf) :
       /\ IsHeader(buf[p]) /\ log[buf[p].id].kind = "whole"
       /\ handed' = Append(handed, [id |-> buf[p].id, from |-> peer])
       /\ \/ buf' = buf /\ procPt' = Len(buf)
          \/ procPt' = 0 /\ \E pt \in p .. Len(buf) : Suffix(pt) /\ RestOf(pt)

LEMMA LengthOf ==
  ASSUME IInv, NEW h
  PROVE  /\ IsHeader(h) /\ h.id \in 1 .. read =>
              PackageLen(h) = log[h.id].len /\ PackageLen(h) \in Nat /\ PackageLen(h) <= Max(Lens)
         /\ ~IsHeader(h) => PackageLen(h) > Max(Lens)
<1>1. IsHeader(h) /\ h.id \in 1 .. read => PackageLen(h) = log[h.id].len /\ log[h.id] \in Datagrams
  BY Facts DEF PackageLen, IsHeader
<1>2. ~IsHeader(h) => PackageLen(h) = Total + 1
  BY DEF PackageLen, IsHeader
<1>3. IsHeader(h) /\ h.id \in 1 .. read => log[h.id].len \in Nat /\ log[h.id].len <= Max(Lens)
  BY <1>1, DatagramIs
<1> QED BY <1>1, <1>2, <1>3, Sizes, Longest

\* SearchFrame is a turn for what search_header found.
LEMMA TurnIs ==
  ASSUME IInv, SearchFrame
  PROVE  /\ UNCHANGED <<socket, log, read, peer, unheard>> /\ at = "search"
         /\ buf = << >> => head' = head /\ Drops
         /\ buf # << >> => \E s : /\ s = search_header(buf, procPt, head)
                                  /\ head' = s.head /\ Turn(s.at, s.head)
<1> DEFINE s == search_header(buf, procPt, head)
<1>1. UNCHANGED <<socket, log, read, peer, unheard>> /\ at = "search"
  BY DEF SearchFrame
<1>2. CASE buf = << >>
  BY <1>1, <1>2 DEF SearchFrame, Drops
<1>3. CASE buf # << >>
  <2>1. head' = s.head
    BY <1>3 DEF SearchFrame
  <2>2. Turn(s.at, s.head)
    BY <1>3 DEF SearchFrame, Turn, Drops, Rests, Rejects, Hands, Sizeof
  <2>3. \E t : /\ t = search_header(buf, procPt, head)
               /\ head' = t.head /\ Turn(t.at, t.head)
    <3> WITNESS s
    <3> QED BY <2>1, <2>2
  <2> QED BY <1>1, <1>3, <2>3
<1> QED BY <1>1, <1>2, <1>3

\* A header in the buffer is that of a datagram that was read.
LEMMA HeaderOf ==
  ASSUME IInv, NEW p \in 1 .. Len(buf), IsHeader(buf[p])
  PROVE  LET i == buf[p].id
         IN /\ i \in 1 .. read /\ i \in Nat /\ i \in 1 .. Len(log) /\ log[i] \in Datagrams
            /\ log[i].len \in Nat /\ log[i].len <= Max(Lens)
            /\ Size(i) = SizeOf(log[i]) /\ Size(i) \in Nat /\ Size(i) <= log[i].len
            /\ p + Size(i) <= Len(buf)
            /\ log[i].kind \in {"body", "cut"} => log[i].len > 0
            /\ log[i].kind # "cut" => Size(i) = log[i].len
            /\ \/ log[i].kind = "whole" /\ buf[p].pos = 1 /\ Matches(p, i)
               \/ log[i].kind = "head" /\ buf[p].pos = 0 /\ Matches(p, i)
               \/ log[i].kind \in {"body", "cut"} /\ buf[p].pos = 1 /\ ~Matches(p, i)
<1> DEFINE i == buf[p].id
<1>1. /\ i \in 1 .. read /\ p + Size(i) <= Len(buf)
      /\ \/ log[i].kind = "whole" /\ buf[p].pos = 1 /\ Matches(p, i)
         \/ log[i].kind = "head" /\ buf[p].pos = 0 /\ Matches(p, i)
         \/ log[i].kind \in {"body", "cut"} /\ buf[p].pos = 1 /\ ~Matches(p, i)
  BY DEF IInv, HeadersAre
<1>2. i \in Nat /\ i \in 1 .. Len(log) /\ log[i] \in Datagrams
  BY <1>1, Facts
<1>3. Size(i) = SizeOf(log[i])
  BY DEF Size, SizeOf
<1> QED BY <1>1, <1>2, <1>3, DatagramIs

\* Behind a header that is refused or not complete, what is left is the rest
\* of one datagram: the geometry of a rest and a datagram.
LEMMA RestNothing ==
  ASSUME IInv, NEW pt \in Nat, \A m \in Marks(buf, 0) : m < pt
  PROVE  RestOf(pt)
<1>1. \A m \in Marks(buf, 0) : m \in Nat
  BY Facts, MarksAre
<1> QED BY <1>1 DEF RestOf

LEMMA RestSecond ==
  ASSUME IInv, NEW r \in 0 .. Len(buf), Behinds(r), NEW pt \in Nat, pt = r
  PROVE  RestOf(pt)
<1> SUFFICES ASSUME NEW m \in Marks(buf, 0), m >= pt
             PROVE  /\ m - pt <= 3
                    /\ m + 3 <= Len(buf) /\ IsHeader(buf[m + 3]) =>
                         m = pt /\ Len(buf) - pt = 3 + Size(buf[m + 3].id)
  BY DEF RestOf
<1>1. m \in Nat /\ m + 2 <= Len(buf)
  BY Facts, MarksAre
<1>2. (m <= 3 /\ m + 2 <= r) \/ m = r \/ m = r + 3
  BY DEF Behinds
<1>3. m = r \/ m = r + 3
  BY <1>1, <1>2
<1>4. ASSUME m + 3 <= Len(buf), IsHeader(buf[m + 3])
      PROVE m = pt /\ Len(buf) - pt = 3 + Size(buf[m + 3].id)
  <2> DEFINE z == Size(buf[m + 3].id)
  <2>1. (m = 0 /\ r = 3 + z) \/ (m = r /\ Len(buf) = r + 3 + z)
    BY <1>4 DEF Behinds
  <2>2. z \in Nat /\ Len(buf) \in Nat
    BY <1>1, <1>4, HeaderOf, Facts
  <2> HIDE DEF z
  <2>3. m = r
    BY <1>1, <1>3, <2>1, <2>2
  <2> QED BY <1>1, <2>1, <2>2, <2>3 DEF z
<1> QED BY <1>1, <1>3, <1>4

\* The memmove leaves a suffix.
LEMMA Stays == ASSUME IInv, buf' = buf PROVE Suffix(0)
<1>1. buf' \in Seq(Cell) /\ Len(buf') = Len(buf)
  BY DEF IInv, Typed
<1> QED BY <1>1, Facts DEF Suffix

LEMMA Moves ==
  ASSUME IInv, NEW pt \in Nat, pt <= Len(buf), NEW proc, Move(pt, proc)
  PROVE  /\ 0 < pt /\ pt < Len(buf) => Suffix(pt) /\ procPt' = 0
         /\ ~(0 < pt /\ pt < Len(buf)) => Suffix(0) /\ buf' = buf /\ procPt' = proc
<1>1. CASE 0 < pt /\ pt < Len(buf)
  <2>1. buf' = SubSeq(buf, pt + 1, Len(buf)) /\ procPt' = 0
    BY <1>1 DEF Move
  <2> DEFINE L == Len(buf)
  <2>2. L \in Nat /\ \A k \in pt + 1 .. L : buf[k] \in Cell
    BY Facts
  <2>3. /\ SubSeq(buf, pt + 1, L) \in Seq(Cell)
        /\ Len(SubSeq(buf, pt + 1, L)) = IF pt + 1 <= L THEN L - (pt + 1) + 1 ELSE 0
        /\ \A k \in 1 .. L - (pt + 1) + 1 : SubSeq(buf, pt + 1, L)[k] = buf[pt + 1 + k - 1]
    BY <2>2, SubSeqProperties
  <2>4. /\ Len(SubSeq(buf, pt + 1, L)) = L - pt
        /\ \A k \in 1 .. L - pt : SubSeq(buf, pt + 1, L)[k] = buf[pt + k]
    BY <1>1, <2>2, <2>3
  <2> QED BY <1>1, <2>1, <2>2, <2>3, <2>4 DEF Suffix
<1>2. CASE ~(0 < pt /\ pt < Len(buf))
  <2>1. buf' = buf /\ procPt' = proc
    BY <1>2 DEF Move
  <2> QED BY <1>2, <2>1, Stays
<1> QED BY <1>1, <1>2

LEMMA Empties == ASSUME IInv, Empty PROVE Suffix(Len(buf)) /\ procPt' = 0
<1>1. buf' = << >> /\ procPt' = 0 /\ Len(buf) \in Nat
  BY Facts DEF Empty
<1>2. buf' \in Seq(Cell) /\ Len(buf') = 0
  BY <1>1, EmptySeq
<1> QED BY <1>1, <1>2 DEF Suffix

LEMMA DropsRead == ASSUME IInv, Drops PROVE ReadsOn
<1>1. Suffix(Len(buf)) /\ procPt' = 0 /\ at' = "read" /\ handed' = handed
  BY Empties DEF Drops
<1>2. Len(buf) \in Nat /\ Len(buf) \in 0 .. Len(buf) /\ Len(buf) - Len(buf) < Total
      /\ Len(buf) >= procPt
  BY Facts, Sizes
<1>3. RestOf(Len(buf))
  <2>1. \A m \in Marks(buf, 0) : m < Len(buf)
    BY <1>2, MarksAre
  <2> QED BY <1>2, <2>1, RestNothing
<1> QED BY <1>1, <1>2, <1>3 DEF ReadsOn

LEMMA RestsRead ==
  ASSUME IInv, NEW pt \in Nat, pt < Len(buf), procPt <= pt,
         Rests(pt), RestOf(pt), Len(buf) - pt < Total
  PROVE  ReadsOn
<1>1. Move(pt, procPt) /\ at' = "read" /\ handed' = handed
  BY DEF Rests
<1>2. /\ Len(buf) \in Nat /\ pt \in 0 .. Len(buf) /\ pt <= Len(buf)
      /\ procPt \in Nat /\ (pt = 0 => procPt = 0) /\ pt >= procPt
  BY Facts
<1>3. Suffix(pt) /\ procPt' = 0
  BY <1>1, <1>2, Moves
<1> QED BY <1>1, <1>2, <1>3 DEF ReadsOn

LEMMA SubSeqIs ==
  ASSUME IInv, NEW p \in Nat, NEW n \in Nat, p + n <= Len(buf)
  PROVE  /\ SubSeq(buf, p + 1, p + n) \in Seq(Cell) /\ Len(SubSeq(buf, p + 1, p + n)) = n
         /\ \A k \in 1 .. n : SubSeq(buf, p + 1, p + n)[k] = buf[p + k]
<1>1. p + 1 \in Int /\ p + n \in Int /\ \A k \in p + 1 .. p + n : buf[k] \in Cell
  BY Facts
<1> DEFINE t == SubSeq(buf, p + 1, p + n)
<1>2. /\ t \in Seq(Cell) /\ Len(t) = IF p + 1 <= p + n THEN p + n - (p + 1) + 1 ELSE 0
      /\ \A k \in 1 .. p + n - (p + 1) + 1 : t[k] = buf[p + 1 + k - 1]
  BY <1>1, SubSeqProperties
<1> HIDE DEF t
<1>3. Len(t) = n
  BY <1>2
<1>4. \A k \in 1 .. n : t[k] = buf[p + k]
  <2> TAKE k \in 1 .. n
  <2>1. k \in 1 .. p + n - (p + 1) + 1 /\ p + 1 + k - 1 = p + k
    OBVIOUS
  <2> QED BY <1>2, <2>1
<1> QED BY <1>2, <1>3, <1>4 DEF t

\* No magic word ahead: at most the last cell stays.
LEMMA TurnOnNothing ==
  ASSUME IInv, buf # << >>, NEW pt, NEW h, Turn(pt, h),
         \/ procPt = Len(buf) /\ pt >= Len(buf)
         \/ procPt < Len(buf) /\ Marks(buf, procPt) = {} /\ pt = Len(buf) - 1
  PROVE  ReadsOn
<1>1. Len(buf) \in Nat /\ Len(buf) > 0 /\ procPt \in Nat
  BY Facts
<1>2. CASE pt >= Len(buf)
  <2>1. Drops
    BY <1>2 DEF Turn
  <2> QED BY <2>1, DropsRead
<1>3. CASE procPt < Len(buf) /\ Marks(buf, procPt) = {} /\ pt = Len(buf) - 1
  <2>1. pt \in Nat /\ pt < Len(buf) /\ pt + 3 > Len(buf) /\ ~(pt >= Len(buf))
    BY <1>1, <1>3
  <2>2. Rests(pt)
    BY <1>1, <2>1 DEF Turn
  <2>3. procPt <= pt
    <3>1. procPt < Len(buf) /\ pt = Len(buf) - 1
      BY <1>3
    <3> QED BY <1>1, <2>1, <3>1
  <2>4. \A m \in Marks(buf, 0) : m < pt
    BY <1>1, <1>3, MarksAre
  <2>5. RestOf(pt)
    BY <2>1, <2>4, RestNothing
  <2>6. Len(buf) - pt < Total
    BY <1>1, <1>3, Sizes
  <2> QED BY <2>1, <2>2, <2>3, <2>5, <2>6, RestsRead
<1> QED BY <1>2, <1>3

\* A magic word too near the end for the length check: the header left in the
\* caller's buffer by an earlier turn is never taken for the one that is here.
LEMMA TurnOnStale ==
  ASSUME IInv, at = "search", procPt < Len(buf), buf # << >>, head' = head,
         NEW m \in Marks(buf, procPt), \A k \in Marks(buf, procPt) : m <= k,
         procPt + m + 3 > Len(buf), Turn(m, head)
  PROVE  ReadsOn \/ PassesOver
<1> DEFINE L == Len(buf)
<1>1. /\ L \in Nat /\ procPt \in Nat /\ m \in Nat /\ procPt <= m /\ m + 2 <= L
      /\ buf[m + 1] = Magic1 /\ buf[m + 2] = Magic2
      /\ m \in Marks(buf, 0) /\ ~(m >= L)
  <2>1. L \in Nat /\ procPt \in Nat
    BY Facts
  <2>2. m \in Nat /\ procPt <= m /\ m + 2 <= L /\ buf[m + 1] = Magic1 /\ buf[m + 2] = Magic2
    BY <2>1, MarksAre
  <2>3. m \in Marks(buf, 0)
    BY <2>1, <2>2, MarksAre
  <2> QED BY <2>1, <2>2, <2>3
<1>2. procPt \notin {1, 3} /\ \E r \in 0 .. L : Behinds(r)
  BY DEF IInv, Places
<1>5. L \in Nat /\ procPt \in Nat /\ m \in Nat /\ procPt <= m /\ m + 2 <= L
  BY <1>1
<1>3. CASE m + 3 > L
  <2>1. Rests(m)
    BY <1>1, <1>3 DEF Turn
  <2>2. L - m < Total /\ m < L /\ ~(m + 3 <= L)
    BY <1>1, <1>3, Sizes
  <2>3. RestOf(m)
    <3>1. ASSUME NEW k \in Marks(buf, 0), k >= m PROVE k = m
      BY <1>1, <1>3, <3>1, MarksAre
    <3>2. m - m <= 3
      BY <1>1
    <3> QED BY <2>2, <3>1, <3>2 DEF RestOf
  <2> QED BY <1>1, <2>1, <2>2, <2>3, RestsRead
<1>4. CASE m + 3 <= L
  <2>1. procPt > 0 /\ procPt + 2 < L /\ ~(m + 3 > L)
    BY <1>1, <1>4
  <2>2. ASSUME Rejects, ~IsHeader(head) \/ (log[head.id].kind \in {"body", "cut"} /\
               (log[head.id].len = 2 => ~DoubleMark(procPt + 2)))
        PROVE  PassesOver
    <3>1. procPt' = procPt + 2 /\ buf' = buf /\ handed' = handed /\ at' = "search"
      BY <2>2 DEF Rejects, Reject, MagicSize
    <3> QED BY <2>1, <2>2, <3>1 DEF PassesOver
  <2>3. CASE ~IsHeader(head)
    <3>1. PackageLen(head) > Max(Lens) /\ ~(PackageLen(head) <= Max(Lens))
      BY <2>3, Longest, Sizes DEF PackageLen, IsHeader
    <3>2. Rejects
      BY <1>1, <2>1, <3>1 DEF Turn
    <3> QED BY <2>2, <2>3, <3>2
  <2>4. CASE IsHeader(head)
    <3> DEFINE i == head.id
               n == PackageLen(head)
    <3>1. /\ i \in 1 .. read /\ log[i].kind \in {"body", "cut"}
          /\ log[i].len = 2 => procPt = 2 \/ ~DoubleMark(procPt)
      BY <2>1, <2>4 DEF IInv, Typed, Stale
    <3>2. /\ n = log[i].len /\ n \in Nat /\ n <= Max(Lens) /\ n > 0 /\ ~(n > Max(Lens))
          /\ i \in Nat
      <4>1. n = log[i].len /\ n \in Nat /\ n <= Max(Lens)
        BY <2>4, <3>1, LengthOf
      <4>2. log[i] \in Datagrams /\ i \in Nat
        BY <3>1, Facts
      <4>3. log[i].len > 0
        BY <3>1, <4>2, DatagramIs
      <4> QED BY <4>1, <4>2, <4>3, Longest
    <3> HIDE DEF n, i
    <3>3. CASE n + m + 3 > L
      <4>1. Rests(m)
        BY <1>1, <2>1, <3>2, <3>3 DEF Turn, n
      <4>2. L - m < Total /\ m < L
        <5>1. n + 3 <= Total /\ Total \in Nat
          BY <3>2, Sizes, Longest
        <5>2. L - m < n + 3 /\ m < L
          <6>1. n \in Nat
            BY <3>2
          <6> QED BY <1>5, <3>3, <6>1
        <5>3. L \in Nat /\ m \in Nat /\ n \in Nat
          BY <1>1, <3>2
        <5> QED BY <5>1, <5>2, <5>3
      <4>3. RestOf(m)
        <5>1. PICK r \in 0 .. L : Behinds(r)
          BY <1>2
        <5>2. (m <= 3 /\ m + 2 <= r) \/ m = r \/ m = r + 3
          BY <1>1, <5>1 DEF Behinds
        <5>3. CASE m = r
          BY <1>1, <5>1, <5>3, RestSecond
        <5>4. CASE m # r
          <6>1. r \in Nat /\ (r = L \/ r + 3 <= L)
            BY <5>1, <1>1 DEF Behinds
          <6>2. m = r + 3 \/ (m <= 3 /\ m + 2 <= r /\ r = L)
            BY <1>1, <1>2, <2>1, <5>2, <5>4, <6>1
          <6> SUFFICES ASSUME NEW k \in Marks(buf, 0), k >= m
                       PROVE  k - m <= 3 /\ (k + 3 <= L => ~IsHeader(buf[k + 3]))
            BY DEF RestOf
          <6>3. k \in Nat /\ k + 2 <= L
            BY <1>1, MarksAre
          <6>4. /\ (k <= 3 /\ k + 2 <= r) \/ k = r \/ k = r + 3
                /\ k + 3 <= L /\ IsHeader(buf[k + 3]) => k = 0 \/ k = r
            BY <5>1 DEF Behinds
          <6>5. k - m <= 3
            BY <1>1, <6>1, <6>2, <6>3, <6>4
          <6>6. k # 0 /\ k # r
            BY <1>1, <2>1, <6>1, <6>2, <6>3
          <6> QED BY <6>4, <6>5, <6>6
        <5> QED BY <5>3, <5>4
      <4> QED BY <1>1, <4>1, <4>2, <4>3, RestsRead
    <3>4. CASE n + m + 3 <= L
      <4>1. ~DataCrcOk(head, m, n)
        <5> SUFFICES ASSUME DataCrcOk(head, m, n) PROVE FALSE
          OBVIOUS
        <5> DEFINE q == m + 3
        <5>1. SubSeq(buf, q + 1, q + n) = Body(i, n)
          BY DEF DataCrcOk, i, Sizeof
        <5>2. \A k \in 1 .. n : Body(i, n)[k] = buf[q + k]
          <6>1. q \in Nat /\ q + n <= L
            <7>1. m \in Nat /\ n \in Nat /\ L \in Nat
              BY <1>1, <3>2
            <7> HIDE DEF L
            <7> QED BY <3>4, <7>1
          <6> HIDE DEF q
          <6> QED BY <3>2, <5>1, <6>1, SubSeqIs
        <5>3. CASE n = 2
          <6>1. buf[m + 4] = Magic1 /\ buf[m + 5] = Magic2
            <7>1. Body(i, n)[1] = Magic1 /\ Body(i, n)[2] = Magic2
              BY <3>2, <5>3, BodyOfTwo
            <7>2. Body(i, n)[1] = buf[m + 3 + 1] /\ Body(i, n)[2] = buf[m + 3 + 2]
              BY <5>2, <5>3
            <7>3. m + 3 + 1 = m + 4 /\ m + 3 + 2 = m + 5
              BY <1>1
            <7> QED BY <7>1, <7>2, <7>3
          <6>2. m + 5 <= L
            BY <1>1, <3>4, <5>3
          <6>3. DoubleMark(procPt)
            BY <6>1, <6>2 DEF DoubleMark
          <6>4. procPt = 2
            BY <3>1, <3>2, <5>3, <6>3 DEF i
          <6> QED BY <1>1, <6>2, <6>4
        <5>4. CASE n # 2
          <6>1. n \in 1 .. n /\ (n < 2 \/ n > 2)
            BY <3>2, <5>4
          <6>2. Body(i, n)[n].what = "body" /\ Body(i, n)[n].id = i /\ Body(i, n)[n].pos = n
            BY <3>2, <6>1, BodyAt
          <6>3. m + 3 + n \in 1 .. L
            <7>1. n \in Nat /\ n > 0
              BY <3>2
            <7> QED BY <1>5, <3>4, <7>1
          <6>5. Body(i, n)[n] = buf[m + 3 + n]
            BY <5>2, <6>1
          <6>4. buf[m + 3 + n].pos < log[i].len
            BY <3>1, <6>2, <6>3, <6>5 DEF IInv, BodiesAre, i
          <6> QED BY <3>2, <6>2, <6>5, <6>4
        <5> QED BY <5>3, <5>4
      <4>2. Rejects
        <5>1. ~(n + m + 3 > L)
          <6>1. m \in Nat /\ n \in Nat /\ L \in Nat
            BY <1>1, <3>2
          <6> HIDE DEF L
          <6> QED BY <3>4, <6>1
        <5> QED BY <1>1, <2>1, <3>2, <4>1, <5>1 DEF Turn, n
      <4>3. log[i].len = 2 => ~DoubleMark(procPt + 2)
        <5> SUFFICES ASSUME log[i].len = 2, DoubleMark(procPt + 2) PROVE FALSE
          OBVIOUS
        <5>1. PICK k \in Marks(buf, procPt + 2) :
                k + 5 <= L /\ buf[k + 4] = Magic1 /\ buf[k + 5] = Magic2
          BY DEF DoubleMark
        <5>2. k \in Marks(buf, procPt) /\ k \in Nat
          BY <1>1, MarksAre
        <5>3. DoubleMark(procPt)
          BY <5>1, <5>2 DEF DoubleMark
        <5>4. procPt = 2
          BY <3>1, <5>3 DEF i
        <5>5. m <= k
          BY <5>2
        <5> QED BY <1>1, <5>1, <5>2, <5>4, <5>5
      <4> QED BY <2>2, <3>1, <4>2, <4>3 DEF i
    <3> QED BY <1>1, <3>2, <3>3, <3>4
  <2> QED BY <2>3, <2>4
<1> QED BY <1>1, <1>3, <1>4

\* The checksum agrees when the cells behind the header are its body.
LEMMA CrcIsMatch ==
  ASSUME IInv, NEW m \in Nat, NEW h, IsHeader(h), h.id \in 1 .. read,
         PackageLen(h) + m + 3 <= Len(buf)
  PROVE  DataCrcOk(h, m, PackageLen(h)) <=> Matches(m + 3, h.id)
<1> DEFINE i == h.id
           n == PackageLen(h)
           q == m + 3
           t == SubSeq(buf, q + 1, q + n)
<1>1. n = log[i].len /\ n \in Nat /\ i \in Nat
  BY LengthOf, Facts
<1>2. q \in Nat /\ q + n <= Len(buf)
  BY <1>1
<1>3. DataCrcOk(h, m, n) <=> t = Body(i, n)
  BY <1>1 DEF DataCrcOk, Sizeof, IsHeader
<1>4. Matches(q, i) <=> \A k \in 1 .. n : buf[q + k] = Body(i, n)[k]
  BY <1>1, <1>2 DEF Matches
<1> HIDE DEF n, q, i
<1>5. t \in Seq(Cell) /\ Len(t) = n /\ \A k \in 1 .. n : t[k] = buf[q + k]
  BY <1>1, <1>2, SubSeqIs
<1>6. Body(i, n) \in Seq(Cell) /\ Len(Body(i, n)) = n
  BY <1>1, BodyLen
<1> HIDE DEF t
<1>7. t = Body(i, n) <=> \A k \in 1 .. n : t[k] = Body(i, n)[k]
  BY <1>5, <1>6, SeqEqual
<1>8. t = Body(i, n) <=> \A k \in 1 .. n : buf[q + k] = Body(i, n)[k]
  BY <1>5, <1>7
<1> QED BY <1>3, <1>4, <1>8 DEF n, q, i

\* A valid header: its frame is handed up, waits for its last bytes, or is
\* passed over.
LEMMA TurnOnHeader ==
  ASSUME IInv, at = "search", procPt < Len(buf), buf # << >>,
         NEW m \in Marks(buf, procPt), procPt + m + 3 <= Len(buf),
         ValidHead(buf[m + 3]), head' = buf[m + 3], Turn(m, buf[m + 3])
  PROVE  ReadsOn \/ PassesOver \/ HandsUp
<1> DEFINE L == Len(buf)
           h == buf[m + 3]
           i == h.id
           z == Size(i)
           n == PackageLen(h)
<1>1. /\ L \in Nat /\ procPt \in Nat /\ m \in Nat /\ procPt <= m /\ m + 3 <= L
      /\ m \in Marks(buf, 0) /\ ~(m >= L) /\ ~(m + 3 > L)
      /\ m + 3 \in procPt + 1 .. L /\ m + 3 \in 1 .. L
  <2>1. L \in Nat /\ procPt \in Nat
    BY Facts
  <2>2. m \in Nat /\ procPt <= m /\ m + 2 <= L /\ buf[m + 1] = Magic1 /\ buf[m + 2] = Magic2
    BY <2>1, MarksAre
  <2>3. m \in Marks(buf, 0)
    BY <2>1, <2>2, MarksAre
  <2> QED BY <2>1, <2>2, <2>3
<1>2. IsHeader(h) /\ h.pos = 1 /\ h.pos # 0
  BY DEF ValidHead, IsHeader
<1>3. /\ i \in 1 .. read /\ i \in Nat /\ log[i] \in Datagrams
      /\ n = log[i].len /\ n \in Nat /\ n <= Max(Lens) /\ ~(n > Max(Lens))
      /\ z \in Nat /\ z <= n /\ m + 3 + z <= L
      /\ log[i].kind \in {"body", "cut"} => n > 0
      /\ log[i].kind # "cut" => z = n
      /\ log[i].kind = "cut" => z = n - 1
      /\ \/ log[i].kind = "whole" /\ Matches(m + 3, i)
         \/ log[i].kind \in {"body", "cut"} /\ ~Matches(m + 3, i)
  <2>1. i \in 1 .. read /\ IsHeader(h)
    BY <1>1, <1>2, HeaderOf
  <2>2. n = log[i].len /\ n \in Nat /\ n <= Max(Lens) /\ ~(n > Max(Lens))
    BY <2>1, LengthOf, Longest
  <2>3. log[i].kind = "cut" => z = n - 1
    BY <2>2 DEF Size
  <2> QED BY <1>1, <1>2, <2>2, <2>3, HeaderOf
<1>4. PICK r \in 0 .. L : Behinds(r)
  BY DEF IInv, Places
<1>5. (m = 0 /\ r = 3 + z) \/ (m = r /\ L = r + 3 + z)
  BY <1>1, <1>2, <1>4 DEF Behinds
<1>6. r = L \/ r + 3 <= L
  BY <1>4 DEF Behinds
<1>7. n + m + 3 <= L => (DataCrcOk(h, m, n) <=> Matches(m + 3, i))
  BY <1>1, <1>2, <1>3, CrcIsMatch
<1> HIDE DEF z, n, h, i
<1>11. /\ L \in Nat /\ m \in Nat /\ n \in Nat /\ z \in Nat /\ r \in Nat
       /\ m + 3 <= L /\ z <= n
  BY <1>1, <1>3, <1>4
<1>8. CASE n + m + 3 > L
  <2>1. Rests(m)
    BY <1>1, <1>3, <1>8 DEF Turn, n, h
  <2>2. RestOf(m)
    <3>1. CASE m = r
      BY <1>1, <1>4, <3>1, RestSecond
    <3>2. CASE m # r
      <4>1. m = 0 /\ r = L /\ L = 3 + z
        <5>1. m = 0 /\ r = 3 + z
          BY <1>5, <3>2
        <5>2. ~(r + 3 <= L)
          <6>1. z = n \/ z = n - 1
            BY <1>3
          <6> QED BY <1>8, <1>11, <5>1, <6>1
        <5> QED BY <1>6, <5>1, <5>2
      <4> SUFFICES ASSUME NEW k \in Marks(buf, 0)
                   PROVE  /\ k - m <= 3
                          /\ k + 3 <= L /\ IsHeader(buf[k + 3]) =>
                               k = m /\ L - m = 3 + Size(buf[k + 3].id)
        BY DEF RestOf
      <4>2. k \in Nat /\ k + 2 <= L
        BY <1>1, MarksAre
      <4>3. (k <= 3 /\ k + 2 <= r) \/ k = r \/ k = r + 3
        BY <1>4 DEF Behinds
      <4>4. k <= 3 /\ k # r
        BY <1>1, <4>1, <4>2, <4>3
      <4>5. ASSUME k + 3 <= L, IsHeader(buf[k + 3])
            PROVE k = m /\ L - m = 3 + Size(buf[k + 3].id)
        <5>1. k = 0 /\ r = 3 + Size(buf[k + 3].id)
          BY <1>4, <4>4, <4>5 DEF Behinds
        <5> QED BY <1>1, <4>1, <5>1
      <4> QED BY <4>1, <4>2, <4>4, <4>5
    <3> QED BY <3>1, <3>2
  <2>3. L - m < Total /\ m < L
    <3>1. n + 3 <= Total /\ Total \in Nat
      <4>1. n \in Nat /\ n <= Max(Lens)
        BY <1>3
      <4> QED BY <4>1, Sizes, Longest
    <3>2. L - m < n + 3 /\ m < L
      BY <1>8, <1>11
    <3> QED BY <1>11, <3>1, <3>2
  <2> QED BY <1>1, <2>1, <2>2, <2>3, RestsRead
<1>9. CASE n + m + 3 <= L /\ ~Matches(m + 3, i)
  <2>1. ~(n + m + 3 > L) /\ ~DataCrcOk(h, m, n)
    BY <1>11, <1>7, <1>9
  <2>2. Rejects
    BY <1>1, <1>3, <2>1 DEF Turn, n, h
  <2>3. /\ at' = "search" /\ handed' = handed /\ buf' = buf
        /\ procPt' = procPt + 2 /\ procPt + 2 < L
    BY <1>1, <2>2 DEF Rejects, Reject, MagicSize
  <2>4. ASSUME log[i].len = 2, procPt + 2 # 2, DoubleMark(procPt + 2) PROVE FALSE
    <3>1. n = 2
      BY <1>3, <2>4
    <3>2. procPt # 0 /\ procPt # 1
      BY <1>1, <2>3, <2>4 DEF IInv, Places
    <3>3. m = r /\ L = r + 3 + z /\ procPt = 2 /\ z = 2
      <4>1. m # 0
        BY <1>1, <3>2
      <4>2. m = r /\ L = r + 3 + z
        BY <1>5, <4>1
      <4> QED BY <1>1, <1>3, <1>4, <3>1, <3>2, <4>2
    <3>4. PICK k \in Marks(buf, procPt + 2) :
            k + 5 <= L /\ buf[k + 4] = Magic1 /\ buf[k + 5] = Magic2
      BY <2>4 DEF DoubleMark
    <3>5. k \in Nat /\ k >= 4 /\ k \in Marks(buf, 0)
      BY <1>1, <3>3, <3>4, MarksAre
    <3>6. k = r
      <4>1. (k <= 3 /\ k + 2 <= r) \/ k = r \/ k = r + 3
        BY <1>4, <3>5 DEF Behinds
      <4> QED BY <1>1, <1>4, <3>3, <3>4, <3>5, <4>1
    <3>7. Matches(m + 3, i)
      <4>1. Body(i, 2)[1] = Magic1 /\ Body(i, 2)[2] = Magic2
        BY <1>3, BodyOfTwo
      <4>2. buf[m + 3 + 1] = Magic1 /\ buf[m + 3 + 2] = Magic2
        <5>1. m + 3 + 1 = k + 4 /\ m + 3 + 2 = k + 5
          BY <3>3, <3>5, <3>6
        <5> QED BY <3>4, <5>1
      <4>3. \A j \in 1 .. 2 : buf[m + 3 + j] = Body(i, 2)[j]
        BY <4>1, <4>2
      <4>4. m + 3 + 2 <= L
        BY <3>4, <3>3, <3>6, <3>5
      <4> QED BY <2>4, <4>3, <4>4 DEF Matches
    <3> QED BY <1>9, <3>7
  <2>5. log[i].kind \in {"body", "cut"}
    BY <1>3, <1>9
  <2> QED BY <2>3, <2>4, <2>5 DEF PassesOver, i, h
<1>10. CASE n + m + 3 <= L /\ Matches(m + 3, i)
  <2>1. ~(n + m + 3 > L) /\ DataCrcOk(h, m, n) /\ log[i].kind = "whole" /\ z = n
    <3>1. log[i].kind = "whole"
      BY <1>3, <1>10
    <3>2. z = n
      BY <1>3, <3>1
    <3>3. ~(n + m + 3 > L)
      BY <1>10, <1>11
    <3> QED BY <1>7, <1>10, <3>1, <3>2, <3>3
  <2>2. Hands(m, h)
    BY <1>1, <1>3, <2>1 DEF Turn, n, h
  <2> DEFINE pt == m + n + 3
  <2>3. pt \in Nat /\ pt <= L /\ pt > 0 /\ pt >= m + 3
    BY <1>11, <1>10
  <2>4. /\ Move(pt, pt) /\ at' = "idle"
        /\ handed' = Append(handed, [id |-> i, from |-> peer])
    BY <2>2 DEF Hands, n, i
  <2>5. CASE pt = L
    <3>1. buf' = buf /\ procPt' = L
      BY <2>4, <2>5 DEF Move
    <3> QED BY <1>1, <1>2, <2>1, <2>4, <3>1 DEF HandsUp, i, h
  <2>6. CASE pt # L
    <3>1. pt = r
      BY <1>11, <1>5, <2>1, <2>6
    <3>2. RestOf(pt)
      BY <1>4, <2>3, <3>1, RestSecond
    <3>3. Suffix(pt) /\ procPt' = 0
      <4> HIDE DEF pt
      <4> QED BY <1>1, <2>3, <2>4, <2>6, Moves
    <3>4. pt \in m + 3 .. L
      BY <1>1, <2>3
    <3> HIDE DEF pt
    <3> QED BY <1>1, <1>2, <2>1, <2>4, <3>2, <3>3, <3>4 DEF HandsUp, i, h
  <2> QED BY <2>5, <2>6
<1>12. n + m + 3 > L \/ n + m + 3 <= L
  BY <1>11
<1> QED BY <1>8, <1>9, <1>10, <1>12

\* A header that is not valid: search_header names a position behind it that
\* nothing can be read from.
LEMMA TurnOnWrong ==
  ASSUME IInv, at = "search", procPt < Len(buf), buf # << >>,
         NEW m \in Marks(buf, procPt), procPt + m + 3 <= Len(buf),
         ~ValidHead(buf[m + 3]), head' = buf[m + 3],
         Turn(Len(buf) - 2 - procPt, buf[m + 3])
  PROVE  ReadsOn \/ PassesOver
<1> DEFINE L == Len(buf)
           h == buf[m + 3]
           i == h.id
           n == PackageLen(h)
           pt == L - 2 - procPt
<1>1. /\ L \in Nat /\ procPt \in Nat /\ m \in Nat /\ procPt <= m /\ m + 3 <= L
      /\ m \in Marks(buf, 0)
      /\ m + 3 \in 1 .. L
      /\ pt \in Nat /\ pt > 0 /\ pt < L /\ ~(pt >= L)
  <2>1. L \in Nat /\ procPt \in Nat
    BY Facts
  <2>2. m \in Nat /\ procPt <= m /\ m + 2 <= L /\ buf[m + 1] = Magic1 /\ buf[m + 2] = Magic2
    BY <2>1, MarksAre
  <2>3. m \in Marks(buf, 0)
    BY <2>1, <2>2, MarksAre
  <2> QED BY <2>1, <2>2, <2>3
<1>5. /\ L \in Nat /\ procPt \in Nat /\ m \in Nat /\ procPt <= m
      /\ procPt + m + 3 <= L
  BY <1>1
<1>2. CASE procPt = 0
  <2>1. pt + 3 > L /\ L - pt < Total /\ pt + 2 = L /\ procPt <= pt
    BY <1>1, <1>2, Sizes
  <2>2. Rests(pt)
    BY <1>1, <2>1 DEF Turn
  <2>3. RestOf(pt)
    <3>1. ASSUME NEW k \in Marks(buf, 0), k >= pt PROVE k = pt
      <4>1. k \in Nat /\ k + 2 <= L
        BY <1>1, MarksAre
      <4> QED BY <1>1, <2>1, <3>1, <4>1
    <3>2. pt - pt <= 3 /\ ~(pt + 3 <= L)
      BY <1>1, <2>1
    <3> HIDE DEF pt
    <3> QED BY <3>1, <3>2 DEF RestOf
  <2> HIDE DEF pt
  <2> QED BY <1>1, <2>1, <2>2, <2>3, RestsRead
<1>3. CASE procPt > 0 /\ ~IsHeader(h)
  <2>1. ~(pt + 3 > L) /\ procPt + 2 < L
    BY <1>1, <1>3
  <2>2. n > Max(Lens) /\ ~(n <= Max(Lens))
    BY <1>3, Longest, Sizes DEF PackageLen, IsHeader
  <2>3. Rejects
    <3> HIDE DEF pt, n
    <3> QED BY <1>1, <2>1, <2>2 DEF Turn, pt, n
  <2> QED BY <1>3, <2>1, <2>3 DEF PassesOver, Rejects, Reject, MagicSize
<1>4. CASE procPt > 0 /\ IsHeader(h)
  <2>1. /\ i \in 1 .. read /\ n = log[i].len /\ n \in Nat /\ n <= Max(Lens)
        /\ log[i].kind = "head" /\ Size(i) = n
    <3>1. i \in 1 .. read
      BY <1>1, <1>4, HeaderOf
    <3>2. n = log[i].len /\ n \in Nat /\ n <= Max(Lens)
      BY <1>4, <3>1, LengthOf
    <3>3. h.pos # 1
      BY <1>4 DEF ValidHead, IsHeader
    <3>4. log[i].kind = "head"
      BY <1>1, <1>4, <3>3, HeaderOf
    <3> QED BY <3>1, <3>2, <3>4 DEF Size
  <2>2. PICK r \in 0 .. L : Behinds(r)
    BY DEF IInv, Places
  <2>3. m = r /\ L = r + 3 + n
    <3>1. (m = 0 /\ r = 3 + Size(i)) \/ (m = r /\ L = r + 3 + Size(i))
      BY <1>1, <1>4, <2>2 DEF Behinds
    <3>2. m # 0
      BY <1>1, <1>4
    <3> QED BY <2>1, <3>1, <3>2
  <2> HIDE DEF n, i, h
  <2>8. n \in Nat /\ n <= Max(Lens)
    BY <2>1
  <2>4. procPt <= n /\ n + pt + 3 > L /\ r \in Nat
    <3>1. r \in Nat
      BY <1>5, <2>2
    <3>2. n \in Nat
      BY <2>1
    <3>3. procPt + m <= m + n
      BY <1>5, <2>3, <3>2
    <3>4. procPt <= n
      BY <1>5, <3>2, <3>3
    <3>5. n + pt + 3 > L
      BY <1>5, <3>2, <3>4
    <3> QED BY <3>1, <3>4, <3>5
  <2>5. Rests(pt)
    <3>1. ~(pt >= L) /\ (pt + 3 > L \/ n + pt + 3 > L)
      BY <1>1, <2>4
    <3> HIDE DEF pt
    <3> QED BY <1>1, <2>1, <3>1 DEF Turn, pt, n, h
  <2>6. RestOf(pt)
    <3> SUFFICES ASSUME NEW k \in Marks(buf, 0), k >= pt
                 PROVE  k - pt <= 3 /\ (k + 3 <= L => ~IsHeader(buf[k + 3]))
      BY DEF RestOf
    <3>1. k \in Nat /\ k + 2 <= L
      BY <1>1, MarksAre
    <3>2. /\ (k <= 3 /\ k + 2 <= r) \/ k = r \/ k = r + 3
          /\ k + 3 <= L /\ IsHeader(buf[k + 3]) => k = 0 \/ k = r
      BY <2>2 DEF Behinds
    <3>3. pt = r + 1 + n - procPt
      BY <1>5, <2>8, <2>3, <2>4
    <3>4. k > r
      BY <1>5, <2>8, <2>4, <3>1, <3>3
    <3>5. k = r + 3 /\ k # 0 /\ k # r
      BY <2>4, <3>1, <3>2, <3>4
    <3>6. k - pt <= 3
      BY <1>5, <2>8, <2>4, <3>3, <3>5
    <3> QED BY <3>2, <3>5, <3>6
  <2>7. L - pt < Total
    <3>1. n + 3 <= Total /\ Total \in Nat
      BY <2>8, Sizes, Longest
    <3>2. L - pt = procPt + 2
      BY <1>1
    <3> QED BY <1>5, <2>8, <2>4, <3>1, <3>2
  <2>9. procPt <= pt
    BY <1>5, <2>3, <2>4, <2>8
  <2> HIDE DEF pt
  <2> QED BY <1>1, <2>5, <2>6, <2>7, <2>9, RestsRead
<1> QED BY <1>1, <1>2, <1>3, <1>4

\* One turn of SearchFrame reads on, passes over two cells or hands a frame up.
LEMMA SearchSteps ==
  ASSUME IInv, SearchFrame
  PROVE  /\ UNCHANGED <<socket, log, read, peer, unheard>> /\ at = "search"
         /\ head' \in Cell /\ (IsHeader(head') => head'.id \in 1 .. read)
         /\ ReadsOn \/ PassesOver \/ HandsUp
<1>1. UNCHANGED <<socket, log, read, peer, unheard>> /\ at = "search"
  BY TurnIs
<1>2. head \in Cell /\ (IsHeader(head) => head.id \in 1 .. read)
  BY DEF IInv, Typed
<1>3. CASE buf = << >>
  <2>1. head' = head /\ Drops
    BY <1>3, TurnIs
  <2>2. ReadsOn
    BY <2>1, DropsRead
  <2> QED BY <1>1, <1>2, <2>1, <2>2
<1>4. CASE buf # << >>
  <2>1. PICK s : /\ s = search_header(buf, procPt, head)
                 /\ head' = s.head /\ Turn(s.at, s.head)
    BY <1>4, TurnIs
  <2>2. CASE procPt = Len(buf) /\ s.at >= Len(buf) /\ s.head = head
    <3>1. ReadsOn
      BY <1>4, <2>1, <2>2, TurnOnNothing
    <3> QED BY <1>1, <1>2, <2>1, <2>2, <3>1
  <2>3. CASE /\ procPt < Len(buf) /\ Marks(buf, procPt) = {}
             /\ s.at = Len(buf) - 1 /\ s.head = head
    <3>1. ReadsOn
      BY <1>4, <2>1, <2>3, TurnOnNothing
    <3> QED BY <1>1, <1>2, <2>1, <2>3, <3>1
  <2>4. ASSUME procPt < Len(buf), NEW m \in Marks(buf, procPt),
               \A k \in Marks(buf, procPt) : m <= k,
               procPt + m + 3 > Len(buf), s.at = m, s.head = head
        PROVE  head' = head /\ (ReadsOn \/ PassesOver)
    <3>1. head' = head /\ Turn(m, head)
      BY <2>1, <2>4
    <3>2. ReadsOn \/ PassesOver
      BY <1>1, <1>4, <2>4, <3>1, TurnOnStale
    <3> QED BY <3>1, <3>2
  <2>5. ASSUME procPt < Len(buf), NEW m \in Marks(buf, procPt),
               procPt + m + 3 <= Len(buf), s.head = buf[m + 3],
               s.at = IF ValidHead(buf[m + 3]) THEN m ELSE Len(buf) - 2 - procPt
        PROVE  /\ \E p \in 1 .. Len(buf) : head' = buf[p]
               /\ ReadsOn \/ PassesOver \/ HandsUp
    <3>1. m + 3 \in 1 .. Len(buf)
      BY <2>5, Facts, MarksAre
    <3>2. head' = buf[m + 3]
      BY <2>1, <2>5
    <3>3. CASE ValidHead(buf[m + 3])
      <4>1. Turn(m, buf[m + 3])
        BY <2>1, <2>5, <3>3
      <4>2. ReadsOn \/ PassesOver \/ HandsUp
        BY <1>1, <1>4, <2>5, <3>2, <3>3, <4>1, TurnOnHeader
      <4> QED BY <3>1, <3>2, <4>2
    <3>4. CASE ~ValidHead(buf[m + 3])
      <4>1. Turn(Len(buf) - 2 - procPt, buf[m + 3])
        BY <2>1, <2>5, <3>4
      <4>2. ReadsOn \/ PassesOver
        BY <1>1, <1>4, <2>5, <3>2, <3>4, <4>1, TurnOnWrong
      <4> QED BY <3>1, <3>2, <4>2
    <3> QED BY <3>3, <3>4
  <2>6. \A p \in 1 .. Len(buf) :
          buf[p] \in Cell /\ (IsHeader(buf[p]) => buf[p].id \in 1 .. read)
    BY Facts, HeaderOf
  <2>7. \/ procPt = Len(buf) /\ s.at >= Len(buf) /\ s.head = head
        \/ /\ procPt < Len(buf) /\ Marks(buf, procPt) = {}
           /\ s.at = Len(buf) - 1 /\ s.head = head
        \/ /\ procPt < Len(buf)
           /\ \E m \in Marks(buf, procPt) :
                /\ \A k \in Marks(buf, procPt) : m <= k
                /\ \/ procPt + m + 3 > Len(buf) /\ s.at = m /\ s.head = head
                   \/ /\ procPt + m + 3 <= Len(buf) /\ s.head = buf[m + 3]
                      /\ s.at = IF ValidHead(buf[m + 3]) THEN m ELSE Len(buf) - 2 - procPt
    BY <1>4, <2>1, Found
  <2>8. CASE /\ procPt < Len(buf)
             /\ \E m \in Marks(buf, procPt) :
                  /\ \A k \in Marks(buf, procPt) : m <= k
                  /\ \/ procPt + m + 3 > Len(buf) /\ s.at = m /\ s.head = head
                     \/ /\ procPt + m + 3 <= Len(buf) /\ s.head = buf[m + 3]
                        /\ s.at = IF ValidHead(buf[m + 3]) THEN m ELSE Len(buf) - 2 - procPt
    <3>1. PICK m \in Marks(buf, procPt) :
                  /\ \A k \in Marks(buf, procPt) : m <= k
                  /\ \/ procPt + m + 3 > Len(buf) /\ s.at = m /\ s.head = head
                     \/ /\ procPt + m + 3 <= Len(buf) /\ s.head = buf[m + 3]
                        /\ s.at = IF ValidHead(buf[m + 3]) THEN m ELSE Len(buf) - 2 - procPt
      BY <2>8
    <3>2. CASE procPt + m + 3 > Len(buf) /\ s.at = m /\ s.head = head
      <4>1. head' = head /\ (ReadsOn \/ PassesOver)
        BY <2>4, <2>8, <3>1, <3>2
      <4> QED BY <1>1, <1>2, <4>1
    <3>3. CASE ~(procPt + m + 3 > Len(buf) /\ s.at = m /\ s.head = head)
      <4>1. /\ \E p \in 1 .. Len(buf) : head' = buf[p]
            /\ ReadsOn \/ PassesOver \/ HandsUp
        BY <2>5, <2>8, <3>1, <3>3
      <4> QED BY <1>1, <2>6, <4>1
    <3> QED BY <3>2, <3>3
  <2> QED BY <2>2, <2>3, <2>7, <2>8
<1> QED BY <1>3, <1>4

\* A whole frame alone in the buffer is handed up at once.
LEMMA AloneIsHanded ==
  ASSUME IInv, SearchFrame, NEW i \in 1 .. read, log[i].kind = "whole",
         procPt = 0, buf = Cells(i, log[i])
  PROVE  handed' = Append(handed, [id |-> i, from |-> peer])
<1> DEFINE n == log[i].len
           h == buf[3]
<1>1. /\ i \in Nat /\ log[i] \in Datagrams /\ n \in Nat /\ n <= Max(Lens)
      /\ SizeOf(log[i]) = n /\ log[i].kind \in Framed
  BY Facts, DatagramIs DEF SizeOf, Framed
<1>2. /\ Len(buf) = 3 + n /\ buf[1] = Magic1 /\ buf[2] = Magic2
      /\ IsHeader(h) /\ h.id = i /\ h.pos = 1
      /\ \A k \in 1 .. n : buf[3 + k] = Body(i, n)[k]
  <2> DEFINE d == log[i]
  <2>1. /\ Len(Cells(i, d)) = 3 + SizeOf(d)
        /\ Cells(i, d)[1] = Magic1 /\ Cells(i, d)[2] = Magic2
        /\ IsHeader(Cells(i, d)[3]) /\ Cells(i, d)[3].id = i
        /\ Cells(i, d)[3].pos = IF d.kind = "head" THEN 0 ELSE 1
        /\ \A k \in 1 .. SizeOf(d) :
             Cells(i, d)[3 + k] = IF d.kind = "body" /\ k = d.len THEN Noise
                                  ELSE Body(i, d.len)[k]
    <3>1. i \in Nat /\ d \in Datagrams /\ d.kind \in Framed
      BY <1>1
    <3> HIDE DEF d
    <3> QED BY <3>1, CellsAre, SMTT(30)
  <2>2. d.kind # "head" /\ d.kind # "body"
    OBVIOUS
  <2> QED BY <1>1, <2>1, <2>2
<1>3. buf # << >> /\ Len(buf) \in Nat /\ Len(buf) >= 3
  BY <1>1, <1>2, Facts
<1>4. PICK s : /\ s = search_header(buf, procPt, head)
               /\ head' = s.head /\ Turn(s.at, s.head)
  BY <1>3, TurnIs
<1>5. 0 \in Marks(buf, 0)
  BY <1>2, <1>3, MarksAre
<1>6. s.at = 0 /\ s.head = h
  <2>1. \/ procPt = Len(buf) /\ s.at >= Len(buf) /\ s.head = head
        \/ /\ procPt < Len(buf) /\ Marks(buf, procPt) = {}
           /\ s.at = Len(buf) - 1 /\ s.head = head
        \/ /\ procPt < Len(buf)
           /\ \E m \in Marks(buf, procPt) :
                /\ \A k \in Marks(buf, procPt) : m <= k
                /\ \/ procPt + m + 3 > Len(buf) /\ s.at = m /\ s.head = head
                   \/ /\ procPt + m + 3 <= Len(buf) /\ s.head = buf[m + 3]
                      /\ s.at = IF ValidHead(buf[m + 3]) THEN m ELSE Len(buf) - 2 - procPt
    BY <1>3, <1>4, Found
  <2>2. PICK m \in Marks(buf, 0) :
                /\ \A k \in Marks(buf, 0) : m <= k
                /\ \/ 0 + m + 3 > Len(buf) /\ s.at = m /\ s.head = head
                   \/ /\ 0 + m + 3 <= Len(buf) /\ s.head = buf[m + 3]
                      /\ s.at = IF ValidHead(buf[m + 3]) THEN m ELSE Len(buf) - 2 - 0
    BY <1>3, <1>5, <2>1
  <2>3. m = 0
    <3>1. m \in Nat /\ m <= 0
      BY <1>3, <1>5, <2>2, MarksAre
    <3> QED BY <3>1
  <2>4. s.head = buf[0 + 3] /\ s.at = IF ValidHead(buf[0 + 3]) THEN 0 ELSE Len(buf) - 2 - 0
    BY <1>3, <2>2, <2>3
  <2>5. ValidHead(h) /\ 0 + 3 = 3
    BY <1>2 DEF ValidHead, IsHeader
  <2> QED BY <2>4, <2>5
<1>7. PackageLen(h) = n
  BY <1>2, LengthOf
<1>8. Matches(0 + 3, i)
  BY <1>1, <1>2 DEF Matches
<1>9. DataCrcOk(h, 0, n)
  BY <1>1, <1>2, <1>7, <1>8, CrcIsMatch
<1>10. Hands(0, h)
  <2>1. ~(0 >= Len(buf)) /\ ~(0 + 3 > Len(buf)) /\ ~(n + 0 + 3 > Len(buf)) /\ ~(n > Max(Lens))
    BY <1>1, <1>2, <1>3, Longest
  <2>2. Turn(0, h)
    BY <1>4, <1>6
  <2> HIDE DEF n, h
  <2> QED BY <1>3, <1>7, <1>9, <2>1, <2>2 DEF Turn
<1> QED BY <1>2, <1>10 DEF Hands

----------------------------------------------------------------------------
(* What a suffix of the buffer keeps *)

LEMMA SuffixAt ==
  ASSUME IInv, NEW pt \in 0 .. Len(buf), Suffix(pt), NEW p \in 1 .. Len(buf')
  PROVE  pt + p \in 1 .. Len(buf) /\ buf'[p] = buf[pt + p] /\ pt \in Nat /\ p \in Nat
         /\ Len(buf') \in Nat /\ Len(buf') = Len(buf) - pt
<1>1. Len(buf) \in Nat /\ Len(buf') = Len(buf) - pt
  BY Facts DEF Suffix
<1>2. p \in 1 .. Len(buf) - pt
  BY <1>1
<1> QED BY <1>1, <1>2 DEF Suffix

\* What HeadersAre and HeadersFrom say of the next state, for a header at p.
SizeNext(i) == IF log'[i].kind = "cut" THEN log'[i].len - 1 ELSE log'[i].len
MatchesNext(p, i) ==
  /\ p + log'[i].len <= Len(buf')
  /\ \A k \in 1 .. log'[i].len : buf'[p + k] = Body(i, log'[i].len)[k]
BehindNext(i) ==
  \E j \in 1 .. i - 1 :
    /\ log'[j].from.port # log'[i].from.port
    /\ \A k \in j .. i - 1 : log'[k].from.ip = log'[i].from.ip \/ log'[k].kind = "empty"
HeaderNext(p, i) ==
  /\ i \in 1 .. read' /\ p + SizeNext(i) <= Len(buf')
  /\ \/ log'[i].kind = "whole" /\ buf'[p].pos = 1 /\ MatchesNext(p, i)
     \/ log'[i].kind = "head" /\ buf'[p].pos = 0 /\ MatchesNext(p, i)
     \/ log'[i].kind \in {"body", "cut"} /\ buf'[p].pos = 1 /\ ~MatchesNext(p, i)
  /\ log'[i].from.ip = peer'.ip /\ (log'[i].from = peer' \/ BehindNext(i))

LEMMA HeadersNext ==
  ASSUME \A p \in 1 .. Len(buf') : IsHeader(buf'[p]) => HeaderNext(p, buf'[p].id)
  PROVE  HeadersAre' /\ HeadersFrom'
<1>1. HeadersAre'
  BY DEF HeadersAre, HeaderNext, Size, SizeNext, Matches, MatchesNext, IsHeader
<1>2. HeadersFrom'
  BY DEF HeadersFrom, HeaderNext, Behind, BehindNext, IsHeader
<1> QED BY <1>1, <1>2

LEMMA SuffixMatches ==
  ASSUME IInv, NEW pt \in 0 .. Len(buf), Suffix(pt), UNCHANGED log,
         NEW p \in 1 .. Len(buf'), NEW i, log[i].len \in Nat
  PROVE  MatchesNext(p, i) <=> Matches(pt + p, i)
<1> DEFINE n == log[i].len
<1>1. /\ Len(buf) \in Nat /\ Len(buf') = Len(buf) - pt /\ pt \in Nat /\ p \in Nat /\ n \in Nat
      /\ p <= Len(buf')
  <2>1. /\ pt \in Nat /\ p \in Nat /\ Len(buf') \in Nat /\ Len(buf') = Len(buf) - pt
    BY SuffixAt
  <2>2. Len(buf) \in Nat
    BY Facts
  <2> QED BY <2>1, <2>2
<1>2. MatchesNext(p, i) <=> /\ p + n <= Len(buf')
                            /\ \A k \in 1 .. n : buf'[p + k] = Body(i, n)[k]
  BY DEF MatchesNext
<1>3. Matches(pt + p, i) <=> /\ pt + p + n <= Len(buf)
                             /\ \A k \in 1 .. n : buf[pt + p + k] = Body(i, n)[k]
  BY DEF Matches
<1> HIDE DEF n
<1>4. p + n <= Len(buf') <=> pt + p + n <= Len(buf)
  BY <1>1
<1>5. ASSUME p + n <= Len(buf'), NEW k \in 1 .. n PROVE buf'[p + k] = buf[pt + p + k]
  <2>1. p + k \in 1 .. Len(buf') /\ pt + (p + k) = pt + p + k
    BY <1>1, <1>5
  <2> QED BY <2>1, SuffixAt
<1> QED BY <1>2, <1>3, <1>4, <1>5

LEMMA SuffixHeaders ==
  ASSUME IInv, NEW pt \in 0 .. Len(buf), Suffix(pt), UNCHANGED <<log, read, peer>>
  PROVE  HeadersAre' /\ HeadersFrom'
<1> SUFFICES ASSUME NEW p \in 1 .. Len(buf'), IsHeader(buf'[p])
             PROVE  HeaderNext(p, buf'[p].id)
  BY HeadersNext
<1> DEFINE q == pt + p
           i == buf[q].id
<1>1. /\ q \in 1 .. Len(buf) /\ buf'[p] = buf[q] /\ IsHeader(buf[q])
      /\ Len(buf') = Len(buf) - pt /\ pt \in Nat /\ p \in Nat /\ Len(buf) \in Nat
  BY SuffixAt, Facts
<1>2. MatchesNext(p, i) <=> Matches(q, i)
  <2>1. log[i].len \in Nat
    <3> HIDE DEF q
    <3> QED BY <1>1, HeaderOf
  <2> HIDE DEF i
  <2> QED BY <2>1, SuffixMatches
<1> HIDE DEF q
<1>3. /\ i \in 1 .. read /\ q + Size(i) <= Len(buf) /\ Size(i) \in Nat
      /\ \/ log[i].kind = "whole" /\ buf[q].pos = 1 /\ Matches(q, i)
         \/ log[i].kind = "head" /\ buf[q].pos = 0 /\ Matches(q, i)
         \/ log[i].kind \in {"body", "cut"} /\ buf[q].pos = 1 /\ ~Matches(q, i)
  BY <1>1, HeaderOf
<1>4. log[i].from.ip = peer.ip /\ (log[i].from = peer \/ Behind(i))
  BY <1>1 DEF IInv, HeadersFrom
<1>5. Size(i) = SizeNext(i) /\ (Behind(i) <=> BehindNext(i))
  BY DEF Size, SizeNext, Behind, BehindNext
<1>6. p + Size(i) <= Len(buf')
  BY <1>1, <1>3 DEF q
<1>7. buf'[p].id = i
  BY <1>1
<1> HIDE DEF i
<1>8. HeaderNext(p, i)
  BY <1>1, <1>2, <1>3, <1>4, <1>5, <1>6 DEF HeaderNext
<1> QED BY <1>7, <1>8

LEMMA SuffixKeeps ==
  ASSUME IInv, NEW pt \in 0 .. Len(buf), Suffix(pt), UNCHANGED <<log, read, peer>>
  PROVE  /\ HeadersAre' /\ HeadersFrom' /\ BodiesAre' /\ Increasing'
         /\ \A p \in 1 .. Len(buf') : buf'[p].id <= read'
<1>1. HeadersAre' /\ HeadersFrom'
  BY SuffixHeaders
<1>2. \A p \in 1 .. Len(buf') : pt + p \in 1 .. Len(buf) /\ buf'[p] = buf[pt + p] /\ p \in Nat
  BY SuffixAt
<1>3. BodiesAre'
  <2> SUFFICES ASSUME NEW p \in 1 .. Len(buf'), buf'[p].what = "body"
               PROVE  /\ buf'[p].id \in 1 .. read
                      /\ log[buf'[p].id].kind \in {"body", "cut"} =>
                           buf'[p].pos < log[buf'[p].id].len
    BY DEF BodiesAre
  <2> QED BY <1>2 DEF IInv, BodiesAre
<1>4. Increasing'
  <2> SUFFICES ASSUME NEW p \in 1 .. Len(buf'), NEW q \in 1 .. Len(buf'),
                      p < q, IsHeader(buf'[p]), IsHeader(buf'[q])
               PROVE  buf'[p].id < buf'[q].id
    BY DEF Increasing, IsHeader
  <2>1. pt + p < pt + q
    BY <1>2, Facts
  <2> QED BY <1>2, <2>1 DEF IInv, Increasing
<1>5. \A p \in 1 .. Len(buf') : buf'[p].id <= read'
  BY <1>2 DEF IInv, Typed
<1> QED BY <1>1, <1>3, <1>4, <1>5

\* The rest behind pt is the rest at the front of the buffer that is left.
LEMMA SuffixRests ==
  ASSUME IInv, NEW pt \in 0 .. Len(buf), Suffix(pt), UNCHANGED <<log, read, peer>>,
         RestOf(pt)
  PROVE  RestOf(0)'
<1>1. /\ Len(buf) \in Nat /\ pt \in Nat /\ Len(buf') = Len(buf) - pt /\ Len(buf') \in Nat
      /\ \A p \in 1 .. Len(buf') : pt + p \in 1 .. Len(buf) /\ buf'[p] = buf[pt + p]
  BY Facts, SuffixAt DEF Suffix
<1> SUFFICES ASSUME NEW m \in Marks(buf', 0)
             PROVE  /\ m - 0 <= 3
                    /\ m + 3 <= Len(buf') /\ IsHeader(buf'[m + 3]) =>
                         m = 0 /\ Len(buf') - 0 = 3 + SizeNext(buf'[m + 3].id)
  BY DEF RestOf, Size, SizeNext, IsHeader
<1> DEFINE k == pt + m
<1>2. /\ m \in Nat /\ m + 2 <= Len(buf') /\ buf'[m + 1] = Magic1 /\ buf'[m + 2] = Magic2
  BY <1>1 DEF Marks, MagicSize
<1>3. k \in Marks(buf, 0) /\ k >= pt
  <2>1. m + 1 \in 1 .. Len(buf') /\ m + 2 \in 1 .. Len(buf')
    BY <1>1, <1>2
  <2>2. k \in Nat /\ k + 2 <= Len(buf) /\ k + 1 = pt + (m + 1) /\ k + 2 = pt + (m + 2) /\ k >= pt
    BY <1>1, <1>2
  <2>3. buf[k + 1] = Magic1 /\ buf[k + 2] = Magic2
    BY <1>1, <1>2, <2>1, <2>2
  <2> HIDE DEF k
  <2>4. \A j : j \in Marks(buf, 0) <=>
               /\ j \in Nat /\ 0 <= j /\ j + 2 <= Len(buf)
               /\ buf[j + 1] = Magic1 /\ buf[j + 2] = Magic2
    BY <1>1, MarksAre
  <2>5. 0 <= k
    BY <2>2
  <2> QED BY <2>2, <2>3, <2>4, <2>5
<1>4. /\ k - pt <= 3
      /\ k + 3 <= Len(buf) /\ IsHeader(buf[k + 3]) =>
           k = pt /\ Len(buf) - pt = 3 + Size(buf[k + 3].id)
  BY <1>3 DEF RestOf
<1>5. m <= 3
  BY <1>1, <1>2, <1>4
<1>6. ASSUME m + 3 <= Len(buf'), IsHeader(buf'[m + 3])
      PROVE  m = 0 /\ Len(buf') = 3 + SizeNext(buf'[m + 3].id)
  <2>1. m + 3 \in 1 .. Len(buf') /\ k + 3 = pt + (m + 3) /\ k + 3 <= Len(buf)
    BY <1>1, <1>2, <1>6
  <2>2. buf'[m + 3] = buf[k + 3]
    BY <1>1, <2>1
  <2>3. k = pt /\ Len(buf) - pt = 3 + Size(buf[k + 3].id)
    BY <1>4, <1>6, <2>1, <2>2
  <2>4. Size(buf[k + 3].id) = SizeNext(buf[k + 3].id)
    BY DEF Size, SizeNext
  <2>5. m = 0
    BY <1>1, <1>2, <2>3
  <2> QED BY <1>1, <2>2, <2>3, <2>4, <2>5
<1> QED BY <1>1, <1>2, <1>5, <1>6

----------------------------------------------------------------------------
(* SearchFrame keeps IInv *)

\* The frames handed up stay, and a new one is a header's behind procPt.
LEMMA SearchHands ==
  ASSUME IInv, ReadsOn \/ PassesOver \/ HandsUp
  PROVE  /\ handed \in Seq(Frames) /\ handed' \in Seq(Frames)
         /\ Len(handed) \in Nat /\ Len(handed') \in Nat /\ Len(handed) <= Len(handed')
         /\ \A k \in 1 .. Len(handed) : handed'[k] = handed[k]
         /\ \A k \in 1 .. Len(handed') : k > Len(handed) =>
              /\ HandsUp /\ k = Len(handed) + 1 /\ Len(handed') = Len(handed) + 1
              /\ \E p \in procPt + 1 .. Len(buf) :
                   /\ IsHeader(buf[p]) /\ log[buf[p].id].kind = "whole"
                   /\ handed'[k].id = buf[p].id /\ handed'[k].from = peer
<1>1. handed \in Seq(Frames) /\ Len(handed) \in Nat
  BY LenProperties DEF IInv, Typed
<1>2. CASE ReadsOn \/ PassesOver
  <2>1. handed' = handed
    BY <1>2 DEF ReadsOn, PassesOver
  <2> QED BY <1>1, <2>1
<1>3. CASE HandsUp
  <2>1. PICK p \in procPt + 1 .. Len(buf) :
          /\ IsHeader(buf[p]) /\ log[buf[p].id].kind = "whole"
          /\ handed' = Append(handed, [id |-> buf[p].id, from |-> peer])
    BY <1>3 DEF HandsUp
  <2> DEFINE f == [id |-> buf[p].id, from |-> peer]
  <2>2. f \in Frames /\ f.id = buf[p].id /\ f.from = peer
    <3>1. p \in 1 .. Len(buf)
      BY Facts
    <3>2. buf[p].id \in Nat
      BY <2>1, <3>1, HeaderOf
    <3>3. peer \in Peers \cup {NoPeer}
      BY DEF IInv, TypeOK
    <3> QED BY <3>2, <3>3 DEF Frames
  <2>3. handed' = Append(handed, f)
    BY <2>1
  <2> HIDE DEF f
  <2>4. /\ handed' \in Seq(Frames) /\ Len(handed') = Len(handed) + 1
        /\ \A k \in 1 .. Len(handed) : handed'[k] = handed[k]
        /\ handed'[Len(handed) + 1] = f
    BY <1>1, <2>2, <2>3, AppendProperties
  <2>5. \A k \in 1 .. Len(handed') : k > Len(handed) => k = Len(handed) + 1
    BY <1>1, <2>4
  <2> QED BY <1>1, <1>3, <2>1, <2>2, <2>4, <2>5
<1> QED BY <1>2, <1>3

\* The buffer that a turn leaves is a suffix of the one it met.
LEMMA SearchSuffix ==
  ASSUME IInv, ReadsOn \/ PassesOver \/ HandsUp
  PROVE  /\ \E pt \in 0 .. Len(buf) : Suffix(pt)
         /\ procPt' \in 0 .. Len(buf')
         /\ ReadsOn => procPt' = 0 /\ Len(buf') < Total
<1>1. Len(buf) \in Nat /\ procPt \in Nat
  BY Facts
<1>2. CASE ReadsOn
  <2>1. PICK pt \in 0 .. Len(buf) : Suffix(pt) /\ Len(buf) - pt < Total
    BY <1>2 DEF ReadsOn
  <2>2. Len(buf') = Len(buf) - pt /\ procPt' = 0 /\ Len(buf') \in Nat
    BY <1>1, <1>2, <2>1 DEF ReadsOn, Suffix
  <2> QED BY <2>1, <2>2
<1>3. CASE ~ReadsOn /\ (buf' = buf /\ procPt' \in 0 .. Len(buf))
  <2>1. 0 \in 0 .. Len(buf) /\ Suffix(0)
    BY <1>1, <1>3, Stays
  <2> QED BY <1>3, <2>1
<1>4. CASE ~ReadsOn /\ PassesOver
  <2>1. buf' = buf /\ procPt' \in 0 .. Len(buf)
    BY <1>1, <1>4 DEF PassesOver
  <2> QED BY <1>3, <1>4, <2>1
<1>5. CASE ~ReadsOn /\ HandsUp
  <2>1. PICK p \in procPt + 1 .. Len(buf) :
          \/ buf' = buf /\ procPt' = Len(buf)
          \/ procPt' = 0 /\ \E pt \in p .. Len(buf) : Suffix(pt)
    BY <1>5 DEF HandsUp
  <2>2. CASE buf' = buf /\ procPt' = Len(buf)
    BY <1>1, <1>3, <1>5, <2>2
  <2>3. CASE procPt' = 0 /\ \E pt \in p .. Len(buf) : Suffix(pt)
    <3>1. PICK pt \in p .. Len(buf) : Suffix(pt)
      BY <2>3
    <3>2. pt \in 0 .. Len(buf)
      BY <1>1
    <3>3. Len(buf') \in Nat
      BY <1>1, <3>1, <3>2 DEF Suffix
    <3> QED BY <1>5, <2>3, <3>1, <3>2, <3>3
  <2> QED BY <2>1, <2>2, <2>3
<1> QED BY <1>2, <1>4, <1>5

LEMMA SearchTypes ==
  ASSUME IInv, SearchFrame
  PROVE  TypeOK' /\ Typed'
<1>1. /\ UNCHANGED <<socket, log, read, peer, unheard>> /\ at = "search"
      /\ head' \in Cell /\ (IsHeader(head') => head'.id \in 1 .. read)
      /\ ReadsOn \/ PassesOver \/ HandsUp
  BY SearchSteps
<1>2. /\ handed' \in Seq(Frames) /\ Len(handed) \in Nat
      /\ \A k \in 1 .. Len(handed) : handed'[k] = handed[k]
      /\ \A k \in 1 .. Len(handed') : k > Len(handed) =>
           \E p \in procPt + 1 .. Len(buf) : IsHeader(buf[p]) /\ handed'[k].id = buf[p].id
  BY <1>1, SearchHands
<1>3. /\ procPt' \in 0 .. Len(buf') /\ (ReadsOn => procPt' = 0 /\ Len(buf') < Total)
  BY <1>1, SearchSuffix
<1>4. PICK pt \in 0 .. Len(buf) : Suffix(pt)
  BY <1>1, SearchSuffix
<1>5. buf' \in Seq(Cell) /\ Len(buf') \in Nat /\ Len(buf') <= Len(buf)
  BY <1>4, Facts DEF Suffix
<1>6. \A p \in 1 .. Len(buf') : buf'[p].id <= read'
  BY <1>1, <1>4, SuffixKeeps
<1>7. Typed'
  <2>1. IsHeader(head)' = IsHeader(head')
    BY DEF IsHeader
  <2> QED BY <1>1, <1>2, <1>5, <1>6, <2>1 DEF Typed
<1>8. \A k \in 1 .. Len(handed') : handed'[k].id \in Ids
  <2> TAKE k \in 1 .. Len(handed')
  <2>1. Len(handed') \in Nat
    BY <1>2, LenProperties
  <2>2. CASE k <= Len(handed)
    <3>1. k \in 1 .. Len(handed)
      BY <1>2, <2>1, <2>2
    <3> QED BY <1>2, <3>1 DEF IInv, TypeOK
  <2>3. CASE k > Len(handed)
    <3>1. PICK p \in procPt + 1 .. Len(buf) : IsHeader(buf[p]) /\ handed'[k].id = buf[p].id
      BY <1>2, <2>3
    <3>2. p \in 1 .. Len(buf)
      BY Facts
    <3> QED BY <3>1, <3>2, HeaderOf DEF Ids
  <2> QED BY <1>2, <2>1, <2>2, <2>3
<1>9. TypeOK'
  <2>1. /\ socket' \in BOOLEAN /\ log' \in Seq(Datagrams) /\ Len(log') <= MaxLog
        /\ read' \in 0 .. Len(log') /\ unheard' \subseteq 0 .. Len(log')
    BY <1>1 DEF IInv, TypeOK
  <2>2. Len(buf') <= BufLen
    <3>1. Len(buf) <= BufLen /\ BufLen \in Nat /\ Len(buf) \in Nat
      BY Sizes, Facts DEF IInv, TypeOK
    <3> QED BY <1>5, <3>1
  <2>3. peer' \in Peers \cup {NoPeer} /\ (buf' # << >> => peer' # NoPeer)
    <3>1. buf' # << >> => Len(buf') # 0
      BY <1>5, EmptySeq
    <3>2. buf' # << >> => buf # << >>
      BY <1>5, <3>1, Facts
    <3> QED BY <1>1, <3>2 DEF IInv, TypeOK
  <2>4. /\ at' \in {"idle", "search", "read"}
        /\ at' = "read" => Len(buf') < Total /\ procPt' < Total
    <3>1. at' = "read" => ReadsOn
      BY <1>1 DEF PassesOver, HandsUp
    <3>2. at' \in {"idle", "search", "read"}
      BY <1>1 DEF ReadsOn, PassesOver, HandsUp
    <3>3. 0 < Total
      BY Sizes
    <3> QED BY <1>3, <3>1, <3>2, <3>3
  <2>5. \A k \in 1 .. Len(handed') : handed'[k].id \in Ids'
    BY <1>1, <1>8 DEF Ids
  <2> QED BY <1>3, <2>1, <2>2, <2>3, <2>4, <2>5 DEF TypeOK
<1> QED BY <1>7, <1>9

LEMMA SearchFresh ==
  ASSUME IInv, SearchFrame
  PROVE  Fresh'
<1>1. UNCHANGED <<socket, log, read, peer, unheard>> /\ (ReadsOn \/ PassesOver \/ HandsUp)
  BY SearchSteps
<1>2. /\ Len(handed) \in Nat /\ Len(handed') \in Nat /\ Len(handed) <= Len(handed')
      /\ \A k \in 1 .. Len(handed) : handed'[k] = handed[k]
      /\ \A k \in 1 .. Len(handed') : k > Len(handed) =>
           /\ HandsUp
           /\ \E p \in procPt + 1 .. Len(buf) : IsHeader(buf[p]) /\ handed'[k].id = buf[p].id
  BY <1>1, SearchHands
<1>3. Len(buf) \in Nat /\ procPt \in Nat
  BY Facts
<1>4. ASSUME NEW k \in 1 .. Len(handed')
      PROVE  k \in 1 .. Len(handed) \/ k > Len(handed)
  BY <1>2
<1>5. \A k \in 1 .. Len(handed') : handed'[k].id \in 1 .. read
  <2> TAKE k \in 1 .. Len(handed')
  <2>1. CASE k \in 1 .. Len(handed)
    BY <1>2, <2>1 DEF IInv, Fresh
  <2>2. CASE k > Len(handed)
    <3>1. PICK p \in procPt + 1 .. Len(buf) : IsHeader(buf[p]) /\ handed'[k].id = buf[p].id
      BY <1>2, <2>2
    <3>2. p \in 1 .. Len(buf)
      BY <1>3
    <3> QED BY <3>1, <3>2, HeaderOf
  <2> QED BY <1>4, <2>1, <2>2
\* Where the cells behind the new procPt were.
<1>6. ASSUME NEW p \in procPt' + 1 .. Len(buf')
      PROVE  \E q \in procPt + 1 .. Len(buf) :
               /\ buf'[p] = buf[q]
               /\ \A k \in 1 .. Len(handed') : k > Len(handed) =>
                    \E h \in 1 .. Len(buf) : h < q /\ IsHeader(buf[h]) /\ handed'[k].id = buf[h].id
  <2>1. CASE ~HandsUp /\ ReadsOn
    <3>1. PICK pt \in 0 .. Len(buf) : pt >= procPt /\ Suffix(pt) /\ procPt' = 0
      BY <2>1 DEF ReadsOn
    <3>2. p \in 1 .. Len(buf')
      BY <3>1
    <3>3. pt + p \in 1 .. Len(buf) /\ buf'[p] = buf[pt + p] /\ pt \in Nat /\ p \in Nat
      BY <3>1, <3>2, SuffixAt
    <3>4. pt + p \in procPt + 1 .. Len(buf)
      BY <1>3, <3>1, <3>2, <3>3
    <3> QED BY <1>2, <2>1, <3>3, <3>4
  <2>2. CASE ~HandsUp /\ PassesOver
    <3>1. buf' = buf /\ procPt' = procPt + 2
      BY <2>2 DEF PassesOver
    <3>2. p \in procPt + 1 .. Len(buf)
      BY <1>3, <3>1
    <3> QED BY <1>2, <2>2, <3>1, <3>2
  <2>3. CASE HandsUp
    <3>1. PICK h \in procPt + 1 .. Len(buf) :
            /\ IsHeader(buf[h])
            /\ handed' = Append(handed, [id |-> buf[h].id, from |-> peer])
            /\ \/ buf' = buf /\ procPt' = Len(buf)
               \/ procPt' = 0 /\ \E pt \in h .. Len(buf) : Suffix(pt)
      BY <2>3 DEF HandsUp
    <3>2. h \in 1 .. Len(buf) /\ h \in Nat
      BY <1>3
    <3>3. ~(procPt' = Len(buf) /\ buf' = buf)
      BY <1>3
    <3>4. PICK pt \in h .. Len(buf) : Suffix(pt)
      BY <3>1, <3>3
    <3>5. p \in 1 .. Len(buf') /\ pt \in 0 .. Len(buf)
      BY <1>3, <3>1, <3>3
    <3>6. pt + p \in 1 .. Len(buf) /\ buf'[p] = buf[pt + p] /\ pt \in Nat /\ p \in Nat
      BY <3>4, <3>5, SuffixAt
    <3>7. pt + p \in procPt + 1 .. Len(buf) /\ h < pt + p
      BY <1>3, <3>2, <3>5, <3>6
    <3>8. ASSUME NEW k \in 1 .. Len(handed'), k > Len(handed)
          PROVE  handed'[k].id = buf[h].id
      <4> DEFINE f == [id |-> buf[h].id, from |-> peer]
      <4>1. f \in Frames /\ f.id = buf[h].id
        <5>1. buf[h].id \in Nat
          BY <3>1, <3>2, HeaderOf
        <5>2. peer \in Peers \cup {NoPeer}
          BY DEF IInv, TypeOK
        <5> QED BY <5>1, <5>2 DEF Frames
      <4>2. handed' = Append(handed, f) /\ handed \in Seq(Frames)
        BY <3>1 DEF IInv, Typed
      <4> HIDE DEF f
      <4>3. Len(handed') = Len(handed) + 1 /\ handed'[Len(handed) + 1] = f
        BY <4>1, <4>2, AppendProperties
      <4>4. k = Len(handed) + 1
        BY <1>2, <3>8, <4>3
      <4> QED BY <4>1, <4>3, <4>4
    <3> QED BY <3>1, <3>2, <3>6, <3>7, <3>8
  <2> QED BY <1>1, <2>1, <2>2, <2>3
<1>7. ASSUME NEW k \in 1 .. Len(handed'), NEW p \in procPt' + 1 .. Len(buf'),
             IsHeader(buf'[p])
      PROVE  handed'[k].id < buf'[p].id
  <2>1. PICK q \in procPt + 1 .. Len(buf) :
               /\ buf'[p] = buf[q]
               /\ \A j \in 1 .. Len(handed') : j > Len(handed) =>
                    \E h \in 1 .. Len(buf) : h < q /\ IsHeader(buf[h]) /\ handed'[j].id = buf[h].id
    BY <1>6
  <2>2. q \in 1 .. Len(buf) /\ IsHeader(buf[q])
    BY <1>3, <1>7, <2>1
  <2>3. CASE k \in 1 .. Len(handed)
    BY <1>2, <2>1, <2>2, <2>3 DEF IInv, Fresh
  <2>4. CASE k > Len(handed)
    BY <2>1, <2>2, <2>4 DEF IInv, Increasing
  <2> QED BY <1>4, <2>3, <2>4
<1>8. \A p \in procPt' + 1 .. Len(buf') : IsHeader(buf'[p]) <=> buf'[p].what = "header"
  BY DEF IsHeader
<1> QED BY <1>1, <1>5, <1>7, <1>8 DEF Fresh, IsHeader

LEMMA SearchPlaces ==
  ASSUME IInv, SearchFrame
  PROVE  Origin' /\ Places' /\ Stale'
<1>1. /\ UNCHANGED <<socket, log, read, peer, unheard>> /\ at = "search"
      /\ ReadsOn \/ PassesOver \/ HandsUp
  BY SearchSteps
<1>2. Len(buf) \in Nat /\ procPt \in Nat /\ socket
  BY <1>1, Facts DEF IInv, Places
<1>3. buf' # << >> => buf # << >>
  <2>1. PICK pt \in 0 .. Len(buf) : Suffix(pt)
    BY <1>1, SearchSuffix
  <2>2. buf' \in Seq(Cell) /\ Len(buf') = Len(buf) - pt /\ Len(buf') \in Nat
    BY <1>2, <2>1 DEF Suffix
  <2>3. buf' # << >> => Len(buf') # 0
    BY <2>2, EmptySeq
  <2>4. buf' # << >> => Len(buf) # 0
    BY <1>2, <2>2, <2>3
  <2> QED BY <2>4, Facts
<1>4. Origin'
  BY <1>1, <1>3 DEF IInv, Origin
<1>5. CASE ReadsOn
  <2>1. PICK pt \in 0 .. Len(buf) : Suffix(pt) /\ RestOf(pt)
    BY <1>5 DEF ReadsOn
  <2>2. RestOf(0)'
    BY <1>1, <2>1, SuffixRests
  <2>3. at' = "read" /\ procPt' = 0
    BY <1>5 DEF ReadsOn
  <2> QED BY <1>1, <1>2, <1>4, <2>2, <2>3 DEF Places, Stale
<1>6. CASE PassesOver
  <2>1. /\ at' = "search" /\ procPt' = procPt + 2 /\ buf' = buf /\ procPt < Len(buf)
        /\ procPt' \notin {1, 3}
    <3>1. at' = "search" /\ procPt' = procPt + 2 /\ buf' = buf /\ procPt < Len(buf)
      BY <1>2, <1>6 DEF PassesOver
    <3>2. procPt \notin {1, 3}
      BY <1>1, <3>1 DEF IInv, Places
    <3> QED BY <1>2, <3>1, <3>2
  <2>2. PICK r \in 0 .. Len(buf) : Behinds(r)
    BY <1>1, <2>1 DEF IInv, Places
  <2>3. Behinds(r)'
    BY <1>1, <2>1, <2>2 DEF Behinds, Marks, Size, IsHeader
  <2>4. Places'
    BY <1>1, <1>2, <2>1, <2>3 DEF Places
  <2>5. Stale'
    <3>1. DoubleMark(procPt)' <=> DoubleMark(procPt + 2)
      BY <2>1 DEF DoubleMark, Marks
    <3>2. IsHeader(head') => /\ log[head'.id].kind \in {"body", "cut"}
                             /\ log[head'.id].len = 2 => procPt + 2 = 2 \/ ~DoubleMark(procPt + 2)
      BY <1>6 DEF PassesOver
    <3> QED BY <1>1, <2>1, <3>1, <3>2 DEF Stale, IsHeader
  <2> QED BY <1>4, <2>4, <2>5
<1>7. CASE HandsUp
  <2>1. PICK p \in procPt + 1 .. Len(buf) :
          \/ buf' = buf /\ procPt' = Len(buf)
          \/ procPt' = 0 /\ \E pt \in p .. Len(buf) : Suffix(pt) /\ RestOf(pt)
    BY <1>7 DEF HandsUp
  <2>2. at' = "idle"
    BY <1>7 DEF HandsUp
  <2>3. procPt' = 0 => RestOf(0)'
    <3> SUFFICES ASSUME procPt' = 0 PROVE RestOf(0)'
      OBVIOUS
    <3>1. PICK pt \in p .. Len(buf) : Suffix(pt) /\ RestOf(pt)
      BY <1>2, <2>1
    <3>2. pt \in 0 .. Len(buf)
      BY <1>2
    <3> QED BY <1>1, <3>1, <3>2, SuffixRests
  <2>4. procPt' \in {0, Len(buf')}
    BY <2>1
  <2> QED BY <1>1, <1>2, <1>4, <2>2, <2>3, <2>4 DEF Places, Stale
<1> QED BY <1>1, <1>5, <1>6, <1>7

LEMMA SearchWaiting ==
  ASSUME IInv, SearchFrame
  PROVE  Waiting'
<1>1. /\ UNCHANGED <<socket, log, read, peer, unheard>> /\ at = "search"
      /\ ReadsOn \/ PassesOver \/ HandsUp
  BY SearchSteps
<1>2. /\ handed \in Seq(Frames) /\ Len(handed) \in Nat
      /\ Len(handed') \in Nat /\ Len(handed) <= Len(handed')
      /\ \A k \in 1 .. Len(handed) : handed'[k] = handed[k]
  BY <1>1, SearchHands
<1>3. Handed \subseteq Handed'
  <2>1. \A k \in 1 .. Len(handed) : k \in 1 .. Len(handed')
    BY <1>2
  <2> QED BY <1>2, <2>1 DEF Handed
<1> SUFFICES ASSUME NEW i \in 1 .. read, log[i].kind = "whole"
             PROVE  i \in Handed' \cup unheard \/ BehindNext(i)
  BY <1>1 DEF Waiting, Behind, BehindNext
<1>4. Behind(i) => BehindNext(i)
  BY <1>1 DEF Behind, BehindNext
<1>5. CASE procPt = 0 /\ buf = Cells(i, log[i])
  <2> DEFINE f == [id |-> i, from |-> peer]
  <2>1. handed' = Append(handed, f)
    BY <1>5, AloneIsHanded
  <2>2. f \in Frames /\ f.id = i
    <3>1. peer \in Peers \cup {NoPeer} /\ i \in Nat
      BY Facts DEF IInv, TypeOK
    <3> QED BY <3>1 DEF Frames
  <2> HIDE DEF f
  <2>3. Len(handed') = Len(handed) + 1 /\ handed'[Len(handed) + 1] = f
    BY <1>2, <2>1, <2>2, AppendProperties
  <2>4. Len(handed) + 1 \in 1 .. Len(handed')
    BY <1>2, <2>3
  <2> QED BY <2>2, <2>3, <2>4 DEF Handed
<1> QED BY <1>1, <1>3, <1>4, <1>5 DEF IInv, Waiting

LEMMA SearchFrameKeeps == IInv /\ SearchFrame => IInv'
<1> SUFFICES ASSUME IInv, SearchFrame PROVE IInv'
  OBVIOUS
<1>1. PICK pt \in 0 .. Len(buf) : Suffix(pt)
  BY SearchSteps, SearchSuffix
<1>2. HeadersAre' /\ HeadersFrom' /\ BodiesAre' /\ Increasing'
  BY <1>1, SearchSteps, SuffixKeeps
<1> QED BY <1>2, SearchTypes, SearchFresh, SearchPlaces, SearchWaiting DEF IInv

----------------------------------------------------------------------------
(* The steps that leave the buffer alone *)

\* What is in the buffer depends on the datagrams that were read only.
LEMMA BufferStays ==
  ASSUME IInv, UNCHANGED <<buf, peer>>, read' \in Nat, read <= read',
         \A i \in 1 .. read : log'[i] = log[i]
  PROVE  /\ HeadersAre' /\ HeadersFrom' /\ BodiesAre' /\ Increasing'
         /\ \A p \in 1 .. Len(buf') : buf'[p].id <= read'
         /\ RestOf(0) => RestOf(0)'
         /\ \A r : Behinds(r) => Behinds(r)'
<1>1. \A i \in 1 .. read : /\ i \in 1 .. read' /\ log'[i] = log[i] /\ SizeNext(i) = Size(i)
  BY Facts DEF Size, SizeNext
<1>2. ASSUME NEW i \in 1 .. read, Behind(i) PROVE BehindNext(i)
  <2>1. PICK j \in 1 .. i - 1 :
          /\ log[j].from.port # log[i].from.port
          /\ \A k \in j .. i - 1 : log[k].from.ip = log[i].from.ip \/ log[k].kind = "empty"
    BY <1>2 DEF Behind
  <2>2. \A k \in 1 .. i - 1 : k \in 1 .. read
    BY Facts
  <2>3. \A k \in j .. i - 1 : k \in 1 .. i - 1
    BY Facts
  <2> QED BY <1>1, <2>1, <2>2, <2>3 DEF BehindNext
<1>3. \A i \in 1 .. read, p \in 1 .. Len(buf) : MatchesNext(p, i) <=> Matches(p, i)
  BY DEF MatchesNext, Matches
<1>4. HeadersAre' /\ HeadersFrom'
  <2> SUFFICES ASSUME NEW p \in 1 .. Len(buf), IsHeader(buf[p])
               PROVE  HeaderNext(p, buf[p].id)
    BY HeadersNext
  <2> DEFINE i == buf[p].id
  <2>1. /\ i \in 1 .. read /\ p + Size(i) <= Len(buf)
        /\ \/ log[i].kind = "whole" /\ buf[p].pos = 1 /\ Matches(p, i)
           \/ log[i].kind = "head" /\ buf[p].pos = 0 /\ Matches(p, i)
           \/ log[i].kind \in {"body", "cut"} /\ buf[p].pos = 1 /\ ~Matches(p, i)
    BY HeaderOf
  <2>2. log[i].from.ip = peer.ip /\ (log[i].from = peer \/ Behind(i))
    BY DEF IInv, HeadersFrom
  <2> HIDE DEF i
  <2>3. HeaderNext(p, i)
    BY <1>1, <1>2, <1>3, <2>1, <2>2 DEF HeaderNext
  <2> QED BY <2>3 DEF i
<1>5. BodiesAre'
  BY <1>1 DEF IInv, BodiesAre
<1>6. Increasing'
  BY DEF IInv, Increasing, IsHeader
<1>7. \A p \in 1 .. Len(buf') : buf'[p].id <= read'
  <2> TAKE p \in 1 .. Len(buf')
  <2>1. buf[p].id <= read /\ buf[p].id \in Nat /\ read \in Nat
    BY Facts DEF IInv, Typed, Cell
  <2> QED BY <2>1
<1>8. \A m \in Marks(buf, 0) :
        m + 3 <= Len(buf) /\ IsHeader(buf[m + 3]) =>
          Size(buf[m + 3].id) = SizeNext(buf[m + 3].id)
  <2> TAKE m \in Marks(buf, 0)
  <2>1. m + 3 <= Len(buf) => m + 3 \in 1 .. Len(buf)
    BY Facts, MarksAre
  <2> QED BY <1>1, <2>1, HeaderOf
<1>9. RestOf(0) => RestOf(0)'
  BY <1>8 DEF RestOf, Size, SizeNext, Marks, IsHeader
<1>10. \A r : Behinds(r) => Behinds(r)'
  BY <1>8 DEF Behinds, Size, SizeNext, Marks, IsHeader
<1> QED BY <1>4, <1>5, <1>6, <1>7, <1>9, <1>10

\* An empty buffer holds nothing to speak of.
LEMMA EmptyBuffer ==
  ASSUME buf' = << >>
  PROVE  /\ HeadersAre' /\ HeadersFrom' /\ BodiesAre' /\ Increasing' /\ Origin' /\ RestOf(0)'
         /\ buf' \in Seq(Cell) /\ Len(buf') = 0 /\ 1 .. Len(buf') = {}
<1>1. buf' \in Seq(Cell) /\ Len(buf') = 0 /\ 1 .. Len(buf') = {}
  BY EmptySeq
<1>2. Marks(buf', 0) = {}
  BY <1>1 DEF Marks, MagicSize
<1> QED BY <1>1, <1>2 DEF HeadersAre, HeadersFrom, BodiesAre, Increasing, Origin, RestOf

\* Frames handed up stay where they are, and the headers still to come too.
LEMMA FreshStays ==
  ASSUME IInv, UNCHANGED handed, read' \in Nat, read <= read',
         \/ buf' = << >> /\ procPt' = 0
         \/ buf' = buf /\ procPt' = procPt
  PROVE  Fresh'
<1>1. \A k \in 1 .. Len(handed) : handed[k].id \in 1 .. read'
  BY Facts DEF IInv, Fresh
<1>2. CASE buf' = << >> /\ procPt' = 0
  <2>1. procPt' + 1 .. Len(buf') = {}
    BY <1>2, EmptyBuffer
  <2> QED BY <1>1, <2>1 DEF Fresh
<1>3. CASE buf' = buf /\ procPt' = procPt
  BY <1>1, <1>3 DEF IInv, Fresh, IsHeader
<1> QED BY <1>2, <1>3

\* What is left at the front of the buffer is a rest with nothing behind it.
LEMMA RestIsBehinds ==
  ASSUME IInv, RestOf(0)
  PROVE  Behinds(Len(buf))
<1> SUFFICES ASSUME NEW m \in Marks(buf, 0)
             PROVE  /\ m <= 3 /\ m + 2 <= Len(buf)
                    /\ m + 3 <= Len(buf) /\ IsHeader(buf[m + 3]) =>
                         m = 0 /\ Len(buf) = 3 + Size(buf[m + 3].id)
  BY DEF Behinds
<1>1. m \in Nat /\ m + 2 <= Len(buf) /\ Len(buf) \in Nat
  BY Facts, MarksAre
<1>2. /\ m - 0 <= 3
      /\ m + 3 <= Len(buf) /\ IsHeader(buf[m + 3]) =>
           m = 0 /\ Len(buf) - 0 = 3 + Size(buf[m + 3].id)
  BY <1>1 DEF RestOf
<1> QED BY <1>1, <1>2

LEMMA InitKeeps == Init => IInv
<1> SUFFICES ASSUME Init PROVE IInv
  OBVIOUS
<1>1. /\ buf = << >> /\ log = << >> /\ handed = << >> /\ read = 0 /\ procPt = 0 /\ at = "idle"
      /\ socket = FALSE /\ peer = NoPeer /\ head = Noise /\ unheard = {}
  BY DEF Init
<1>2. Len(buf) = 0 /\ buf \in Seq(Cell) /\ 1 .. Len(buf) = {} /\ 1 .. Len(handed) = {}
  BY <1>1, EmptySeq
<1>3. TypeOK
  <2>1. log \in Seq(Datagrams) /\ Len(log) = 0 /\ MaxLog \in Nat
    BY <1>1, EmptySeq, UdpAssumption
  <2>2. 0 <= BufLen
    BY Sizes
  <2>3. socket \in BOOLEAN /\ read \in 0 .. Len(log) /\ unheard \subseteq 0 .. Len(log)
    <3>1. socket \in BOOLEAN /\ unheard \subseteq 0 .. Len(log)
      BY <1>1
    <3>2. read \in 0 .. Len(log)
      BY <1>1, <2>1
    <3> QED BY <3>1, <3>2
  <2>4. at = "idle" /\ \A k \in 1 .. Len(handed) : handed[k].id \in Ids
    BY <1>1, <1>2
  <2> QED BY <1>1, <1>2, <2>1, <2>2, <2>3, <2>4 DEF TypeOK
<1>4. Typed
  BY <1>1, <1>2, CellKinds, EmptySeq DEF Typed, IsHeader
<1>5. Marks(buf, 0) = {}
  BY <1>2 DEF Marks, MagicSize
<1>6. HeadersAre /\ HeadersFrom /\ BodiesAre /\ Increasing /\ Fresh /\ Origin
  BY <1>1, <1>2 DEF HeadersAre, HeadersFrom, BodiesAre, Increasing, Fresh, Origin
<1>7. Places /\ Stale /\ Waiting
  BY <1>1, <1>5 DEF Places, RestOf, Stale, Waiting
<1> QED BY <1>3, <1>4, <1>6, <1>7 DEF IInv

LEMMA InitializeKeeps == IInv /\ Initialize => IInv'
<1> SUFFICES ASSUME IInv, Initialize PROVE IInv'
  OBVIOUS
<1>1. /\ at = "idle" /\ socket' \in BOOLEAN /\ buf' = << >> /\ procPt' = 0 /\ peer' = NoPeer
      /\ UNCHANGED <<log, read, head, at, handed, unheard>>
  BY DEF Initialize, Empty
<1>2. /\ HeadersAre' /\ HeadersFrom' /\ BodiesAre' /\ Increasing' /\ Origin' /\ RestOf(0)'
      /\ buf' \in Seq(Cell) /\ Len(buf') = 0 /\ 1 .. Len(buf') = {}
  BY <1>1, EmptyBuffer
<1>3. Fresh'
  <2>1. read' \in Nat /\ read <= read'
    BY <1>1, Facts
  <2> QED BY <1>1, <2>1, FreshStays
<1>4. TypeOK' /\ Typed'
  <2>1. TypeOK'
    BY <1>1, <1>2, Sizes DEF IInv, TypeOK, Ids
  <2>2. Typed'
    BY <1>1, <1>2 DEF IInv, Typed, IsHeader
  <2> QED BY <2>1, <2>2
<1>5. Places' /\ Stale'
  BY <1>1, <1>2 DEF Places, Stale
<1>6. Waiting'
  BY <1>1 DEF IInv, Waiting, Handed, Behind
<1> QED BY <1>2, <1>3, <1>4, <1>5, <1>6 DEF IInv

LEMMA ReadNothingKeeps == IInv /\ ReadNothing => IInv'
<1> SUFFICES ASSUME IInv, ReadNothing PROVE IInv'
  OBVIOUS
<1>1. /\ at = "read" /\ at' = "idle" /\ buf' = << >> /\ procPt' = 0
      /\ UNCHANGED <<socket, log, read, peer, head, handed, unheard>>
  BY DEF ReadNothing, Empty
<1>2. /\ HeadersAre' /\ HeadersFrom' /\ BodiesAre' /\ Increasing' /\ Origin' /\ RestOf(0)'
      /\ buf' \in Seq(Cell) /\ Len(buf') = 0 /\ 1 .. Len(buf') = {}
  BY <1>1, EmptyBuffer
<1>3. Fresh'
  <2>1. read' \in Nat /\ read <= read'
    BY <1>1, Facts
  <2> QED BY <1>1, <2>1, FreshStays
<1>4. TypeOK' /\ Typed'
  <2>1. TypeOK'
    BY <1>1, <1>2, Sizes DEF IInv, TypeOK, Ids
  <2>2. Typed'
    BY <1>1, <1>2 DEF IInv, Typed, IsHeader
  <2> QED BY <2>1, <2>2
<1>5. Places' /\ Stale'
  BY <1>1, <1>2 DEF Places, Stale
<1>6. Waiting'
  BY <1>1 DEF IInv, Waiting, Handed, Behind
<1> QED BY <1>2, <1>3, <1>4, <1>5, <1>6 DEF IInv

LEMMA RecvFrameKeeps == IInv /\ RecvFrame => IInv'
<1> SUFFICES ASSUME IInv, RecvFrame PROVE IInv'
  OBVIOUS
<1>1. /\ at = "idle" /\ socket /\ at' = "search"
      /\ UNCHANGED <<socket, log, read, buf, procPt, peer, head, handed, unheard>>
  BY DEF RecvFrame, buffer
<1>2. Len(buf) \in Nat /\ procPt \in Nat /\ read \in Nat
  BY Facts
<1>3. /\ HeadersAre' /\ HeadersFrom' /\ BodiesAre' /\ Increasing'
      /\ \A p \in 1 .. Len(buf') : buf'[p].id <= read'
      /\ \A r : Behinds(r) => Behinds(r)'
  BY <1>1, <1>2, BufferStays
<1>4. Fresh'
  BY <1>1, <1>2, FreshStays
<1>5. TypeOK' /\ Typed' /\ Origin'
  <2>1. TypeOK'
    BY <1>1 DEF IInv, TypeOK, Ids
  <2>2. Typed'
    BY <1>1 DEF IInv, Typed, IsHeader
  <2>3. Origin'
    BY <1>1 DEF IInv, Origin
  <2> QED BY <2>1, <2>2, <2>3
<1>6. procPt \in {0, Len(buf)} /\ (procPt = 0 => RestOf(0))
  BY <1>1 DEF IInv, Places
<1>7. procPt < Len(buf) => Behinds(Len(buf))
  <2> SUFFICES ASSUME procPt < Len(buf) PROVE Behinds(Len(buf))
    OBVIOUS
  <2>1. procPt = 0 /\ RestOf(0)
    BY <1>2, <1>6
  <2> QED BY <2>1, RestIsBehinds
<1>8. Places'
  <2>1. procPt < Len(buf) => procPt \notin {1, 3}
    BY <1>2, <1>6
  <2>2. procPt < Len(buf) => \E r \in 0 .. Len(buf) : Behinds(r)'
    BY <1>2, <1>3, <1>7
  <2> QED BY <1>1, <2>1, <2>2 DEF Places
<1>9. Stale'
  BY <1>1, <1>2, <1>6 DEF Stale
<1>10. Waiting'
  BY <1>1 DEF IInv, Waiting, Handed, Behind
<1> QED BY <1>3, <1>4, <1>5, <1>8, <1>9, <1>10 DEF IInv

LEMMA CloseKeeps == IInv /\ Close => IInv'
<1> SUFFICES ASSUME IInv, Close PROVE IInv'
  OBVIOUS
<1> DEFINE left == {cell.id : cell \in {buf[k] : k \in procPt + 1 .. Len(buf)}}
<1>1. /\ at = "idle" /\ socket /\ socket' = FALSE /\ read' = Len(log)
      /\ unheard' = unheard \cup (read + 1 .. Len(log)) \cup left
      /\ UNCHANGED <<log, buf, procPt, peer, head, at, handed>>
  BY DEF Close, buffer
<1>2. /\ Len(buf) \in Nat /\ procPt \in Nat /\ read \in Nat /\ Len(log) \in Nat
      /\ read <= Len(log)
  BY Facts
<1>3. read' \in Nat /\ read <= read' /\ \A i \in 1 .. read : log'[i] = log[i]
  BY <1>1, <1>2
<1>4. /\ HeadersAre' /\ HeadersFrom' /\ BodiesAre' /\ Increasing'
      /\ \A p \in 1 .. Len(buf') : buf'[p].id <= read'
      /\ RestOf(0) => RestOf(0)'
  BY <1>1, <1>3, BufferStays
<1>5. Fresh'
  BY <1>1, <1>3, FreshStays
<1>6. left \subseteq 0 .. Len(log)
  <2>1. \A k \in procPt + 1 .. Len(buf) : buf[k].id \in 0 .. Len(log)
    <3> TAKE k \in procPt + 1 .. Len(buf)
    <3>1. k \in 1 .. Len(buf)
      BY <1>2
    <3>2. buf[k] \in Cell /\ buf[k].id <= read
      BY <3>1, Facts DEF IInv, Typed
    <3>3. buf[k].id \in Nat
      BY <3>2 DEF Cell
    <3> QED BY <1>2, <3>2, <3>3
  <2> QED BY <2>1
<1> HIDE DEF left
<1>7. TypeOK'
  <2>1. read + 1 .. Len(log) \subseteq 0 .. Len(log)
    BY <1>2
  <2>2. unheard \subseteq 0 .. Len(log)
    BY DEF IInv, TypeOK
  <2>3. unheard' \subseteq 0 .. Len(log')
    BY <1>1, <1>6, <2>1, <2>2
  <2>4. read' \in 0 .. Len(log')
    BY <1>1, <1>2
  <2> QED BY <1>1, <2>3, <2>4 DEF IInv, TypeOK, Ids
<1>8. Typed'
  <2>1. IsHeader(head) => head.id \in 1 .. read'
    BY <1>3, Facts DEF IInv, Typed
  <2> QED BY <1>1, <1>4, <2>1 DEF IInv, Typed, IsHeader
<1>9. Origin' /\ Places' /\ Stale'
  BY <1>1, <1>4 DEF IInv, Origin, Places, Stale
<1>10. Waiting'
  <2> SUFFICES ASSUME NEW i \in 1 .. Len(log), log[i].kind = "whole"
               PROVE  i \in Handed \cup unheard' \/ Behind(i)
    BY <1>1 DEF Waiting, Handed, Behind
  <2>1. CASE i \in 1 .. read
    BY <1>1, <2>1 DEF IInv, Waiting
  <2>2. CASE i \in read + 1 .. Len(log)
    BY <1>1, <2>2
  <2> QED BY <1>2, <2>1, <2>2
<1> QED BY <1>4, <1>5, <1>7, <1>8, <1>9, <1>10 DEF IInv

LEMMA ArriveKeeps == IInv /\ Arrive => IInv'
<1> SUFFICES ASSUME IInv, Arrive PROVE IInv'
  OBVIOUS
<1>1. /\ at # "search" /\ Len(log) < MaxLog
      /\ UNCHANGED <<socket, read, buf, procPt, peer, head, at, handed, unheard>>
  BY DEF Arrive, buffer
<1>2. PICK d \in Datagrams : log' = Append(log, d)
  BY DEF Arrive
<1>3. /\ read \in Nat /\ Len(log) \in Nat /\ read <= Len(log) /\ log \in Seq(Datagrams)
  BY Facts
<1>4. /\ log' \in Seq(Datagrams) /\ Len(log') = Len(log) + 1
      /\ \A i \in 1 .. Len(log) : log'[i] = log[i]
  BY <1>2, <1>3, AppendProperties
<1>5. /\ read' \in Nat /\ read <= read' /\ \A i \in 1 .. read : log'[i] = log[i]
      /\ \A i \in 1 .. read : i \in 1 .. Len(log)
  BY <1>1, <1>3, <1>4
<1>6. /\ HeadersAre' /\ HeadersFrom' /\ BodiesAre' /\ Increasing'
      /\ \A p \in 1 .. Len(buf') : buf'[p].id <= read'
      /\ RestOf(0) => RestOf(0)'
  BY <1>1, <1>5, BufferStays
<1>7. Fresh'
  BY <1>1, <1>5, FreshStays
<1>8. TypeOK'
  <2>1. /\ log' \in Seq(Datagrams) /\ Len(log') <= MaxLog /\ read' \in 0 .. Len(log')
        /\ 0 .. Len(log) \subseteq 0 .. Len(log') /\ Ids \subseteq Ids'
    <3>1. MaxLog \in Nat
      BY UdpAssumption
    <3>2. Ids = 1 .. Len(log) /\ Ids' = 1 .. Len(log')
      BY DEF Ids
    <3> QED BY <1>1, <1>3, <1>4, <3>1, <3>2
  <2>2. unheard' \subseteq 0 .. Len(log')
    BY <1>1, <2>1 DEF IInv, TypeOK
  <2>3. \A k \in 1 .. Len(handed') : handed'[k].id \in Ids'
    BY <1>1, <2>1 DEF IInv, TypeOK
  <2> QED BY <1>1, <2>1, <2>2, <2>3 DEF IInv, TypeOK
<1>9. Typed'
  BY <1>1, <1>6 DEF IInv, Typed, IsHeader
<1>10. Origin'
  <2> SUFFICES ASSUME buf # << >>, socket
               PROVE  \E j \in 1 .. read :
                        /\ log'[j].from = peer
                        /\ \A k \in j .. read : log'[k].from.ip = peer.ip \/ log'[k].kind = "empty"
    BY <1>1 DEF Origin
  <2>1. PICK j \in 1 .. read :
          /\ log[j].from = peer
          /\ \A k \in j .. read : log[k].from.ip = peer.ip \/ log[k].kind = "empty"
    BY DEF IInv, Origin
  <2>2. \A k \in j .. read : k \in 1 .. read
    BY <1>3
  <2> QED BY <1>5, <2>1, <2>2
<1>11. Places' /\ Stale'
  BY <1>1, <1>6 DEF IInv, Places, Stale
<1>12. Waiting'
  <2> SUFFICES ASSUME NEW i \in 1 .. read, log'[i].kind = "whole"
               PROVE  i \in Handed \cup unheard \/ BehindNext(i)
    BY <1>1 DEF Waiting, Handed, Behind, BehindNext
  <2>1. i \in Handed \cup unheard \/ Behind(i)
    BY <1>1, <1>5 DEF IInv, Waiting
  <2>2. Behind(i) => BehindNext(i)
    <3>1. \A k \in 1 .. i - 1 : log'[k] = log[k]
      BY <1>3, <1>5
    <3>2. \A j \in 1 .. i - 1 : \A k \in j .. i - 1 : k \in 1 .. i - 1
      BY <1>3
    <3>3. ASSUME Behind(i) PROVE BehindNext(i)
      <4>1. PICK j \in 1 .. i - 1 :
              /\ log[j].from.port # log[i].from.port
              /\ \A k \in j .. i - 1 : log[k].from.ip = log[i].from.ip \/ log[k].kind = "empty"
        BY <3>3 DEF Behind
      <4>2. log'[j] = log[j] /\ log'[i] = log[i]
        BY <1>5, <3>1
      <4>3. \A k \in j .. i - 1 : log'[k] = log[k]
        BY <3>1, <3>2
      <4> QED BY <4>1, <4>2, <4>3 DEF BehindNext
    <3> QED BY <3>3
  <2> QED BY <2>1, <2>2
<1> QED BY <1>6, <1>7, <1>8, <1>9, <1>10, <1>11, <1>12 DEF IInv

----------------------------------------------------------------------------
(* ReadRawData: a datagram alone in the buffer, or behind what was left    *)

\* A piece of a body is a magic word's half or names its datagram and place.
LEMMA PieceIs ==
  ASSUME NEW i \in Nat, NEW n \in Nat, NEW k \in 1 .. n
  PROVE  /\ Body(i, n)[k].what \in {"magic1", "magic2", "body"}
         /\ Body(i, n)[k].what = "magic1" => k = 1
         /\ Body(i, n)[k].what = "body" => Body(i, n)[k].id = i /\ Body(i, n)[k].pos = k
         /\ Body(i, n)[k].id <= i
<1>1. CASE n < 2 \/ k > 2
  <2>1. Body(i, n)[k].what = "body" /\ Body(i, n)[k].id = i /\ Body(i, n)[k].pos = k
    BY <1>1, BodyAt
  <2> QED BY <2>1
<1>2. CASE n >= 2 /\ k = 1
  <2>1. Body(i, n)[k] = Magic1
    BY <1>2, BodyIs
  <2> QED BY <1>2, <2>1, CellKinds
<1>3. CASE n >= 2 /\ k = 2
  <2>1. Body(i, n)[k] = Magic2
    BY <1>3, BodyIs
  <2> QED BY <2>1, CellKinds
<1> QED BY <1>1, <1>2, <1>3

\* Where in a datagram's cells a header, a body and the magic word can be.
LEMMA CellFacts ==
  ASSUME NEW i \in Nat, NEW d \in Datagrams, d.kind # "empty"
  PROVE  LET c == Cells(i, d)
         IN /\ Len(c) \in Nat /\ Len(c) >= 3 /\ c[1] # Magic2
            /\ c[1].what \in {"magic1", "noise"}
            /\ \A k \in 1 .. Len(c) :
                 /\ c[k].id <= i
                 /\ IsHeader(c[k]) => k = 3 /\ d.kind \in Framed
                 /\ c[k].what = "magic1" => k = 1 \/ k = 4
                 /\ c[k].what = "body" =>
                      /\ c[k].id = i
                      /\ d.kind \in {"body", "cut"} => c[k].pos < d.len
<1> DEFINE c == Cells(i, d)
           z == SizeOf(d)
           n == d.len
<1>1. /\ c \in Seq(Cell) /\ Len(c) \in Nat /\ n \in Nat /\ z \in Nat /\ z <= n
      /\ d.kind \in Framed \cup {"noise"}
      /\ d.kind = "cut" => z = n - 1
  BY DatagramIs, CellsAre, LenProperties DEF SizeOf
<1> HIDE DEF c, z
<1>2. CASE d.kind = "noise"
  <2>1. Len(c) = 3 /\ \A k \in 1 .. 3 : c[k] = Noise
    BY <1>2, CellsAre DEF c
  <2>2. \A k \in 1 .. Len(c) : c[k].id <= i /\ c[k].what = "noise"
    BY <2>1, CellKinds
  <2>3. c[1].what = "noise" /\ c[1] # Magic2
    BY <2>1, CellKinds
  <2> QED BY <2>1, <2>2, <2>3 DEF IsHeader, c
<1>3. CASE d.kind \in Framed
  <2>1. /\ Len(c) = 3 + z /\ c[1] = Magic1 /\ c[2] = Magic2
        /\ IsHeader(c[3]) /\ c[3].id = i
        /\ \A k \in 1 .. z : c[3 + k] = IF d.kind = "body" /\ k = n THEN Noise
                                        ELSE Body(i, n)[k]
    BY <1>3, CellsAre DEF c, z
  <2>2. ASSUME NEW k \in 1 .. Len(c)
        PROVE  /\ c[k].id <= i
               /\ c[k].what = "header" => k = 3
               /\ c[k].what = "magic1" => k = 1 \/ k = 4
               /\ c[k].what = "body" =>
                    /\ c[k].id = i
                    /\ d.kind \in {"body", "cut"} => c[k].pos < n
    <3>1. CASE k = 1
      BY <2>1, <3>1, CellKinds
    <3>2. CASE k = 2
      BY <2>1, <3>2, CellKinds
    <3>3. CASE k = 3
      BY <2>1, <3>3 DEF IsHeader
    <3>4. CASE k > 3
      <4> DEFINE j == k - 3
      <4>1. j \in 1 .. z /\ j \in 1 .. n /\ 3 + j = k
        BY <1>1, <2>1, <3>4
      <4>2. \/ c[k] = Noise
            \/ c[k] = Body(i, n)[j] /\ (d.kind = "body" => j # n)
        <5>1. c[3 + j] = IF d.kind = "body" /\ j = n THEN Noise ELSE Body(i, n)[j]
          BY <2>1, <4>1
        <5>2. c[3 + j] = c[k]
          BY <4>1
        <5> HIDE DEF j
        <5> QED BY <5>1, <5>2
      <4> HIDE DEF j
      <4>3. CASE c[k] = Noise
        BY <4>3, CellKinds
      <4>4. CASE c[k] = Body(i, n)[j] /\ (d.kind = "body" => j # n)
        <5>1. /\ c[k].what \in {"magic1", "magic2", "body"}
              /\ c[k].what = "magic1" => j = 1
              /\ c[k].what = "body" => c[k].id = i /\ c[k].pos = j
              /\ c[k].id <= i
          BY <1>1, <4>1, <4>4, PieceIs
        <5>2. d.kind \in {"body", "cut"} => j < n
          BY <1>1, <4>1, <4>4
        <5>3. j = 1 => k = 4
          BY <4>1
        <5> QED BY <5>1, <5>2, <5>3
      <4> QED BY <4>2, <4>3, <4>4
    <3> QED BY <1>1, <3>1, <3>2, <3>3, <3>4
  <2>3. c[1].what = "magic1" /\ c[1] # Magic2 /\ Len(c) >= 3
    BY <1>1, <2>1, CellKinds
  <2> QED BY <1>1, <1>3, <2>2, <2>3 DEF IsHeader, c
<1> QED BY <1>1, <1>2, <1>3

LEMMA MinOfTwo ==
  ASSUME NEW a \in Nat, NEW b \in Nat, b <= a
  PROVE  Min({a, b}) = b
<1>1. Min({a, b}) \in {a, b} /\ \A k \in {a, b} : Min({a, b}) <= k
  BY Least
<1> QED BY <1>1

\* The cells of a datagram fit behind whatever waits to be completed.
LEMMA CellsFit ==
  ASSUME NEW i \in Nat, NEW d \in Datagrams
  PROVE  /\ Len(Cells(i, d)) \in Nat /\ Len(Cells(i, d)) <= Total
         /\ Cells(i, d) = << >> <=> d.kind = "empty"
<1>1. /\ d.kind \in Framed \cup {"noise", "empty"} /\ d.len \in Nat /\ d.len <= Max(Lens)
      /\ SizeOf(d) \in Nat /\ SizeOf(d) <= d.len
  BY DatagramIs
<1>2. Total \in Nat /\ Total >= 3 /\ Total = 3 + Max(Lens) /\ Max(Lens) \in Nat
  BY Sizes, Longest
<1>3. Cells(i, d) \in Seq(Cell) /\ Len(Cells(i, d)) \in Nat
  BY CellsAre, LenProperties
<1>4. CASE d.kind = "empty"
  <2>1. Cells(i, d) = << >> /\ Len(Cells(i, d)) = 0
    BY <1>4, CellsAre, EmptySeq
  <2> QED BY <1>2, <1>4, <2>1
<1>5. CASE d.kind \in Framed \cup {"noise"}
  <2>1. d.kind # "empty"
    BY <1>5 DEF Framed
  <2>2. Len(Cells(i, d)) = 3 \/ Len(Cells(i, d)) = 3 + SizeOf(d)
    BY <1>5, CellsAre
  <2>3. Len(Cells(i, d)) <= Total /\ Len(Cells(i, d)) # 0
    <3> DEFINE z == SizeOf(d)
               L == Len(Cells(i, d))
    <3>1. z \in Nat /\ z <= Max(Lens)
      BY <1>1, <1>2
    <3>2. L = 3 \/ L = 3 + z
      BY <2>2
    <3> HIDE DEF z, L
    <3>3. L <= Total /\ L # 0
      BY <1>2, <3>1, <3>2
    <3> QED BY <3>3 DEF L
  <2>4. Cells(i, d) # << >>
    BY <2>3, EmptySeq
  <2> QED BY <1>3, <2>1, <2>3, <2>4
<1> QED BY <1>1, <1>4, <1>5

\* The buffer is its first r cells and the datagram that is read.
Reads(r) ==
  /\ r \in {0, Len(buf)} /\ buf' \in Seq(Cell)
  /\ Len(buf') = r + Len(Cells(read + 1, log[read + 1]))
  /\ \A k \in 1 .. r : buf'[k] = buf[k]
  /\ \A k \in 1 .. Len(Cells(read + 1, log[read + 1])) :
       buf'[r + k] = Cells(read + 1, log[read + 1])[k]

LEMMA ReadSteps ==
  ASSUME IInv, ReadRawData
  PROVE  LET d == log[read + 1]
         IN /\ UNCHANGED <<socket, log, head, handed, unheard>>
            /\ at = "read" /\ at' = "search" /\ socket
            /\ read' = read + 1 /\ read + 1 \in 1 .. Len(log) /\ d \in Datagrams
            /\ procPt = 0 /\ Len(buf) < Total /\ RestOf(0)
            /\ \/ d.kind = "empty" /\ UNCHANGED <<buf, procPt, peer>>
               \/ /\ d.kind # "empty" /\ buf # << >> /\ Kept(d.from)
                  /\ Reads(Len(buf)) /\ UNCHANGED <<procPt, peer>>
               \/ /\ d.kind # "empty" /\ Reads(0) /\ procPt' = 0 /\ peer' = d.from
                  /\ buf' = Cells(read + 1, d)
<1> DEFINE i == read + 1
           d == log[i]
           c == Cells(i, d)
           room == BufLen - Len(buf)
           bytes == SubSeq(c, 1, Min({room, Len(c)}))
<1>1. /\ UNCHANGED <<socket, log, head, handed, unheard>>
      /\ at = "read" /\ at' = "search" /\ read' = read + 1 /\ read < Len(log)
      /\ IF bytes = << >> THEN UNCHANGED buffer
         ELSE IF buf # << >> /\ Kept(d.from)
         THEN buf' = buf \o bytes /\ UNCHANGED <<procPt, peer>>
         ELSE buf' = bytes /\ procPt' = 0 /\ peer' = d.from
  BY DEF ReadRawData
<1>2. i \in 1 .. Len(log) /\ i \in Nat /\ d \in Datagrams
  BY <1>1, Facts
<1>3. procPt = 0 /\ Len(buf) < Total /\ RestOf(0) /\ socket
  BY <1>1 DEF IInv, TypeOK, Places
<1> HIDE DEF i, d
<1>4. c \in Seq(Cell) /\ Len(c) \in Nat /\ Len(c) <= Total /\ (c = << >> <=> d.kind = "empty")
  BY <1>2, CellsAre, CellsFit
<1> HIDE DEF c
<1>5. bytes = c
  <2>1. room \in Nat /\ Len(c) <= room
    BY <1>3, <1>4, Sizes, Facts
  <2>2. Min({room, Len(c)}) = Len(c)
    <3> HIDE DEF room
    <3> QED BY <1>4, <2>1, MinOfTwo
  <2> QED BY <1>4, <2>2, SubSeqFull
<1> HIDE DEF bytes
<1>6. CASE d.kind = "empty"
  <2>1. UNCHANGED <<buf, procPt, peer>>
    BY <1>1, <1>4, <1>5, <1>6 DEF buffer
  <2> QED BY <1>1, <1>2, <1>3, <1>6, <2>1 DEF i, d
<1>7. CASE d.kind # "empty" /\ buf # << >> /\ Kept(d.from)
  <2>1. buf' = buf \o c /\ UNCHANGED <<procPt, peer>>
    BY <1>1, <1>4, <1>5, <1>7
  <2>2. buf \in Seq(Cell) /\ Len(buf) \in Nat
    BY Facts DEF IInv, Typed
  <2>3. /\ buf \o c \in Seq(Cell) /\ Len(buf \o c) = Len(buf) + Len(c)
        /\ \A k \in 1 .. Len(buf) + Len(c) :
             (buf \o c)[k] = IF k <= Len(buf) THEN buf[k] ELSE c[k - Len(buf)]
    BY <1>4, <2>2, ConcatProperties
  <2>4. \A k \in 1 .. Len(buf) : (buf \o c)[k] = buf[k]
    BY <1>4, <2>2, <2>3
  <2>5. \A k \in 1 .. Len(c) : (buf \o c)[Len(buf) + k] = c[k]
    <3> TAKE k \in 1 .. Len(c)
    <3>1. /\ Len(buf) + k \in 1 .. Len(buf) + Len(c) /\ ~(Len(buf) + k <= Len(buf))
          /\ Len(buf) + k - Len(buf) = k
      BY <1>4, <2>2
    <3> QED BY <2>3, <3>1
  <2>6. Reads(Len(buf))
    BY <2>1, <2>3, <2>4, <2>5 DEF Reads, c, i, d
  <2> QED BY <1>1, <1>2, <1>3, <1>7, <2>1, <2>6 DEF i, d
<1>8. CASE d.kind # "empty" /\ ~(buf # << >> /\ Kept(d.from))
  <2>1. buf' = c /\ procPt' = 0 /\ peer' = d.from
    BY <1>1, <1>4, <1>5, <1>8
  <2>2. /\ Len(c) = 0 + Len(c) /\ \A k \in 1 .. Len(c) : c[0 + k] = c[k]
        /\ 1 .. 0 = {}
    BY <1>4
  <2>3. Reads(0)
    BY <1>4, <2>1, <2>2 DEF Reads, c, i, d
  <2> QED BY <1>1, <1>2, <1>3, <1>8, <2>1, <2>3 DEF i, d, c
<1> QED BY <1>6, <1>7, <1>8

\* The datagram that is read stands behind the first r cells of the buffer.
Added(r) ==
  /\ log[read + 1].kind # "empty" /\ Reads(r) /\ procPt' = 0
  /\ \/ r # 0 /\ Kept(log[read + 1].from) /\ peer' = peer
     \/ r = 0 /\ peer' = log[read + 1].from /\ buf' = Cells(read + 1, log[read + 1])

LEMMA ReadCases ==
  ASSUME IInv, ReadRawData
  PROVE  \/ log[read + 1].kind = "empty" /\ UNCHANGED <<buf, procPt, peer>>
         \/ \E r : Added(r)
<1> DEFINE d == log[read + 1]
<1>1. /\ procPt = 0
      /\ \/ d.kind = "empty" /\ UNCHANGED <<buf, procPt, peer>>
         \/ /\ d.kind # "empty" /\ buf # << >> /\ Kept(d.from)
            /\ Reads(Len(buf)) /\ UNCHANGED <<procPt, peer>>
         \/ /\ d.kind # "empty" /\ Reads(0) /\ procPt' = 0 /\ peer' = d.from
            /\ buf' = Cells(read + 1, d)
  BY ReadSteps
<1>2. CASE d.kind = "empty" /\ UNCHANGED <<buf, procPt, peer>>
  BY <1>2
<1>3. CASE /\ d.kind # "empty" /\ buf # << >> /\ Kept(d.from)
           /\ Reads(Len(buf)) /\ UNCHANGED <<procPt, peer>>
  <2>1. Len(buf) # 0
    BY <1>3, Facts
  <2>2. Added(Len(buf))
    BY <1>1, <1>3, <2>1 DEF Added
  <2> QED BY <2>2
<1>4. CASE /\ d.kind # "empty" /\ Reads(0) /\ procPt' = 0 /\ peer' = d.from
           /\ buf' = Cells(read + 1, d)
  <2>1. Added(0)
    BY <1>4 DEF Added
  <2> QED BY <2>1
<1> QED BY <1>1, <1>2, <1>3, <1>4

LEMMA AddedCells ==
  ASSUME IInv, ReadRawData, NEW r, Added(r)
  PROVE  LET c == Cells(read + 1, log[read + 1])
         IN /\ r \in Nat /\ (r = 0 \/ r = Len(buf)) /\ Len(c) \in Nat /\ Len(c) >= 3
            /\ Len(buf') = r + Len(c) /\ buf' \in Seq(Cell) /\ Len(buf') \in Nat
            /\ \A p \in 1 .. Len(buf') : p \in Nat /\
                 \/ /\ p <= r /\ r = Len(buf) /\ p \in 1 .. Len(buf) /\ buf'[p] = buf[p]
                 \/ /\ p > r /\ p - r \in 1 .. Len(c) /\ buf'[p] = c[p - r]
<1> DEFINE i == read + 1
           d == log[i]
           c == Cells(i, d)
<1>1. i \in Nat /\ d \in Datagrams /\ d.kind # "empty"
  BY ReadSteps, Facts DEF Added
<1>2. Len(c) \in Nat /\ Len(c) >= 3
  <2> HIDE DEF i, d
  <2> QED BY <1>1, CellFacts
<1>3. /\ r \in {0, Len(buf)} /\ buf' \in Seq(Cell) /\ Len(buf') = r + Len(c)
      /\ \A k \in 1 .. r : buf'[k] = buf[k]
      /\ \A k \in 1 .. Len(c) : buf'[r + k] = c[k]
  BY DEF Added, Reads
<1> HIDE DEF i, d, c
<1>4. r \in Nat /\ (r = 0 \/ r = Len(buf)) /\ Len(buf) \in Nat
  BY <1>3, Facts
<1>5. ASSUME NEW p \in 1 .. Len(buf')
      PROVE  p \in Nat /\
                 \/ /\ p <= r /\ r = Len(buf) /\ p \in 1 .. Len(buf) /\ buf'[p] = buf[p]
                 \/ /\ p > r /\ p - r \in 1 .. Len(c) /\ buf'[p] = c[p - r]
  <2>1. p \in Nat /\ p >= 1 /\ p <= r + Len(c)
    BY <1>2, <1>3, <1>4
  <2>2. CASE p <= r
    <3>1. p \in 1 .. r /\ r = Len(buf)
      BY <1>4, <2>1, <2>2
    <3> QED BY <1>3, <2>1, <2>2, <3>1
  <2>3. CASE p > r
    <3>1. p - r \in 1 .. Len(c) /\ r + (p - r) = p
      BY <1>2, <1>4, <2>1, <2>3
    <3> QED BY <1>3, <2>1, <2>3, <3>1
  <2> QED BY <1>4, <2>1, <2>2, <2>3
<1>6. Len(buf') \in Nat
  BY <1>2, <1>3, <1>4
<1> QED BY <1>2, <1>3, <1>4, <1>5, <1>6 DEF i, d, c

\* The last piece of a body is no beginning of a datagram.
LEMMA LastPiece ==
  ASSUME NEW i \in Nat, NEW n \in Nat, n > 0
  PROVE  Body(i, n)[n].what \in {"magic2", "body"}
<1>1. n \in 1 .. n
  OBVIOUS
<1>2. CASE n = 2
  <2>1. Body(i, n)[2] = Magic2
    BY <1>2, BodyOfTwo
  <2> QED BY <1>2, <2>1, CellKinds
<1>3. CASE n # 2
  <2>1. n < 2 \/ n > 2
    BY <1>3
  <2> QED BY <1>1, <2>1, BodyAt
<1> QED BY <1>2, <1>3

\* What is behind an old header stays what it was: a body without its last
\* piece is not completed by what follows.
LEMMA AddedMatches ==
  ASSUME IInv, ReadRawData, NEW r, Added(r), NEW p \in 1 .. Len(buf), IsHeader(buf[p]),
         r = Len(buf), NEW j, j = buf[p].id
  PROVE  MatchesNext(p, j) <=> Matches(p, j)
<1> DEFINE n == log[j].len
           c == Cells(read + 1, log[read + 1])
<1>1. /\ j \in Nat /\ n \in Nat /\ p + Size(j) <= Len(buf) /\ Size(j) \in Nat
      /\ log[j].kind # "cut" => Size(j) = n
      /\ log[j].kind = "cut" => Size(j) = n - 1 /\ n > 0
  BY HeaderOf DEF SizeOf
<1>2. /\ Len(buf) \in Nat /\ p \in Nat /\ p <= Len(buf)
  BY Facts
<1>3. /\ Len(c) \in Nat /\ Len(c) >= 3 /\ Len(buf') = Len(buf) + Len(c) /\ Len(buf') \in Nat
      /\ \A q \in 1 .. Len(buf') : q <= Len(buf) => buf'[q] = buf[q]
      /\ \A q \in 1 .. Len(buf') : q > Len(buf) => buf'[q] = c[q - Len(buf)]
  <2>1. /\ Len(c) \in Nat /\ Len(c) >= 3 /\ Len(buf') = r + Len(c) /\ Len(buf') \in Nat
        /\ \A q \in 1 .. Len(buf') : q \in Nat /\
             \/ /\ q <= r /\ r = Len(buf) /\ q \in 1 .. Len(buf) /\ buf'[q] = buf[q]
             \/ /\ q > r /\ q - r \in 1 .. Len(c) /\ buf'[q] = c[q - r]
    BY AddedCells
  <2> HIDE DEF c
  <2> QED BY <1>2, <2>1
<1>4. UNCHANGED log
  BY ReadSteps
<1>5. MatchesNext(p, j) <=> /\ p + n <= Len(buf')
                            /\ \A k \in 1 .. n : buf'[p + k] = Body(j, n)[k]
  BY <1>4 DEF MatchesNext
<1>6. Matches(p, j) <=> /\ p + n <= Len(buf)
                        /\ \A k \in 1 .. n : buf[p + k] = Body(j, n)[k]
  BY DEF Matches
<1>7. c[1].what \in {"magic1", "noise"}
  <2> DEFINE i == read + 1
             d == log[i]
  <2>1. i \in Nat /\ d \in Datagrams /\ d.kind # "empty"
    BY ReadSteps, Facts DEF Added
  <2> HIDE DEF i, d
  <2>2. Cells(i, d)[1].what \in {"magic1", "noise"}
    BY <2>1, CellFacts
  <2> QED BY <2>2 DEF i, d
<1> HIDE DEF n, c
<1>8. CASE p + n <= Len(buf)
  <2>1. p + n <= Len(buf')
    BY <1>1, <1>2, <1>3, <1>8
  <2>2. ASSUME NEW k \in 1 .. n PROVE buf'[p + k] = buf[p + k]
    <3>1. p + k \in 1 .. Len(buf') /\ p + k <= Len(buf)
      BY <1>1, <1>2, <1>3, <1>8
    <3> QED BY <1>3, <3>1
  <2> QED BY <1>5, <1>6, <1>8, <2>1, <2>2
<1>9. CASE ~(p + n <= Len(buf))
  <2>1. p + n = Len(buf) + 1 /\ n > 0
    BY <1>1, <1>2, <1>9
  <2>2. p + n \in 1 .. Len(buf') /\ p + n > Len(buf) /\ p + n - Len(buf) = 1 /\ n \in 1 .. n
    BY <1>1, <1>2, <1>3, <2>1
  <2>3. buf'[p + n] = c[1]
    BY <1>3, <2>2
  <2>4. Body(j, n)[n].what \in {"magic2", "body"}
    BY <1>1, <2>1, LastPiece
  <2>5. buf'[p + n] # Body(j, n)[n]
    BY <1>7, <2>3, <2>4
  <2> QED BY <1>5, <1>6, <1>9, <2>2, <2>5
<1> QED BY <1>8, <1>9

LEMMA AddedOld ==
  ASSUME IInv, ReadRawData, NEW r, Added(r), NEW p \in 1 .. Len(buf'), p <= r,
         IsHeader(buf'[p])
  PROVE  HeaderNext(p, buf'[p].id) /\ buf'[p].id <= read
<1> DEFINE j == buf[p].id
<1>1. /\ r = Len(buf) /\ p \in 1 .. Len(buf) /\ buf'[p] = buf[p] /\ IsHeader(buf[p])
      /\ p \in Nat /\ Len(buf) \in Nat /\ Len(buf') \in Nat /\ Len(buf) <= Len(buf')
  <2>1. /\ r = Len(buf) /\ p \in 1 .. Len(buf) /\ buf'[p] = buf[p] /\ p \in Nat /\ Len(buf') \in Nat
    BY AddedCells, Facts
  <2>2. Len(buf) \in Nat /\ Len(buf) <= Len(buf')
    <3> DEFINE n == Len(Cells(read + 1, log[read + 1]))
    <3>1. n \in Nat /\ Len(buf') = r + n
      BY AddedCells
    <3> HIDE DEF n
    <3> QED BY <2>1, <3>1, Facts
  <2> QED BY <2>1, <2>2
<1>2. /\ j \in 1 .. read /\ p + Size(j) <= Len(buf) /\ Size(j) \in Nat
      /\ \/ log[j].kind = "whole" /\ buf[p].pos = 1 /\ Matches(p, j)
         \/ log[j].kind = "head" /\ buf[p].pos = 0 /\ Matches(p, j)
         \/ log[j].kind \in {"body", "cut"} /\ buf[p].pos = 1 /\ ~Matches(p, j)
  BY <1>1, HeaderOf
<1>3. MatchesNext(p, j) <=> Matches(p, j)
  BY <1>1, AddedMatches
<1>4. log[j].from.ip = peer.ip /\ (log[j].from = peer \/ Behind(j))
  BY <1>1 DEF IInv, HeadersFrom
<1>5. UNCHANGED log /\ read' = read + 1 /\ read \in Nat /\ peer' = peer
  <2>1. r # 0
    BY <1>1
  <2> QED BY <2>1, ReadSteps, Facts DEF Added
<1>6. Size(j) = SizeNext(j) /\ (Behind(j) <=> BehindNext(j))
  BY <1>5 DEF Size, SizeNext, Behind, BehindNext
<1> HIDE DEF j
<1>7. j \in 1 .. read' /\ p + SizeNext(j) <= Len(buf')
  BY <1>1, <1>2, <1>5, <1>6
<1>8. HeaderNext(p, j)
  BY <1>1, <1>2, <1>3, <1>4, <1>5, <1>6, <1>7 DEF HeaderNext
<1>9. j <= read
  BY <1>2, <1>5
<1> QED BY <1>1, <1>8, <1>9 DEF j

\* The address beside the buffer is the new datagram's, or it is behind the
\* remains of another port.
LEMMA AddedFrom ==
  ASSUME IInv, ReadRawData, NEW r, Added(r), NEW i, i = read + 1
  PROVE  /\ log[i].from.ip = peer'.ip
         /\ r = 0 => log[i].from = peer'
         /\ r # 0 => BehindNext(i)
<1>1. /\ r \in {0, Len(buf)} /\ UNCHANGED log /\ socket /\ read \in Nat
      /\ \/ r # 0 /\ Kept(log[i].from) /\ peer' = peer
         \/ r = 0 /\ peer' = log[i].from
  BY ReadSteps, Facts DEF Added, Reads
<1>2. CASE r = 0
  BY <1>1, <1>2
<1>3. CASE r # 0
  <2>1. log[i].from.ip = peer.ip /\ log[i].from.port # peer.port /\ peer' = peer
    BY <1>1, <1>3 DEF Kept
  <2>2. buf # << >>
    BY <1>1, <1>3, Facts
  <2>3. PICK j \in 1 .. read :
          /\ log[j].from = peer
          /\ \A k \in j .. read : log[k].from.ip = peer.ip \/ log[k].kind = "empty"
    BY <1>1, <2>2 DEF IInv, Origin
  <2>4. i - 1 = read
    BY <1>1
  <2> QED BY <1>1, <1>3, <2>1, <2>3, <2>4 DEF BehindNext
<1> QED BY <1>2, <1>3

\* The header of the new datagram, with all the network left of it.
LEMMA AddedNew ==
  ASSUME IInv, ReadRawData, NEW r, Added(r), NEW p \in 1 .. Len(buf'), p > r,
         IsHeader(buf'[p])
  PROVE  /\ p = r + 3 /\ buf'[p].id = read + 1 /\ Len(buf') = p + SizeNext(read + 1)
         /\ SizeNext(read + 1) \in Nat /\ HeaderNext(p, read + 1)
<1> DEFINE i == read + 1
           d == log[i]
           n == d.len
           z == SizeOf(d)
           c == Cells(i, d)
<1>1. i \in Nat /\ d \in Datagrams /\ d.kind # "empty" /\ UNCHANGED log /\ read' = i /\ i \in 1 .. i
  BY ReadSteps, Facts DEF Added
<1>2. /\ r \in Nat /\ Len(buf') = r + Len(c) /\ Len(c) \in Nat /\ p \in Nat
      /\ p - r \in 1 .. Len(c) /\ buf'[p] = c[p - r]
  BY AddedCells
<1>3. \A k \in 1 .. Len(buf') : k > r => k - r \in 1 .. Len(c) /\ buf'[k] = c[k - r]
  <2>1. \A k \in 1 .. Len(buf') : k \in Nat /\
          \/ /\ k <= r /\ r = Len(buf) /\ k \in 1 .. Len(buf) /\ buf'[k] = buf[k]
          \/ /\ k > r /\ k - r \in 1 .. Len(c) /\ buf'[k] = c[k - r]
    BY AddedCells
  <2> HIDE DEF c
  <2> QED BY <1>2, <2>1
<1>4. d.from.ip = peer'.ip /\ (d.from = peer' \/ BehindNext(i))
  BY <1>1, AddedFrom
<1>5. SizeNext(i) = z
  BY <1>1 DEF SizeNext, SizeOf
<1> HIDE DEF i, d
<1>6. p - r = 3 /\ d.kind \in Framed
  <2>1. \A k \in 1 .. Len(c) : IsHeader(c[k]) => k = 3 /\ d.kind \in Framed
    BY <1>1, CellFacts
  <2> HIDE DEF c
  <2> QED BY <1>2, <2>1
<1>7. p = r + 3
  BY <1>2, <1>6
<1>8. /\ Len(c) = 3 + z /\ IsHeader(c[3]) /\ c[3].id = i
      /\ c[3].pos = IF d.kind = "head" THEN 0 ELSE 1
      /\ \A k \in 1 .. z : c[3 + k] = IF d.kind = "body" /\ k = n THEN Noise ELSE Body(i, n)[k]
  BY <1>1, <1>6, CellsAre
<1>9. /\ n \in Nat /\ z \in Nat /\ z <= n /\ (d.kind \in {"body", "cut"} => n > 0)
      /\ d.kind # "cut" => z = n
      /\ d.kind = "cut" => z = n - 1
  BY <1>1, DatagramIs DEF SizeOf
<1> HIDE DEF c, z
<1>10. Len(buf') = p + z
  BY <1>2, <1>7, <1>8, <1>9
<1>11. \A k \in 1 .. z : buf'[p + k] = c[3 + k]
  <2> TAKE k \in 1 .. z
  <2> DEFINE q == p + k
  <2>1. q \in 1 .. Len(buf') /\ q > r /\ q - r = 3 + k
    BY <1>2, <1>7, <1>9, <1>10
  <2> HIDE DEF q
  <2>2. buf'[q] = c[q - r]
    BY <1>3, <2>1
  <2> QED BY <2>1, <2>2 DEF q
<1>12. MatchesNext(p, i) <=> /\ p + n <= p + z
                             /\ \A k \in 1 .. n : buf'[p + k] = Body(i, n)[k]
  BY <1>1, <1>10 DEF MatchesNext, d
<1> HIDE DEF n
<1>13. d.kind \in {"whole", "head"} => MatchesNext(p, i)
  <2> SUFFICES ASSUME d.kind \in {"whole", "head"} PROVE MatchesNext(p, i)
    OBVIOUS
  <2>1. z = n /\ d.kind # "body" /\ p + n <= p + z
    BY <1>2, <1>9
  <2>2. \A k \in 1 .. n : c[3 + k] = Body(i, n)[k]
    BY <1>8, <2>1
  <2> QED BY <1>11, <1>12, <2>1, <2>2
<1>14. d.kind = "body" => ~MatchesNext(p, i)
  <2> SUFFICES ASSUME d.kind = "body" PROVE ~MatchesNext(p, i)
    OBVIOUS
  <2>1. z = n /\ n > 0 /\ n \in 1 .. n
    BY <1>9
  <2>2. buf'[p + n] = Noise
    BY <1>8, <1>11, <2>1
  <2>3. Body(i, n)[n] # Noise
    BY <1>1, <1>9, <2>1, LastPiece, CellKinds
  <2> QED BY <1>12, <2>1, <2>2, <2>3
<1>15. d.kind = "cut" => ~MatchesNext(p, i)
  <2> SUFFICES ASSUME d.kind = "cut" PROVE ~MatchesNext(p, i)
    OBVIOUS
  <2>1. ~(p + n <= p + z)
    BY <1>2, <1>9
  <2> QED BY <1>12, <2>1
<1>16. buf'[p].id = i /\ buf'[p].pos = IF d.kind = "head" THEN 0 ELSE 1
  BY <1>2, <1>6, <1>8
<1>17. \/ d.kind = "whole" /\ buf'[p].pos = 1 /\ MatchesNext(p, i)
       \/ d.kind = "head" /\ buf'[p].pos = 0 /\ MatchesNext(p, i)
       \/ d.kind \in {"body", "cut"} /\ buf'[p].pos = 1 /\ ~MatchesNext(p, i)
  BY <1>6, <1>13, <1>14, <1>15, <1>16 DEF Framed
<1>18. log'[i] = d /\ p + z <= Len(buf')
  BY <1>1, <1>2, <1>9, <1>10 DEF d
<1>19. HeaderNext(p, i)
  BY <1>1, <1>4, <1>5, <1>17, <1>18 DEF HeaderNext
<1> QED BY <1>5, <1>7, <1>9, <1>10, <1>16, <1>19 DEF i

LEMMA AddedKeeps ==
  ASSUME IInv, ReadRawData, NEW r, Added(r)
  PROVE  /\ HeadersAre' /\ HeadersFrom' /\ BodiesAre' /\ Increasing'
         /\ \A p \in 1 .. Len(buf') : buf'[p].id <= read'
<1> DEFINE i == read + 1
           d == log[i]
           c == Cells(i, d)
<1>1. /\ i \in Nat /\ d \in Datagrams /\ d.kind # "empty" /\ UNCHANGED log
      /\ read' = i /\ i \in 1 .. i /\ read \in Nat
  BY ReadSteps, Facts DEF Added
<1>2. \A p \in 1 .. Len(buf') : p \in Nat /\
        \/ /\ p <= r /\ r = Len(buf) /\ p \in 1 .. Len(buf) /\ buf'[p] = buf[p]
        \/ /\ p > r /\ p - r \in 1 .. Len(c) /\ buf'[p] = c[p - r]
  BY AddedCells
<1>3. \A p \in 1 .. Len(buf') : p > r /\ IsHeader(buf'[p]) => p = r + 3 /\ buf'[p].id = i
  BY AddedNew
<1>4. \A p \in 1 .. Len(buf') : p <= r /\ IsHeader(buf'[p]) => buf'[p].id <= read
  BY AddedOld
<1>5. r \in Nat
  BY AddedCells
<1>6. HeadersAre' /\ HeadersFrom'
  <2> SUFFICES ASSUME NEW p \in 1 .. Len(buf'), IsHeader(buf'[p])
               PROVE  HeaderNext(p, buf'[p].id)
    BY HeadersNext
  <2>1. CASE p <= r
    BY <2>1, AddedOld
  <2>2. CASE p > r
    BY <2>2, AddedNew
  <2> QED BY <1>2, <2>1, <2>2
<1>7. \A k \in 1 .. Len(c) :
        /\ c[k].id <= i
        /\ c[k].what = "body" =>
             /\ c[k].id = i
             /\ d.kind \in {"body", "cut"} => c[k].pos < d.len
  <2> HIDE DEF i, d
  <2> QED BY <1>1, CellFacts
<1>8. \A p \in 1 .. Len(buf') : buf'[p].id <= read'
  <2> TAKE p \in 1 .. Len(buf')
  <2>1. CASE p \in 1 .. Len(buf) /\ buf'[p] = buf[p]
    <3>1. buf[p].id <= read /\ buf[p].id \in Nat
      BY <2>1, Facts DEF IInv, Typed, Cell
    <3> QED BY <1>1, <2>1, <3>1
  <2>2. CASE p - r \in 1 .. Len(c) /\ buf'[p] = c[p - r]
    BY <1>1, <1>7, <2>2
  <2> QED BY <1>2, <2>1, <2>2
<1>9. BodiesAre'
  <2> SUFFICES ASSUME NEW p \in 1 .. Len(buf'), buf'[p].what = "body"
               PROVE  /\ buf'[p].id \in 1 .. read'
                      /\ log[buf'[p].id].kind \in {"body", "cut"} =>
                           buf'[p].pos < log[buf'[p].id].len
    BY <1>1 DEF BodiesAre
  <2>1. CASE p \in 1 .. Len(buf) /\ buf'[p] = buf[p]
    <3>1. /\ buf[p].id \in 1 .. read
          /\ log[buf[p].id].kind \in {"body", "cut"} => buf[p].pos < log[buf[p].id].len
      BY <2>1 DEF IInv, BodiesAre
    <3>2. buf[p].id \in 1 .. read'
      BY <1>1, <3>1
    <3> QED BY <2>1, <3>1, <3>2
  <2>2. CASE p - r \in 1 .. Len(c) /\ buf'[p] = c[p - r]
    <3>1. buf'[p].id = i /\ (d.kind \in {"body", "cut"} => buf'[p].pos < d.len)
      BY <1>7, <2>2
    <3> QED BY <1>1, <3>1
  <2> QED BY <1>2, <2>1, <2>2
<1>10. Increasing'
  <2> SUFFICES ASSUME NEW p \in 1 .. Len(buf'), NEW q \in 1 .. Len(buf'),
                      p < q, IsHeader(buf'[p]), IsHeader(buf'[q])
               PROVE  buf'[p].id < buf'[q].id
    BY DEF Increasing, IsHeader
  <2>1. CASE q <= r
    <3>1. p <= r /\ p \in Nat /\ q \in Nat
      BY <1>2, <1>5, <2>1
    <3>2. p \in 1 .. Len(buf) /\ buf'[p] = buf[p] /\ q \in 1 .. Len(buf) /\ buf'[q] = buf[q]
      BY <1>2, <1>5, <2>1, <3>1
    <3> QED BY <3>2 DEF IInv, Increasing
  <2>2. CASE q > r /\ p <= r
    <3>1. buf'[q].id = i /\ buf'[p].id <= read
      BY <1>3, <1>4, <2>2
    <3>2. buf'[p].id \in Nat
      <4>1. buf' \in Seq(Cell)
        BY AddedCells
      <4>2. buf'[p] \in Cell
        BY <4>1, ElementOfSeq
      <4> QED BY <4>2 DEF Cell
    <3> QED BY <1>1, <3>1, <3>2
  <2>3. CASE q > r /\ p > r
    <3>1. p = r + 3 /\ q = r + 3
      BY <1>3, <2>3
    <3> QED BY <1>5, <3>1
  <2> QED BY <1>2, <1>5, <2>1, <2>2, <2>3
<1> QED BY <1>6, <1>8, <1>9, <1>10

\* The rest and the datagram behind it are what the search meets.
LEMMA AddedBehinds ==
  ASSUME IInv, ReadRawData, NEW r, Added(r)
  PROVE  Behinds(r)' /\ r \in 0 .. Len(buf')
<1> DEFINE i == read + 1
           d == log[i]
           c == Cells(i, d)
           L == Len(buf')
<1>1. i \in Nat /\ d \in Datagrams /\ d.kind # "empty" /\ UNCHANGED log /\ RestOf(0)
  BY ReadSteps, Facts DEF Added
<1>2. /\ r \in Nat /\ Len(c) \in Nat /\ Len(c) >= 3 /\ L = r + Len(c) /\ L \in Nat
      /\ \A p \in 1 .. L : p \in Nat /\
           \/ /\ p <= r /\ r = Len(buf) /\ p \in 1 .. Len(buf) /\ buf'[p] = buf[p]
           \/ /\ p > r /\ p - r \in 1 .. Len(c) /\ buf'[p] = c[p - r]
  BY AddedCells
<1>3. /\ c[1] # Magic2 /\ c[1].what \in {"magic1", "noise"}
      /\ \A k \in 1 .. Len(c) : c[k].what = "magic1" => k = 1 \/ k = 4
  <2>1. i \in Nat /\ d \in Datagrams /\ d.kind # "empty"
    BY <1>1
  <2> HIDE DEF i, d
  <2> QED BY <2>1, CellFacts, SMTT(30)
<1> HIDE DEF c
<1>4. \A p \in 1 .. L : p <= r => r = Len(buf) /\ p \in 1 .. Len(buf) /\ buf'[p] = buf[p]
  <2> HIDE DEF L
  <2> QED BY <1>2
<1>5. \A p \in 1 .. L : p > r => p - r \in 1 .. Len(c) /\ buf'[p] = c[p - r]
  <2> HIDE DEF L
  <2> QED BY <1>2
<1>6. \A p \in 1 .. L : p > r /\ IsHeader(buf'[p]) =>
        p = r + 3 /\ L = p + SizeNext(buf'[p].id) /\ SizeNext(buf'[p].id) \in Nat
  BY AddedNew
<1>7. \A p \in 1 .. L : p <= r /\ IsHeader(buf'[p]) => SizeNext(buf'[p].id) = Size(buf[p].id)
  BY <1>1, <1>4 DEF Size, SizeNext
<1> HIDE DEF L
<1>8. r + 3 <= L /\ r \in 0 .. L
  BY <1>2
<1>9. ASSUME NEW m \in Marks(buf', 0)
      PROVE  /\ (m <= 3 /\ m + 2 <= r) \/ m = r \/ m = r + 3
             /\ m + 3 <= L /\ IsHeader(buf'[m + 3]) =>
                  \/ m = 0 /\ r = 3 + SizeNext(buf'[m + 3].id)
                  \/ m = r /\ L = r + 3 + SizeNext(buf'[m + 3].id)
  <2>1. m \in Nat /\ m + 2 <= L /\ buf'[m + 1] = Magic1 /\ buf'[m + 2] = Magic2
    BY <1>2 DEF Marks, MagicSize, L
  <2>2. m + 1 \in 1 .. L /\ m + 2 \in 1 .. L
    BY <1>2, <2>1
  <2>3. (m + 3 <= L /\ IsHeader(buf'[m + 3]) /\ m + 3 > r) =>
           m = r /\ L = r + 3 + SizeNext(buf'[m + 3].id)
    <3> SUFFICES ASSUME m + 3 <= L, IsHeader(buf'[m + 3]), m + 3 > r
                 PROVE  m = r /\ L = r + 3 + SizeNext(buf'[m + 3].id)
      OBVIOUS
    <3> DEFINE p == m + 3
               z == SizeNext(buf'[p].id)
    <3>1. p \in 1 .. L /\ p > r /\ IsHeader(buf'[p])
      BY <1>2, <2>1
    <3>2. p = r + 3 /\ L = p + z
      BY <1>6, <3>1
    <3>3. m = r /\ p = r + 3
      BY <1>2, <2>1, <3>2
    <3> QED BY <3>2, <3>3
  <2>4. CASE m + 2 <= r
    <3>1. r = Len(buf) /\ buf[m + 1] = Magic1 /\ buf[m + 2] = Magic2
      <4>1. m + 1 <= r
        BY <1>2, <2>1, <2>4
      <4> QED BY <1>4, <2>1, <2>2, <2>4, <4>1
    <3>2. m \in Marks(buf, 0)
      <4>1. \A k : k \in Marks(buf, 0) <=>
               /\ k \in Nat /\ 0 <= k /\ k + 2 <= Len(buf)
               /\ buf[k + 1] = Magic1 /\ buf[k + 2] = Magic2
        BY Facts, MarksAre
      <4>2. 0 <= m
        BY <2>1
      <4> QED BY <2>1, <2>4, <3>1, <4>1, <4>2
    <3>3. /\ m - 0 <= 3
          /\ m + 3 <= Len(buf) /\ IsHeader(buf[m + 3]) =>
               m = 0 /\ Len(buf) - 0 = 3 + Size(buf[m + 3].id)
      <4>1. m >= 0
        BY <2>1
      <4> QED BY <1>1, <3>2, <4>1 DEF RestOf
    <3>4. m <= 3
      BY <2>1, <3>3
    <3>5. ASSUME m + 3 <= L, IsHeader(buf'[m + 3]), m + 3 <= r
          PROVE  m = 0 /\ r = 3 + SizeNext(buf'[m + 3].id)
      <4> DEFINE p == m + 3
      <4>1. p \in 1 .. L /\ p <= r
        BY <1>2, <2>1, <3>5
      <4> HIDE DEF p
      <4>2. buf'[p] = buf[p] /\ p \in 1 .. Len(buf)
        BY <1>4, <4>1
      <4>3. IsHeader(buf'[p])
        BY <3>5 DEF p
      <4>4. SizeNext(buf'[p].id) = Size(buf[p].id) /\ Size(buf[p].id) \in Nat
        BY <1>7, <4>1, <4>2, <4>3, HeaderOf
      <4>5. m = 0 /\ Len(buf) - 0 = 3 + Size(buf[p].id)
        BY <3>1, <3>3, <3>5, <4>2, <4>3 DEF p
      <4>6. r = 3 + Size(buf[p].id)
        BY <1>2, <3>1, <4>4, <4>5
      <4> QED BY <4>4, <4>5, <4>6 DEF p
    <3>6. m + 3 <= r \/ m + 3 > r
      BY <1>2, <2>1
    <3> QED BY <2>3, <2>4, <3>4, <3>5, <3>6
  <2>5. ~(m + 1 = r)
    <3> SUFFICES ASSUME m + 1 = r PROVE FALSE
      OBVIOUS
    <3> DEFINE p == m + 2
    <3>1. p \in 1 .. L /\ p > r /\ p - r = 1
      BY <1>2, <2>1
    <3> HIDE DEF p
    <3>2. buf'[p] = c[1]
      BY <1>5, <3>1
    <3> QED BY <1>3, <2>1, <3>2 DEF p
  <2>6. CASE m >= r
    <3> DEFINE p == m + 1
    <3>1. p \in 1 .. L /\ p > r
      BY <1>2, <2>1, <2>6
    <3>2. buf'[p].what = "magic1"
      BY <2>1, CellKinds
    <3> HIDE DEF p
    <3>3. p - r \in 1 .. Len(c) /\ buf'[p] = c[p - r]
      BY <1>5, <3>1
    <3>4. p - r = 1 \/ p - r = 4
      BY <1>3, <3>2, <3>3
    <3>5. m = r \/ m = r + 3
      BY <1>2, <2>1, <3>4 DEF p
    <3>6. m + 3 > r
      BY <1>2, <2>1, <2>6
    <3> QED BY <2>3, <3>5, <3>6
  <2> QED BY <1>2, <2>1, <2>4, <2>5, <2>6
<1>10. Behinds(r)'
  <2>1. \A h : IsHeader(h) <=> h.what = "header"
    BY DEF IsHeader
  <2> QED BY <1>8, <1>9 DEF Behinds, Size, SizeNext, IsHeader, L
<1> QED BY <1>8, <1>10 DEF L

LEMMA AddedFresh ==
  ASSUME IInv, ReadRawData, NEW r, Added(r)
  PROVE  Fresh'
<1>1. UNCHANGED handed /\ read' = read + 1 /\ read \in Nat /\ procPt = 0 /\ procPt' = 0
  BY ReadSteps, Facts DEF Added
<1>2. \A k \in 1 .. Len(handed) : handed[k].id \in 1 .. read
  BY DEF IInv, Fresh
<1>3. ASSUME NEW k \in 1 .. Len(handed), NEW p \in 1 .. Len(buf'), IsHeader(buf'[p])
      PROVE  handed[k].id < buf'[p].id
  <2>1. p \in Nat /\ r \in Nat /\ (p <= r => p \in 1 .. Len(buf) /\ buf'[p] = buf[p])
    BY AddedCells
  <2>2. CASE p <= r
    <3>1. p \in procPt + 1 .. Len(buf) /\ IsHeader(buf[p])
      BY <1>1, <1>3, <2>1, <2>2
    <3> QED BY <2>1, <2>2, <3>1 DEF IInv, Fresh
  <2>3. CASE p > r
    <3>1. buf'[p].id = read + 1
      BY <1>3, <2>3, AddedNew
    <3> QED BY <1>1, <1>2, <3>1
  <2> QED BY <2>1, <2>2, <2>3
<1>4. \A k \in 1 .. Len(handed') : handed'[k].id \in 1 .. read'
  BY <1>1, <1>2
<1>5. procPt' + 1 .. Len(buf') = 1 .. Len(buf')
  BY <1>1
<1> QED BY <1>1, <1>3, <1>4, <1>5 DEF Fresh, IsHeader

LEMMA AddedTypes ==
  ASSUME IInv, ReadRawData, NEW r, Added(r)
  PROVE  TypeOK' /\ Typed'
<1> DEFINE i == read + 1
           d == log[i]
           n == Len(Cells(i, d))
<1>1. /\ UNCHANGED <<socket, log, head, handed, unheard>>
      /\ at' = "search" /\ read' = i /\ i \in 1 .. Len(log) /\ d \in Datagrams
      /\ procPt' = 0 /\ Len(buf) < Total /\ read \in Nat /\ Len(log) \in Nat
  BY ReadSteps, Facts DEF Added
<1>2. /\ r \in Nat /\ (r = 0 \/ r = Len(buf)) /\ Len(buf') = r + n
      /\ buf' \in Seq(Cell) /\ Len(buf') \in Nat
  BY AddedCells
<1>3. n \in Nat /\ n <= Total
  <2> HIDE DEF d
  <2> QED BY <1>1, CellsFit
<1> HIDE DEF n
<1>4. Len(buf') <= BufLen /\ procPt' \in 0 .. Len(buf')
  <2>1. Len(buf) \in Nat /\ Len(buf) < Total /\ procPt' = 0
    BY <1>1, Facts
  <2>2. r <= Len(buf) /\ Len(buf') = r + n
    BY <1>2, <2>1
  <2> QED BY <1>2, <1>3, <2>1, <2>2, Sizes
<1>5. peer' \in Peers /\ peer' # NoPeer
  <2>1. d.from \in Peers
    <3> HIDE DEF d
    <3> QED BY <1>1, DatagramIs
  <2>2. peer' = d.from \/ (r # 0 /\ peer' = peer)
    BY DEF Added
  <2>3. r # 0 => buf # << >>
    BY <1>2, Facts
  <2>4. \A p \in Peers : p # NoPeer
    BY UdpAssumption DEF NoPeer
  <2> QED BY <2>1, <2>2, <2>3, <2>4 DEF IInv, TypeOK
<1>6. TypeOK'
  <2>1. /\ socket' \in BOOLEAN /\ log' \in Seq(Datagrams) /\ Len(log') <= MaxLog
        /\ unheard' \subseteq 0 .. Len(log')
        /\ \A k \in 1 .. Len(handed') : handed'[k].id \in Ids'
    BY <1>1 DEF IInv, TypeOK, Ids
  <2>2. read' \in 0 .. Len(log')
    BY <1>1
  <2> QED BY <1>1, <1>4, <1>5, <2>1, <2>2 DEF TypeOK
<1>7. Typed'
  <2>1. \A p \in 1 .. Len(buf') : buf'[p].id <= read'
    BY AddedKeeps
  <2>2. IsHeader(head) => head.id \in 1 .. read'
    <3>1. IsHeader(head) => head.id \in 1 .. read
      BY DEF IInv, Typed
    <3> QED BY <1>1, <3>1
  <2> QED BY <1>1, <1>2, <2>1, <2>2 DEF IInv, Typed, IsHeader
<1> QED BY <1>6, <1>7

\* The whole frames read before are not waited for any more.
LEMMA ReadWaits ==
  ASSUME IInv, ReadRawData, NEW k \in 1 .. read, log[k].kind = "whole"
  PROVE  k \in Handed' \cup unheard' \/ BehindNext(k)
<1>1. at = "read" /\ UNCHANGED <<log, handed, unheard>>
  BY ReadSteps
<1>2. k \in Handed \cup unheard \/ Behind(k)
  BY <1>1 DEF IInv, Waiting
<1> QED BY <1>1, <1>2 DEF Handed, Behind, BehindNext

LEMMA ReadRawDataKeeps == IInv /\ ReadRawData => IInv'
<1> SUFFICES ASSUME IInv, ReadRawData PROVE IInv'
  OBVIOUS
<1> DEFINE i == read + 1
           d == log[i]
<1>1. /\ UNCHANGED <<socket, log, head, handed, unheard>>
      /\ at = "read" /\ at' = "search" /\ socket
      /\ read' = i /\ read \in Nat /\ i \in 1 .. Len(log) /\ d \in Datagrams
      /\ procPt = 0 /\ RestOf(0) /\ Len(log) \in Nat
  BY ReadSteps, Facts
<1>2. \A k \in 1 .. read' : k \in 1 .. read \/ k = i
  BY <1>1
<1>3. CASE d.kind = "empty" /\ UNCHANGED <<buf, procPt, peer>>
  <2>1. read' \in Nat /\ read <= read' /\ \A k \in 1 .. read : log'[k] = log[k] /\ k \in 1 .. read'
    BY <1>1
  <2>2. /\ HeadersAre' /\ HeadersFrom' /\ BodiesAre' /\ Increasing'
        /\ \A p \in 1 .. Len(buf') : buf'[p].id <= read'
        /\ \A r : Behinds(r) => Behinds(r)'
    BY <1>3, <2>1, BufferStays
  <2>3. Fresh'
    BY <1>1, <1>3, <2>1, FreshStays
  <2>4. TypeOK'
    <3>1. read' \in 0 .. Len(log')
      BY <1>1
    <3> QED BY <1>1, <1>3, <3>1 DEF IInv, TypeOK, Ids
  <2>5. Typed'
    <3>1. IsHeader(head) => head.id \in 1 .. read'
      BY <2>1 DEF IInv, Typed
    <3> QED BY <1>1, <1>3, <2>2, <3>1 DEF IInv, Typed, IsHeader
  <2>6. Origin'
    <3> SUFFICES ASSUME buf # << >>
                 PROVE  \E j \in 1 .. i :
                          /\ log[j].from = peer
                          /\ \A k \in j .. i : log[k].from.ip = peer.ip \/ log[k].kind = "empty"
      BY <1>1, <1>3 DEF Origin
    <3>1. PICK j \in 1 .. read :
            /\ log[j].from = peer
            /\ \A k \in j .. read : log[k].from.ip = peer.ip \/ log[k].kind = "empty"
      BY <1>1 DEF IInv, Origin
    <3>2. \A k \in j .. i : k \in j .. read \/ k = i
      BY <1>1
    <3>3. j \in 1 .. i
      BY <1>1
    <3> QED BY <1>3, <3>1, <3>2, <3>3
  <2>7. Places' /\ Stale'
    <3>1. PICK r : r = Len(buf)
      OBVIOUS
    <3>2. Behinds(r)' /\ r \in 0 .. Len(buf')
      BY <1>1, <1>3, <2>2, <3>1, RestIsBehinds, Facts
    <3> QED BY <1>1, <1>3, <3>2 DEF Places, Stale
  <2>8. Waiting'
    <3> SUFFICES ASSUME NEW k \in 1 .. read', log[k].kind = "whole"
                 PROVE  k \in Handed' \cup unheard' \/ BehindNext(k)
      BY <1>1 DEF Waiting, Behind, BehindNext
    <3>1. k \in 1 .. read
      BY <1>2, <1>3
    <3> QED BY <3>1, ReadWaits
  <2> QED BY <2>2, <2>3, <2>4, <2>5, <2>6, <2>7, <2>8 DEF IInv
<1>4. CASE \E r : Added(r)
  <2>1. PICK r : Added(r)
    BY <1>4
  <2>2. /\ r \in {0, Len(buf)} /\ procPt' = 0
        /\ \/ r # 0 /\ Kept(d.from) /\ peer' = peer
           \/ r = 0 /\ peer' = d.from /\ buf' = Cells(i, d)
    BY <2>1 DEF Added, Reads
  <2>3. Origin'
    <3> SUFFICES \E j \in 1 .. i :
                   /\ log[j].from = peer'
                   /\ \A k \in j .. i : log[k].from.ip = peer'.ip \/ log[k].kind = "empty"
      BY <1>1 DEF Origin
    <3>1. CASE r = 0
      <4>1. i \in 1 .. i /\ \A k \in i .. i : k = i
        BY <1>1
      <4> QED BY <2>2, <3>1, <4>1
    <3>2. CASE r # 0
      <4>1. buf # << >> /\ peer' = peer /\ d.from.ip = peer.ip
        BY <2>2, <3>2, Facts DEF Kept
      <4>2. PICK j \in 1 .. read :
              /\ log[j].from = peer
              /\ \A k \in j .. read : log[k].from.ip = peer.ip \/ log[k].kind = "empty"
        BY <1>1, <4>1 DEF IInv, Origin
      <4>3. \A k \in j .. i : k \in j .. read \/ k = i
        BY <1>1
      <4>4. j \in 1 .. i
        BY <1>1
      <4> QED BY <4>1, <4>2, <4>3, <4>4
    <3> QED BY <3>1, <3>2
  <2>4. Places' /\ Stale'
    <3>1. Behinds(r)' /\ r \in 0 .. Len(buf')
      BY <2>1, AddedBehinds
    <3> QED BY <1>1, <2>2, <3>1 DEF Places, Stale
  <2>5. Waiting'
    <3> SUFFICES ASSUME NEW k \in 1 .. read', log[k].kind = "whole"
                 PROVE  \/ k \in Handed' \cup unheard' \/ BehindNext(k)
                        \/ buf' = Cells(k, log[k])
      BY <1>1, <2>2 DEF Waiting, Behind, BehindNext, Cells, Frame
    <3>1. CASE k \in 1 .. read
      BY <3>1, ReadWaits
    <3>2. CASE k = i
      <4>1. r # 0 => BehindNext(i)
        BY <2>1, AddedFrom
      <4> QED BY <2>2, <3>2, <4>1
    <3> QED BY <1>2, <3>1, <3>2
  <2>6. HeadersAre' /\ HeadersFrom' /\ BodiesAre' /\ Increasing'
    BY <2>1, AddedKeeps
  <2> QED BY <2>1, <2>3, <2>4, <2>5, <2>6, AddedFresh, AddedTypes DEF IInv
<1> QED BY <1>3, <1>4, ReadCases

----------------------------------------------------------------------------
(* The invariant *)

LEMMA StutterKeeps == IInv /\ UNCHANGED vars => IInv'
<1> SUFFICES ASSUME IInv, UNCHANGED vars PROVE IInv'
  OBVIOUS
<1>1. UNCHANGED <<socket, log, read, buf, procPt, peer, head, at, handed, unheard>>
  BY DEF vars, buffer
<1>2. read' \in Nat /\ read <= read'
  BY <1>1, Facts
<1>3. /\ HeadersAre' /\ HeadersFrom' /\ BodiesAre' /\ Increasing'
      /\ \A p \in 1 .. Len(buf') : buf'[p].id <= read'
      /\ (RestOf(0) => RestOf(0)')
      /\ \A r : Behinds(r) => Behinds(r)'
  BY <1>1, <1>2, BufferStays
<1>4. Fresh'
  BY <1>1, <1>2, FreshStays
<1>5. TypeOK'
  BY <1>1 DEF IInv, TypeOK, Ids
<1>6. Typed'
  BY <1>1 DEF IInv, Typed, IsHeader
<1>7. Origin'
  BY <1>1 DEF IInv, Origin
<1>8. Places'
  BY <1>1, <1>3 DEF IInv, Places
<1>9. Stale'
  BY <1>1 DEF IInv, Stale, DoubleMark, Marks, IsHeader
<1>10. Waiting'
  BY <1>1 DEF IInv, Waiting, Handed, Behind, Cells, Frame
<1> QED BY <1>3, <1>4, <1>5, <1>6, <1>7, <1>8, <1>9, <1>10 DEF IInv

\* IInv holds in every state: whatever a client reads, its buffer holds what is
\* left of one datagram and one whole datagram behind it.
THEOREM UdpInvariant == Spec => []IInv
<1>1. Init => IInv
  BY InitKeeps
<1>2. IInv /\ [Next]_vars => IInv'
  <2> SUFFICES ASSUME IInv, [Next]_vars PROVE IInv'
    OBVIOUS
  <2>1. CASE Initialize
    BY <2>1, InitializeKeeps
  <2>2. CASE Close
    BY <2>2, CloseKeeps
  <2>3. CASE Arrive
    BY <2>3, ArriveKeeps
  <2>4. CASE RecvFrame
    BY <2>4, RecvFrameKeeps
  <2>5. CASE SearchFrame
    BY <2>5, SearchFrameKeeps
  <2>6. CASE ReadNothing
    BY <2>6, ReadNothingKeeps
  <2>7. CASE ReadRawData
    BY <2>7, ReadRawDataKeeps
  <2>8. CASE UNCHANGED vars
    BY <2>8, StutterKeeps
  <2> QED BY <2>1, <2>2, <2>3, <2>4, <2>5, <2>6, <2>7, <2>8 DEF Next, Worker
<1> QED BY <1>1, <1>2, PTL DEF Spec

\* What a step adds: datagrams to the log, and to handed a whole frame whose
\* header is still ahead of the search.
LEMMA Grows ==
  ASSUME IInv, [Next]_vars
  PROVE  /\ \A i \in 1 .. Len(log) : log'[i] = log[i]
         /\ Len(handed) \in Nat /\ Len(handed') \in Nat
         /\ \A k \in 1 .. Len(handed) :
              handed'[k] = handed[k] /\ handed[k].id \in 1 .. Len(log)
         /\ \A k \in 1 .. Len(handed') :
              \/ k \in 1 .. Len(handed)
              \/ /\ k = Len(handed) + 1 /\ UNCHANGED log
                 /\ \E p \in procPt + 1 .. Len(buf) :
                      /\ p \in 1 .. Len(buf) /\ IsHeader(buf[p])
                      /\ log[buf[p].id].kind = "whole"
                      /\ handed'[k].id = buf[p].id /\ handed'[k].from = peer
<1>1. handed \in Seq(Frames) /\ Len(handed) \in Nat
  BY LenProperties DEF IInv, Typed
<1>2. \A k \in 1 .. Len(handed) : handed[k].id \in 1 .. Len(log)
  BY DEF IInv, TypeOK, Ids
<1>3. CASE SearchFrame
  <2>1. UNCHANGED log /\ (ReadsOn \/ PassesOver \/ HandsUp)
    BY <1>3, SearchSteps
  <2>2. /\ Len(handed') \in Nat /\ Len(handed) <= Len(handed')
        /\ \A k \in 1 .. Len(handed) : handed'[k] = handed[k]
        /\ \A k \in 1 .. Len(handed') : k > Len(handed) =>
              /\ k = Len(handed) + 1
              /\ \E p \in procPt + 1 .. Len(buf) :
                   /\ IsHeader(buf[p]) /\ log[buf[p].id].kind = "whole"
                   /\ handed'[k].id = buf[p].id /\ handed'[k].from = peer
    BY <2>1, SearchHands
  <2>3. \A k \in 1 .. Len(handed') : k \in 1 .. Len(handed) \/ k > Len(handed)
    BY <1>1, <2>2
  <2>4. \A p \in procPt + 1 .. Len(buf) : p \in 1 .. Len(buf)
    BY Facts
  <2> QED BY <1>1, <1>2, <2>1, <2>2, <2>3, <2>4
<1>4. CASE Arrive
  <2>1. PICK d \in Datagrams : log' = Append(log, d)
    BY <1>4 DEF Arrive
  <2>2. log \in Seq(Datagrams)
    BY Facts
  <2>3. \A i \in 1 .. Len(log) : log'[i] = log[i]
    BY <2>1, <2>2, AppendProperties
  <2>4. UNCHANGED handed
    BY <1>4 DEF Arrive
  <2> QED BY <1>1, <1>2, <2>3, <2>4
<1>5. CASE UNCHANGED <<log, handed>>
  BY <1>1, <1>2, <1>5
<1>6. \/ SearchFrame \/ Arrive \/ UNCHANGED <<log, handed>>
  <2>1. Initialize \/ Close \/ RecvFrame \/ ReadNothing \/ ReadRawData => UNCHANGED <<log, handed>>
    BY DEF Initialize, Close, RecvFrame, ReadNothing, ReadRawData
  <2>2. UNCHANGED vars => UNCHANGED <<log, handed>>
    BY DEF vars
  <2> QED BY <2>1, <2>2 DEF Next, Worker
<1> QED BY <1>3, <1>4, <1>5, <1>6

----------------------------------------------------------------------------
(* The theorems *)

\* Types: m_Buff_ReadLen and m_Buff_ProcPt stay within the buffer, the
\* assertion of ReadRawData holds, and there is always room for a whole frame.
THEOREM TypeCorrect == Spec => []TypeOK
<1>1. IInv => TypeOK
  BY DEF IInv
<1> QED BY <1>1, UdpInvariant, PTL

\* Once the buffer is empty every whole frame that was read is handed up,
\* except behind the remains of another port of the same address.
THEOREM WholeFramesHanded == Spec => []WholeIsHanded
<1>1. IInv => WholeIsHanded
  <2> SUFFICES ASSUME IInv, at = "idle", NEW i \in Whole, i <= read
               PROVE  i \in Handed \cup unheard \/ Behind(i)
    BY DEF WholeIsHanded
  <2>1. i \in 1 .. read /\ log[i].kind = "whole"
    <3>1. i \in 1 .. Len(log) /\ log[i].kind = "whole"
      BY DEF Whole, Ids
    <3> QED BY <3>1, Facts
  <2> QED BY <2>1 DEF IInv, Waiting
<1> QED BY <1>1, UdpInvariant, PTL

\* RecvFrame returns only frames that came whole, whatever header search_header
\* left in the caller's buffer.
THEOREM OnlyWholeHandedUp == Spec => []OnlyWhole
<1>1. Init => OnlyWhole
  <2>1. Init => Len(handed) = 0
    BY EmptySeq DEF Init
  <2> QED BY <2>1 DEF OnlyWhole
<1>2. IInv /\ OnlyWhole /\ [Next]_vars => OnlyWhole'
  <2> SUFFICES ASSUME IInv, OnlyWhole, [Next]_vars, NEW k \in 1 .. Len(handed')
               PROVE  log'[handed'[k].id].kind = "whole"
    BY DEF OnlyWhole
  <2>1. CASE k \in 1 .. Len(handed)
    <3>1. handed'[k] = handed[k] /\ log'[handed[k].id] = log[handed[k].id]
      BY <2>1, Grows
    <3> QED BY <2>1, <3>1 DEF OnlyWhole
  <2>2. CASE ~(k \in 1 .. Len(handed))
    <3>1. PICK p \in 1 .. Len(buf) : log[buf[p].id].kind = "whole" /\ handed'[k].id = buf[p].id
      BY <2>2, Grows
    <3> QED BY <2>2, <3>1, Grows
  <2> QED BY <2>1, <2>2
<1> QED BY <1>1, <1>2, UdpInvariant, PTL DEF Spec

\* RecvFrame returns no frame twice, and none before an earlier one.
THEOREM HandedOnceInOrder == Spec => []OnceInOrder
<1>1. Init => OnceInOrder
  <2>1. Init => Len(handed) = 0
    BY EmptySeq DEF Init
  <2> QED BY <2>1 DEF OnceInOrder
<1>2. IInv /\ OnceInOrder /\ [Next]_vars => OnceInOrder'
  <2> SUFFICES ASSUME IInv, OnceInOrder, [Next]_vars,
                      NEW j \in 1 .. Len(handed'), NEW k \in 1 .. Len(handed'), j < k
               PROVE  handed'[j].id < handed'[k].id
    BY DEF OnceInOrder
  <2>1. /\ Len(handed) \in Nat
        /\ j \in 1 .. Len(handed) \/ j = Len(handed) + 1
        /\ k \in 1 .. Len(handed) \/ k = Len(handed) + 1
    BY Grows
  <2>2. j \in 1 .. Len(handed)
    BY <2>1
  <2>3. handed'[j] = handed[j]
    BY <2>2, Grows
  <2>4. CASE k \in 1 .. Len(handed)
    <3>1. handed'[k] = handed[k]
      BY <2>4, Grows
    <3> QED BY <2>2, <2>3, <2>4, <3>1 DEF OnceInOrder
  <2>5. CASE ~(k \in 1 .. Len(handed))
    <3>1. PICK p \in procPt + 1 .. Len(buf) : IsHeader(buf[p]) /\ handed'[k].id = buf[p].id
      BY <2>5, Grows
    <3> QED BY <2>2, <2>3, <3>1 DEF IInv, Fresh
  <2> QED BY <2>4, <2>5
<1> QED BY <1>1, <1>2, UdpInvariant, PTL DEF Spec

\* A frame is returned with the ip it came from, by which TryRecvSocketMsg
\* tells the gateway's frames from the server's, and with the port too unless
\* it was read behind the remains of another port.
THEOREM SenderKnown == Spec => []SenderIsKnown
<1>1. Init => SenderIsKnown
  <2>1. Init => Len(handed) = 0
    BY EmptySeq DEF Init
  <2> QED BY <2>1 DEF SenderIsKnown
<1>2. IInv /\ SenderIsKnown /\ [Next]_vars => SenderIsKnown'
  <2> SUFFICES ASSUME IInv, SenderIsKnown, [Next]_vars, NEW k \in 1 .. Len(handed')
               PROVE  LET i == handed'[k].id
                      IN /\ handed'[k].from.ip = log'[i].from.ip
                         /\ handed'[k].from = log'[i].from \/ BehindNext(i)
    BY DEF SenderIsKnown, Behind, BehindNext
  <2>1. ASSUME NEW i \in 1 .. Len(log), Behind(i) PROVE BehindNext(i)
    <3>1. PICK j \in 1 .. i - 1 :
            /\ log[j].from.port # log[i].from.port
            /\ \A n \in j .. i - 1 : log[n].from.ip = log[i].from.ip \/ log[n].kind = "empty"
      BY <2>1 DEF Behind
    <3>2. \A n \in 1 .. Len(log) : log'[n] = log[n]
      BY Grows
    <3>3. \A n \in 1 .. i - 1 : n \in 1 .. Len(log)
      BY Facts
    <3>4. \A n \in j .. i - 1 : n \in 1 .. i - 1
      BY Facts
    <3> QED BY <3>1, <3>2, <3>3, <3>4 DEF BehindNext
  <2>2. CASE k \in 1 .. Len(handed)
    <3> DEFINE i == handed[k].id
    <3>1. handed'[k] = handed[k] /\ i \in 1 .. Len(log) /\ log'[i] = log[i]
      BY <2>2, Grows
    <3>2. handed[k].from.ip = log[i].from.ip /\ (handed[k].from = log[i].from \/ Behind(i))
      BY <2>2 DEF SenderIsKnown
    <3> HIDE DEF i
    <3>3. Behind(i) => BehindNext(i)
      BY <2>1, <3>1
    <3> QED BY <3>1, <3>2, <3>3 DEF i
  <2>3. CASE ~(k \in 1 .. Len(handed))
    <3>1. UNCHANGED log
      BY <2>3, Grows
    <3>2. PICK p \in 1 .. Len(buf) :
            IsHeader(buf[p]) /\ handed'[k].id = buf[p].id /\ handed'[k].from = peer
      BY <2>3, Grows
    <3> DEFINE i == buf[p].id
    <3>3. i \in 1 .. Len(log) /\ log[i].from.ip = peer.ip /\ (log[i].from = peer \/ Behind(i))
      BY <3>2, HeaderOf DEF IInv, HeadersFrom
    <3> HIDE DEF i
    <3>4. Behind(i) => BehindNext(i)
      BY <2>1, <3>3
    <3>5. handed'[k].id = i
      BY <3>2 DEF i
    <3> QED BY <3>1, <3>2, <3>3, <3>4, <3>5
  <2> QED BY <2>2, <2>3
<1> QED BY <1>1, <1>2, UdpInvariant, PTL DEF Spec
=============================================================================
