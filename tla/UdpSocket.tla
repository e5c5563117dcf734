----------------------------- MODULE UdpSocket -----------------------------
(***************************************************************************)
(* The socket of a client (dcframe/tools/socket/dcf_udp.cpp): CDcfUDP      *)
(* keeps one buffer, reads datagrams behind what is left in it and looks   *)
(* for frames with CRccHeaderHelper::search_header                         *)
(* (dcframe/tools/socket/dcf_rcc_dthelper.cpp).                            *)
(*                                                                         *)
(* The buffer is a sequence of cells of two bytes, scaled down: the four   *)
(* bytes of the magic word are two cells, the rest of the 20-byte header   *)
(* is one, and so is each piece of a body. What a checksum says of a piece *)
(* is a field of the cell; a checksum that agrees by chance is left out,   *)
(* and so are the counters m_Recv..Frames, which nothing reads.            *)
(*                                                                         *)
(* The network is the sequence log of the datagrams the kernel received:   *)
(* whole frames, frames damaged on the way, pieces of frames and noise, of *)
(* several addresses in any order.                                         *)
(***************************************************************************)
EXTENDS Naturals, Sequences, SequencesExt, FiniteSetsExt

CONSTANTS
  Peers,     \* the addresses datagrams come from: records of an ip and a port
  Lens,      \* cells of a body: PackageLen
  Kinds,     \* what became of the datagrams: a subset of AllKinds
  MaxLog     \* bound: datagrams that are received

AllKinds == {"whole", "head", "body", "cut", "noise", "empty"}
NoPeer == [ip |-> 0, port |-> 0]

ASSUME UdpAssumption ==
  /\ \A p \in Peers : p.ip \in Nat \ {0} /\ p.port \in Nat \ {0}
  /\ Lens \subseteq Nat /\ \E m \in Lens : \A n \in Lens : n <= m
  /\ Kinds \subseteq AllKinds /\ MaxLog \in Nat

Sizeof == 3                        \* sizeof(CRccHeader)
MagicSize == 2                     \* sizeof(DWORD)
Total == Sizeof + Max(Lens)        \* RCC_SIZE_TOTAL
BufLen == 2 * Total                \* MAX_SOCKBUF_LEN: 2048 for frames of at most 1012

VARIABLES
  socket,  \* whether m_socket is open
  log,     \* the datagrams that came: who sent it, what became of it, its length
  read,    \* how many of them were read or lost with a closed socket
  buf,     \* m_chRecvBuf up to m_Buff_ReadLen
  procPt,  \* m_Buff_ProcPt
  peer,    \* m_Buff_IP and m_Buff_Port
  head,    \* the header in the caller's buffer
  at,      \* where RecvFrame is
  handed,  \* history: the frames RecvFrame returned: number, ip and port
  unheard  \* history: datagrams the socket was closed on, unread or in the buffer

buffer == <<buf, procPt, peer>>
vars == <<socket, log, read, buffer, head, at, handed, unheard>>

Ids == 1 .. Len(log)

Magic1 == [what |-> "magic1", id |-> 0, pos |-> 0]
Magic2 == [what |-> "magic2", id |-> 0, pos |-> 0]
Noise == [what |-> "noise", id |-> 0, pos |-> 0]
Header(id, ok) == [what |-> "header", id |-> id, pos |-> IF ok THEN 1 ELSE 0]

\* A body of two cells or more begins with the magic word: it is data like any other.
Body(id, n) ==
  [k \in 1 .. n |-> IF n >= 2 /\ k = 1 THEN Magic1 ELSE IF n >= 2 /\ k = 2 THEN Magic2
                    ELSE [what |-> "body", id |-> id, pos |-> k]]

\* The bytes of datagram id: a frame with a wrong header, with a wrong body,
\* without its last bytes.
Frame(id, n, ok) == <<Magic1, Magic2, Header(id, ok)>> \o Body(id, n)
Cells(id, d) ==
  CASE d.kind = "whole" -> Frame(id, d.len, TRUE)
    [] d.kind = "head"  -> Frame(id, d.len, FALSE)
    [] d.kind = "body"  -> Append(Front(Frame(id, d.len, TRUE)), Noise)
    [] d.kind = "cut"   -> Front(Frame(id, d.len, TRUE))
    [] d.kind = "noise" -> [k \in 1 .. Sizeof |-> Noise]
    [] d.kind = "empty" -> <<>>

Datagrams ==
  {d \in [from : Peers, kind : Kinds, len : Lens] :
     /\ d.kind \in {"body", "cut"} => d.len > 0
     /\ d.kind \in {"noise", "empty"} => d.len = Max(Lens)}

----------------------------------------------------------------------------
(* search_header: where in the buffer b the next header is, from the        *)
(* position from on, and what is in the caller's buffer then. The position  *)
(* is counted from the start of the buffer, yet from is added to it once    *)
(* more when the length is checked. Behind a header that is not valid the   *)
(* loop goes on with the position only, not with the pointer, and so sees   *)
(* the same bytes until the length check ends it.                           *)

Marks(b, from) ==
  {k \in from .. Len(b) - MagicSize : b[k + 1] = Magic1 /\ b[k + 2] = Magic2}

ValidHead(cell) == cell.what = "header" /\ cell.pos = 1

search_header(b, from, out) ==
  LET marks == Marks(b, from)
      mark == Min(marks)
  IN CASE Len(b) < MagicSize -> [at |-> from, head |-> out]
       [] Len(b) >= MagicSize /\ marks = {} ->
            [at |-> Max({from, Len(b) - MagicSize + 1}), head |-> out]
       [] marks # {} ->
            IF from + mark + Sizeof > Len(b) THEN [at |-> mark, head |-> out]
            ELSE [at |-> IF ValidHead(b[mark + 3]) THEN mark
                         ELSE Len(b) - Sizeof - from + 1,
                  head |-> b[mark + 3]]

\* PackageLen of the header in the caller's buffer. Bytes that are no header,
\* read as one, name a length beyond every frame's.
PackageLen(h) == IF h.what = "header" THEN log[h.id].len ELSE Total + 1

FaultNoCrc(h, pt, n) == h.what = "header" /\ n = log[h.id].len

\* The n cells behind a header at position pt have the checksum it names.
DataCrcOk(h, pt, n) ==
  /\ h.what = "header" /\ n = log[h.id].len
  /\ SubSeq(buf, pt + Sizeof + 1, pt + Sizeof + n) = Body(h.id, n)

FaultNotMoved(pt, proc) == buf' = buf /\ procPt' = 0

\* The memmove at the end of SearchFrame: nothing is moved when pt is the
\* start or the end of what was read.
Move(pt, proc) ==
  IF pt > 0 /\ pt < Len(buf)
  THEN buf' = SubSeq(buf, pt + 1, Len(buf)) /\ procPt' = 0
  ELSE buf' = buf /\ procPt' = proc

FaultKeepsPt == buf' = <<>> /\ procPt' = procPt

Empty == buf' = <<>> /\ procPt' = 0

FaultNotPassed == UNCHANGED <<buf, procPt>>

\* A header that proves wrong is passed over by the length of the magic word.
Reject == procPt' = procPt + MagicSize /\ UNCHANGED buf

FaultSamePort(p) == p.ip = peer.ip /\ p.port = peer.port
FaultAnyIp(p) == p.port # peer.port

\* What is left in the buffer stays only when the next datagram comes from the
\* same address and another port.
Kept(p) == p.ip = peer.ip /\ p.port # peer.port

----------------------------------------------------------------------------
Init ==
  /\ socket = FALSE /\ log = <<>> /\ read = 0 /\ unheard = {}
  /\ buf = <<>> /\ procPt = 0 /\ peer = NoPeer
  /\ head = Noise /\ at = "idle" /\ handed = <<>>

\* Initialize: the address can be bound or not.
Initialize ==
  /\ at = "idle" /\ ~socket
  /\ socket' \in BOOLEAN
  /\ Empty /\ peer' = NoPeer
  /\ UNCHANGED <<log, read, head, at, handed, unheard>>

\* Close: what the kernel still had and what is in the buffer is gone.
Close ==
  /\ at = "idle" /\ socket
  /\ socket' = FALSE /\ read' = Len(log)
  /\ unheard' = unheard \cup (read + 1 .. Len(log))
                        \cup {cell.id : cell \in {buf[k] : k \in procPt + 1 .. Len(buf)}}
  /\ UNCHANGED <<log, buffer, head, at, handed>>

\* The network: a datagram reaches the open socket. While SearchFrame runs it
\* makes no difference whether it already has.
Arrive ==
  /\ socket /\ Len(log) < MaxLog /\ at # "search"
  /\ \E d \in Datagrams : log' = Append(log, d)
  /\ UNCHANGED <<socket, read, buffer, head, at, handed, unheard>>

RecvFrame ==
  /\ at = "idle" /\ socket
  /\ at' = "search"
  /\ UNCHANGED <<socket, log, read, buffer, head, handed, unheard>>

\* SearchFrame, one turn of its loop. A header whose body is not there yet,
\* or that is cut itself, waits at the front of the buffer for more; one that
\* proves wrong is passed over by the length of the magic word.
SearchFrame ==
  /\ at = "search"
  /\ LET s == search_header(buf, procPt, head)
         HeadPt == s.at
         Rest(pt) == Move(pt, procPt) /\ at' = "read" /\ UNCHANGED handed
     IN /\ head' = IF buf = <<>> THEN head ELSE s.head
        /\ IF buf = <<>> \/ HeadPt >= Len(buf)
           THEN Empty /\ at' = "read" /\ UNCHANGED handed
           ELSE IF HeadPt + Sizeof > Len(buf)
           THEN Rest(HeadPt)
           ELSE LET n == PackageLen(s.head) IN
             IF n <= Max(Lens) /\ n + HeadPt + Sizeof > Len(buf)
             THEN Rest(HeadPt)
             ELSE IF n > Max(Lens) \/ ~DataCrcOk(s.head, HeadPt, n)
             THEN Reject /\ UNCHANGED <<at, handed>>
             ELSE /\ Move(HeadPt + n + Sizeof, HeadPt + n + Sizeof)
                  /\ handed' = Append(handed, [id |-> s.head.id, from |-> peer])
                  /\ at' = "idle"
  /\ UNCHANGED <<socket, log, read, peer, unheard>>

\* ReadRawData: nothing there, or an error; RecvFrame then empties the buffer.
ReadNothing ==
  /\ at = "read" /\ read = Len(log)
  /\ Empty /\ at' = "idle"
  /\ UNCHANGED <<socket, log, read, peer, head, handed, unheard>>

\* ReadRawData: the next datagram is read behind what is left, or instead of it.
ReadRawData ==
  /\ at = "read" /\ read < Len(log)
  /\ read' = read + 1
  /\ at' = "search"
  /\ LET d == log[read']
         room == BufLen - Len(buf)
         cells == Cells(read', d)
         bytes == SubSeq(cells, 1, Min({room, Len(cells)}))
     IN IF bytes = <<>> THEN UNCHANGED buffer
        ELSE IF buf # <<>> /\ Kept(d.from)
        THEN buf' = buf \o bytes /\ UNCHANGED <<procPt, peer>>
        ELSE buf' = bytes /\ procPt' = 0 /\ peer' = d.from
  /\ UNCHANGED <<socket, log, head, handed, unheard>>

\* The client's thread calls RecvFrame again and again, until it is destroyed.
Worker == RecvFrame \/ SearchFrame \/ ReadNothing \/ ReadRawData

Next == Initialize \/ Close \/ Arrive \/ Worker

Spec == Init /\ [][Next]_vars
FairSpec == Spec /\ WF_vars(Worker)
----------------------------------------------------------------------------
(* Properties *)

\* Every variable has its type; m_Buff_ProcPt is a position of the buffer, and
\* what is in the buffer has an address. The assertion of ReadRawData holds, and
\* there is always room for a whole frame: a datagram is never cut because of
\* what is left in the buffer.
TypeOK ==
  /\ socket \in BOOLEAN /\ log \in Seq(Datagrams) /\ Len(log) <= MaxLog
  /\ read \in 0 .. Len(log) /\ unheard \subseteq 0 .. Len(log)
  /\ Len(buf) <= BufLen /\ procPt \in 0 .. Len(buf)
  /\ peer \in Peers \cup {NoPeer} /\ (buf # <<>> => peer # NoPeer)
  /\ at \in {"idle", "search", "read"}
  /\ at = "read" => Len(buf) < Total /\ procPt < Total
  /\ \A k \in 1 .. Len(handed) : handed[k].id \in Ids

\* Only frames that came whole are handed up, although search_header may
\* return the position of a header that it did not find valid, or leave the
\* header of an earlier position in the caller's buffer.
OnlyWhole == \A k \in 1 .. Len(handed) : log[handed[k].id].kind = "whole"

Whole == {i \in Ids : log[i].kind = "whole"}
Handed == {handed[k].id : k \in 1 .. Len(handed)}

\* Datagram i is read behind what another port of the same address left.
Behind(i) ==
  \E j \in 1 .. i - 1 :
    /\ log[j].from.port # log[i].from.port
    /\ \A k \in j .. i - 1 : log[k].from.ip = log[i].from.ip \/ log[k].kind = "empty"

\* A damaged frame, a piece of one or noise never costs the whole frame behind
\* it: once the buffer is empty every whole frame that was read is handed up,
\* except behind the remains of another port of the same address.
WholeIsHanded ==
  at = "idle" /\ buf = <<>> =>
    \A i \in Whole : i <= read => i \in Handed \cup unheard \/ Behind(i)

\* No frame is handed up twice, none before an earlier one.
OnceInOrder == \A j, k \in 1 .. Len(handed) : j < k => handed[j].id < handed[k].id

\* A frame is handed up with the address it came from; TryRecvSocketMsg sorts
\* the frames of the gateway and of the server by it. The port is right too,
\* except behind the remains of another port.
SenderIsKnown ==
  \A k \in 1 .. Len(handed) :
    LET from == log[handed[k].id].from
    IN /\ handed[k].from.ip = from.ip
       /\ handed[k].from = from \/ Behind(handed[k].id)

\* The search ends, whatever is in the buffer: every datagram is read.
EveryDatagramIsRead == read < Len(log) ~> read = Len(log)

(* What the sources say beyond that, which the code does not keep.           *)

\* A frame is handed up with the address and the port it came from: ReadRawData
\* says at dcf_udp.cpp:423 "the IP or the port changed, the data from before must
\* be discarded", and at :407 and :415, of what it keeps, "the port is the same".
PortIsKnown == \A k \in 1 .. Len(handed) : handed[k].from = log[handed[k].id].from
=============================================================================
