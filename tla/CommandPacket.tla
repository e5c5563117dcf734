--------------------------- MODULE CommandPacket ---------------------------
(***************************************************************************)
(* Commands and responses on their way: packed from the application's      *)
(* values (PacketParam_Json_Fm of scango_dll.cpp, PacketParam_Fm of        *)
(* dcframe/tools/pkghelper/dcf_pkghelper.cpp), put into a packet and taken *)
(* out again (CCRMMsgHelper of dcframe/tools/socket/dcf_rcc_dthelper.cpp), *)
(* in the byte order of the sender or of the network (dcf_pkg_tool), and   *)
(* handed to the application's callbacks (dcframe_proc.cpp).               *)
(*                                                                         *)
(* A packet is a memory of byte cells <<i, j, k>>: byte k, in the order of *)
(* the host, of field j of command i. Field 0 is the header of the command *)
(* (CRM_CMD); a zero byte is Zero, one that nobody wrote is Junk. The      *)
(* client packs in its own order; the peer answers in either, with the     *)
(* same library. Lengths of texts are scaled down.                         *)
(***************************************************************************)
EXTENDS Integers, Sequences, FiniteSets

CONSTANTS
  Cmds,      \* commands: a subset of the domain of Format
  MaxCmds,   \* bound: commands in one packet
  MsgBuf     \* bytes of a packet's buffer

HeadLen == 4     \* RCC_SIZE_CRM_HEAD
TLV == 8         \* RCC_SIZE_CRM_TLV
ParaBuf == 12    \* sizeof(chPara), scaled down
BigHead == 12    \* RCC_SIZE_BIG_HEAD
GzipHead == 8    \* RCC_SIZE_GZIP_HEAD
FileLens == {0, GzipHead, GzipHead + 4, GzipHead + 5}
NoFile == [cmd |-> "none", zip |-> 0, named |-> 0, over |-> FALSE]

Zero == <<0, 0, 0>>
Junk == <<0, 0, 1>>

----------------------------------------------------------------------------
(* Formats: the shapes of g_cmd_struc_trans_..., for the command and for    *)
(* its response. A field is a type and its size.                            *)

Byte == [t |-> "b", n |-> 1]
Word == [t |-> "w", n |-> 2]
Dword == [t |-> "d", n |-> 4]
Uint64 == [t |-> "q", n |-> 8]
Text == [t |-> "s", n |-> 3]
Rest == [t |-> "v", n |-> 2]

Format ==
  [query  |-> [cmd |-> <<Dword>>,        rsp |-> <<Word, Dword>>],
   commit |-> [cmd |-> <<Dword>>,        rsp |-> <<Word>>],
   delete |-> [cmd |-> <<Text>>,         rsp |-> <<Word>>],
   modify |-> [cmd |-> <<Byte, Rest>>,   rsp |-> <<Word>>],
   store  |-> [cmd |-> <<Uint64, Word>>, rsp |-> <<Word>>],
   qrget  |-> [cmd |-> <<Text>>,         rsp |-> <<Word, Text, Dword>>],
   list   |-> [cmd |-> <<Dword>>,        rsp |-> <<Word, Rest>>],
   ps     |-> [cmd |-> <<>>,             rsp |-> <<>>],
   login  |-> [cmd |-> <<Text, Text>>,   rsp |-> <<Word, Dword, Word>>],
   active |-> [cmd |-> <<Dword>>,        rsp |-> <<Word, Dword, Dword>>]]

RawCmds == {"login", "active"}   \* those of gateway_send_cmd and server_send_cmd

\* dcf_tools_get_cmd_fmt_info: a command that no module registered has no format.
Registered(cmd) == cmd \in DOMAIN Format /\ Format[cmd].cmd # <<>>
FormatOf(cmd, rsp) == IF rsp THEN Format[cmd].rsp ELSE Format[cmd].cmd

\* The bytes before field j of a format, those of the whole format, and the
\* field in which byte p stands.
Start(fmt, j) ==
  LET start[k \in 1 .. Len(fmt) + 1] == IF k = 1 THEN 0 ELSE start[k - 1] + fmt[k - 1].n
  IN start[j]
Size(fmt) == Start(fmt, Len(fmt) + 1)
FieldAt(fmt, p) == CHOOSE j \in 1 .. Len(fmt) : Start(fmt, j) < p /\ p <= Start(fmt, j + 1)

FaultOneMore(n) == (n \div 16 + 1) * 16

RoundUp(n) == ((n + 15) \div 16) * 16

\* Whoever packs makes the buffer for the commands it puts in, each with the
\* largest parameters, up to the end of the last block of the cipher (dwTotalLen of
\* sendCMD, of the gateway's and server's commands, of the client's own response).
ASSUME PacketAssumption ==
  /\ Cmds \subseteq DOMAIN Format
  /\ MaxCmds \in Nat \ {0}
  /\ MsgBuf \in Nat /\ (MsgBuf \div 16) * 16 >= HeadLen + MaxCmds * (TLV + ParaBuf)

\* cvt_fmt_ntoh and cvt_fmt_hton: what stands at position p of n bytes that are
\* converted in place. Numbers are reversed; of eight bytes only the lower four
\* survive. What is behind the format, and a v, which is copied only when the
\* length is given, stays.
Converted(fmt, p) ==
  IF p > Size(fmt) THEN p
  ELSE LET j == FieldAt(fmt, p)
           k == p - Start(fmt, j)
       IN CASE fmt[j].t \in {"w", "d"} -> Start(fmt, j) + fmt[j].n + 1 - k
            [] fmt[j].t = "q" -> IF k <= 4 THEN Start(fmt, j) + 5 - k ELSE 0
            [] OTHER -> p

\* Offset grows by the numbers only.
Counted(fmt) ==
  Size([j \in 1 .. Len(fmt) |->
          [fmt[j] EXCEPT !.n = IF fmt[j].t \in {"s", "f", "v"} THEN 0 ELSE @]])

cvt_fmt(fmt, bytes) ==
  [p \in 1 .. Len(bytes) |->
     IF Converted(fmt, p) = 0 THEN Zero ELSE bytes[Converted(fmt, p)]]

\* hton writes to another place: a v is not copied.
cvt_fmt_out(fmt, bytes) ==
  [p \in 1 .. Len(bytes) |->
     IF fmt[Len(fmt)].t = "v" /\ p > Start(fmt, Len(fmt)) THEN Zero ELSE cvt_fmt(fmt, bytes)[p]]

HeaderFormat == <<Word, Word, Word, Word>>   \* struct_fmt_crm_cmd
HeaderBytes(i) == [k \in 1 .. TLV |-> <<i, 0, k>>]

Swapped(order, fmt, bytes) == IF order = "net" THEN cvt_fmt(fmt, bytes) ELSE bytes

----------------------------------------------------------------------------
(* The parameters of command i. given is how many values the application's  *)
(* JSON holds; failed says that a response starts with an error code, which *)
(* is then all of it.                                                       *)

Inputs ==
  {c \in [cmd : Cmds, rsp : BOOLEAN, failed : BOOLEAN, given : 0 .. 3] :
     LET fmt == FormatOf(c.cmd, c.rsp)
     IN /\ c.failed => c.rsp
        /\ c.given <= Len(fmt)
        /\ c.rsp => c.given = Len(fmt)
        /\ (fmt # <<>> /\ c.given < Len(fmt)) => fmt[c.given + 1].t # "v"}

FieldBytes(i, c, j) ==
  LET f == FormatOf(c.cmd, c.rsp)[j]
  IN [k \in 1 .. f.n |->
        IF (f.t = "s" /\ k = f.n) \/ (c.rsp /\ j = 1 /\ ~c.failed) THEN Zero ELSE <<i, j, k>>]

JunkBytes(n) == [k \in 1 .. n |-> Junk]

Packed(i, c, n) ==
  LET fmt == FormatOf(c.cmd, c.rsp)
  IN [p \in 1 .. Start(fmt, n + 1) |->
        FieldBytes(i, c, FieldAt(fmt, p))[p - Start(fmt, FieldAt(fmt, p))]]

\* PacketParam_Json, PacketParam: Offset counts a parameter before it is found
\* missing, and stays what it is; a command without a format keeps the length
\* of the whole buffer.
PacketParam(i, c) ==
  LET fmt == FormatOf(c.cmd, c.rsp)
      fits == {j \in 0 .. c.given : Start(fmt, j + 1) <= ParaBuf}
      n == CHOOSE j \in fits : \A k \in fits : k <= j
  IN CASE ~Registered(c.cmd) -> [para |-> JunkBytes(ParaBuf), error |-> TRUE]
       [] Registered(c.cmd) /\ c.failed -> [para |-> Packed(i, c, 1), error |-> FALSE]
       [] Registered(c.cmd) /\ ~c.failed /\ n = Len(fmt) ->
            [para |-> Packed(i, c, n), error |-> FALSE]
       [] Registered(c.cmd) /\ ~c.failed /\ n < Len(fmt) ->
            [para |-> Packed(i, c, n) \o JunkBytes(fmt[n + 1].n), error |-> TRUE]

----------------------------------------------------------------------------
VARIABLES
  helper,   \* CRawMsgHelper ("raw"), CCRMMsgHelper ("crm") or CBDTMsgHelper ("bdt")
  file,     \* the file in a message of CBDTMsgHelper
  order,    \* the byte order the packet is in: bHost
  puts,     \* the commands AddToPacket counted, with their parameters and places
  mem,      \* the packet behind the header
  offset,   \* Offset of the packer, then of the reader
  num,      \* CmdNums of the header
  len,      \* Len of the header
  msgLen,   \* the length that is sent
  phase,    \* "pack", "sent" (a file), "read", then "done" or "handed" to the application
  staleLen, \* wParaLen of the reader's CRM_CMD
  got,      \* the commands that were taken out
  calls     \* the callbacks of the application that were called

header == <<num, len>>
vars == <<helper, file, order, puts, mem, offset, header, msgLen, phase, staleLen, got, calls>>

At(off, n) == SubSeq(mem, off + 1, off + n)
Written(off, bytes) ==
  [p \in 1 .. MsgBuf |-> IF p > off /\ p <= off + Len(bytes) THEN bytes[p - off] ELSE mem[p]]

Init ==
  /\ helper \in {"raw", "crm", "bdt"} /\ order \in {"host", "net"} /\ phase = "pack"
  /\ file = NoFile /\ puts = <<>> /\ mem = [p \in 1 .. MsgBuf |-> Zero]
  /\ offset = 0 /\ num = 0 /\ len = 0 /\ msgLen = 0
  /\ staleLen = 0 /\ got = <<>> /\ calls = <<>>

\* The format of a response that is an error code only is never looked up.
ShortResponse(c, n) == c.rsp /\ n = Word.n
Known(c, n) == ShortResponse(c, n) \/ Registered(c.cmd)
ParaFormat(c, n) == IF ShortResponse(c, n) THEN <<Word>> ELSE FormatOf(c.cmd, c.rsp)

\* A command without a format is not written.
cvt_tlv_hton(off, i, c, para) ==
  IF Known(c, Len(para))
  THEN LET fmt == ParaFormat(c, Len(para))
       IN /\ mem' = Written(off, cvt_fmt(HeaderFormat, HeaderBytes(i)) \o cvt_fmt_out(fmt, para))
          /\ offset' = off + TLV + Counted(fmt)
  ELSE mem' = mem /\ offset' = off

\* What both AddToPacket do with the next command: one that is full is refused,
\* one that could not be converted is counted all the same. A client's packet
\* holds one command, in the order of the host.
Add(c, moved(_)) ==
  LET i == Len(puts) + 1
      p == PacketParam(i, c)
      n == Len(p.para)
      first == offset = 0 \/ num = 0
      off == IF first THEN HeadLen ELSE offset
  IN /\ ~c.rsp => order = "host"
     /\ puts # <<>> => c.rsp /\ puts[1].c.rsp
     /\ off + TLV + n <= MsgBuf
     /\ num' = num + 1
     /\ len' = (IF first THEN HeadLen ELSE len) + TLV + n
     /\ puts' = Append(puts, [c |-> c, para |-> p.para, error |-> p.error,
                              written |-> order = "host" \/ Known(c, n), at |-> off])
     /\ IF order = "host"
        THEN mem' = Written(off, HeaderBytes(i) \o p.para) /\ offset' = off + moved(n)
        ELSE cvt_tlv_hton(off, i, c, p.para)
     /\ UNCHANGED <<helper, file, order, msgLen, phase, staleLen, got, calls>>

RawAddToPacket ==
  /\ helper = "raw" /\ phase = "pack" /\ Len(puts) < MaxCmds
  /\ \E c \in Inputs : c.cmd \in RawCmds /\ Add(c, LAMBDA n : TLV + n)

\* A command without parameters does not move Offset.
CRMAddToPacket ==
  /\ helper = "crm" /\ phase = "pack" /\ Len(puts) < MaxCmds
  /\ \E c \in Inputs : c.cmd \notin RawCmds /\ Add(c, LAMBDA n : IF n = 0 THEN 0 ELSE TLV + n)

Send(n) ==
  /\ phase = "pack" /\ puts # <<>>
  /\ msgLen' = n /\ phase' = "read" /\ offset' = 0
  /\ UNCHANGED <<helper, file, order, puts, mem, header, staleLen, got, calls>>

\* The header names the length without the padding of the cipher.
RawPacketFrame == helper = "raw" /\ Send(len)

\* sendCMD rounds the length of its one command up to the blocks of the cipher,
\* CCRMMsgHelper::PacketFrame what the header counted.
CRMPacketFrame ==
  helper = "crm" /\ puts # <<>> /\ Send(RoundUp(IF puts[1].c.rsp THEN len ELSE offset))

\* The command whose header stands in these bytes; 0 for zeros.
IndexOf(bytes) ==
  IF \E i \in 1 .. Len(puts) : bytes = HeaderBytes(i)
  THEN CHOOSE i \in 1 .. Len(puts) : bytes = HeaderBytes(i) ELSE 0

NoCommand == [cmd |-> "ps", rsp |-> FALSE, failed |-> FALSE, given |-> 0]

Stop == phase' = "done" /\ UNCHANGED <<mem, got>>

Take(off, i, n, fmt) ==
  /\ mem' = Written(off + TLV, Swapped(order, fmt, At(off + TLV, Size(fmt))))
  /\ got' = Append(got, [i |-> i, para |-> SubSeq(mem', off + TLV + 1, off + TLV + n)])
  /\ phase' = phase

FaultNotLooked(off, i, c, n) == Take(off, i, n, <<Word>>) /\ offset' = off + TLV + Word.n

\* The parameters are converted where they are.
cvt_tlv_ntoh(off, i, c, n) ==
  IF ~Known(c, n) \/ n + TLV > msgLen - off
  THEN Stop /\ offset' = off + TLV
  ELSE Take(off, i, n, ParaFormat(c, n)) /\ offset' = off + TLV + Counted(ParaFormat(c, n))

\* What both GetFromPacket do with the next command; fits says whether its
\* parameters end inside the packet, for the order of the host.
Get(fits(_)) ==
  LET off == IF offset = 0 THEN HeadLen ELSE offset
      i == IndexOf(Swapped(order, HeaderFormat, At(off, TLV)))
      c == IF i = 0 THEN NoCommand ELSE puts[i].c
      n == IF i = 0 THEN 0 ELSE Len(puts[i].para)
  IN /\ num' = num - 1 /\ staleLen' = n
     /\ IF order = "net" THEN cvt_tlv_ntoh(off, i, c, n)
        ELSE /\ offset' = off + TLV + n
             /\ IF fits(offset') THEN Take(off, i, n, <<>>) ELSE Stop

EndOfPacket == Stop /\ UNCHANGED <<offset, num, staleLen>>

RawGetFromPacket ==
  /\ helper = "raw" /\ phase = "read"
  /\ IF num = 0 THEN EndOfPacket ELSE Get(LAMBDA end : end <= msgLen)
  /\ UNCHANGED <<helper, file, order, puts, len, msgLen, calls>>

\* The length is checked first, with the wParaLen the reader's CRM_CMD had before.
CRMGetFromPacket ==
  /\ helper = "crm" /\ phase = "read"
  /\ IF num = 0 \/ (IF offset = 0 THEN HeadLen ELSE offset) + TLV + staleLen > msgLen
     THEN EndOfPacket ELSE Get(LAMBDA end : TRUE)
  /\ UNCHANGED <<helper, file, order, puts, len, msgLen, calls>>

----------------------------------------------------------------------------
(* ProcRsp: the first response of the packet goes to a callback.            *)

Statuses == {"commit", "delete", "modify"}   \* the commands of ProcRsp_CMD
Indexes == {"query", "ps"}                   \* the commands of ProcRsp_DBIndex

FaultLengthOnly(para, need) == Len(para) < need

\* dcf_para_out: the error code, when there are bytes enough for it.
Fails(para, need) == Len(para) < need \/ SubSeq(para, 1, Word.n) # <<Zero, Zero>>

\* The text for the application: 20 characters for {"modId":m} and as many for
\* {"modId":m,"db_idx":"n"}, where n would begin at the 22nd.
JsonLimit == 20
IndexAt == 22
Json(index) == IF IndexAt < JsonLimit THEN index ELSE <<>>

ProcRsp ==
  /\ helper = "crm" /\ phase = "read" /\ Len(got) = 1
  /\ got[1].i # 0 /\ puts[got[1].i].c.rsp
  /\ LET cmd == puts[got[1].i].c.cmd
         para == got[1].para
     IN calls' =
          CASE cmd \in Statuses /\ Fails(para, 2) -> <<[cb |-> "onError", text |-> <<>>]>>
            [] cmd \in Statuses /\ ~Fails(para, 2) -> <<[cb |-> "onCRMRecv", text |-> <<>>]>>
            [] cmd \in Indexes /\ Fails(para, 6) -> <<[cb |-> "onError", text |-> <<>>]>>
            [] cmd \in Indexes /\ ~Fails(para, 6) ->
                 <<[cb |-> "onCRMRecv", text |-> Json(SubSeq(para, 3, 6))]>>
            [] OTHER -> <<>>
  /\ phase' = "handed"
  /\ UNCHANGED <<helper, file, order, puts, mem, offset, header, msgLen, staleLen, got>>

----------------------------------------------------------------------------
(* Files: a message of CBDTMsgHelper is its header, the two lengths of       *)
(* GZIP_INFO and the packed bytes.                                          *)

\* dcf_para_out reads the two lengths and finds as many bytes as the second names.
HasFile(n, named) == n >= GzipHead /\ n - GzipHead >= named

\* sendRawMessage: the memory is made for the length the application names,
\* rounded up to the blocks of the cipher, and the packed file is copied into
\* it, however long that has become.
FileBuffer(named) == RoundUp(BigHead + GzipHead + named)
SendRawMessage ==
  /\ helper = "bdt" /\ phase = "pack"
  /\ \E cmd \in Statuses \cap Cmds, zip, named \in FileLens :
       /\ file' = [cmd |-> cmd, zip |-> zip, named |-> named,
                   over |-> BigHead + GzipHead + zip > FileBuffer(named)]
       /\ msgLen' = FileBuffer(named)
  /\ phase' = "sent"
  /\ UNCHANGED <<helper, order, puts, mem, offset, header, staleLen, got, calls>>

\* safe_frame_Response_callback: when the transport has brought the whole
\* message to the server, the client makes the response to it by itself, with
\* the command of the message and the error code 0.
Success(i) == <<Zero, Zero>>
Response ==
  /\ helper = "bdt" /\ phase = "sent" /\ ~file.over
  /\ LET c == [cmd |-> file.cmd, rsp |-> TRUE, failed |-> FALSE, given |-> 1]
         n == TLV + Word.n
     IN /\ puts' = <<[c |-> c, para |-> Success(1), error |-> FALSE, written |-> TRUE,
                      at |-> HeadLen]>>
        /\ mem' = Written(HeadLen, HeaderBytes(1) \o Success(1))
        /\ num' = 1 /\ len' = HeadLen + n /\ msgLen' = RoundUp(HeadLen + n)
  /\ helper' = "crm" /\ phase' = "read"
  /\ UNCHANGED <<file, order, offset, staleLen, got, calls>>

\* A file of n bytes for a query, named so long by its own header: it is written
\* to the file the application names, if it names one, and handed over when it
\* could be unpacked.
ProcRsp_DBFile ==
  /\ helper = "bdt" /\ phase = "pack"
  /\ \E n, named \in FileLens, target \in {"none", "file"}, unpacked \in BOOLEAN :
       calls' = IF HasFile(n, named) /\ target = "file" /\ unpacked
                THEN <<[cb |-> "onFileRecv", text |-> <<n, named>>]>>
                ELSE <<[cb |-> "onError", text |-> <<n, named>>]>>
  /\ phase' = "handed"
  /\ UNCHANGED <<helper, file, order, puts, mem, offset, header, msgLen, staleLen, got>>

Next ==
  \/ RawAddToPacket \/ RawPacketFrame \/ RawGetFromPacket
  \/ CRMAddToPacket \/ CRMPacketFrame \/ CRMGetFromPacket
  \/ ProcRsp \/ SendRawMessage \/ Response \/ ProcRsp_DBFile

Spec == Init /\ [][Next]_vars

----------------------------------------------------------------------------
(* Properties *)

\* Every variable has its type, and the position and the lengths are inside the
\* buffer, those of a file inside its own.
TypeOK ==
  /\ order \in {"host", "net"} /\ phase \in {"pack", "sent", "read", "done", "handed"}
  /\ DOMAIN mem = 1 .. MsgBuf /\ num \in 0 .. MaxCmds
  /\ helper \in {"raw", "crm", "bdt"}
  /\ \A k \in {offset, len, staleLen} : k \in 0 .. MsgBuf
  /\ msgLen \in 0 .. (IF helper = "bdt" THEN BigHead + GzipHead + file.named + 15 ELSE MsgBuf)
  /\ \A k \in 1 .. Len(got) : got[k].i \in 0 .. Len(puts)
  /\ Len(calls) <= 1

\* In the order of the host every command arrives as it was packed. In the order
\* of the network a v is lost, a text is written over by the next command, and
\* the response the client makes itself is not understood: it is in the order of
\* the host, but read in the order of the peer.
Has(p, types) ==
  \E j \in 1 .. Len(FormatOf(p.c.cmd, p.c.rsp)) : FormatOf(p.c.cmd, p.c.rsp)[j].t \in types
Whole(k) ==
  \/ order = "host"
  \/ /\ file = NoFile /\ \A j \in 1 .. Len(puts) : puts[j].written
     /\ ~Has(puts[k], {"v", "q"}) /\ (k < Len(puts) => ~Has(puts[k], {"s"}))

\* What is taken out is what was put in, in that order and with the same bytes,
\* and all of it is taken out unless a command is shorter than the one before.
\* A file is found whole in its message when it is no longer than its sender says.
Intact ==
  \A k \in 1 .. Len(got) : Whole(k) => got[k] = [i |-> k, para |-> puts[k].para]
Complete ==
  phase = "done" /\ (\A k \in 1 .. Len(puts) : Whole(k))
  /\ (helper = "raw"
      \/ \A j, k \in 1 .. Len(puts) : j < k => Len(puts[j].para) <= Len(puts[k].para))
    => Len(got) = Len(puts)
FileFound ==
  phase = "sent" /\ file.zip <= file.named => ~file.over /\ HasFile(msgLen - BigHead, file.zip)
RoundTrip == Intact /\ Complete /\ FileFound

\* A response is reported to the application by one callback, as the error it is
\* or as the success it is, in both orders; the response to a file that has
\* reached the server as a success.
Reported ==
  calls # <<>> =>
    IF helper = "bdt" THEN calls[1].cb = "onFileRecv" => calls[1].text[1] >= GzipHead + calls[1].text[2]
    ELSE Whole(1) /\ ~puts[1].error => (calls[1].cb = "onError" <=> puts[1].c.failed)

(* What the sources say beyond that, which the code does not keep.           *)

\* A conversion brings the data of every type of a format over (dcf_pkghelper.h:50)
\* and moves Offset by all it converted (:51): a command that was written is the
\* same when it is taken out, in either order.
WrittenWhole(k) == puts[k].written /\ ~puts[k].error
ConvertedWhole ==
  file = NoFile /\ (\A j \in 1 .. Len(puts) : WrittenWhole(j)) =>
    \A k \in 1 .. Len(got) : got[k] = [i |-> k, para |-> puts[k].para]

\* CmdNums is what ends the taking of commands one after the other
\* (dcf_i_rcc_dth.h:396): of a packet in which all are whole none is left.
TakenByNumber ==
  phase = "done" /\ file = NoFile /\ order = "host" /\ (\A k \in 1 .. Len(puts) : WrittenWhole(k)) =>
    Len(got) = Len(puts)

\* The length in the header of a file is its length after packing
\* (dcf_i_rcc_dth.h:447), so the memory made for it holds the packed file.
PackedFileFits == phase = "sent" => ~file.over

\* bhost tells the reader in which order the message is (dcf_i_rcc_dth.h:101): the
\* client reads the response it made to its own upload, and reports it as a success.
OwnResponseReported ==
  file # NoFile =>
    /\ phase = "done" => got # <<>>
    /\ phase = "handed" => calls # <<>> /\ calls[1].cb = "onCRMRecv"
=============================================================================
