# scango_library: a verification project

The library is the client side of a barcode-scanner back office. It logs in at
a gateway (BSG), is sent on to a server (BSS), and then exchanges commands and
large files with the server over a reliable transport of its own on top of UDP.
This directory holds TLA+ models of its parts, the TLC runs that check them, and
TLAPS proofs of the most important results.

## 1. Inventory

| part | state | operations | interacts with |
|---|---|---|---|
| transport, sender `CMsgSender` (`dcf_dtframe.cpp`) | ring `m_sequence_list` of 128 `FrameSend` nodes, `m_beginPt`, `m_endPt`, `m_SequenceNumber`, `m_NodeNums` | `SendMsg`, `ProcRecvMsg`, `ProcTimer`, `ClearAll` | called by the application (`SendMsg`) and by the worker (all others); sends through a callback |
| transport, receiver `CMsgRecver` (same file) | list of open `FrameRecv` nodes, sequence window, ageing table, two flags | `ProcRecvMsg` (once, first, next frame, sender's range), `ProcTimer` | hands messages up through `safe_frame_recv_callback` |
| bit tools, `CFSWndCtrl`, `CFsAgeingTable` (`dcf_bits.cpp`) | bitmaps, begin and end index | `wnd_compare`, `wnd_save`, `wnd_move`, `left_move`, ... | used by both halves of the transport |
| session `CBSClient` (`bsc_rpc.cpp`, `bsc_rpc_init.cpp`) | `m_gateway_state`, `m_server_state`, `dwLoginTimeout`, `m_times_noack_with_server`, address and code of the server, the transport | `MainLoop`, timers, handlers of the answers, `SendMessage` | a worker thread; the application calls in without a lock |
| entry points (`zhw_bs_main.cpp`, `scango_dll.cpp`) | `g_bsc_rpc`, `g_bs_resp_looper`, keys | `zhw_bs_initialize`, `zhw_bs_quit`, `zhw_bs_active_server`, `zhw_bs_send_msg`, `zhw_bs_recv_*` | called by the application and, on refusal and logout, by the worker |
| looper (`looper.cpp`) | linked queue, two semaphores, a thread | `post`, `loop`, `quit` | worker to application thread |
| callbacks (`dcframe_proc.cpp`) | `mut_callback`, function pointers | `bs_proc_resp`, `ProcDatabaseIdx`, `ProcLogout`, ... | run on the looper's thread, the lock held |
| UDP socket `CDcfUDP` (`dcf_udp.cpp`) with `search_header` (`dcf_rcc_dthelper.cpp`) | one buffer, its length and position, address and port of its sender | `Initialize`, `Close`, `RecvFrame` | the worker reads until the socket is empty; frames are sorted by their sender |
| message codecs (`dcf_rcc_dthelper.cpp`, `dcf_pkghelper.cpp`) | a packet with `CmdNums`, `Len` and the reader's `Offset`; tables of formats | `AddToPacket`, `PacketFrame`, `GetFromPacket`, `PacketParam`, `cvt_tlv_hton`, `cvt_tlv_ntoh` | `sendCMD` and `sendRawMessage` pack, `ProcRsp` and `ProcRsp_DBFile` read |
| containers (`tools/list`, `array`, `vector`, `sort`) | memory of an array, links of nodes | insert, delete, find, iterate, sort | no lock; each has one user at a time |
| timers of the worker (`dcf_time.cpp`) | two points of time for each timer | `dcf_time_exact_work_and_sleep` | `MainLoop`; go by the clock of the day |
| conversions (`dcf_string.cpp`, `dcf_base64.cpp`, `dcf_qrcode.cpp`, `scango_dll.cpp`) | none | split, read and write numbers and addresses, base 64, dates, QR and goods codes | pure functions |
| ciphers, compression, cJSON, files, debug output | none worth modelling | bytes to bytes, I/O | |

Hard behaviours: datagrams that are lost, repeated, damaged, joined and
reordered; answers that carry no request number and are accepted in every state;
retries that race late answers; a sender that gives up on a frame; 16-bit
sequence numbers that wrap; lists that are shifted while they are walked;
application threads that read what the worker writes; a worker, or a callback,
that ends its own object; a clock that is set back; a buffer whose remains meet
the next datagram; conversions between the byte orders of two peers.

What makes each part correct:

* transport: a message is handed up complete, once, or not at all; success is
  reported to the sending application only for a message that was handed up;
  no message stays in the send list for ever.
* session: a client that runs is never logged out for good; a session, its code
  and its transport belong to the server the gateway named last; a server that
  fell silent is noticed.
* send list: nodes stay in the order of their sequence numbers; only messages
  the peer has are freed; every walk ends.
* sequence window: a number reported as received was received; positions of the
  bitmap agree with the numbers across the wrap.
* looper and life cycle: every posted message is handed over before the looper
  ends; quit returns, and then nothing of the client runs; no freed object is used.
* socket: only whole frames are handed up, none of them is lost to what came
  before it, each goes with its sender; the search of the buffer ends.
* codecs: what is taken out of a packet is what was put in; a response is
  reported to the application as the success or error it is.
* containers and conversions: results are those of a sequence, a function or the
  converted value.
* timers: a period is kept, whatever the clock does.

## 2. Modules

| module | what it is |
|---|---|
| `InOrderTransfer` | the promise to both applications: frames are copied, a complete message is handed up, success is told only after that, and a sender may drop a message |
| `FrameTransfer` | one multi-frame message: a `FrameSend` node, a `FrameRecv` node, the channel between them |
| `FrameTransferProofs` | its theorems |
| `ClientSession` | the session of `CBSClient` with gateway and servers |
| `ClientSessionProofs` | its theorems |
| `SendQueue` | the list of unfinished messages of `CMsgSender`, the application's thread against the worker |
| `SendQueueProofs` | its theorems |
| `MessageReceiver` | `CMsgRecver`: which messages are taken, and the list of open ones |
| `MessageReceiverProofs` | its theorems, with lemmas about `SeqWindow` and `left_move` |
| `BitTools`, `SeqWindow`, `SortedRing` | what the three above share: bitmaps; `CFSWndCtrl` and `CFsAgeingTable`; the circular, sorted array |
| `SortedRingProofs` | lemmas about `SortedRing` for the proofs of both lists |
| `Lifecycle` | initialise, quit and logout: the application's thread, the worker, the looper's thread, the callback lock |
| `LifecycleProofs` | its theorems |
| `UdpSocket` | `CDcfUDP` and the search of frames in its buffer |
| `UdpSocketProofs` | its theorems |
| `CommandPacket` | commands, responses and files: packed, converted, unpacked, reported |
| `CommandPacketProofs` | its theorems |
| `Vectors`, `Lists`, `KeyArrays` | the containers as operators on their memory |
| `Containers` | any calls on one container, beside what its caller believes is in it |
| `Texts`, `Codes`, `Directory` | conversions of texts and addresses; of bytes, dates and codes; the tables of command formats |
| `WorkTimer` | the timers of the worker and the arithmetic on clocks |
| `Tools` | `Containers`, `Texts`, `Codes`, `Directory` and `WorkTimer` as one machine that asks and compares |
| `MCFrameTransfer`, `MCClientSession`, `MCSendQueue`, `MCMessageReceiver`, `MCLifecycle`, `MCUdpSocket`, `MCCommandPacket`, `MCTools` | bounds for TLC; the `.cfg` files beside them give the constants |

### SendQueue

`list`, `beginPt`, `endPt` and `seqNo` are `m_sequence_list`, `m_beginPt`,
`m_endPt` and `m_SequenceNumber`. A node keeps its number, its frames (one or
two), the frame that is to be confirmed next and `spent`: the head frame was
tried `RETRY_TOTAL_TIMES` times. What happens to the frames of one message is
the subject of `FrameTransfer`; here a tick may or may not send, and any send
may have been the last try.

`SendMsg` is three actions, so that the worker can come in between where there
is no lock: the check for a full list (`SendCheck`, `SendRefused`), the store
of the node with the new end and begin (`SendPlace`), the number
(`SendNumber`). `worker` holds the local variables of the loop the worker is in:
`ProcTimer` ticks one node per `TimerStep`, `Proc_RecvAckedSeq` frees in `Purge`
and closes gaps in `Compact`. The constant `Racing` allows `SendMsg` and the
loops to interleave, as the code allows: the application, and its callbacks on the
looper's thread, run beside the worker. Without it a call ends before the next one
starts, which an application only gets by luck or by sending while nothing arrives
and no timer is due.

The peer is an environment: at any time it may confirm, reject or ask for any
number that was given out, or acknowledge all numbers before one. `confirmed`
records what it has said. Multi-frame messages are not confirmed by the number of
their successor: the receiver records a number when the first frame arrives.

### SortedRing, BitTools

`SortedRing` has what the two circular lists share, as operators on the numbers
of the slots: the search (`FindSequence` and `FindMultSequence` are the same
text), the closing of a gap, the walk of the begin. `BitTools` has the two
operations on bitmaps that the receive window of a message and the sequence
window both use. A loop over slots is written as the first slot of a set, a
shift as a function on slots.

### SeqWindow, MessageReceiver

A window of `SeqWindow` is a record of `m_begin_idx`, `m_end_idx` and the set of
the one bits; `wnd_compare`, `IsAcked`, `idx_to_pt`, `wnd_save`, `wnd_move` and
the two operations of the ageing table have the names of the code. Numbers are
taken modulo `MAX_SEQ + 1`, as a `WORD` is, so that `Word(idx - begin)` is huge
for a number below the begin, as in the code.

`MessageReceiver` is `CMsgRecver` for many messages: `wnd`, `ageing`, `needMove`,
`list`, `beginPt` and `endPt` are its members, `walk` is the index of the loop in
`ProcTimer`. `RecvOnce`, `RecvFirst` and `RecvNext`
are the kinds of frames `ProcRecvMsg` tells apart; `RecvKnown` and
`RecvNextUnknown` are the numbers `precheck_by_total` turns down. The sender is
an environment: it gives out numbers, gives up or finishes any message it holds,
and announces the first one; every frame it ever sent can arrive at any time.

Abstractions:

* Of the frames of a longer message only the first and the one that completes it
  are followed; `FrameTransfer` has the others, with the asks and the rejects.
* Acknowledgements change nothing at the receiver, so `m_bNeedNotifySeq`, which
  only decides when one is sent, is left out. `WasSeen` speaks of the number
  `Notify_AckSeq` would send in any state.
* The announced range begins with the first message held now or at an earlier
  time, or with 0 when the list has just become empty (`SendSeqRange`).
* Assertions are taken as compiled out. A payload is not empty.
* A position one beyond the bitmap passes the checks of `IsAcked` and `wnd_save`.
  The bit behind it is read as either value (`stray`) and writing it is left
  out. Once a bit of the last byte was set, which `left_move` does not shift,
  `edge` holds and the properties claim nothing; in the code that takes a number
  1016 ahead of the window's begin.
* The sender may run ahead of a message that does not arrive as far as it likes. A
  window of 768 numbers is then moved by force over 64 of them, and what was not
  received there is lost, though the sender still tries. `left` records these
  messages, and `WasSeen` says how far behind the last number they are: 704 or more
  (`CAN_MOVE_SIZE - MOVE_SIZE`). `PassedIsOk` is what a comment says instead, and fails.
* The first number that arrives initialises the window, and earlier ones are
  given up by design (`dcf_bits.cpp:394`): `Had` leaves them out.

### FrameTransfer

`phase` says how the sender's node ended (`FinishNode` after `NotifyData`, after
a reject, or after the last forced skip). `node` is the control part of
`FrameSend`: `begin` is `Frame_curBegin`, `wait` is `frame_send_wait`, `stimes`
is `curBegin_stimes`, `failed` is `send_con_faild`, `left` is `send_times_left`.
`rbegin` and `rbits` are `Frame_curBegin` and `msgSurebit` of `FrameRecv`;
`wnd` is what the total sequence window says of this message's number (not
seen, in the range, or passed). `skips`, `saved` and `delivered` are history.

Each handler is one action: `SendMsg`, `RecvAck` and `RecvReject`
(`CMsgSender::ProcRecvMsg`), `TimerSkip` and `TimerSend` (`NodeTimer_Main`),
`RecvFirst` (`ProcNewMultiFrame`), `RecvNext` (`ProcNextFrame` and
`Multi_Add_Frame`, by the place of the frame), `ReceiverTimer`, `WindowPasses`.
The channel may refuse any frame of a burst; `check_send_window` then stops, and
the failed frame counts as a try only if it is the head.

Abstractions, and why they are sound:

* Congestion control (`cwnd`, `awnd_idx`, `frame_state`, `ack_times`,
  `head_act_rtts`) only decides the window of a burst, the tick that ends a round
  and the ask that triggers a resend. All three are chosen freely. `ssthresh` and
  `send_frames_retry` are written and never used for a decision.
* `curBegin_stimes` is counted up to `RETRY_TOTAL_TIMES`: it is only compared
  with that constant and with `ACK_RETRY_TIMES`.
* `IsAcked(CurFrames, cwr)` reads the bit of another sequence number, which may
  have either value as long as the window has not passed this message.
* Offset `MAX_WINDOW_SIZE` passes the check of `Multi_Add_Frame`; the bit read
  there belongs to the next field of the structure (`stray`).
* Assertions are taken as compiled out, the state is followed behind them.
* The branch of `ProcRecvMsg` for an ask of frame 0 is dead: no frame is sent
  with `CurFrames` 0 and `RCC_CTRL_BIT_WANT`.
* A full list and a number beyond the window drop a frame, like a loss.

`FewSkips` is the assumption under which a delivered message is complete: with 8
bytes of bitmap and a window of 32 frames it allows 24 forced skips, each of
them 60 tries. Beyond it the unshifted last byte of `left_move` can leave a
stale bit that counts a missing frame as received.

### ClientSession

The fields have the names of the code; `transport` is the code that
`m_SafeFrame_Sender` and `m_SafeFrame_Recver` were created with. `Tick` is the
1 s timer of `MainLoop` with the login retries it triggers; `KeepAlive` is the
keepalive timer; `GatewayAccepts`, `ServerAccepts`, ... are the handlers. `Init`
and `AppInitializes` leave `m_server_state` and the server's address open,
because the constructor does not set them and the application can read them
before the worker's first `gateway_login`. Gateway and servers are external:
they answer what was sent to them, in any order, late or repeatedly, and speak
of their own accord. Datagrams are matched by address and code as in
`TryRecvSocketMsg` and `server_recv_unsafe_entry`.

A refused login and a gateway logout end the client inside its own worker
thread (`zhw_bs_quit`, `zhw_bs_recv_logout`); here both are the end of the object,
`Lifecycle` follows what comes after.

### Lifecycle

The three kinds of threads are `App`, `Worker(c)` and `Looper(l)`; `at` says where
each is, `this` which object its destructor or `quit` is in. `rpc` and `lp` are
`g_bsc_rpc` and `g_bs_resp_looper`, `stop` is `m_stop_work`, `transport` says which
`CMsgSender` a client has, `cb` holds `mut_callback`. A step reaches from one point
where another thread can matter to the next: a shared pointer, a join, the lock,
the queue. `Initialize` and `MakeLooper` are two steps because the worker starts
in between; `zhw_bs_quit` is `Destroy`, `Joined`, `QuitLooper`, `JoinedLooper`, and
the application, a refused worker and a callback all run it; `zhw_bs_recv_logout`
is `ProcLogoutCmd` and `LogoutJoined`. A step the language leaves undefined sets
`fault` and ends the behaviour (`Undefined`): the properties say when each can
happen. What a thread finds in the memory of an object that was freed is either
that fault or the old value.

Abstractions: of the datagrams only those matter that post, log in, refuse or log
out; `addmsg` with its two semaphores is one step, and its flush, which no caller
asks for, is left out; the handlers of a message post once.

### UdpSocket

`buf` is `m_chRecvBuf` up to `m_Buff_ReadLen`, `procPt` is `m_Buff_ProcPt`, `peer` is
`m_Buff_IP` and `m_Buff_Port`, `head` is the header in the caller's buffer. The
buffer is a sequence of cells of two bytes; a checksum is a field of its cell, so
one that agrees by chance is left out. `log` is what the kernel received: frames
that are whole, have a wrong header or body, lack their end, noise, and empty
datagrams, from any of `Peers`. The body of a long frame begins with the magic
word. `SearchFrame` is one turn of the loop of the same name, and `search_header`
has the two slips of the code (section 6). `handed` and `unheard` are history.

### CommandPacket

A packet is a function from positions to cells that name their command, field and
byte, so that a byte in a wrong place or order is seen. `helper` is the class that
packs (`CRawMsgHelper`, `CCRMMsgHelper`, or `CBDTMsgHelper` for a file), `order` the
peer's byte order, `num` and `len` are `CmdNums` and `Len`, `staleLen` is the
`wParaLen` the reader's `CRM_CMD` still has from the command before. Packing:
`RawAddToPacket`, `CRMAddToPacket`, then `RawPacketFrame` or `CRMPacketFrame`;
reading: `RawGetFromPacket`, `CRMGetFromPacket`; `ProcRsp` and `ProcRsp_DBFile` are
the functions of those names; `Response` is the one the client makes to its own
upload. `Format` has ten formats, one for each shape that occurs in the tables;
a text, a file and the buffer are scaled down. `puts` remembers what `AddToPacket`
counted and where it put it (`at`). The buffer is assumed to have room for
`MaxCmds` commands with the largest parameters and for the padding of the cipher
(`PacketAssumption`), as those that pack make it (`dwTotalLen`).

### Vectors, Lists, KeyArrays, Containers

The operators are the methods, on the memory as the code lays it out: `mem` and
`used` of a `dcf_vector`, `pNext` of a `SingleList`, head, tail and number of a
`CQueArray`, the nodes and their `use` bits of the arrays with keys. `Containers`
has one object of one class at a time (`subject`, `c`), what its caller believes is
in it (`spec`, a sequence or a function) and the result of the last call beside
the expected one (`told`). What is expected is what the call is for, by its name and
the comments at it, never what the code answers. Five calls answer something else;
`Departures` lists them, `told.about` says that the last call was one of them, and the
caller goes on with what it found. `Agrees` leaves these answers open, and section 6
reports each: what a comment says of two of them is `RepeatedNodeIsOk` and
`NewNodeIsZero`, which TLC refutes. A write behind the memory of a vector sets `over`,
which `StaysInside` forbids, and ends the behaviour.

### Texts, Codes, Directory, WorkTimer, Tools

`Texts` has the splitting of texts in fields with quotes, numbers, and addresses; `Codes`
base 64, dates in their three forms, the QR code and the goods code; `Directory`
the tables of areas, modules and commands and the binary search that goes through
them. They keep no state, so one question to each shows what any would show. The
expected result is written independently: fields as the pieces between separators
outside quotes, a number or a date by what was written, a format by the module
whose list has the command. The ciphers are left out of the QR codes: the bytes
that are encoded are the ones decoded. Two questions are about what a comment
promises and the code does not do, a code of the standard style
(`AskStandardCode`) and an escaped quote (`AskEscaped`): `Agrees` leaves them to
`StandardCodeIsRead` and `EscapedQuoteIsSkipped`.

`WorkTimer` is `dcf_time_exact_work_and_sleep` with `dcf_time_compare`, `_add`,
`_minus` and `_add_num`, as built for every system but Windows. `Tools!Pass` is one
turn of `MainLoop` for one of its two timers, which share nothing but the time they
take; `SetClock` sets the clock to any value, forward or back.

## 3. Runs

| run | expected | shows |
|---|---|---|
| `FrameTransfer` | pass | all safety properties, the refinement and the liveness of one transfer |
| `FrameTransferReject` | violation of `RejectMeansReceived` | a reject does not mean that the message was received (section 6) |
| `ClientSession` | pass | safety and liveness of the session |
| `SendQueue` | pass | the ring keeps its shape and order, loses no message, announces no message as gone, and its loops end |
| `SendQueueRace` | violation of `FoundInList` | `SendMsg` against the worker: messages that `Full_Search` no longer finds (section 6) |
| `MessageReceiver` | pass | nothing is handed up twice, and nothing is taken for seen but what arrived or was left far behind by force, however the window moves; the list of open messages stays sorted and known to the window |
| `MessageReceiverWalk` | violation of `WalkEnds` | the timer's walk over the open messages that does not end (section 6) |
| `Lifecycle` | pass | every interleaving of initialise, quit, refusal, logout, messages and callbacks: nothing posted is lost, nothing runs after quit, one callback at a time, which steps are undefined and when; quit returns and what is posted is handed over |
| `LifecycleStop` | violation of `StopIsObeyed` | an answer to a login takes back the request to stop (section 6) |
| `UdpSocket` | pass | only whole frames, each once and in order, with their sender, none lost to garbage; every datagram is read |
| `CommandPacket` | pass | commands and files arrive as they were packed; responses are reported as what they are |
| `Tools` | pass | containers, conversions and tables answer as expected; the timers keep their periods |

Every property of a passing run has a mutant: an operator such as
`FaultNotMoved`, which stands before the definition it replaces and differs from
it as a plausible slip of the code would. `PROJECT.json` lists them; each breaks
its property.

Bounds. `FrameTransfer`: three frames, so that a frame can be behind, at and
ahead of the receiver's window and a run of two can be completed; a window of
two, so that the head can be lost while its successor arrives; a bitmap of
three bytes of two bits, so that shifts by less than a byte, by a byte and by
more occur and the unshifted last byte is there; three sends per head and a
resend every second tick, so that the resend, the hot frame (from the second
send) and the skip all happen; two datagrams in flight, so that two
frames can be swapped and a late acknowledgement can meet a newer one.
`ClientSession`: two servers and two codes, so that a session can be replaced by
one at another server; two datagrams in flight, which may stay as long as they
like and arrive again (an old answer can outlive a whole login and meet a newer
one); two ticks and two keepalive periods to a timeout instead of 10 and 3.
`SendQueue`: four slots, so that three messages fill the list and one can be
finished between two others; it starts at slot 2, so that the list wraps around
the array; four messages, so that a slot is used again after a list that was
full. The numbers stay below the wrap.
`MessageReceiver`: a window of three bytes of two bits and eight messages, so that
the window moves over its whole length and numbers fall out of it; a forced move
of one number at four of six; an ageing table of two seconds; two longer messages
in a ring of three slots that starts at slot 1, so that the list wraps, is full,
and closes a gap. The numbers stay below the wrap. `InReach` cuts the search
where `edge` holds.
`Lifecycle`: two clients one after the other, so that a late thread of the first
meets the second; no message is received any more once one was posted to the
looper, which is enough for one before, during or after a quit; callbacks may quit.
`UdpSocket`: three datagrams, so that the remains of one meet a second and the
frame behind both is still to come; two ports of one address and one of another;
bodies of no cell and of two, which begin with the magic word.
`CommandPacket`: three commands in a packet of 64 bytes, so that a packet has a
first, a middle and a last one and can be full; every number of given parameters
for each of ten formats; files below, at and above the length of their header
and of a cipher block.
`Tools`: a vector that grows and shrinks by two from four and has up to six nodes,
lists of three nodes, arrays of four places with six keys of which three share a
place; texts of up to five characters of a letter, a blank, a separator and a
quote; numbers at the limits of 17, 20, 24 and 31 bits; seconds of three
milliseconds and periods of three and five, so that sums carry and a period is as
long as a second or longer, on a clock of 12 milliseconds that may be set to any of them.

Fairness. `FrameTransfer!FairSpec`: weak fairness of the sender's timer, which
the worker calls every second as long as the client runs (`TimerEntry`); nothing
is assumed of the network or the receiver. `ClientSession!FairSpec`: weak fairness
of the two timers of `MainLoop`. Both assume that `MainLoop` comes round:
`TryRecvSocketMsg` returns only when the socket is empty, so a peer that sends
without pause would stop the timers. `SilenceNoticed` and `LoginRetried` say
which datagrams keep a client in its state. `SendQueue!FairSpec` and
`MessageReceiver!FairSpec`: the worker goes on with a loop it is in.
`Lifecycle!FairSpec`: a thread that can go on goes on and a callback returns;
nothing is assumed of the application, of the datagrams, or of a callback that
quits. `UdpSocket!FairSpec`: the worker calls `RecvFrame` again and the call goes on.

## 4. Proofs

`FrameTransferProofs`: the inductive invariant `IInv` has, beside the types,
`SenderNotAhead` (the sender's begin is at most the receiver's plus the skips),
`InFlightOK` (a data frame in flight lies below the receiver's begin plus the
skips plus the largest window, an acknowledgement asks for nothing beyond the
receiver's begin), `StageOK` (the receiver's node, its hand-overs and the total
window go together) and `CopyOK` (while few frames were skipped, every frame
below the begin is in the copy, and every set bit stands for a frame in the copy
and lies below the byte that is not shifted). None of the properties is
inductive alone: completeness needs the meaning of the bits, that needs a bound
on the offsets a frame can have, that bound needs the frames in flight and the
relation of the two begins, and this needs the acknowledgements in flight.
From `IInv` follow `TypeCorrect`, `SenderNeverAhead`, `DeliversComplete`,
`NotifiesDelivered` and `DeliversOnce`, for every message length, window, bitmap
and retry bound; `Implements` shows that as long as few frames were skipped every
step is a step of `InOrderTransfer` or a stutter.

`ClientSessionProofs`: the invariant adds to the three safety properties
`HonestAnswers`: a login answer in flight carries a code its sender handed out.
Without it an accepted answer could bring the code of another server;
with it the comparison of addresses in `TryRecvSocketMsg` is enough. From it
follow `SessionTypeCorrect`, `AlwaysRetries` and `SessionIsOfService`, for any
servers, codes, timeouts and number of datagrams.

`LifecycleProofs`: the invariant has parts that hold whatever happens and parts
that hold under the conditions the properties name. Always: a pointer that is not
null points to the one object of its kind that lives (`Pointers`), what was not
made has no thread (`Unmade`), nobody frees the client of a worker that handles a
datagram (`Handling`), a worker or a looper outlives its object only when the
gateway or a callback ended it (`WorkersLive`, `LoopersLive`), a looper that was
told to quit is waited for (`QuitAwaited`). While only the application ends clients,
what it works on lives (`AppAlone`); while the lock was not initialised anew, who
is in a callback holds it (`HoldsLock`); while no two quits cross, a queue holds
exactly what was posted and not handed over, and behind it only quit (`InOrder`,
`NoClient`). `NothingLost` and `OneCallback` are read off these; `FaultsExplained`
is proved from the fault-free state before a step, whose parts say that
what a step uses lives unless one of the named causes has occurred. The bound on
messages (`MaxPost`) is a constant of any size, and so is the number of clients.

`UdpSocketProofs`: `search_header` may be misled by a magic word inside a body,
by its doubled start, and by the header an earlier search left behind. What
saves the frames is where headers can be. The invariant says that the buffer
holds what the search left of one datagram and at most one whole datagram behind
it (`Places`); that a header is followed by all the network left of its
datagram (`HeadersAre`, `BodiesAre`); which magic words the search can meet
(`RestOf`, `Behinds`); that a stale header belongs to a damaged body, which never
comes (`Stale`). `SearchSteps` draws the three outcomes of one turn of
`SearchFrame` from it. The assumption on lengths is that a longest body exists,
which `RCC_SIZE_TOTAL` (`dcf_def.h:184`) is in the code.

`SortedRingProofs` has the lemmas of the circular array for both lists: distances
along the ring, the nearest slot of a set (from a well-founded minimum, since the
definition is a `CHOOSE`), what closing a gap keeps, where `AdjustHeadPtr` and the
search stop in a list that has not wrapped.

`SendQueueProofs`: types hold for any interleaving and any numbers, also behind
the wrap (`QueueTypeCorrect`). The other three theorems assume `OneThread` and
`BelowWrap`: calls of `SendMsg` and of the worker do not overlap, and the last number
is not below the first. The code guarantees neither, and neither can be dropped: the
run `SendQueueRace` breaks the shape with calls that overlap, and section 6 has the
list behind the wrap that loses a message. The invariant follows the worker through its loops: between them
the ring has no gap (`Shape`), in the first loop of `Proc_RecvAckedSeq` gaps lie only
before the index and what is still freed was confirmed (`Purging`), in the second
no gap lies before the index (`Compacting`); a node `SendMsg` has stored and
not yet numbered is the end (`Queued`); the others are in order (`Ordered`), above
the range that was announced (`Counted`), and `NotPassedOver` is that.

`MessageReceiverProofs`: types hold for any numbers (`ReceiverTypeCorrect`), which
includes a shift by more than the bitmap. The other theorems assume `NoWrap`: the
first number is not above the last, and the window of the last one ends below
`MAX_SEQ`, so they are about the first 64,500 messages of a transport. Behind
that they are false (section 6). The invariant `Tells` says what a window means:
its bits stand for messages that arrived and for nothing else, every message that
arrived is before the begin or has its bit, no bit lies in the byte `left_move`
does not shift, and the begin has passed no message the sender holds
that neither arrived nor is `left` behind. It is kept by a move over what arrived or
was given up (`MoveTells`), and each of the four moves is one: up to the sender's range,
over the run of ones, over an aged part of it, and by force, which leaves behind only
what is `CAN_MOVE_SIZE - MOVE_SIZE` numbers or more behind the last one
(`ForcedTells`), since the window holds no number that was not given out. No
bound on the sender is assumed. `Ring` is
the shape and order of the list, with the insertion (`RingInserts`) and the
closing of a gap (`RingCloses`). That nothing is handed up twice (`NothingTwice`)
needs both: a message leaves the list only when it is handed up, and the window
knows it from its first frame on.

`CommandPacketProofs`: that a packet arrives as it was packed is not inductive; one
has to know where every command is and which of its bytes are still there. `Offset`
counts numbers but not texts, so in the order of the network the header of a command
is written over the end of the one before it. `LayoutInv` says for a packet
that has every command it counts: each is where the one before it ends (`PlacesInv`),
and as long as it is not taken out its header and its parameters are in the memory,
up to the first byte the next one covers (`CellsInv`); the reader stands where the
next one was put, and its `wParaLen` is that of the last one taken (`ReadInv`). It
is kept by `AddToPacket` because what a command covers is behind the bytes
counted for its predecessor (`EndFact`, at most three bytes for these formats),
and by `GetFromPacket` because the conversion in place reaches no more of the next
command than the bytes of its header that the two share. `CodeFact` connects the first
two bytes of a response with its success. `BoundInv` holds for any packet, also
one that lacks commands: no position goes beyond 20 bytes for each command put in or
taken out. From these follow `TypeCorrect`, `RoundTrips` and `ReportsOnce`, for any
set of commands of `Format`, any number in a packet and any buffer with room for them.
The formats themselves, the sizes of header and parameters, and the lengths of a
file are the definitions of the module, not parameters.

Every one of these invariants was also evaluated by TLC, on all states of
the passing run of its module.

Only model-checked: the liveness properties (`EventuallyResolved`,
`SilenceNoticed`, `LoginRetried`, `WorkerReturns`, `QuitReturns`,
`PostedIsHanded`, `EveryDatagramIsRead`), which need fairness and ENABLED; and
the three invariants of `Tools`, which reaches `Vectors`, `Lists` and `Texts` with
their recursive operators and `Codes` with its bitwise ones: the prover has no backend
for either. The claims of section 6 that TLC refutes are in the modules, under a heading of their
own, and are neither checked by a run nor proved. The proofs rest on the named constant
assumptions of the modules and, where a theorem says so, on `OneThread`, `BelowWrap`
and `NoWrap`.

## 5. Not modelled, and the plan

What is left is the composition of `SendQueue` and `MessageReceiver`, each of which
has the other as an environment: no single message is freed that was not handed up.
`KeptUntilConfirmed` and `WasSeen`, which are proved, are its two halves.

Not modelled:

* What nothing calls: `ChangePort`, `batches_sendRawMessage`, the helper of CMB
  messages, `CBDTMsgHelper::PacketFrame`, `module_cmd_pkg_helper_init`,
  `dcf_sv_info_provider_*`, `quickSort3Way`, `sys_event` (`dcf_lock.cpp`), text
  functions of `dcf_string.cpp` such as `reject_note_line` and `dcf_strsearch`.
  The `cvt_mod_...` variants repeat the modelled conversions for one module.
* What a re-login does to the messages the old transport had not delivered
  (`CMsgSender::ClearAll`): every model of the transport follows one transport. They
  are lost without a notice to the application.
* Pure functions on bytes (AES, DES, MD5, the compression), the vendored cJSON,
  formatting, debug output and file access.
* Overflow of `m_cursor + len` in `dcf_para_out::get_para_ptr`, and the counters
  `m_Recv..Frames` of the socket, which nothing reads.

## 6. What the models found

Shown by a run:

* **A reject for a message in progress** (`FrameTransferReject`). `ProcNewMultiFrame`
  and `ProcNextFrame` call `IsAcked(pFrame->CurFrames, cwr)` with a frame number
  where the sequence number is meant. When the bit found there is set, a frame
  that was sent three times makes the receiver reject a message it has not got;
  the sender frees it in silence. It needs a hot first frame that meets its own
  open node, or a hot later frame of a message whose first frame has not arrived.
* **`SendMsg` against `FinishNode`** (`SendQueueRace`). `SendMsg` computes its slot from
  `m_endPt`; when the worker finishes a node before the slot is stored, a gap stays
  in the list. The next `FinishNode` can leave `m_endPt` on the gap, and from then
  on `Full_Search` and `Proc_RecvAckedSeq` return at once: what the peer confirms
  stays in the list until the timer gives up or another message is sent.
* **A walk that does not end** (`MessageReceiverWalk`). `CMsgRecver::ProcTimer`
  compares its index before it wraps it. With two open messages, the first in slot
  127 and the second in slot 0, the index takes the values 127, 128, 1, 2, ... at the
  comparison and is never 0: the worker stays in the loop and the client hangs.
* **A request to stop that is taken back** (`LifecycleStop`). Every answer to a
  gateway login sets `m_stop_work` to false, also while `~CBSClient` waits for the
  worker: `zhw_bs_quit` then waits as long as the session lasts.

Claims of comments, and of this project's own properties beyond a bound, that TLC
refutes. No run in the table of section 3 has them; each is checked by putting it
in place of the invariants and properties of the named configuration, with the
changes that are given.

* **A message freed behind the wrap** (`KeptUntilConfirmed` with `MCSendQueue.cfg`,
  `SEQ_BEGIN = 13`, `FirstPt = 0`, `LastSeq = 3`). The comment of `Proc_RecvAckedSeq`
  says that the numbers before the acknowledged one are confirmed
  (`dcf_dtframe.cpp:879`). In a list such as 65534,
  65535, 1, 2 the number 1 is looked for from the begin; 65534 is not beyond
  `wBeginSeq` but greater than 1, so `FindSequence` answers `FR_NEAR` at the begin
  (`dcf_dtframe.cpp:325`), and the loop of `Proc_RecvAckedSeq` runs to the slot before
  the begin: message 1, not confirmed, is freed and never sent again.
* **A window moved by force** (`PassedIsOk` with `MCMessageReceiver.cfg`). `m_bNeedMoveWndSeq` is set
  once and never cleared; from then on a window three quarters full is moved over its
  first 64 numbers, whatever arrived. `IsAcked` calls what lies before the window OK
  (`dcf_bits.cpp:312`), so the frames of a message that was passed are answered
  and dropped, and the sender takes it for delivered. That it needs 704 numbers behind
  the message is proved (`SeenOnlyIfArrived`).
* **Twice around the wrap** (`HandedOnce` with `MCMessageReceiver.cfg`, `SEQ_BEGIN = 13`,
  `LastSeq = 2`, `Long = {2}`). `dcf_bits.h:39` calls the window one that wraps in the
  range 0 to 65535, and `dcf_dtframe.cpp:2158` wants repeated receipt solved. When 65535 has arrived in its turn,
  `wnd_move` makes the begin 65535 + 1, which is 0 in a `WORD` (`dcf_bits.cpp:431`),
  and begin 0 stands for a window in which nothing arrived: the next frame that comes
  again is handed up a second time. `SendSeqRange`, which announces 0 for an empty
  list, does the same to a window that reaches beyond 65535. And once the end of
  the window has wrapped and its begin has not, `wnd_compare` answers `WCR_IN_WND` for
  every number from the begin to 65535 (`:275`), so that a frame that comes again is
  taken for a new one and sets the end of the window back. A range from before
  the wrap that arrives late moves the window almost once around. These are why
  the theorems about the receiver assume `NoWrap`.
* **Number 0 acknowledged** (`AckedIsANumber`, with the same changes). `Notify_AckSeq` adds the run of
  ones to the begin in a `WORD` (`dcf_dtframe.cpp:2607`): when 65535 has arrived in its
  turn it acknowledges 0, which is no number of a message (`:478`).
* **The bytes of another port** (`PortIsKnown` with `MCUdpSocket.cfg`). What is left of a datagram is kept
  when the next one comes from the same address and another port (`dcf_udp.cpp:405`,
  `:413`), where the comments beside it say "端口还是一样的" (the port is still the
  same) and that what another port left is discarded (`:423`). A frame cut in two by
  its own sender is therefore lost, and the remains of one port are put before the
  bytes of another, whose frames are then handed up under the first port, or lost.
  `WholeIsHanded` and `SenderIsKnown` leave out what such remains touch (`Behind`).
* **A conversion that loses data** (`ConvertedWhole` with `MCCommandPacket.cfg`). In the order of the network a
  field of variable length is not copied, a text does not move the offset and is
  written over by the next command, and of eight bytes the upper half is lost.
  `dcf_pkghelper.h:50` promises the conversion of every field of a format; `:33` of
  that file names three types as supported, but the tables of formats use all of them.
  `RoundTrip` and `Reported` leave these packets out (`Whole`).
* **A command left behind** (`TakenByNumber`). `CCRMMsgHelper::GetFromPacket` checks
  the length of a command with that of the one before (`dcf_rcc_dthelper.cpp:543`), so
  a short one behind a long one is refused though `CmdNums` counts it.
* **A packed file behind its message** (`PackedFileFits`). The memory of
  `sendRawMessage` is made for the length the application names, which is to be that of
  the file (`scango_dll.h:86`); `zlib_len` gets the same, though it is the length after
  packing (`dcf_i_rcc_dth.h:447`), and a packed file that is longer is copied behind
  the memory (`scango_dll.cpp:457`).
* **A response nobody understands** (`OwnResponseReported`). The response the client makes
  to its own upload is in the order of the host (`bsc_rpc.cpp:857`), but `bhost` still
  names the order of the peer: a peer of the other order keeps the success from
  being reported.
* **An added node that is there** (`RepeatedNodeIsOk` with `MCTools.cfg`). `CNumKeyStructArray::AddNode` returns
  `DCF_ERR_REPEAT` also for the same data; the comment above says OK
  (`dcf_numsfixarray.cpp:266`).
* **The last node that is not cleared** (`NewNodeIsZero`, `StaysInside`).
  `dcf_vector::remove_at` clears the node at the old number of nodes
  (`dcf_vector.cpp:164`), not the last one: the node `get` makes next holds old data,
  and in a full vector the line writes behind the memory. `remove_all` does so too when
  the vector has grown: `adjust_size` copies as many nodes as were used into the
  smaller memory (`:104`); no comment speaks of that, and `over` ends the behaviour there.
* **The standard code** (`StandardCodeIsRead` with `MCTools.cfg` and
  `SPECIFICATION CodeSpec`). The style `dcf_qrcode.cpp:4` gives as an example
  has 52 characters, where `get_qrcode_info` and `zhw_qrcode_self_decrypt` refuse 32 and
  more, and the flag `s`, which is in no table; the search for an unknown flag
  divides the size of a table of pointers by `sizeof(int)` (`:49`) and, where a pointer is
  larger than an int, reads behind the table.
* **An escaped quote** (`EscapedQuoteIsSkipped`, with `SPECIFICATION QuoteSpec`). In quotes `\'` is skipped and `\"` is not:
  `dcf_string.cpp:51` compares `(*pstr + 1)`, though `:41` says that escaped quotes can
  be skipped.

Left open by `Agrees`, with no comment that says otherwise: `CQueArray::PushTail` of a
queue pushes at the head (`dcf_fixarraylist.cpp:188` passes `true`), `GetNode` counts
from the start of the memory (`:242`), and `CFixStrArray::GetNext` does not go on
(`dcf_strfixarray.cpp:231`).

Named by a property or by an exception in one, in `Lifecycle`:

* A refusal or a logout ends the client inside its own worker: the thread joins
  itself, which fails, and goes on in freed memory; a quit of the application that
  comes at the same time joins or frees what is gone (`FaultsExplained`). A
  callback that quits does the same to the looper's thread.
* A message can be posted before the looper exists (`zhw_bs_main.cpp:109`), and
  `SendMessage` can use a sender the worker has just replaced (`bsc_rpc.cpp:125`).
* A failed `Initialize` leaves a client whose thread handle was never set; the next
  quit joins it. A client made while an older worker is on its way out keeps that
  one's looper and loses it with it. `init` initialises `mut_callback` again
  even while a callback holds it (`scango_dll.cpp:64`).

`FaultsExplained` says where such a step can occur; it does not say that it may not.

Elsewhere:

* `search_header` adds its start to the length twice (`dcf_rcc_dthelper.cpp:108`)
  and does not advance its pointer behind a header that is not valid (`:128`). The
  run shows that no whole frame is lost by it as long as a datagram holds one
  frame, as this library sends them.
* A command that cannot be converted is counted though not written
  (`dcf_rcc_dthelper.cpp:513`), and the failure is only logged (`scango_dll.cpp:390`).
* `ProcRsp` reads only the first response of a packet, and the text of
  `ProcRsp_DBIndex` is cut after 20 characters, before its index
  (`dcframe_proc.cpp:462`).
* The keys of a `CFixStrArray` are compared by hash and length only.
* A date without a time loses its day to the seconds (`dcf_base64.cpp:389`); a QR code
  shorter than 26 characters is read as garbage rather than refused; an address
  without a port leaves the port unset (`bsc_rpc_init.cpp:51`). A timer with a rest
  may tick one rest early.

Known of the transport, outside the bounds of the present runs:

* A head frame the channel refuses 60 times is skipped though it never left;
  `check_send_window` is then entered with `frame_send_wait < Frame_curBegin`,
  which it asserts not to happen.
* The server's answer to a login that timed out is accepted after the new
  gateway login was sent. The session works, until the gateway's timer, still
  armed, logs in anew and tears it down.
