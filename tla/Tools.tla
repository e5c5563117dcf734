------------------------------- MODULE Tools -------------------------------
(***************************************************************************)
(* The tools of dcframe/tools, one at a time: a container and any calls on *)
(* it (Containers), the two timers of the worker's loop (WorkTimer), or a  *)
(* question to one of the conversions and tables, which keep no state      *)
(* (Texts, Codes, Directory). Every result is compared with what the       *)
(* caller expects of it.                                                   *)
(***************************************************************************)
EXTENDS Containers, Codes, Directory, WorkTimer

CONSTANTS
  Letters,    \* characters of texts
  TextLen,    \* bound: characters of a text
  Numbers,    \* numbers that are written, read, packed or drawn
  Bytes,      \* bytes of what is encoded
  Works,      \* the periods of the two timers
  Rests,      \* and what they rest between two calls
  StartClock, \* the clock when the worker starts
  MaxClock,   \* bound: the clock
  MaxStep     \* bound: what the loop is busy or oversleeps

ASSUME ToolsAssumption ==
  /\ Numbers \subseteq Nat /\ Bytes \subseteq 0 .. 255
  /\ Works \in Seq(Nat \ {0}) /\ Len(Works) = 2 /\ Rests \in Seq(Nat) /\ Len(Rests) = 2
  /\ StartClock \in 1 .. MaxClock

----------------------------------------------------------------------------
(* The conversions: one question each *)

AskAbout(departure, got, want) ==
  spec' = "asked" /\ told' = May(departure, Told(got, want)) /\ UNCHANGED <<subject, c>>
Ask(got, want) == AskAbout("", got, want)

Words(set, n) == UNION {[1 .. k -> set] : k \in 0 .. n}

\* The fields of a text as its reader sees them: what is between two separators
\* outside quotes, without the blanks around it.
Inside(s, i) == Cardinality({j \in 1 .. i - 1 : s[j] \in Quote}) % 2 = 1
Cuts(s) == {0, Len(s) + 1} \cup {i \in 1 .. Len(s) : s[i] = "," /\ ~Inside(s, i)}
Trimmed(s, from, to) ==
  LET solid == {i \in from .. to : s[i] # " " \/ Inside(s, i)}
  IN IF solid = {} THEN <<>> ELSE SubSeq(s, Min(solid), Max(solid))
Fields(s) ==
  LET cuts == SetToSortSeq(Cuts(s), <)
  IN [k \in 1 .. Len(cuts) - 1 |-> Trimmed(s, cuts[k] + 1, cuts[k + 1] - 1)]

AskSplit ==
  \E s \in Words(Letters, TextLen) \ {<<>>}, size \in {1, 2, 8} :
    Ask([k \in DOMAIN dcf_split_string(s, ",", size) |-> get_string(s, dcf_split_string(s, ",", size)[k])],
        SubSeq(Fields(s), 1, Min({size, Len(Fields(s))})))

\* A quote behind a backslash ends no quoted piece: the separator stays in it.
AskEscaped ==
  \E q \in Quote :
    AskAbout(IF q = "\"" THEN "escaped quote" ELSE "",
             Len(dcf_split_string(<<"\"", "a", "\\", q, ",", "b", "\"">>, ",", 8)), 1)

AskNumber ==
  \E n \in Numbers, base \in {10, 16}, before \in {<<>>, <<" ", "\t">>}, after \in {<<>>, <<" ">>, <<" ", ":">>} :
    LET s == before \o (IF base = 16 THEN <<"0", "x">> ELSE <<>>) \o Numeral(n, base) \o after
    IN Ask(<<strtol(s, 7), uint64_strtol(s, 7)>>,
           <<[value |-> n, rest |-> after], [value |-> n, rest |-> SelectSeq(after, LAMBDA ch : ch # " ")]>>)

AskAddress ==
  \E ip \in [1 .. 4 -> Bytes], n \in Numbers \cup {Unset} :
    LET port == IF n = Unset THEN Unset ELSE n % 65536
    IN Ask(Address(IPtoStr(ip) \o (IF n = Unset THEN <<>> ELSE <<":">> \o Numeral(port, 10))), [ip |-> ip, port |-> port])

AskBase64 ==
  \E in \in Words(Bytes, 4) \ {<<>>} :
    LET code == dcf_tools_base64_encode(in)
    IN Ask(<<Len(code) % 4, dcf_tools_base64_decode(code), dcf_tools_base64_decode(SelectSeq(code, LAMBDA ch : ch # Tilde))>>,
           <<0, in, in>>)

Dates == {<<y, m, d>> \o t : y \in {2015, 2019, 2078}, m \in {1, 12}, d \in {8, 31},
                             t \in {<<0, 0, 0>>, <<7, 8, 59>>, <<23, 59, 0>>}}
Written(dt) == <<dt[1], Dash, dt[2], Dash, dt[3], Space, dt[4], Colon, dt[5], Colon, dt[6]>>
Spaced(dt) == <<dt[1], Dash, dt[2], Dash, dt[3], Space, Space, dt[4], Colon, dt[5], Colon, dt[6]>>
SinceBegin(dt) == [dt EXCEPT ![1] = @ - DCF_YEAR_BEGIN]

AskDate ==
  \E dt \in Dates :
    Ask(<<dcf_tools_datetime_atodts(Spaced(dt)), dcf_tools_datetime_dwtodts(dcf_tools_datetime_atodw(Written(dt))),
          dcf_tools_date_time_unzip(dcf_tools_date_time_zip(Written(dt), 7)),
          dcf_tools_date_unzip(dcf_tools_date_zip(SubSeq(Written(dt), 1, 5), 4))>>,
        <<SinceBegin(dt), SinceBegin(dt), Written(dt), SubSeq(Written(dt), 1, 5)>>)

AskOrder ==
  \E a, b \in Dates :
    LET differ == {k \in 1 .. 6 : a[k] # b[k]}
    IN Ask(dcf_tools_datetime_compare(SinceBegin(a), SinceBegin(b)),
           CASE differ = {} -> 0
             [] differ # {} /\ a[Min(differ)] > b[Min(differ)] -> 1
             [] differ # {} /\ a[Min(differ)] < b[Min(differ)] -> -1)

\* A text that does not fit keeps its first characters, a number its last digits.
AskShort ==
  \E dt \in Dates, room \in 0 .. 7 :
    Ask(dcf_tools_date_time_zip(Written(dt), room), SubSeq([SinceBegin(dt) EXCEPT ![1] = @ % 64], 1, Min({room, 6})))
AskZip ==
  \E n \in Numbers, fmtlen \in 0 .. 6 :
    Ask(dcf_tools_int_unzip(dcf_tools_int_zip(n, fmtlen)), IF fmtlen \in {0, 6} THEN n ELSE n % 64^fmtlen)

\* A QR code as the server makes it: 16 bytes in the order of the network, with
\* or without a head and the '~' that fill it up.
Encoded(bs_id, by4, random, ctrl) ==
  LET dw == <<random % 256, (random \div 256) % 256, (random \div 65536) % 256, random \div 16777216>>
  IN dcf_tools_base64_encode(Reverse(bs_id) \o Reverse(by4) \o Reverse(dw) \o Reverse(ctrl))
Url(flag, ver, body, head) ==
  (IF head THEN <<"https:", "", "zhedao.org">> ELSE <<"">>) \o <<flag, [ver |-> ver, body |-> body]>>
Read(url) ==
  [ver |-> get_pubkeyver(url), type |-> get_qrtype(url), info |-> get_qrcode_info(url), self |-> zhw_qrcode_self_decrypt(url)]

AskQrCode ==
  \E k \in DOMAIN zhw_qrcode_flag, bs_id \in {<<1, 2, 3, 4>>, <<255, 0, 128, 7>>}, n \in Numbers, head, filled \in BOOLEAN,
     dt \in {<<2019, 12, 31, 23, 59, 58>>, <<2015, 1, 8, 0, 0, 0>>} :
    LET code == Encoded(bs_id, dcf_tools_datetime_atodw(Written(dt)), n, bs_id)
        body == IF filled THEN code ELSE SelectSeq(code, LAMBDA ch : ch # Tilde)
        url == Url(zhw_qrcode_flag[k], <<"0", "1", "0", "A">>, body, head)
        want == [ver |-> 266, type |-> zhw_qrcode_type[k],
                 info |-> [bs_id |-> bs_id, date |-> SinceBegin(dt)],
                 self |-> [random |-> n % 2^20, ctrl |-> bs_id]]
    IN Ask(<<Read(url), Read(skip_url_head(url))>>, <<want, want>>)

\* Only the length tells whether a code is one: below 24 characters it has no key
\* and no type.
AskShortCode ==
  \E n \in 0 .. 40 :
    LET url == Url("i", <<"0", "1", "0", "A">>, [k \in 1 .. n |-> 0], TRUE)
        long == n + 4 >= 24
    IN Ask(<<get_pubkeyver(url), get_qrtype(url), skip_url_head(url) # <<>>>>,
           <<IF long THEN 266 ELSE 0, IF long THEN zhw_qrcode_type[1] ELSE QR_TYPE_MAX, long>>)

\* The standard style, https://zhedao.org/s/ and 52 characters, or without the
\* head: it has a type, and its date and its random number are read.
AskStandardCode ==
  \E head \in BOOLEAN, bs_id \in {<<1, 2, 3, 4>>, <<255, 0, 128, 7>>} :
    LET code == Encoded(bs_id, dcf_tools_datetime_atodw(Written(<<2019, 12, 31, 23, 59, 58>>)), 9, bs_id)
        url == Url("s", <<"0", "1", "0", "1">>, code \o code, head)
    IN AskAbout("standard code",
                [typed |-> get_qrtype(url) \in ToSet(zhw_qrcode_type), dated |-> get_qrcode_info(url).date # <<>>,
                 checked |-> zhw_qrcode_self_decrypt(url).random # -1],
                [typed |-> TRUE, dated |-> TRUE, checked |-> TRUE])

\* The goods code of a number: its digits, moved the other way.
GoodsCode(n) ==
  LET digits == [k \in 1 .. 6 |-> m_charSet[(IF k < 3 THEN 0 ELSE (n \div 90^(6 - k)) % 90) + 1]]
  IN dcf_tools_base64_encode([k \in 1 .. 6 |-> IF k % 2 = 1 THEN digits[k] + 1 ELSE digits[k] - 1])
AskGoods ==
  \E n \in Numbers :
    LET id == n % 90^4
    IN Ask(nativeParseGoodsQRCodeNew(GoodsCode(id)), [random |-> id % 2^24, table_id |-> id \div 2^24])
AskRandom == \E n \in Numbers : Ask(convertRandomIdNew(n) \in 1000 .. 9999, TRUE)

\* Every command has the format its own module registered for it, and no other
\* number has one.
AskFormat ==
  \E cmd \in 250 .. 700 :
    LET owner == {a \in ToSet(g_CmdAreaList) : cmd \in a.cmds}
    IN Ask(dcf_tools_get_cmd_fmt_info(cmd), IF owner = {} THEN NULLFormat ELSE <<(CHOOSE a \in owner : TRUE).wModid, cmd>>)

\* A conversion keeps nothing: the first question shows what any would.
CodesNext ==
  /\ subject = "codes" /\ spec = "asked nothing"
  /\ \/ AskSplit \/ AskEscaped \/ AskNumber \/ AskAddress \/ AskBase64 \/ AskDate \/ AskOrder \/ AskShort \/ AskZip
     \/ AskQrCode \/ AskShortCode \/ AskStandardCode \/ AskGoods \/ AskRandom \/ AskFormat

----------------------------------------------------------------------------
(* The timers of MainLoop, one at a time: what the loop does between two     *)
(* calls, the other timer included, is time that passes. c has the clock,    *)
(* the two points of the timer and its period and rest; spec has the true    *)
(* time since its last tick and since the first pass after the clock was     *)
(* turned back (neither counted beyond the period), whether that pass is     *)
(* still to come, and whether the clock was put forward since the tick.      *)

Timers ==
  {[now |-> StartClock, work |-> Clock(StartClock), sleep |-> Clock(StartClock), workms |-> Works[i], sleepms |-> Rests[i]] :
     i \in 1 .. 2}
Cap(n) == Min({n, c.workms})
NoPass == [early |-> FALSE, late |-> FALSE]

\* A call of the timer: it may sleep, longer than it is told to, and then the loop
\* is busy. A tick is early when it comes before a period less a rest has gone by
\* since the one before, and the clock was not put forward; a pass without one is
\* late when it comes a period after the last tick and after the turning back.
Pass ==
  /\ subject = "timers"
  /\ \E over, busy \in 0 .. MaxStep :
       LET call == exact_work_and_sleep([work |-> c.work, sleep |-> c.sleep], Clock(c.now), c.workms, c.sleepms)
           sleeps == call.rest # NoClock
           woken == IF sleeps THEN c.now + call.rest.tv_sec * PerSec + call.rest.tv_nsec + over ELSE c.now
           calm == IF spec.back THEN 0 ELSE spec.calm
           passed == woken + busy - c.now
       IN /\ woken + busy <= MaxClock
          /\ c' = [c EXCEPT !.now = woken + busy, !.work = call.work, !.sleep = IF sleeps THEN Clock(woken) ELSE call.sleep]
          /\ told' = [early |-> call.fired /\ ~spec.forward /\ spec.tick < c.workms - c.sleepms,
                      late |-> ~call.fired /\ spec.tick = c.workms /\ calm = c.workms]
          /\ spec' = [tick |-> Cap((IF call.fired THEN 0 ELSE spec.tick) + passed), calm |-> Cap(calm + passed),
                      back |-> FALSE, forward |-> spec.forward /\ ~call.fired]
  /\ UNCHANGED subject

\* The clock of the system is set.
SetClock ==
  /\ subject = "timers"
  /\ \E now \in 1 .. MaxClock \ {c.now} :
       /\ c' = [c EXCEPT !.now = now]
       /\ spec' = [spec EXCEPT !.back = @ \/ now < c.now, !.forward = @ \/ now > c.now]
  /\ told' = NoPass /\ UNCHANGED subject

----------------------------------------------------------------------------
Init ==
  \/ ContainersInit
  \/ subject = "codes" /\ c = <<>> /\ spec = "asked nothing" /\ told = NotTold
  \/ /\ subject = "timers" /\ c \in Timers /\ told = NoPass
     /\ spec = [tick |-> 0, calm |-> c.workms, back |-> FALSE, forward |-> FALSE]

Next == ContainersNext \/ CodesNext \/ Pass \/ SetClock

Spec == Init /\ [][Next]_vars

----------------------------------------------------------------------------
(* Properties *)

\* Each container is well formed (ContainerOK), and the points of a timer are
\* clocks that were, or could be.
TypeOK ==
  CASE subject = "codes" -> c = <<>>
    [] subject = "timers" ->
         {c.work, c.sleep} \subseteq {Clock(ms) : ms \in 1 .. MaxClock}
    [] OTHER -> ContainerOK

\* What is in a container is what its calls have put there and not taken out, and
\* every result is the one its caller expects: a container's from a sequence or a
\* function, a conversion's from what was converted, a format's from the module
\* that registered the command. Left open are the answers named in Departures,
\* and the two conversions of StandardCodeIsRead and EscapedQuoteIsSkipped.
Agrees ==
  CASE subject = "codes" -> told.got = told.want \/ told.about \in {"escaped quote", "standard code"}
    [] subject = "timers" -> TRUE
    [] OTHER -> ContentsAgree

\* A timer ticks no earlier than its period less a rest after its last tick,
\* unless the clock was put forward since, and never lets a pass go by after its
\* whole period, however the worker sleeps and the clock is turned back: then the
\* period begins anew with the next pass.
Timely == subject = "timers" => told = NoPass

(* What the sources say beyond that, which the code does not keep.           *)

Promised(call) == subject # "timers" /\ told.about = call => told.got = told.want

\* What is added once more with the same data is no error: of
\* CNumKeyStructArray::AddNode dcf_numsfixarray.cpp:266 says "if the node is there
\* and the user's data are the same, return OK, otherwise an error".
RepeatedNodeIsOk == Promised("same node again")

\* A node that dcf_vector makes is zero: the memory is made so, and remove_at says
\* at dcf_vector.cpp:163 that it clears the last node.
NewNodeIsZero == Promised("node behind the last")

\* Nothing is written behind the memory of a dcf_vector: what remove_at clears is,
\* by the same line, a node of it, the last one.
StaysInside == subject = "vector" => ~c.over

\* A code of the style that dcf_qrcode.cpp:4 calls the standard one is known and
\* read.
StandardCodeIsRead == Promised("standard code")

\* An escaped quote does not end a quoted piece: search_quote can, by
\* dcf_string.cpp:41, "skip escaped quotes".
EscapedQuoteIsSkipped == Promised("escaped quote")
=============================================================================
