------------------------------- MODULE Codes -------------------------------
(***************************************************************************)
(* The conversions of codes and dates: dcframe/tools/encrypt/dcf_base64.cpp*)
(* (whose dates have nothing to do with base 64 but live there), the QR    *)
(* codes of dcf_qrcode.cpp and the goods codes of scango_dll.cpp. Bytes    *)
(* are numbers below 256; a character of base 64 is its index in charset,  *)
(* '~' is itself, 126, as revchar leaves it. The lines of 76 characters    *)
(* that nobody asks for are left out, and so is the decryption: it is done *)
(* by the key the test has, byte by byte, to the same bytes.               *)
(***************************************************************************)
EXTENDS Texts, Bitwise

Tilde == 126
Shl(b, n) == (b * 2^n) % 256
Shr(b, n) == b \div 2^n

\* Three bytes to four characters; one or two bytes that are left over to two
\* or three and as many '~' as are missing.
Block(in, k) ==
  LET b(j) == IF 3 * k + j <= Len(in) THEN in[3 * k + j] ELSE 0
      out == <<Shr(b(1), 2), (Shl(b(1), 4) & 48) | Shr(b(2), 4), (Shl(b(2), 2) & 60) | Shr(b(3), 6), b(3) & 63>>
      left == Len(in) - 3 * k
  IN [j \in 1 .. 4 |-> IF j <= left + 1 THEN out[j] ELSE Tilde]

dcf_tools_base64_encode(in) == FlattenSeq([k \in 1 .. (Len(in) + 2) \div 3 |-> Block(in, k - 1)])

Untilded(in) == IF in # <<>> /\ Last(in) = Tilde THEN Front(in) ELSE in

\* At most two '~' are cut off; of the last characters two make a byte and three
\* make two.
dcf_tools_base64_decode(in) ==
  LET t == Untilded(Untilded(in))
      ch(k, j) == IF 4 * k + j <= Len(t) THEN t[4 * k + j] ELSE 0
      out(k) == <<Shl(ch(k, 1), 2) | Shr(ch(k, 2) & 48, 4),
                  Shl(ch(k, 2), 4) | Shr(ch(k, 3), 2),
                  Shl(ch(k, 3), 6) | ch(k, 4)>>
      left == Len(t) % 4
  IN FlattenSeq([k \in 1 .. Len(t) \div 4 |-> out(k - 1)])
       \o SubSeq(out(Len(t) \div 4), 1, IF left = 0 THEN 0 ELSE left - 1)

----------------------------------------------------------------------------
(* Dates. A text is a sequence of numbers and separators; a zhw_datetime    *)
(* its six bytes, in the order of the structure.                            *)

DCF_YEAR_BEGIN == 2015
Dash == -1
Space == -2
Colon == -3

\* A number ends at a separator; a date without a time ends in Second.
dcf_tools_datetime_atodts(pin) ==
  LET Reads(st, t) ==
        CASE st.i = 6 -> st
          [] st.i < 6 /\ t >= 0 -> [st EXCEPT !.tmp = t, !.space = FALSE]
          [] st.i < 6 /\ t < 0 /\ t = Space /\ st.space -> st
          [] st.i < 6 /\ t < 0 /\ ~(t = Space /\ st.space) ->
               [p |-> [st.p EXCEPT ![st.i + 1] = (IF st.i = 0 THEN st.tmp - DCF_YEAR_BEGIN ELSE st.tmp) % 256],
                tmp |-> 0, i |-> st.i + 1, space |-> t = Space]
      st == FoldLeft(Reads, [p |-> <<0, 0, 0, 0, 0, 0>>, tmp |-> 0, i |-> 0, space |-> FALSE], pin)
  IN IF st.tmp > 0 THEN [st.p EXCEPT ![6] = st.tmp % 256] ELSE st.p

\* The four bytes of a zhwdt_, the first field in the low bits.
dcf_tools_datetime_atodw(pin) ==
  LET dt == dcf_tools_datetime_atodts(pin)
      Bits(low, high, n) == (low % 2^n) + (high % 2^(8 - n)) * 2^n
  IN <<Bits(Shr(dt[3], 3), dt[1], 2), Bits(dt[3] & 7, dt[4], 3), Bits(Shr(dt[2], 2), dt[5], 2), Bits(dt[2] & 3, dt[6], 2)>>

dcf_tools_datetime_dwtodts(by4) ==
  <<Shr(by4[1], 2), (by4[3] % 4) * 4 + (by4[4] % 4), (by4[1] % 4) * 8 + (by4[2] % 8),
    Shr(by4[2], 3), Shr(by4[3], 2), Shr(by4[4], 2)>>

dcf_tools_datetime_compare(dt1, dt2) ==
  LET Day(dt) == dt[1] * 10000 + dt[2] * 100 + dt[3]
      Time(dt) == dt[4] * 3600 + dt[5] * 60 + dt[6]
      Order(a, b) == CASE a > b -> 1 [] a = b -> 0 [] a < b -> -1
  IN IF Day(dt1) # Day(dt2) THEN Order(Day(dt1), Day(dt2)) ELSE Order(Time(dt1), Time(dt2))

\* One character for each number, as far as there is room, and three (six) of
\* them back: a number keeps its last six bits.
Zipped(pin, seps, buf_size) ==
  LET Reads(st, t) ==
        CASE st.stop -> st
          [] ~st.stop /\ t >= 0 -> [st EXCEPT !.tmp = t]
          [] ~st.stop /\ t < 0 /\ (t \notin seps.of \/ Len(st.out) = seps.most) -> [st EXCEPT !.stop = TRUE]
          [] ~st.stop /\ t \in seps.of /\ Len(st.out) < seps.most ->
               [out |-> Append(st.out, (IF st.out = <<>> THEN st.tmp - DCF_YEAR_BEGIN ELSE st.tmp) % 64),
                tmp |-> 0, stop |-> Len(st.out) + 1 = buf_size]
      st == FoldLeft(Reads, [out |-> <<>>, tmp |-> 0, stop |-> buf_size = 0], pin)
  IN IF Len(st.out) < buf_size THEN Append(st.out, st.tmp % 64) ELSE st.out

dcf_tools_date_zip(pin, buf_size) == Zipped(pin, [of |-> {Dash}, most |-> 2], buf_size)
dcf_tools_date_time_zip(pin, buf_size) == Zipped(pin, [of |-> {Dash, Space, Colon}, most |-> 5], buf_size)
dcf_tools_date_unzip(pin) == <<DCF_YEAR_BEGIN + pin[1], Dash, pin[2], Dash, pin[3]>>
dcf_tools_date_time_unzip(pin) ==
  dcf_tools_date_unzip(pin) \o <<Space, pin[4], Colon, pin[5], Colon, pin[6]>>

\* Six digits to the base 64; fmtlen keeps the last ones, 0 those without leading zeros.
dcf_tools_int_zip(dw, fmtlen) ==
  LET all == [k \in 1 .. 6 |-> (dw \div 64^(6 - k)) % 64]
      first == CHOOSE k \in 1 .. 7 : (k = 7 \/ all[k] # 0) /\ \A j \in 1 .. k - 1 : all[j] = 0
      from == IF fmtlen = 0 THEN first ELSE 7 - fmtlen
  IN IF from = 7 THEN <<0>> ELSE SubSeq(all, from, 6)

dcf_tools_int_unzip(pin) == FoldLeft(LAMBDA v, d : v * 64 + d, 0, pin)

----------------------------------------------------------------------------
(* QR codes: the parts of a URL, of which the last two count: a flag, and a *)
(* code of four hexadecimal digits (ver) and characters of base 64 (body).  *)

zhw_qrcode_flag == <<"i", "k", "p", "a", "g", "f", "m", "d", "c", "z">>
zhw_qrcode_type == <<1, 2, 3, 21, 22, 23, 24, 25, 26, 40>>
QR_TYPE_MAX == 41

\* (WORD)-1, where a pointer is as large as an int; the loop goes beyond the table
\* where it is larger.
NoType == 65535
qrtype_stow(flag) ==
  LET k == SelectInSeq(zhw_qrcode_flag, LAMBDA f : f = flag) IN IF k = 0 THEN NoType ELSE zhw_qrcode_type[k]
CodeLen(url) == 4 + Len(Last(url).body)
IsCode(url) == Len(url) >= 2 /\ CodeLen(url) >= 24

get_pubkeyver(url) == IF IsCode(url) THEN strtol(<<"0", "x">> \o Last(url).ver, 0).value ELSE 0
get_qrtype(url) == IF IsCode(url) THEN qrtype_stow(url[Len(url) - 1]) ELSE QR_TYPE_MAX

\* A URL that begins with a separator has no head.
skip_url_head(url) ==
  CASE url[1] = "" -> url
    [] url[1] # "" /\ IsCode(url) -> <<"">> \o SubSeq(url, Len(url) - 1, Len(url))
    [] url[1] # "" /\ ~IsCode(url) -> <<>>

\* The '~' that were cut off are put back.
Decoded(url) ==
  LET body == Last(url).body
  IN dcf_tools_base64_decode([k \in 1 .. 24 |-> IF k <= Len(body) THEN body[k] ELSE Tilde])
Readable(url) == Len(url) >= 2 /\ CodeLen(url) < 32

\* ntohl: the bytes of a DWORD as the host has them, and its last 20 bits.
ntohl(b) == Reverse(b)
Low20(dw) == (dw[3] % 16) * 65536 + dw[2] * 256 + dw[1]

get_qrcode_info(url) ==
  IF ~Readable(url) THEN [bs_id |-> <<0, 0, 0, 0>>, date |-> <<>>]
  ELSE LET temp == SubSeq(Decoded(url), 1, 8)
       IN [bs_id |-> ntohl(SubSeq(temp, 1, 4)), date |-> dcf_tools_datetime_dwtodts(ntohl(SubSeq(temp, 5, 8)))]

zhw_qrcode_self_decrypt(url) ==
  IF ~Readable(url) THEN [random |-> -1, ctrl |-> <<>>]
  ELSE LET temp == SubSeq(Decoded(url), 9, 16)
       IN [random |-> Low20(ntohl(SubSeq(temp, 1, 4))), ctrl |-> ntohl(SubSeq(temp, 5, 8))]

----------------------------------------------------------------------------
(* Goods codes and random numbers *)

m_nDigital == 90
m_charSet ==   \* 0-9 ~!@#$%^&*()_+-=[]{}|;:,./<>? A-Z a-z
  [k \in 1 .. 10 |-> 47 + k]
    \o <<126, 33, 64, 35, 36, 37, 94, 38, 42, 40, 41, 95, 43, 45, 61, 91, 93, 123, 125, 124, 59, 58, 44, 46, 47, 60, 62, 63>>
    \o [k \in 1 .. 26 |-> 64 + k] \o [k \in 1 .. 26 |-> 96 + k]

\* Every character is moved by one, down and up in turn.
dcf_tools_string_decode(src) == [k \in DOMAIN src |-> IF k % 2 = 1 THEN src[k] - 1 ELSE src[k] + 1]

\* A character that is no digit is passed over.
dcf_tools_to_10(src) ==
  FoldLeft(LAMBDA dst, c :
             LET j == SelectInSeq(m_charSet, LAMBDA d : d = c)
             IN IF j = 0 THEN dst ELSE dst * m_nDigital + j - 1,
           0, src)

nativeParseGoodsQRCodeNew(code) ==
  LET id_range == dcf_tools_to_10(dcf_tools_string_decode(dcf_tools_base64_decode(SubSeq(code, 1, 8))))
  IN [random |-> id_range % 2^24, table_id |-> id_range \div 2^24]

\* Four digits of a random number, whatever it was.
convertRandomIdNew(randomId) ==
  LET low == IF randomId > 999999 THEN randomId & 999999 ELSE randomId
      six == IF low < 100000 THEN low | 131072 ELSE low
  IN six \div 100
=============================================================================
