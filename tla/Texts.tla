------------------------------- MODULE Texts -------------------------------
(***************************************************************************)
(* dcf_strtools of dcframe/tools/comm/dcf_string.cpp, as far as the client *)
(* and the QR codes use it, and the two address functions beside it. A     *)
(* text is a sequence of characters; positions start at 1, and the         *)
(* position behind the last character holds End, the 0 of the code.        *)
(***************************************************************************)
EXTENDS Integers, Sequences, FiniteSets, SequencesExt

End == "end"
Blank == {" ", "\t"}
Quote == {"'", "\""}
Char(s, p) == IF p <= Len(s) THEN s[p] ELSE End

\* The first position from p on that is no blank.
skip_space(s, p) ==
  CHOOSE q \in p .. Len(s) + 1 : Char(s, q) \notin Blank /\ \A r \in p .. q - 1 : s[r] \in Blank

\* Inside quotes only \' is skipped: the test for \" compares the wrong value.
RECURSIVE search_quote(_, _)
search_quote(s, p) ==
  CASE Char(s, p) \in Quote \cup {End} -> p
    [] Char(s, p) = "\\" /\ Char(s, p + 1) = "'" -> search_quote(s, p + 2)
    [] OTHER -> search_quote(s, p + 1)

\* The position behind a character, an escaped quote or a quoted piece.
Behind(s, p) ==
  LET q == search_quote(s, p + 1)
  IN CASE s[p] = "\\" /\ Char(s, p + 1) \in Quote -> p + 2
       [] s[p] \in Quote -> IF Char(s, q) = End THEN q ELSE q + 1
       [] OTHER -> p + 1

RECURSIVE SplitFrom(_, _, _, _, _, _)
SplitFrom(s, chsplit, size, cur, field, found) ==
  LET next == skip_space(s, cur + 1)
      done == Append(found, field)
  IN CASE Char(s, cur) = End -> done
       [] s[cur] = chsplit /\ Len(done) = size -> done
       [] s[cur] = chsplit /\ Len(done) < size ->
            SplitFrom(s, chsplit, size, next, [pt |-> next, len |-> 0], done)
       [] s[cur] = " " /\ s[cur] # chsplit ->
            SplitFrom(s, chsplit, size, skip_space(s, cur), [field EXCEPT !.len = cur - field.pt], found)
       [] OTHER ->
            SplitFrom(s, chsplit, size, Behind(s, cur), [field EXCEPT !.len = Behind(s, cur) - field.pt], found)

\* The places and lengths of the fields: blanks around them are left out, a
\* separator in quotes is none, and the array has size places.
dcf_split_string(s, chsplit, size) ==
  IF s = <<>> THEN <<>>
  ELSE LET begin == skip_space(s, 1) IN SplitFrom(s, chsplit, size, begin, [pt |-> begin, len |-> 0], <<>>)

get_string(s, field) == SubSeq(s, field.pt, field.pt + field.len - 1)

----------------------------------------------------------------------------
(* Numbers *)

Digits == <<"0", "1", "2", "3", "4", "5", "6", "7", "8", "9", "a", "b", "c", "d", "e", "f">>
Capitals == [A |-> "a", B |-> "b", C |-> "c", D |-> "d", E |-> "e", F |-> "f"]
DigitOf(ch) == SelectInSeq(Digits, LAMBDA d : d = ch \/ (ch \in DOMAIN Capitals /\ d = Capitals[ch])) - 1

\* The digits of s from p on, and the number they make.
IsDigit(ch, base) == DigitOf(ch) \in 0 .. base - 1
DigitsEnd(s, p, base) ==
  CHOOSE q \in p .. Len(s) + 1 : ~IsDigit(Char(s, q), base) /\ \A r \in p .. q - 1 : IsDigit(s[r], base)
Number(s, base) == FoldLeft(LAMBDA v, ch : v * base + DigitOf(ch), 0, s)

\* The value, and the rest that is not read: NULL when there is none.
strtol(s, defvalue) ==
  LET t == SubSeq(s, skip_space(s, 1), Len(s))
      bHex == Char(t, 1) = "0" /\ Char(t, 2) \in {"x", "X"}
      base == IF bHex THEN 16 ELSE 10
      first == IF bHex THEN 3 ELSE 1
      last == DigitsEnd(t, first, base)
  IN [value |-> IF Char(t, first) = End THEN defvalue ELSE Number(SubSeq(t, first, last - 1), base),
      rest |-> IF Char(t, last) = End THEN <<>> ELSE SubSeq(t, last, Len(t))]

\* The same for a number of 64 bits, with the blanks behind it skipped.
uint64_strtol(s, defvalue) ==
  LET r == strtol(s, defvalue)
  IN [r EXCEPT !.rest = SubSeq(@, skip_space(@, 1), Len(@))]

----------------------------------------------------------------------------
(* Addresses: the four bytes of a DWORD *)

RECURSIVE Numeral(_, _)
Numeral(n, base) ==
  (IF n < base THEN <<>> ELSE Numeral(n \div base, base)) \o <<Digits[(n % base) + 1]>>

IPtoStr(ip) == FlattenSeq([k \in 1 .. 4 |-> (IF k = 1 THEN <<>> ELSE <<".">>) \o Numeral(ip[k], 10)])

\* dwIP and bValue after the first characters of p, and where it stops: a byte
\* keeps the last eight bits, the address its last four bytes.
StrtoIP(p) ==
  LET inside == {".", " "} \cup {Digits[k] : k \in 1 .. 10}
      stop == CHOOSE q \in 1 .. Len(p) + 1 : Char(p, q) \notin inside /\ \A r \in 1 .. q - 1 : p[r] \in inside
      Reads(st, ch) ==
        CASE ch = "." -> [ip |-> Append(Tail(st.ip), st.byte), byte |-> 0]
          [] ch = " " -> st
          [] OTHER -> [st EXCEPT !.byte = (@ * 10 + DigitOf(ch)) % 256]
      st == FoldLeft(Reads, [ip |-> <<0, 0, 0, 0>>, byte |-> 0], SubSeq(p, 1, stop - 1))
  IN [ip |-> Append(Tail(st.ip), st.byte), rest |-> SubSeq(p, stop, Len(p))]

\* The two addresses of the constructor of CBSClient: the port is what it was,
\* which is not set yet, when none is given.
Unset == -1
Address(p) ==
  LET a == StrtoIP(p)
  IN [ip |-> a.ip,
      port |-> IF Char(a.rest, 1) = ":" THEN strtol(Tail(a.rest), 0).value % 65536 ELSE Unset]
=============================================================================
