------------------------------ MODULE JsonText ------------------------------
(***************************************************************************)
(* cJSON's parser and printer (Arduino_JSON/src/cjson/cJSON.c) as          *)
(* functions over short texts.  A text is a sequence of symbols: "null"    *)
(* and "false" are one symbol each, so is the body of a \uXXXX escape, by  *)
(* the kind of its code unit ("uA" a character, "u0" zero, "uH" and "uL"   *)
(* the halves of a surrogate pair).  The C string's NUL follows the text.  *)
(*                                                                         *)
(* The state machine writes texts, symbol by symbol or by printing a value *)
(* and damaging the result; what it writes is parsed by the invariants.    *)
(***************************************************************************)
EXTENDS Integers, Sequences, SequencesExt

CONSTANTS
  Symbols,      \* the symbols a text is written with
  Values,       \* the values printed
  MaxText,      \* bound: symbols written one by one
  MaxDamage,    \* bound: symbols of a printed text that are changed
  NestingLimit  \* CJSON_NESTING_LIMIT

VARIABLES
  text,     \* the C string
  value,    \* the value it was printed from, until it is damaged
  damage    \* symbols changed so far

jsonTextVars == <<text, value, damage>>

Quote == "quote"
Backslash == "backslash"
NUL == "NUL"
None == [t |-> "none", v |-> <<>>]
NaN == <<"nan">>   \* as a number's digits: NaN or an infinity, which no text stands for
-----------------------------------------------------------------------------
(***************************************************************************)
(* The parser.  s is the C string; offsets count from 0.  A result says    *)
(* whether the function returned true, where it left the offset, and the   *)
(* value it made.                                                          *)
(***************************************************************************)
At(s, i) == IF i < Len(s) THEN s[i + 1] ELSE IF i = Len(s) THEN NUL ELSE "beyond"
CanAccess(s, i) == i < Len(s) + 1
Blank(c) == c \in {" ", "nl", "ctl", NUL}
Result(ok, off, v) == [ok |-> ok, off |-> off, v |-> v]
Failed(off) == Result(FALSE, off, None)

\* buffer_skip_whitespace: the NUL is a blank too, so the offset may reach the
\* end of the buffer and is then taken back by one.
SkipWhitespace(s, i) ==
  IF \E j \in i..Len(s) : ~Blank(At(s, j))
  THEN CHOOSE j \in i..Len(s) : ~Blank(At(s, j)) /\ \A k \in i..(j - 1) : Blank(At(s, k))
  ELSE Len(s)

\* parse_number: what strtod makes of the longest run of number characters.
ParseNumber(s, i) ==
  LET first == IF At(s, i) = "-" THEN i + 1 ELSE i
      end == CHOOSE j \in first..Len(s) :
               At(s, j) # "1" /\ \A k \in first..(j - 1) : At(s, k) = "1"
  IN IF end = first THEN Failed(i)
     ELSE Result(TRUE, end, [t |-> "num", v |-> SubSeq(s, i + 1, end)])

\* Where parse_string's first pass stops: at the closing quote or at the end.
RECURSIVE StringEnd(_, _)
StringEnd(s, i) ==
  IF i > Len(s) \/ At(s, i) \in {Quote, NUL} THEN i
  ELSE IF At(s, i) = Backslash THEN StringEnd(s, i + 2) ELSE StringEnd(s, i + 1)

\* One escape sequence, whose backslash is at i: the bytes it stands for, or
\* none when it is not valid, and the symbols it takes.  utf16_literal_to_utf8
\* wants the low half of a pair right behind the high half.
Escape(s, i, end) ==
  LET c == At(s, i + 1) IN
  CASE c = "n" -> [out |-> <<"nl">>, len |-> 2]
    [] c \in {Quote, Backslash} -> [out |-> <<c>>, len |-> 2]
    [] c = "uA" -> [out |-> <<"x">>, len |-> 2]
    [] c = "uC" -> [out |-> <<"ctl">>, len |-> 2]
    [] c = "u0" -> [out |-> <<NUL>>, len |-> 2]
    [] c = "uH" /\ i + 3 < end /\ At(s, i + 2) = Backslash /\ At(s, i + 3) = "uL" ->
         [out |-> <<"pair">>, len |-> 4]
    [] OTHER -> [out |-> <<>>, len |-> 0]

\* The second pass, from i: the unescaped bytes, or where it failed.
RECURSIVE Unescape(_, _, _, _)
Unescape(s, i, end, out) ==
  IF i >= end THEN [ok |-> TRUE, off |-> end, out |-> out]
  ELSE IF At(s, i) # Backslash THEN Unescape(s, i + 1, end, Append(out, At(s, i)))
  ELSE LET e == Escape(s, i, end) IN
       IF e.len = 0 THEN [ok |-> FALSE, off |-> i, out |-> <<>>]
       ELSE Unescape(s, i + e.len, end, out \o e.out)

\* A string as C reads it: up to the first NUL.
CString(bytes) ==
  IF \E k \in DOMAIN bytes : bytes[k] = NUL
  THEN SubSeq(bytes, 1, (CHOOSE k \in DOMAIN bytes :
                           bytes[k] = NUL /\ \A l \in 1..(k - 1) : bytes[l] # NUL) - 1)
  ELSE bytes

ParseString(s, i) ==
  LET end == StringEnd(s, i + 1) IN
  IF At(s, i) # Quote \/ end > Len(s) \/ At(s, end) # Quote THEN Failed(i + 1)
  ELSE LET u == Unescape(s, i + 1, end, <<>>) IN
       IF u.ok THEN Result(TRUE, end + 1, [t |-> "str", v |-> CString(u.out)])
       ELSE Failed(u.off)

RECURSIVE ParseValue(_, _, _), ParseItems(_, _, _, _, _), Member(_, _, _, _), Behind(_, _, _, _, _, _)

\* parse_array and parse_object from the opening bracket at i.
ParseList(s, i, depth, t) ==
  LET close == IF t = "arr" THEN "]" ELSE "}"
      j == SkipWhitespace(s, i + 1)
  IN IF depth >= NestingLimit THEN Failed(i)
     ELSE IF At(s, j) = close THEN Result(TRUE, j + 1, [t |-> t, v |-> <<>>])
     ELSE IF ~CanAccess(s, j) THEN Failed(j - 1)
     ELSE ParseItems(s, j - 1, depth + 1, t, <<>>)

\* The do-while loop, i in front of the next element; items are those so far.
\* In an object a name and a colon come before the value.
ParseItems(s, i, depth, t, items) ==
  LET j == SkipWhitespace(s, i + 1) IN
  IF t = "arr" THEN Behind(s, ParseValue(s, j, depth), depth, t, items, <<>>)
  ELSE Member(s, ParseString(s, j), depth, items)
Member(s, name, depth, items) ==
  LET colon == SkipWhitespace(s, name.off) IN
  IF ~name.ok THEN name
  ELSE IF At(s, colon) # ":" THEN Failed(colon)
  ELSE Behind(s, ParseValue(s, SkipWhitespace(s, colon + 1), depth), depth, "obj", items, name.v.v)

\* Behind a value: a comma and the next element, or the end of the list.
Behind(s, val, depth, t, items, key) ==
  LET next == SkipWhitespace(s, val.off)
      all == Append(items, IF t = "obj" THEN [key |-> key, val |-> val.v] ELSE val.v)
  IN CASE ~val.ok -> val
       [] val.ok /\ At(s, next) = "," -> ParseItems(s, next, depth, t, all)
       [] val.ok /\ At(s, next) = (IF t = "arr" THEN "]" ELSE "}") ->
            Result(TRUE, next + 1, [t |-> t, v |-> all])
       [] OTHER -> Failed(next)

ParseValue(s, i, depth) ==
  CASE At(s, i) \in {"null", "false", "true"} -> Result(TRUE, i + 1, [t |-> At(s, i), v |-> <<>>])
    [] At(s, i) = Quote -> ParseString(s, i)
    [] At(s, i) \in {"-", "1"} -> ParseNumber(s, i)
    [] At(s, i) = "[" -> ParseList(s, i, depth, "arr")
    [] At(s, i) = "{" -> ParseList(s, i, depth, "obj")
    [] OTHER -> Failed(i)

\* cJSON_ParseWithOpts; whole asks for nothing but blanks behind the value.
\* A byte order mark in front is skipped (skip_utf8_bom).
Parse(s, whole) ==
  LET p == ParseValue(s, SkipWhitespace(s, IF At(s, 0) = "bom" /\ Len(s) > 1 THEN 1 ELSE 0), 0)
      end == SkipWhitespace(s, p.off)
  IN IF p.ok /\ whole THEN IF At(s, end) = NUL THEN [p EXCEPT !.off = end] ELSE Failed(end)
     ELSE p
-----------------------------------------------------------------------------
(***************************************************************************)
(* The printer.  A print buffer holds out, the bytes up to the NUL; offset *)
(* is where the next write goes, which the printers of strings and lists   *)
(* leave behind out's end for update_offset.  top is the highest byte      *)
(* written, the NUL included, and wild tells that it was beyond length.    *)
(***************************************************************************)
Bytes(c) == CASE c \in {"null", "true"} -> 4 [] c = "false" -> 5 [] c \in {"uC"} -> 5 [] OTHER -> 1
RECURSIVE Size(_)
Size(s) == IF s = <<>> THEN 0 ELSE Bytes(Head(s)) + Size(Tail(s))

Buffer(length, noalloc) ==
  [ok |-> TRUE, out |-> <<>>, offset |-> 0, length |-> length, noalloc |-> noalloc, wild |-> FALSE]

\* ensure: room for needed bytes more, a buffer twice as large when there is
\* none and the buffer may grow.
Ensure(p, needed) ==
  LET total == needed + p.offset + 1 IN
  CASE ~p.ok \/ (p.length > 0 /\ p.offset >= p.length) -> [p EXCEPT !.ok = FALSE]
    [] p.ok /\ total <= p.length -> p
    [] p.ok /\ total > p.length /\ p.noalloc -> [p EXCEPT !.ok = FALSE]
    [] OTHER -> [p EXCEPT !.length = 2 * total]

\* The bytes s written at the offset, and a NUL behind them if nul; advance
\* tells whether the offset moves behind them.
Write(p, s, nul, advance) ==
  IF ~p.ok THEN p
  ELSE LET end == p.offset + Size(s) IN
       [p EXCEPT !.out = @ \o s, !.offset = IF advance THEN end ELSE @,
                 !.wild = @ \/ end + (IF nul THEN 1 ELSE 0) > p.length]
UpdateOffset(p) == [p EXCEPT !.offset = Size(p.out)]

\* print_string_ptr
EscapeByteShort(c) == IF c = Quote THEN <<Backslash, c>> ELSE <<c>>   \* mutant: a backslash is not escaped
EscapeByte(c) ==
  CASE c = "nl" -> <<Backslash, "n">>
    [] c \in {Quote, Backslash} -> <<Backslash, c>>
    [] c = "ctl" -> <<Backslash, "uC">>
    [] OTHER -> <<c>>
Escaped(bytes) == FlattenSeq([k \in DOMAIN bytes |-> EscapeByte(bytes[k])])
PrintString(bytes, p) ==
  LET quoted == <<Quote>> \o Escaped(bytes) \o <<Quote>> IN
  Write(Ensure(p, Size(quoted) + 1), quoted, TRUE, FALSE)

Tabs(n) == [k \in 1..n |-> " "]

\* print_number: what is not finite is printed as null.
Digits(v) == IF v.v = NaN THEN <<"null">> ELSE v.v
PrintNumber(v, p) == Write(Ensure(p, Size(Digits(v)) + 1), Digits(v), TRUE, TRUE)

RECURSIVE PrintValue(_, _, _, _), PrintElements(_, _, _, _), PrintMembers(_, _, _, _)

\* print_array's loop; lists of both kinds count in the depth
PrintElements(items, p, fmt, depth) ==
  IF items = <<>> THEN p
  ELSE LET one == UpdateOffset(PrintValue(Head(items), p, fmt, depth))
           sep == IF fmt THEN <<",", " ">> ELSE <<",">>
       IN IF Len(items) = 1 THEN one
          ELSE PrintElements(Tail(items), Write(Ensure(one, Len(sep) + 1), sep, TRUE, TRUE), fmt, depth)

\* print_object's loop, with depth tabs in front of each member
PrintMembers(items, p, fmt, depth) ==
  IF items = <<>> THEN p
  ELSE LET tabs == IF fmt THEN Write(Ensure(p, depth), Tabs(depth), FALSE, TRUE) ELSE p
           key == UpdateOffset(PrintString(Head(items).key, tabs))
           colon == IF fmt THEN <<":", " ">> ELSE <<":">>
           val == UpdateOffset(PrintValue(Head(items).val,
                                          Write(Ensure(key, Len(colon)), colon, FALSE, TRUE), fmt, depth))
           end == (IF Len(items) > 1 THEN <<",">> ELSE <<>>) \o (IF fmt THEN <<"nl">> ELSE <<>>)
       IN PrintMembers(Tail(items), Write(Ensure(val, Len(end) + 1), end, TRUE, TRUE), fmt, depth)

PrintValue(v, p, fmt, depth) ==
  CASE v.t \in {"null", "true", "false"} -> Write(Ensure(p, Bytes(v.t) + 1), <<v.t>>, TRUE, FALSE)
    [] v.t = "num" -> PrintNumber(v, p)
    [] v.t = "str" -> PrintString(v.v, p)
    [] v.t = "arr" ->
         Write(Ensure(PrintElements(v.v, Write(Ensure(p, 1), <<"[">>, FALSE, TRUE), fmt, depth + 1), 2),
               <<"]">>, TRUE, FALSE)
    [] v.t = "obj" ->
         LET open == IF fmt THEN <<"{", "nl">> ELSE <<"{">>
             members == PrintMembers(v.v, Write(Ensure(p, Len(open) + 1), open, FALSE, TRUE), fmt, depth + 1)
             tabs == IF fmt THEN Tabs(depth) ELSE <<>>
         IN Write(Ensure(members, IF fmt THEN depth + 2 ELSE 2), tabs \o <<"}">>, TRUE, FALSE)

\* print with a buffer that grows; cJSON_PrintPreallocated with one that does not.
PrintBuffered(v, fmt, length) == UpdateOffset(PrintValue(v, Buffer(length, FALSE), fmt, 0))
PrintPreallocated(v, fmt, length) == UpdateOffset(PrintValue(v, Buffer(length, TRUE), fmt, 0))

RECURSIVE Minify(_, _)
\* cJSON_Minify, from symbol i on: blanks go, except inside a string.
Minify(s, i) ==
  CASE i >= Len(s) -> <<>>
    [] i < Len(s) /\ At(s, i) \in {" ", "nl"} -> Minify(s, i + 1)
    [] i < Len(s) /\ At(s, i) = Quote ->
         LET end == StringEnd(s, i + 1) IN SubSeq(s, i + 1, end + 1) \o Minify(s, end + 1)
    [] OTHER -> <<At(s, i)>> \o Minify(s, i + 1)
-----------------------------------------------------------------------------
Init == text = <<>> /\ value = None /\ damage = 0

Type(c) ==
  /\ value = None /\ Len(text) < MaxText
  /\ text' = Append(text, c) /\ UNCHANGED <<value, damage>>

PrintInto(v, fmt) ==
  /\ text = <<>>
  /\ text' = PrintBuffered(v, fmt, 2).out /\ value' = v /\ UNCHANGED damage

\* A symbol of a printed text is lost, replaced, or one is added.
Damage(i, c) ==
  /\ value # None /\ damage < MaxDamage
  /\ text' \in {RemoveAt(text, i), ReplaceAt(text, i, c), InsertAt(text, i, c)}
  /\ damage' = damage + 1 /\ UNCHANGED value

Next ==
  \/ \E c \in Symbols : Type(c)
  \/ \E v \in Values, fmt \in BOOLEAN : PrintInto(v, fmt)
  \/ \E i \in DOMAIN text, c \in Symbols : Damage(i, c)

Spec == Init /\ [][Next]_jsonTextVars
-----------------------------------------------------------------------------
\* Texts and values are of their kinds.
TypeOK == /\ text \in Seq(Symbols \cup {" ", "nl", "x", "pair", "ctl", "uC"})
          /\ value \in Values \cup {None}
          /\ damage \in 0..MaxDamage

\* A value as JSON can say it.
RECURSIVE Finite(_)
Finite(v) ==
  CASE v.t = "num" /\ v.v = NaN -> [t |-> "null", v |-> <<>>]
    [] v.t = "arr" -> [v EXCEPT !.v = [k \in DOMAIN v.v |-> Finite(v.v[k])]]
    [] v.t = "obj" -> [v EXCEPT !.v = [k \in DOMAIN v.v |-> [v.v[k] EXCEPT !.val = Finite(@)]]]
    [] OTHER -> v

\* What print writes, with or without format, is parsed to the same value again,
\* but for numbers that are not finite, which become null,
\* and nothing is left behind it; and a value that was parsed, whatever the text,
\* can be printed and parsed again.
TextRoundTrips ==
  \A p \in {Parse(text, TRUE)} :
    /\ value # None /\ damage = 0 => p.ok /\ p.v = Finite(value) /\ p.off = Len(text)
    /\ p.ok => \A fmt \in BOOLEAN : Parse(PrintBuffered(p.v, fmt, 2).out, TRUE).v = p.v

\* Taking the blanks out of a text that parses does not change its value.
MinifyKeepsValue ==
  \A p \in {Parse(text, TRUE)} : p.ok => Parse(Minify(text, 0), TRUE).v = p.v

\* cJSON.h:159-160: 5 bytes more than needed are enough for a buffer that may not
\* grow; and one that grows is never written beyond its length.
PrintFits ==
  \A p \in {q \in {Parse(text, FALSE)} : q.ok}, fmt \in BOOLEAN :
    \A long \in {PrintBuffered(p.v, fmt, 256)} :
      /\ ~long.wild
      /\ \A exact \in {PrintPreallocated(p.v, fmt, long.offset + 1 + 5)} :
           exact.ok /\ ~exact.wild /\ exact.out = long.out
      /\ \A short \in {PrintBuffered(p.v, fmt, 1)} :
           short.ok /\ ~short.wild /\ short.out = long.out
=============================================================================
