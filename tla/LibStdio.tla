------------------------------ MODULE LibStdio ------------------------------
(***************************************************************************)
(* lib/stdio.c: the formatting engine behind printf and snprintf.  A format *)
(* is a sequence of one-character strings, an argument a pattern of         *)
(* TypeBits bits, and output is a sequence of characters.  The widths of    *)
(* the integer types, the size of the digit buffer and the bytes per dumped *)
(* line are scaled down.                                                    *)
(***************************************************************************)
EXTENDS Integers, Sequences, SequencesExt, FiniteSets, FiniteSetsExt, TLC

CONSTANTS
    BufSize,            \* sizeof buf in format_integer, 64 in the code
    PerLine             \* bytes per line of hex_dump, 16 in the code

\* Bits of each argument type; the first two are read from an int.
TypeBits == [CHAR |-> 3, SHORT |-> 4, INT |-> 5, LONG |-> 5, SIZET |-> 5,
             PTRDIFFT |-> 5, LONGLONG |-> 20, INTMAX |-> 20]

Decimals == <<"0", "1", "2", "3", "4", "5", "6", "7", "8", "9">>
Lower == Decimals \o <<"a", "b", "c", "d", "e", "f">>
Upper == Decimals \o <<"A", "B", "C", "D", "E", "F">>
base_d == [base |-> 10, digits |-> Decimals, x |-> "", group |-> 3]
base_o == [base |-> 8, digits |-> Decimals, x |-> "", group |-> 3]
base_x == [base |-> 16, digits |-> Lower, x |-> "x", group |-> 4]
base_X == [base |-> 16, digits |-> Upper, x |-> "X", group |-> 4]

output_dup(ch, cnt) == [i \in 1..cnt |-> ch]

\* The digits, and the commas of the GROUP flag, from the last to the first.
RECURSIVE Digits(_, _, _, _)
Digits(value, b, group, cnt) ==
    IF value = 0 THEN <<>>
    ELSE (IF group /\ cnt > 0 /\ cnt % b.group = 0 THEN <<",">> ELSE <<>>)
            \o <<b.digits[(value % b.base) + 1]>> \o Digits(value \div b.base, b, group, cnt + 1)

\* The zeros appended to reach the precision stop one short of the buffer's end.
Precise(s, precision) ==
    s \o output_dup("0", Max({0, Min({precision, BufSize - 1}) - Len(s)}))

\* buf[] when the digits are output.
Buffer(value, b, c) ==
    LET s == Precise(Digits(value, b, "GROUP" \in c.flags, 0),
                     IF c.precision < 0 THEN 1 ELSE c.precision)
    IN  IF "POUND" \in c.flags /\ b.base = 8 /\ (s = <<>> \/ Last(s) # "0")
        THEN Append(s, "0") ELSE s

format_integer(value, is_signed, negative, b, c) ==
    LET sign == IF ~is_signed THEN <<>>
                ELSE IF negative THEN <<"-">>
                ELSE IF "PLUS" \in c.flags THEN <<"+">>
                ELSE IF "SPACE" \in c.flags THEN <<" ">> ELSE <<>>
        x == IF "POUND" \in c.flags /\ value # 0 /\ b.x # "" THEN <<"0", b.x>> ELSE <<>>
        buf == Buffer(value, b, c)
        pad_cnt == Max({0, c.width - Len(buf) - Len(x) - Len(sign)})
        Pad(ch, on) == IF on THEN output_dup(ch, pad_cnt) ELSE <<>>
    IN  Pad(" ", c.flags \cap {"MINUS", "ZERO"} = {}) \o sign \o x
            \o Pad("0", "ZERO" \in c.flags) \o Reverse(buf)
            \o Pad(" ", "MINUS" \in c.flags)

format_string(s, length, c) ==
    LET pad == output_dup(" ", Max({0, c.width - length}))
    IN  IF "MINUS" \in c.flags THEN SubSeq(s, 1, length) \o pad
        ELSE pad \o SubSeq(s, 1, length)

\* va_arg of a signed or an unsigned conversion: the value of the pattern RAW.
SignedArg(raw, type) ==
    LET size == 2^TypeBits[type]
        v == raw % size
    IN  IF v > (size - 1) \div 2 THEN v - size ELSE v
UnsignedArg(raw, type) == raw % 2^TypeBits[type]

Base(conv) == CASE conv = "o" -> base_o [] conv = "u" -> base_d
                [] conv \in {"x", "p"} -> base_x [] conv = "X" -> base_X

NullText == <<"(", "n", "u", "l", "l", ")">>

\* One conversion of __vprintf, on the first of the arguments: a pattern, or a string,
\* <<>> for the null pointer, for %s.
Convert(conv, c, args) ==
    CASE conv \in {"d", "i"} ->
            LET v == SignedArg(Head(args), c.type)
            IN  format_integer(IF v < 0 THEN -v ELSE v, TRUE, v < 0, base_d, c)
      [] conv \in {"o", "u", "x", "X"} ->
            format_integer(UnsignedArg(Head(args), c.type), FALSE, FALSE, Base(conv), c)
      [] conv = "s" ->
            LET s == IF Head(args) = <<>> THEN NullText ELSE Head(args)
            IN  format_string(s, IF c.precision < 0 THEN Len(s)
                                 ELSE Min({Len(s), c.precision}), c)
      [] conv = "p" ->
            format_integer(Head(args), FALSE, FALSE, base_x, [c EXCEPT !.flags = {"POUND"}])

FlagOf == [ch \in {"-", "+", " ", "#", "0", "'"} |->
            CASE ch = "-" -> "MINUS" [] ch = "+" -> "PLUS" [] ch = " " -> "SPACE"
              [] ch = "#" -> "POUND" [] ch = "0" -> "ZERO" [] ch = "'" -> "GROUP"]
Numeral == [ch \in {"0", "1", "2", "3"} |->
            CASE ch = "0" -> 0 [] ch = "1" -> 1 [] ch = "2" -> 2 [] ch = "3" -> 3]

\* Where a run of characters of SET that starts at I ends.
RunEnd(f, i, set) == Min({j \in i..(Len(f) + 1) : j = Len(f) + 1 \/ f[j] \notin set})

RECURSIVE Number(_, _, _)
Number(f, i, j) == IF i = j THEN 0 ELSE Number(f, i, j - 1) * 10 + Numeral[f[j - 1]]

\* A width or precision at I: [value, next, args], from the digits or from `*'.
Field(f, i, args) ==
    IF i <= Len(f) /\ f[i] = "*"
    THEN [value |-> Head(args), next |-> i + 1, args |-> Tail(args)]
    ELSE LET j == RunEnd(f, i, DOMAIN Numeral)
         IN  [value |-> Number(f, i, j), next |-> j, args |-> args]

\* The length modifier at I: [type, next].
LengthAt(f, i) ==
    LET At(k, ch) == k <= Len(f) /\ f[k] = ch
    IN  CASE At(i, "h") /\ At(i + 1, "h") -> [type |-> "CHAR", next |-> i + 2]
          [] At(i, "h") /\ ~At(i + 1, "h") -> [type |-> "SHORT", next |-> i + 1]
          [] At(i, "l") /\ At(i + 1, "l") -> [type |-> "LONGLONG", next |-> i + 2]
          [] At(i, "l") /\ ~At(i + 1, "l") -> [type |-> "LONG", next |-> i + 1]
          [] At(i, "j") -> [type |-> "INTMAX", next |-> i + 1]
          [] At(i, "t") -> [type |-> "PTRDIFFT", next |-> i + 1]
          [] At(i, "z") -> [type |-> "SIZET", next |-> i + 1]
          [] OTHER -> [type |-> "INT", next |-> i]

\* `-' turns `0' off, and `+' turns ` ' off.
Settle(given) ==
    given \ ((IF "MINUS" \in given THEN {"ZERO"} ELSE {})
                \cup (IF "PLUS" \in given THEN {"SPACE"} ELSE {}))

\* [c, next, args]: the conversion, its character's position, the arguments left.
parse_conversion(f, i, args) ==
    LET i1 == RunEnd(f, i, DOMAIN FlagOf)
        flags == Settle({FlagOf[f[k]] : k \in i..(i1 - 1)})
        w == Field(f, i1, args)
        dot == w.next <= Len(f) /\ f[w.next] = "."
        p == IF dot THEN Field(f, w.next + 1, w.args)
             ELSE [value |-> -1, next |-> w.next, args |-> w.args]
        t == LengthAt(f, p.next)
        prec == IF p.value < 0 THEN -1 ELSE p.value
    IN  [c |-> [flags |-> (IF w.value < 0 THEN flags \cup {"MINUS"} ELSE flags)
                            \ (IF prec >= 0 THEN {"ZERO"} ELSE {}),
                width |-> IF w.value < 0 THEN -w.value ELSE w.value,
                precision |-> prec, type |-> t.type],
         next |-> t.next, args |-> p.args]

RECURSIVE __vprintf(_, _, _)
__vprintf(f, i, args) ==
    IF i > Len(f) THEN <<>>
    ELSE IF f[i] # "%" THEN <<f[i]>> \o __vprintf(f, i + 1, args)
    ELSE IF f[i + 1] = "%" THEN <<"%">> \o __vprintf(f, i + 2, args)
    ELSE LET p == parse_conversion(f, i + 1, args)
         IN  Convert(f[p.next], p.c, p.args)
                \o __vprintf(f, p.next + 1, Tail(p.args))

\* The characters vsnprintf_helper stores, the terminator, and the result.
vsnprintf(buf_size, out) ==
    LET max_length == IF buf_size > 0 THEN buf_size - 1 ELSE 0
    IN  [buffer |-> SubSeq(out, 1, Min({max_length, Len(out)}))
                        \o (IF buf_size > 0 THEN <<"NUL">> ELSE <<>>),
         ret |-> Len(out)]

\* The lines of a dump: [ofs, bytes], column by column, "" where it is blank.
RECURSIVE hex_dump(_, _)
hex_dump(ofs, buf) ==
    LET start == ofs % PerLine
        end == IF PerLine - start > Len(buf) THEN start + Len(buf) ELSE PerLine
        n == end - start
    IN  IF buf = <<>> THEN <<>>
        ELSE <<[ofs |-> ofs - start,
                bytes |-> [i \in 1..end |-> IF i <= start THEN "" ELSE buf[i - start]]]>>
             \o hex_dump(ofs + n, SubSeq(buf, n + 1, Len(buf)))

\* print_human_readable_size: the number, and how often it was divided by UNIT.
RECURSIVE Readable(_, _, _)
Readable(size, unit, k) ==
    IF size >= unit /\ k < 4 THEN Readable(size \div unit, unit, k + 1) ELSE <<size, k>>
-----------------------------------------------------------------------------
(* Reference definitions and what is promised of a conversion
   r = [flags, width, precision, star, type, conv, raw]. *)

FlagText == <<"0", "-", "+", " ", "#", "'">>
FieldText(n, star) == IF star \/ n \notin 0..3 THEN <<"*">> ELSE <<ToString(n)>>
FieldArg(n, star) == IF star \/ n \notin 0..3 THEN <<n>> ELSE <<>>
LengthText == [CHAR |-> <<"h", "h">>, SHORT |-> <<"h">>, INT |-> <<>>, LONG |-> <<"l">>,
               LONGLONG |-> <<"l", "l">>, INTMAX |-> <<"j">>, PTRDIFFT |-> <<"t">>,
               SIZET |-> <<"z">>]

\* The format of r, its arguments, and what __vprintf writes for it.
Text(r) ==
    <<"%">> \o SelectSeq(FlagText, LAMBDA ch : FlagOf[ch] \in r.flags)
        \o FieldText(r.width, r.star)
        \o (IF r.precision = -1 THEN <<>> ELSE <<".">> \o FieldText(r.precision, r.star))
        \o LengthText[r.type] \o <<r.conv>>
Args(r) ==
    FieldArg(r.width, r.star)
        \o (IF r.precision = -1 THEN <<>> ELSE FieldArg(r.precision, r.star)) \o <<r.raw>>
Written(r) == __vprintf(Text(r), 1, Args(r))

\* The number a reader takes the digits of S for.
RECURSIVE ReadBack(_, _, _)
ReadBack(s, base, digits) ==
    IF s = <<>> THEN 0
    ELSE IF Last(s) \in Range(digits)
    THEN ReadBack(Front(s), base, digits) * base
            + SelectInSeq(digits, LAMBDA d : d = Last(s)) - 1
    ELSE ReadBack(Front(s), base, digits)

Count(s, set) == Cardinality({i \in DOMAIN s : s[i] \in set})

\* OUT is what integer conversion r asks for.
Reads(r, out) ==
    LET size == 2^TypeBits[r.type]
        signed == r.conv = "d"
        flags == IF r.conv = "p" THEN {"POUND"} ELSE r.flags
        value == IF signed /\ r.raw % size >= size \div 2 THEN (r.raw % size) - size
                 ELSE r.raw % size
        mag == IF value < 0 THEN -value ELSE value
        base == CASE r.conv \in {"d", "u"} -> 10 [] r.conv = "o" -> 8
                  [] r.conv \in {"x", "X", "p"} -> 16
        digits == IF r.conv = "X" THEN Upper ELSE Lower
        significant == Min({n \in 0..7 : mag < base^n})   \* 20 bits
        group == IF base = 16 THEN 4 ELSE 3
        w == IF r.width < 0 THEN -r.width ELSE r.width
        body == SelectSeq(out, LAMBDA ch : ch # " ")
        commas == {Len(body) + 1 - i : i \in {j \in DOMAIN body : body[j] = ","}}
        twice == r.width < 0 /\ "ZERO" \in flags /\ r.precision < 0
        gap == signed /\ value >= 0 /\ {"SPACE"} = flags \cap {"SPACE", "PLUS"}
    IN  /\ ReadBack(out, base, digits) = mag
        /\ (Count(out, {"-"}) = 1) <=> (value < 0)
        /\ (Count(out, {"+"}) = 1) <=> (signed /\ value >= 0 /\ "PLUS" \in flags)
        /\ Len(out) >= w
        /\ (Len(out) > w /\ ~twice) => Count(out, {" "}) = (IF gap THEN 1 ELSE 0)
        /\ (("MINUS" \in flags \/ (r.width < 0 /\ r.conv # "p")) /\ ~twice) =>
              \/ IsPrefix(body, out)
              \/ gap /\ IsPrefix(<<" ">> \o body, out)
        /\ commas = IF "GROUP" \notin flags THEN {}
                    ELSE {k * (group + 1) : k \in 1..((significant - 1) \div group)}
        /\ Count(out, Range(digits) \cup {","}) >= Min({r.precision, BufSize - 1})
        /\ (mag = 0 /\ r.precision = 0 /\ "POUND" \notin flags) => Count(out, {"0"}) = 0
        /\ Len(Buffer(mag, IF r.conv = "d" THEN base_d ELSE Base(r.conv),
                      [flags |-> flags, precision |-> r.precision])) <= BufSize

\* OUT is the string of r, up to the precision, padded with blanks on one side.
ShowsString(r, out) ==
    LET s == IF r.raw = <<>> THEN NullText ELSE r.raw
        shown == IF r.precision < 0 THEN s ELSE SubSeq(s, 1, Min({Len(s), r.precision}))
        w == IF r.width < 0 THEN -r.width ELSE r.width
        left == r.width < 0 \/ "MINUS" \in r.flags
    IN  /\ Len(out) = Max({w, Len(shown)})
        /\ IF left THEN IsPrefix(shown, out) ELSE IsSuffix(shown, out)
        /\ Count(out, {" "}) = Len(out) - Len(shown)

\* An integer conversion reads back as the argument's value in its type, with the
\* sign and at least the digits asked for (the commas of the GROUP flag count), the
\* commas between groups of significant digits, in a field of at least the width; it
\* is padded only to the width and on one side; it stays in the buffer.  A negative
\* `*' width sets `-' after `0' has been settled, so a field with both is padded
\* twice: the padding is promised without `0' there.
ConversionRight(r) ==
    IF r.conv = "s" THEN ShowsString(r, Written(r)) ELSE Reads(r, Written(r))

\* snprintf never writes past its buffer and ends it with a null byte, and tells
\* the length of the whole output.
SnprintfRight(out) ==
    \A n \in 0..(Len(out) + 2) :
        LET v == vsnprintf(n, out)
        IN  /\ Len(v.buffer) <= n /\ v.ret = Len(out)
            /\ n > 0 => Last(v.buffer) = "NUL" /\ IsPrefix(Front(v.buffer), out)
            /\ n > Len(out) => Front(v.buffer) = out

\* The printed number is the size in the printed unit, and below one of the next.
ReadableRight(size, unit) ==
    LET r == Readable(size, unit, 0)
    IN  r[1] = size \div unit^r[2] /\ (r[1] < unit \/ r[2] = 4)

\* A dump shows every byte once, in the line and the column of its offset.
DumpRight(ofs, buf) ==
    LET lines == hex_dump(ofs, buf)
    IN  \A k \in DOMAIN buf :
            LET at == ofs + k - 1
                hit == {<<i, j>> \in (1..Len(lines)) \X (1..PerLine) :
                          j <= Len(lines[i].bytes) /\ lines[i].ofs + j - 1 = at}
            IN  \E p \in hit : hit = {p} /\ lines[p[1]].bytes[p[2]] = buf[k]
=============================================================================
