-------------------------------- MODULE Json --------------------------------
(***************************************************************************)
(* The reader and the writer of configurations, src/json.cpp: a text grows *)
(* and is read again and again by loadComponent.  Texts are sequences of   *)
(* character codes; a reader takes a text and gives how it went, the value *)
(* and the rest of the text.  How it went: "ok"; "short", an exception at  *)
(* the end of the text; "error", one before it; "endless", a loop that     *)
(* consumes nothing.                                                       *)
(***************************************************************************)
EXTENDS Integers, Sequences, SequencesExt

CONSTANTS Alphabets, \* sets of pieces of which a text is put together, and of
                     \* how many: records with fields pieces and max
          Half,      \* bound: intL_t holds -Half..Half - 1
          IntHalf,   \* bound: int, which is narrower, -IntHalf..IntHalf - 1
          Scale,     \* powers of ten: %f prints units of 1 / Scale,
          Fine,      \* bound: a double has units of 1 / Fine, which are smaller
          MaxExp     \* bound: exponents further from 0 count as this

ASSUME JsonOK ==
  /\ {Half, IntHalf, Scale, Fine, MaxExp} \subseteq Nat \ {0}
  /\ IntHalf < Half /\ Scale < Fine /\ Fine % (2 * Scale) = 0

VARIABLES text, got, again, alphabet, pieces  \* again: got, written and read
vars == <<text, got, again, alphabet, pieces>>

Nul == 0
Tab == 9
Newline == 10
Space == 32
Quote == 34
Plus == 43
Comma == 44
Minus == 45
Dot == 46
Slash == 47
Zero == 48
Colon == 58
ArrOpen == 91
Backslash == 92
ArrClose == 93
ObjOpen == 123
ObjClose == 125
True == <<116, 114, 117, 101>>
False == <<102, 97, 108, 115, 101>>
Null == <<110, 117, 108, 108>>

Digits == Zero..(Zero + 9)
Blank == {Space, Newline, Tab}
Separator == Blank \cup {Comma}

(* string::operator[], which answers 0 at the end, erase, and the loops that *)
(* look for the first character of another kind                              *)
At(s, i) == IF i <= Len(s) THEN s[i] ELSE Nul
Drop(s, n) == SubSeq(s, n + 1, Len(s))
Run(s, chars) == CHOOSE n \in 0..Len(s) :
                   (\A i \in 1..n : s[i] \in chars) /\ (n = Len(s) \/ s[n + 1] \notin chars)
Skip(s, chars) == Drop(s, Run(s, chars))

(* values; kids of arrays and objects are pairs of a key and a value *)
Value(kind, n, s, kids) == [kind |-> kind, n |-> n, s |-> s, kids |-> kids]
Integer(n) == Value("int", n, <<>>, <<>>)
Float(n) == Value("float", n, <<>>, <<>>)
NotFinite(s) == Value("notFinite", 0, s, <<>>)
Str(s) == Value("str", 0, s, <<>>)
Bool(b) == Value("bool", IF b THEN 1 ELSE 0, <<>>, <<>>)
NullValue == Value("null", 0, <<>>, <<>>)

Read(st, val, rest) == [st |-> st, val |-> val, rest |-> rest]
Throw(s) == Read(IF s = <<>> THEN "short" ELSE "error", NullValue, s)

-----------------------------------------------------------------------------
(* Numbers                                                                 *)

Wrapped(n, half) == ((n + half) % (2 * half)) - half
Wrap(n) == Wrapped(n, Half)

(* the number that the digits at the start of s stand for, as an intL_t *)
Decimal(s) == FoldLeft(LAMBDA n, c : Wrap(10 * n + c - Zero), 0, SubSeq(s, 1, Run(s, Digits)))

parseInt(s) ==
  LET sign == IF At(s, 1) \in {Minus, Plus} THEN 1 ELSE 0
      n == Decimal(Drop(s, sign))
  IN [val |-> Wrap(IF At(s, 1) = Minus THEN -n ELSE n),
      rest |-> Skip(Drop(s, sign), Digits)]

(* the loop over tmp % 10, in the division of C: the number whose negative is *)
(* itself gives "digits" below the character 0                                *)
RECURSIVE DigitsOf(_)
DigitsOf(n) == LET q == IF n < 0 THEN -((-n) \div 10) ELSE n \div 10 IN
  IF n = 0 THEN <<>> ELSE Append(DigitsOf(q), Zero + n - 10 * q)

IntText(n) ==
  IF n = 0 THEN <<Zero>>
  ELSE IF n < 0 THEN <<Minus>> \o DigitsOf(Wrap(-n)) ELSE DigitsOf(n)

RECURSIVE Power(_)
Power(e) == IF e = 0 THEN 1 ELSE 10 * Power(e - 1)
Scaled(n, exp) == LET e == IF exp > MaxExp THEN MaxExp ELSE IF exp < -MaxExp THEN -MaxExp ELSE exp
                  IN IF e < 0 THEN n \div Power(-e) ELSE n * Power(e)

(* div: an int that is multiplied by ten for each digit *)
Divisor(digits) == FoldLeft(LAMBDA d, i : Wrapped(10 * d, IntHalf), 1, [i \in 1..digits |-> i])

(* the quotient of two doubles, as %f prints it where it is no number *)
Inf == <<105, 110, 102>>
NaN == <<Minus, 110, 97, 110>>
Quotient(n, d) == CASE d > 0           -> Float((n * Fine) \div d)
                    [] d < 0           -> Float((-(n * Fine)) \div (-d))
                    [] d = 0 /\ n > 0  -> NotFinite(Inf)
                    [] d = 0 /\ n < 0  -> NotFinite(<<Minus>> \o Inf)
                    [] d = 0 /\ n = 0  -> NotFinite(NaN)

(* The fraction, with its exponent, at a dot: jsonFloat_t::fromString is not *)
(* called for the number before it.                                          *)
Fraction(s) ==
  LET q == Quotient(Decimal(Drop(s, 1)), Divisor(Run(Drop(s, 1), Digits)))
      rest == Skip(Drop(s, 1), Digits)
  IN IF At(rest, 1) \in {69, 101}
       THEN LET exp == parseInt(Drop(rest, 1))
            IN [val |-> [q EXCEPT !.n = Scaled(@, exp.val)], rest |-> exp.rest]
       ELSE [val |-> q, rest |-> rest]

(* intVal < 0 compares a pointer: the fraction is added to negative numbers *)
ReadNumber(s) ==
  LET int == parseInt(s) frac == Fraction(int.rest) IN
  IF At(int.rest, 1) # Dot THEN Read("ok", Integer(int.val), int.rest)
  ELSE Read("ok", IF frac.val.kind = "float" THEN Float(int.val * Fine + frac.val.n) ELSE frac.val,
            frac.rest)

(* %f: the nearest of the numbers with so many digits, of two the even one *)
Printed(m) == LET unit == Fine \div Scale q == m \div unit r == 2 * (m % unit) IN
  IF r > unit \/ (r = unit /\ q % 2 = 1) THEN q + 1 ELSE q

RECURSIVE Padded(_, _)
Padded(n, unit) == IF unit = 1 THEN <<>>
                   ELSE Append(Padded(n \div 10, unit \div 10), Zero + (n % 10))
FloatText(n) == LET m == Printed(IF n < 0 THEN -n ELSE n) IN
  (IF n < 0 THEN <<Minus>> ELSE <<>>)
    \o (IF m < Scale THEN <<Zero>> ELSE DigitsOf(m \div Scale)) \o <<Dot>> \o Padded(m % Scale, Scale)

-----------------------------------------------------------------------------
(* Strings                                                                 *)

(* characters that are no hexadecimal digits count as 0 *)
Hex(c) == IF c \in Digits THEN c - Zero
          ELSE IF c \in 97..102 THEN c - 87 ELSE IF c \in 65..70 THEN c - 55 ELSE 0
unicodeHexToInt(s) == FoldLeft(LAMBDA n, c : 16 * n + Hex(c), 0, s)

(* Mutant: the limit is not included. *)
Utf8Long(cp) == IF cp <= 127 THEN <<cp>>
                ELSE IF cp < 2047 THEN <<192 + cp \div 64, 128 + (cp % 64)>>
                ELSE <<224 + cp \div 4096, 128 + ((cp \div 64) % 64), 128 + (cp % 64)>>

codePointToUTF8(cp) == IF cp <= 127 THEN <<cp>>
                ELSE IF cp <= 2047 THEN <<192 + cp \div 64, 128 + (cp % 64)>>
                ELSE <<224 + cp \div 4096, 128 + ((cp \div 64) % 64), 128 + (cp % 64)>>

(* what stands after the backslash, and for what; / stands for itself *)
Escapes == <<<<Quote, Quote>>, <<Backslash, Backslash>>, <<Slash, Slash>>,
             <<98, 8>>, <<102, 12>>, <<110, Newline>>, <<114, 13>>, <<116, Tab>>>>
Unescaped(c) == {e[2] : e \in {x \in ToSet(Escapes) : x[1] = c}}
Escaped(c) == {e[1] : e \in {x \in ToSet(Escapes) : x[2] = c}}

(* the loop of jsonStr_t::fromString: a zero ends the string as a quote does *)
RECURSIVE StrLoop(_, _)
StrLoop(s, res) ==
  CASE s = <<>> -> Throw(s)
    [] s # <<>> /\ s[1] \in {Quote, Nul} -> Read("ok", Str(res), Drop(s, 1))
    [] Len(s) > 1 /\ s[1] = Backslash /\ s[2] = 117 ->
         IF Len(s) < 6 THEN Throw(<<>>)
         ELSE StrLoop(Drop(s, 6), res \o codePointToUTF8(unicodeHexToInt(SubSeq(s, 3, 6))))
    [] Len(s) > 1 /\ s[1] = Backslash /\ s[2] # 117 ->
         StrLoop(Drop(s, 2), res \o SetToSeq(Unescaped(s[2])))
    [] OTHER -> StrLoop(Drop(s, 1), Append(res, s[1]))

ReadStr(s) == IF At(s, 1) # Quote THEN Throw(s) ELSE StrLoop(Drop(s, 1), <<>>)

StrTextPlain(s) == <<Quote>> \o FoldLeft(LAMBDA t, c : t \o
  (IF c = Quote THEN <<Backslash, Quote>> ELSE <<c>>), <<>>, s) \o <<Quote>>

StrText(s) == <<Quote>> \o FoldLeft(LAMBDA t, c : t \o
  (IF Escaped(c) = {} THEN <<c>> ELSE <<Backslash>> \o SetToSeq(Escaped(c))), <<>>, s) \o <<Quote>>

-----------------------------------------------------------------------------
(* Literals, arrays and objects                                            *)

ReadBoolLoosely(s) ==
  IF IsPrefix(True, s) THEN Read("ok", Bool(TRUE), Drop(s, 4))
  ELSE IF IsPrefix(False, s) THEN Read("ok", Bool(FALSE), Drop(s, 5))
  ELSE Read("ok", Bool(FALSE), s)

ReadBool(s) ==
  IF IsPrefix(True, s) THEN Read("ok", Bool(TRUE), Drop(s, 4))
  ELSE IF IsPrefix(False, s) THEN Read("ok", Bool(FALSE), Drop(s, 5))
  ELSE Throw(s)

(* anything else that begins with n is null, too, and is not consumed *)
ReadNull(s) == Read("ok", NullValue, IF IsPrefix(Null, s) THEN Drop(s, 4) ELSE s)

(* the order of map<string, ...>, and insert, which keeps what is there *)
Less(a, b) == \E n \in 0..Len(a) :
  /\ n < Len(b) /\ SubSeq(a, 1, n) = SubSeq(b, 1, n)
  /\ n = Len(a) \/ a[n + 1] < b[n + 1]
Insert(kids, key, val) ==
  IF \E i \in DOMAIN kids : kids[i][1] = key THEN kids
  ELSE SelectSeq(kids, LAMBDA k : Less(k[1], key)) \o <<<<key, val>>>>
         \o SelectSeq(kids, LAMBDA k : Less(key, k[1]))

RECURSIVE loadComponent(_), ArrLoop(_, _), ObjLoop(_, _)

(* a turn of the loop of jsonArr_t::fromString; an array may end with the text *)
ArrLoop(s, kids) ==
  LET r == Skip(s, Separator) item == loadComponent(r)
      more == Append(kids, <<<<>>, item.val>>) IN
  CASE At(r, 1) = ArrClose -> Read("ok", Value("arr", 0, <<>>, kids), Drop(r, 1))
    [] At(r, 1) # ArrClose /\ item.st # "ok" -> item
    [] At(r, 1) # ArrClose /\ item.st = "ok" /\ item.rest = <<>> ->
         Read("ok", Value("arr", 0, <<>>, more), <<>>)
    [] OTHER -> IF item.rest = r THEN Read("endless", NullValue, r) ELSE ArrLoop(item.rest, more)

(* a turn of the loop of jsonObj_t::fromString, which has to find the end *)
ObjLoop(s, kids) ==
  LET r == Skip(s, Separator)
      key == ReadStr(r)
      colon == Skip(key.rest, Blank)
      item == loadComponent(Skip(Drop(colon, 1), Blank)) IN
  CASE At(r, 1) = ObjClose -> Read("ok", Value("obj", 0, <<>>, kids), Drop(r, 1))
    [] At(r, 1) # ObjClose /\ key.st # "ok" -> key
    [] At(r, 1) # ObjClose /\ key.st = "ok" /\ At(colon, 1) # Colon -> Throw(colon)
    [] OTHER -> IF item.st # "ok" THEN item
                ELSE IF item.rest = <<>> THEN Throw(<<>>)
                ELSE ObjLoop(item.rest, Insert(kids, key.val.s, item.val))

loadComponent(s) ==
  CASE At(s, 1) = ObjOpen -> ObjLoop(Drop(s, 1), <<>>)
    [] At(s, 1) = ArrOpen -> ArrLoop(Drop(s, 1), <<>>)
    [] At(s, 1) \in {True[1], False[1]} -> ReadBool(s)
    [] At(s, 1) = Null[1] -> ReadNull(s)
    [] At(s, 1) = Quote -> ReadStr(s)
    [] At(s, 1) \in Digits \cup {Minus} -> ReadNumber(s)
    [] OTHER -> Throw(s)

(* toString *)
RECURSIVE Text(_)
ArrText(kids) == FoldLeft(LAMBDA t, k :
  t \o (IF t = <<>> THEN <<>> ELSE <<Comma, Space>>) \o Text(k[2]), <<>>, kids)
ObjText(kids) == FoldLeft(LAMBDA t, k :
  t \o (IF t = <<>> THEN <<>> ELSE <<Comma, Space>>)
    \o StrText(k[1]) \o <<Space, Colon, Space>> \o Text(k[2]), <<>>, kids)

Text(v) ==
  CASE v.kind = "int" -> IntText(v.n)
    [] v.kind = "float" -> FloatText(v.n)
    [] v.kind = "notFinite" -> v.s
    [] v.kind = "str" -> StrText(v.s)
    [] v.kind = "bool" -> IF v.n = 1 THEN True ELSE False
    [] v.kind = "null" -> Null
    [] v.kind = "arr" -> <<ArrOpen>> \o ArrText(v.kids) \o <<ArrClose>>
    [] v.kind = "obj" -> <<ObjOpen>> \o ObjText(v.kids) \o <<ObjClose>>

-----------------------------------------------------------------------------
Init ==
  /\ alphabet \in Alphabets /\ pieces = 0
  /\ text = <<>> /\ got = loadComponent(<<>>) /\ again = got

(* the text grows as long as what is added is read: it is read from its start, *)
(* written, and what was written is read                                      *)
Type(piece) ==
  /\ pieces < alphabet.max /\ pieces' = pieces + 1
  /\ got.st = "short" \/ (got.st = "ok" /\ got.rest = <<>>)
  /\ text' = text \o piece
  /\ got' = loadComponent(text')
  /\ again' = IF got'.st = "ok" THEN loadComponent(Text(got'.val)) ELSE got'
  /\ UNCHANGED alphabet

Next == \E piece \in alphabet.pieces : Type(piece)

Spec == Init /\ [][Next]_vars

-----------------------------------------------------------------------------
(* What the writer is known not to write so that it reads back: the smallest *)
(* number, numbers with a fraction that are negative, too large or no        *)
(* numbers at all, and zeros in strings.                                     *)
RECURSIVE Regular(_)
Regular(v) ==
  /\ v.kind = "int" => v.n > -Half
  /\ v.kind = "float" => v.n >= 0 /\ Printed(v.n) < Half * Scale
  /\ v.kind # "notFinite"
  /\ Nul \notin ToSet(v.s)
  /\ \A i \in DOMAIN v.kids : Nul \notin ToSet(v.kids[i][1]) /\ Regular(v.kids[i][2])

(* The same but for what numbers with a fraction lose after the last digit   *)
(* of %f: at most a half of it.                                              *)
RECURSIVE Same(_, _)
Same(v, w) ==
  /\ v.kind = w.kind /\ v.s = w.s /\ Len(v.kids) = Len(w.kids)
  /\ IF v.kind = "float" THEN 2 * Scale * (v.n - w.n) \in -Fine..Fine ELSE v.n = w.n
  /\ \A i \in DOMAIN v.kids : v.kids[i][1] = w.kids[i][1] /\ Same(v.kids[i][2], w.kids[i][2])

(* A configuration that was read, whatever the text looked like, and written *)
(* by toString is read again as the same configuration, to the last          *)
(* character: a save of instsend-config changes nothing else, except that    *)
(* %f rounds numbers with a fraction: 0.0000001 becomes 0.  Numbers that do  *)
(* not fit their type are what they wrap to from the first reading on.       *)
RoundTrip == got.st = "ok" /\ Regular(got.val) =>
  again.st = "ok" /\ again.rest = <<>> /\ Same(got.val, again.val)

(* The loop of an array consumes something in every turn, or ends by an      *)
(* exception: the reader of a file comes to an end on every text, except in  *)
(* an array with a word that begins with n and is not null.                  *)
ReaderEnds == got.st = "endless" => got.rest[1] = Null[1] /\ ~IsPrefix(Null, got.rest)

(* The number a UTF-8 sequence stands for; -1 when it is none, as when there  *)
(* is a shorter one for the same number.                                     *)
Next6 == 128..191
Decoded(b) == CASE Len(b) = 1 /\ b[1] < 128 -> b[1]
                [] Len(b) = 2 /\ b[1] \in 194..223 /\ b[2] \in Next6 ->
                     (b[1] - 192) * 64 + b[2] - 128
                [] Len(b) = 3 /\ b[1] \in 224..239 /\ {b[2], b[3]} \subseteq Next6
                      /\ (b[1] = 224 => b[2] >= 160) ->
                     (b[1] - 224) * 4096 + (b[2] - 128) * 64 + b[3] - 128
                [] OTHER -> -1

Surrogates == 55296..57343

(* A string of one \u escape is the UTF-8 form of that number, the shortest  *)
(* sequence of bytes that stands for it.  Not so for the halves of a pair of *)
(* surrogates: they stand for no character by themselves, and the reader     *)
(* does not join them.                                                       *)
EscapesAreUtf8 ==
  Len(text) = 8 /\ text[1] = Quote /\ text[2] = Backslash /\ text[3] = 117 /\ text[8] = Quote
    => LET h(i) == text[i + 3] - (IF text[i + 3] >= 97 THEN 87 ELSE IF text[i + 3] >= 65 THEN 55 ELSE 48)
           cp == h(1) * 4096 + h(2) * 256 + h(3) * 16 + h(4)
       IN (\A i \in 1..4 : h(i) \in 0..15) /\ cp \notin Surrogates =>
            got.st = "ok" /\ Decoded(got.val.s) = cp
=============================================================================
