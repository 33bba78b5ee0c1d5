------------------------------ MODULE HttpCodec ------------------------------
(***************************************************************************)
(* How names and keywords travel: percent encoding (HttpUtil.hpp,          *)
(* Util.hpp), the query string (ListHandler.hpp), base64 (base64.cpp) and  *)
(* HTML (HttpUtil.hpp).  A string is a sequence of bytes.  What may refuse *)
(* its input yields the set of its results, which is then empty.           *)
(***************************************************************************)
EXTENDS Integers, SequencesExt

Space == 32
Quote == 39
Dollar == 36
Plus == 43
Ampersand == 38
Equals == 61
Percent == 37
Slash == 47
Backslash == 92
Dot == 46

Digits == 48 .. 57
Letters == 65 .. 90 \cup 97 .. 122

Byte == 0 .. 255

\* s with each byte replaced by its code.
Encoded(s, code) == FlattenSeq([i \in DOMAIN s |-> code[s[i]]])

Before1st(s, b) == IF Contains(s, b) THEN SubSeq(s, 1, SelectInSeq(s, LAMBDA c : c = b) - 1) ELSE s
After1st(s, b) == IF Contains(s, b) THEN SubSeq(s, SelectInSeq(s, LAMBDA c : c = b) + 1, Len(s)) ELSE <<>>

Split(s, b) ==
  FoldLeft(LAMBDA parts, c : IF c = b THEN Append(parts, <<>>)
                             ELSE [parts EXCEPT ![Len(parts)] = Append(@, c)],
           << <<>> >>, s)
-----------------------------------------------------------------------------
HexDigit(d) == IF d < 10 THEN 48 + d ELSE 55 + d

IsHex(b) == b \in Digits \cup 65 .. 70 \cup 97 .. 102

FromHex(b) == IF b \in Digits THEN b - 48 ELSE IF b >= 97 THEN b - 87 ELSE b - 55

PercentCode(b) == <<Percent, HexDigit(b \div 16), HexDigit(b % 16)>>

PathCode ==
  [b \in Byte |-> IF b \in Digits \cup Letters \cup {45, 95, Dot} THEN <<b>> ELSE PercentCode(b)]

UrlEncodePathSegment(s) == Encoded(s, PathCode)

UrlDecode(s) ==
  LET rest[i \in 1 .. Len(s) + 3] ==
        IF i > Len(s) THEN {<<>>}
        ELSE IF s[i] # Percent THEN {<<s[i]>> \o t : t \in rest[i + 1]}
        ELSE IF i + 2 > Len(s) \/ ~IsHex(s[i + 1]) \/ ~IsHex(s[i + 2]) THEN {}
        ELSE {<<16 * FromHex(s[i + 1]) + FromHex(s[i + 2])>> \o t : t \in rest[i + 3]}
  IN  rest[1]

DecodeQueryValue(raw) == UrlDecode(ReplaceAll(raw, Plus, Space))

\* The last of several parameters of one name counts.
ParseQueryParams(query) ==
  LET pairs == SelectSeq(Split(query, Ampersand), LAMBDA p : p # <<>>)
      key   == [i \in DOMAIN pairs |-> DecodeQueryValue(Before1st(pairs[i], Equals))]
      value == [i \in DOMAIN pairs |-> DecodeQueryValue(After1st(pairs[i], Equals))]
  IN  IF \E i \in DOMAIN pairs : key[i] = {} \/ value[i] = {} THEN {}
      ELSE {[k \in UNION Range(key) |->
               CHOOSE v \in value[Max({i \in DOMAIN pairs : k \in key[i]})] : TRUE]}

Decimal(n) ==
  LET d[k \in Nat] == IF k < 10 THEN <<48 + k>> ELSE Append(d[k \div 10], 48 + (k % 10))
  IN  d[n]

\* What strtoul makes of a number with a minus sign or too many digits: more
\* than any limit.
Huge == 1000000

\* ParseSizeValue: blanks, a sign, digits to the end, and not zero.
ParseSizeValue(raw) ==
  LET blank  == {9, 10, 11, 12, 13, Space}
      first  == SelectInSeq(raw, LAMBDA b : b \notin blank)
      signed == first # 0 /\ raw[first] \in {Plus, 45}
      digits == IF first = 0 THEN <<>> ELSE SubSeq(raw, IF signed THEN first + 1 ELSE first, Len(raw))
      number == FoldLeft(LAMBDA n, b : Min({Huge, 10 * n + b - 48}), 0, digits)
  IN  IF digits = <<>> \/ ~(Range(digits) \subseteq Digits) \/ number = 0 THEN {}
      ELSE IF signed /\ raw[first] = 45 THEN {Huge}
      ELSE {number}
-----------------------------------------------------------------------------
Base64Char(v) ==
  IF v < 26 THEN 65 + v ELSE IF v < 52 THEN 71 + v ELSE IF v < 62 THEN v - 4
  ELSE IF v = 62 THEN Plus ELSE Slash

Padding == {Equals, Dot}

\* btoa, and base64 of the shell
Base64Encode(s) ==
  LET byte(i) == IF i <= Len(s) THEN s[i] ELSE 0
      group(p) == << Base64Char(byte(p) \div 4),
                     Base64Char((byte(p) % 4) * 16 + byte(p + 1) \div 16),
                     IF p + 1 > Len(s) THEN Equals
                     ELSE Base64Char((byte(p + 1) % 16) * 4 + byte(p + 2) \div 64),
                     IF p + 2 > Len(s) THEN Equals ELSE Base64Char(byte(p + 2) % 64) >>
  IN  FlattenSeq([g \in 1 .. (Len(s) + 2) \div 3 |-> group(3 * g - 2)])

PosOfChar(b) ==
  IF b \in 65 .. 90 THEN b - 65 ELSE IF b \in 97 .. 122 THEN b - 71
  ELSE IF b \in Digits THEN b + 4 ELSE IF b \in {Plus, 45} THEN 62 ELSE 63

\* What the four characters from p on stand for.
Group(s, p) ==
  LET v(k) == PosOfChar(s[p + k])
      has(k) == p + k <= Len(s) /\ s[p + k] \notin Padding
  IN  <<v(0) * 4 + v(1) \div 16>> \o
      (IF has(2) THEN <<(v(1) % 16) * 16 + v(2) \div 4>> ELSE <<>>) \o
      (IF has(2) /\ has(3) THEN <<(v(2) % 4) * 64 + v(3)>> ELSE <<>>)

\* The positions of s that are read, one past its end among them if need be.
ReadFrom(s, p) ==
  {p, p + 1} \cup
  (IF p + 2 <= Len(s) /\ s[p + 2] \notin Padding THEN {p + 2} ELSE {}) \cup
  (IF p + 3 <= Len(s) /\ s[p + 2] \notin Padding /\ s[p + 3] \notin Padding THEN {p + 3} ELSE {})

Base64Decode(s) ==
  LET groups == [g \in 1 .. (Len(s) + 3) \div 4 |-> 4 * g - 3]
      alphabet == Letters \cup Digits \cup {Plus, 45, Slash, 95}
  IN  IF \A g \in DOMAIN groups : \A i \in ReadFrom(s, groups[g]) : i <= Len(s) /\ s[i] \in alphabet
      THEN {FlattenSeq([g \in DOMAIN groups |-> Group(s, groups[g])])}
      ELSE {}

IsSafeFileName(s) ==
  /\ Len(s) \in 1 .. 255
  /\ s # <<Dot>>
  /\ \A i \in DOMAIN s : s[i] >= 32 /\ s[i] \notin {127, Slash, Backslash}
  /\ \A i \in 1 .. Len(s) - 1 : SubSeq(s, i, i + 1) # <<Dot, Dot>>
-----------------------------------------------------------------------------
\* &amp; &lt; &gt; &quot; &#39;
Entity == [b \in {Ampersand, 60, 62, 34, Quote} |->
             CASE b = Ampersand -> <<38, 97, 109, 112, 59>>
               [] b = 60 -> <<38, 108, 116, 59>>
               [] b = 62 -> <<38, 103, 116, 59>>
               [] b = 34 -> <<38, 113, 117, 111, 116, 59>>
               [] b = Quote -> <<38, 35, 51, 57, 59>>]

HtmlEscape(s) == Encoded(s, [b \in Byte |-> IF b \in DOMAIN Entity THEN Entity[b] ELSE <<b>>])

\* What a browser reads in the attribute value='...' : up to the quote, with
\* the entities replaced.
AttributeValue(html) ==
  LET s == Before1st(html, Quote)
      at(i) == {b \in DOMAIN Entity : IsPrefix(Entity[b], SubSeq(s, i, Len(s)))}
      rest[i \in 1 .. Len(s) + 6] ==
        IF i > Len(s) THEN <<>>
        ELSE IF at(i) = {} THEN <<s[i]>> \o rest[i + 1]
        ELSE LET b == CHOOSE b \in at(i) : TRUE IN <<b>> \o rest[i + Len(Entity[b])]
  IN  rest[1]
=============================================================================
