----------------------------- MODULE OutputProofs ----------------------------
(***************************************************************************)
(* Proofs about output.  kprintf, for every format, argument and length of *)
(* the buffers: an uninterrupted call prints exactly the text its format   *)
(* stands for, and its stores stay in printBuf.  The screen, for every     *)
(* number of rows and columns, every tab width and every string: the       *)
(* address and the position agree, and what the memory shows is a          *)
(* terminal.                                                               *)
(***************************************************************************)
EXTENDS Screen, Kprintf, Integers, WellFoundedInduction, TLAPS

(* The characters of a text, tab and new line among them. *)
Glyph == Letters \union {DigitChar[d] : d \in 1 .. 16} \union {"-", "tab", "nl"}

(* The text from position k and argument n on, as Formatted finds it. *)
Body(f, a, from, k, n) ==
    CASE k > Len(f) -> <<>>
      [] k <= Len(f) /\ f[k] = "\\" ->
           <<IF f[k + 1] = "t" THEN "tab" ELSE "nl">> \o from[k + 2][n]
      [] k <= Len(f) /\ f[k] = "%" ->
           (CASE f[k + 1] \in {"c", "s"} -> a[n] \o from[k + 2][n + 1]
              [] f[k + 1] = "x" -> itox(a[n], f[k + 2]) \o from[k + 3][n + 1]
              [] OTHER -> itos(a[n]) \o from[k + 2][n + 1])
      [] OTHER -> <<f[k]>> \o from[k + 1][n]
Table(f, a, from) == [k \in 1 .. Len(f) + 3 |-> [n \in 1 .. Len(a) + 1 |-> Body(f, a, from, k, n)]]
From(f, a) == CHOOSE from : from = Table(f, a, from)

(* The rest of string x from its position i on and then the text y are the *)
(* text t without its first p characters.                                  *)
Rest(t, p, x, i, y) ==
    /\ i \in 1 .. Len(x) + 1
    /\ p + (Len(x) + 1 - i) + Len(y) = Len(t)
    /\ \A j \in i .. Len(x) : t[p + (j - i) + 1] = x[j]
    /\ \A j \in 1 .. Len(y) : t[p + (Len(x) + 1 - i) + j] = y[j]

Formats == Formatted(format, args)
ToFormat == From(format, args)[ebx][used + 1]
Undisturbed == ~spoilt /\ ~InsertsEmpty

(* What a call has still to do ... *)
Remains ==
    /\ place = "loopStr" => Rest(Formats, ecx, <<>>, 1, ToFormat)
    /\ place \in {"convert", "addStr"} =>
         edx \in Seq(Glyph) /\ at <= Len(edx) /\ Rest(Formats, ecx, edx, at, ToFormat)

(* ... and what it has done, unless a key came. *)
Stored ==
    /\ \A b \in 0 .. ecx - 1 : mem[b] = Formats[b + 1]
    /\ place = "loopStr" /\ ebx = Len(format) + 1 => mem[ecx] = NUL

InCall ==
    /\ ebx \in 1 .. Len(format) + 1
    /\ \E n \in UsedBefore(format, args) : used = n[ebx]
    /\ Undisturbed => Remains
    /\ Undisturbed /\ ~interrupted => Stored

KprintfType ==
    /\ mem = [b \in 0 .. 2 * Size - 1 |-> mem[b]]
    /\ place \in {"idle", "loopStr", "convert", "addStr"}
    /\ call \in Calls
    /\ ecx \in Nat /\ at \in Nat /\ top \in Nat
    /\ interrupted \in BOOLEAN /\ spoilt \in BOOLEAN
    /\ spoilt => interrupted

KprintfInv ==
    /\ KprintfType
    /\ place # "idle" => InCall
    /\ Undisturbed => top <= Len(Formats) + 2
    /\ FormatsString
-----------------------------------------------------------------------------
(* Every nonempty set of numbers has a least one, and what holds of 0 and, *)
(* with every number, of the next one holds of all.                        *)
LEMMA LeastNumber ==
  ASSUME NEW T, T \subseteq Nat, T # {}
  PROVE  \E m \in T : \A n \in T : m <= n
<1>1. \E m \in T : \A n \in T : ~(<<n, m>> \in OpToRel(<, Nat))
  BY WFMin, NatLessThanWellFounded
<1>2. \A n, m \in T : <<n, m>> \in OpToRel(<, Nat) <=> n < m
  BY DEF OpToRel
<1>3. PICK m \in T : \A n \in T : ~(n < m)
  BY <1>1, <1>2
<1>4. QED
  BY <1>3

LEMMA CountUp ==
  ASSUME NEW N \in Nat, NEW P, 0 \in P, \A n \in 1 .. N : n - 1 \in P => n \in P
  PROVE  \A n \in 0 .. N : n \in P
<1> DEFINE Bad == {n \in 0 .. N : n \notin P}
<1>1. SUFFICES ASSUME Bad # {} PROVE FALSE
  OBVIOUS
<1>2. PICK m \in Bad : \A n \in Bad : m <= n
  <2> HIDE DEF Bad
  <2>1. Bad \subseteq Nat
    BY DEF Bad
  <2>2. QED
    BY <1>1, <2>1, LeastNumber
<1>3. m \in 1 .. N /\ m - 1 \in 0 .. N /\ ~(m <= m - 1)
  BY <1>2
<1>4. m - 1 \in P
  BY <1>2, <1>3
<1>5. QED
  BY <1>2, <1>3, <1>4

-----------------------------------------------------------------------------
(* itos and itox give characters, and itos at least one. *)
LEMMA DigitGlyph ==
  /\ \A d \in 1 .. 16 : DigitChar[d] \in Glyph
  /\ {"-", "tab", "nl"} \subseteq Glyph /\ Letters \subseteq Glyph
  BY DEF Glyph

LEMMA GlyphNotNUL == \A c \in Glyph : c # NUL
<1>1. \A d \in 1 .. 8 : DigitChar[d] # NUL
  <2>1. \A d \in 1 .. 8 : d = 1 \/ d = 2 \/ d = 3 \/ d = 4 \/ d = 5 \/ d = 6 \/ d = 7 \/ d = 8
    OBVIOUS
  <2>2. QED
    BY <2>1 DEF DigitChar, NUL
<1>2. \A d \in 9 .. 16 : DigitChar[d] # NUL
  <2>1. \A d \in 9 .. 16 : d = 9 \/ d = 10 \/ d = 11 \/ d = 12 \/ d = 13 \/ d = 14 \/ d = 15 \/ d = 16
    OBVIOUS
  <2>2. QED
    BY <2>1 DEF DigitChar, NUL
<1>3. \A d \in 1 .. 16 : DigitChar[d] # NUL
  BY <1>1, <1>2
<1>4. NUL \notin Letters
  BY KprintfAssumption
<1>5. NUL \notin {"-", "tab", "nl"}
  BY DEF NUL
<1>6. QED
  BY <1>3, <1>4, <1>5 DEF Glyph

Digits(f, m) ==
    IF m < 10 THEN <<DigitChar[m + 1]>> ELSE Append(f[m \div 10], DigitChar[(m % 10) + 1])

LEMMA DigitsExist ==
  ASSUME NEW N \in Nat
  PROVE  \E f \in [0 .. N -> Seq(Glyph) \ {<<>>}] : \A m \in 0 .. N : f[m] = Digits(f, m)
<1> DEFINE S == Seq(Glyph) \ {<<>>}
           Solves(f, k) == \A m \in 0 .. k : f[m] = Digits(f, m)
           P == {k \in 0 .. N : \E f \in [0 .. N -> S] : Solves(f, k)}
<1>1. \A m \in Nat : m < 10 => <<DigitChar[m + 1]>> \in S
  <2>1. \A m \in Nat : m < 10 => DigitChar[m + 1] \in Glyph
    BY DigitGlyph
  <2>2. QED
    BY <2>1
<1>2. \A m \in Nat : m >= 10 => m \div 10 \in 0 .. m - 1 /\ DigitChar[(m % 10) + 1] \in Glyph
  <2>1. \A m \in Nat : (m % 10) + 1 \in 1 .. 16
    OBVIOUS
  <2>2. QED
    BY <2>1, DigitGlyph
<1>3. \A s \in S : \A c \in Glyph : Append(s, c) \in S
  OBVIOUS
<1> HIDE DEF S
<1>4. 0 \in P
  <2>1. PICK f : f = [m \in 0 .. N |-> <<DigitChar[0 + 1]>>]
    OBVIOUS
  <2>2. f \in [0 .. N -> S] /\ f[0] = <<DigitChar[0 + 1]>>
    BY <1>1, <2>1
  <2>3. Solves(f, 0)
    BY <2>2 DEF Digits
  <2>4. QED
    BY <2>2, <2>3
<1>5. ASSUME NEW k \in 1 .. N, k - 1 \in P
      PROVE  k \in P
  <2>1. PICK f \in [0 .. N -> S] : Solves(f, k - 1)
    BY <1>5
  <2>2. Digits(f, k) \in S
    <3>1. CASE k < 10
      BY <1>1, <3>1 DEF Digits
    <3>2. CASE ~(k < 10)
      <4>1. k \div 10 \in 0 .. k - 1 /\ DigitChar[(k % 10) + 1] \in Glyph
        BY <1>2, <3>2
      <4>2. f[k \div 10] \in S
        BY <2>1, <4>1
      <4>3. QED
        BY <1>3, <3>2, <4>1, <4>2 DEF Digits
    <3>3. QED
      BY <3>1, <3>2
  <2> DEFINE v == Digits(f, k)
             g == [f EXCEPT ![k] = v]
  <2> HIDE DEF v
  <2>3. g \in [0 .. N -> S] /\ g[k] = v /\ \A m \in 0 .. N : m # k => g[m] = f[m]
    BY <2>1, <2>2 DEF v
  <2> HIDE DEF g
  <2>4. ASSUME NEW m \in 0 .. k PROVE g[m] = Digits(g, m)
    <3>1. m >= 10 => m \div 10 \in 0 .. N /\ m \div 10 # k
      BY <1>2
    <3>2. Digits(g, m) = Digits(f, m)
      BY <2>3, <3>1 DEF Digits
    <3>3. CASE m = k
      BY <2>3, <3>2, <3>3 DEF v
    <3>4. CASE m # k
      <4>1. m \in 0 .. k - 1 /\ m \in 0 .. N
        BY <3>4
      <4>2. QED
        BY <2>1, <2>3, <3>2, <3>4, <4>1
    <3>5. QED
      BY <3>3, <3>4
  <2>5. QED
    BY <2>3, <2>4
<1> HIDE DEF P
<1>6. \A k \in 0 .. N : k \in P
  BY <1>4, <1>5, CountUp
<1>7. N \in P
  BY <1>6
<1>8. QED
  BY <1>7 DEF P, S

LEMMA AppendType ==
  ASSUME NEW X, NEW s \in Seq(X), NEW c \in X
  PROVE  Append(s, c) \in Seq(X) /\ Append(s, c) # <<>>
<1>1. Append(s, c) \in Seq(X) /\ Len(Append(s, c)) = Len(s) + 1 /\ Len(s) \in Nat
  OBVIOUS
<1>2. Len(<<>>) = 0
  OBVIOUS
<1>3. QED
  BY <1>1, <1>2

LEMMA ItosType ==
  ASSUME NEW n, n[2] \in Nat
  PROVE  itos(n) \in Seq(Glyph) /\ itos(n) # <<>>
<1> DEFINE N == n[2]
           Table0(f) == [m \in 0 .. N |-> Digits(f, m)]
           digits == CHOOSE f : f = Table0(f)
<1>1. itos(n) = IF n[1] = "neg" THEN <<"-">> \o digits[N] ELSE digits[N]
  BY DEF itos, Digits
<1>2. PICK f \in [0 .. N -> Seq(Glyph) \ {<<>>}] : \A m \in 0 .. N : f[m] = Digits(f, m)
  BY DigitsExist
<1>3. f = Table0(f)
  BY <1>2
<1>4. digits = Table0(digits)
  <2> HIDE DEF Table0
  <2>1. QED
    BY <1>3
<1>5. \A m \in 0 .. N : digits[m] = Digits(digits, m)
  <2> HIDE DEF digits
  <2>1. QED
    BY <1>4
<1> HIDE DEF digits, Table0
<1>6. \A m \in 0 .. N : digits[m] \in Seq(Glyph) /\ digits[m] # <<>>
  <2>0. N \in Nat
    OBVIOUS
  <2> HIDE DEF N
  <2> DEFINE Typed(m) == digits[m] \in Seq(Glyph) /\ digits[m] # <<>>
             P == {k \in 0 .. N : \A m \in 0 .. k : Typed(m)}
  <2>1. ASSUME NEW k \in 0 .. N, \A m \in 0 .. k - 1 : Typed(m) PROVE Typed(k)
    <3>1. CASE k < 10
      <4>1. DigitChar[k + 1] \in Glyph
        BY <3>1, DigitGlyph
      <4>2. digits[k] = <<DigitChar[k + 1]>>
        BY <1>5, <3>1 DEF Digits
      <4>3. QED
        BY <4>1, <4>2
    <3>2. CASE ~(k < 10)
      <4>1. k \div 10 \in 0 .. k - 1 /\ (k % 10) + 1 \in 1 .. 16
        BY <3>2
      <4>2. DigitChar[(k % 10) + 1] \in Glyph
        BY <4>1, DigitGlyph
      <4>3. digits[k] = Append(digits[k \div 10], DigitChar[(k % 10) + 1])
        BY <1>5, <3>2 DEF Digits
      <4>4. digits[k \div 10] \in Seq(Glyph)
        BY <2>1, <4>1
      <4>5. QED
        BY <4>2, <4>3, <4>4, AppendType
    <3>3. QED
      BY <3>1, <3>2
  <2> HIDE DEF Typed
  <2>2. 0 \in P
    BY <2>0, <2>1
  <2>3. ASSUME NEW k \in 1 .. N, k - 1 \in P PROVE k \in P
    <3>1. \A m \in 0 .. k - 1 : Typed(m)
      BY <2>3
    <3>2. Typed(k)
      BY <2>1, <3>1
    <3>3. QED
      BY <3>1, <3>2
  <2> HIDE DEF P
  <2>4. \A k \in 0 .. N : k \in P
    BY <2>0, <2>2, <2>3, CountUp
  <2>5. N \in P
    BY <2>0, <2>4
  <2>6. QED
    BY <2>5 DEF P, Typed
<1>7. digits[N] \in Seq(Glyph) /\ digits[N] # <<>>
  BY <1>6
<1>8. <<"-">> \in Seq(Glyph)
  BY DigitGlyph
<1>9. <<"-">> \o digits[N] \in Seq(Glyph) /\ <<"-">> \o digits[N] # <<>>
  BY <1>7, <1>8
<1>10. QED
  BY <1>1, <1>7, <1>9

LEMMA ItoxType ==
  ASSUME NEW n, n[2] \in Nat, NEW type
  PROVE  itox(n, type) \in Seq(Glyph) /\ itox(n, type) # <<>>
<1> DEFINE width == CASE type = "b" -> 2 [] type = "s" -> 4 [] OTHER -> 8
           nibble(k) == DigitChar[((n[2] \div Sixteens[width + 1 - k]) % 16) + 1]
<1>1. width \in {2, 4, 8}
  OBVIOUS
<1>2. itox(n, type) = [k \in 1 .. width |-> nibble(k)]
  BY DEF itox
<1> HIDE DEF width
<1>3. \A j \in 1 .. 8 : Sixteens[j] \in Nat \ {0}
  <2>1. \A j \in 1 .. 8 : j = 1 \/ j = 2 \/ j = 3 \/ j = 4 \/ j = 5 \/ j = 6 \/ j = 7 \/ j = 8
    OBVIOUS
  <2>2. QED
    BY <2>1 DEF Sixteens
<1>4. ASSUME NEW k \in 1 .. width PROVE nibble(k) \in Glyph
  <2>1. width + 1 - k \in 1 .. 8
    BY <1>1
  <2>2. PICK p \in Nat \ {0} : p = Sixteens[width + 1 - k]
    BY <1>3, <2>1
  <2>3. n[2] \div p \in Nat
    BY <2>2
  <2>4. ((n[2] \div p) % 16) + 1 \in 1 .. 16
    BY <2>3
  <2>5. QED
    BY <2>2, <2>4, DigitGlyph
<1> HIDE DEF nibble
<1>5. [k \in 1 .. width |-> nibble(k)] \in Seq(Glyph) /\ [k \in 1 .. width |-> nibble(k)] # <<>>
  BY <1>1, <1>4
<1>6. QED
  BY <1>2, <1>5

-----------------------------------------------------------------------------
(* Formatted's table has a solution, since a text goes on further right. *)
LEMMA FormattedIs == ASSUME NEW f, NEW a PROVE Formatted(f, a) = From(f, a)[1][1]
  BY DEF Formatted, From, Table, Body

LEMMA BodySame ==
  ASSUME NEW f, Len(f) \in Nat, NEW a, NEW from, NEW g, NEW k \in Nat, NEW n,
         k <= Len(f) => g[k + 1] = from[k + 1] /\ g[k + 2] = from[k + 2] /\ g[k + 3] = from[k + 3]
  PROVE  Body(f, a, g, k, n) = Body(f, a, from, k, n)
<1>1. CASE k > Len(f)
  BY <1>1 DEF Body
<1>2. CASE ~(k > Len(f))
  <2>1. k <= Len(f)
    BY <1>2
  <2> DEFINE x == from[k + 1]
             y == from[k + 2]
             z == from[k + 3]
  <2>2. g[k + 1] = x /\ g[k + 2] = y /\ g[k + 3] = z
    BY <2>1
  <2>3. from[k + 1] = x /\ from[k + 2] = y /\ from[k + 3] = z
    OBVIOUS
  <2> HIDE DEF x, y, z
  <2>4. CASE f[k] = "\\"
    BY <1>2, <2>1, <2>2, <2>3, <2>4 DEF Body
  <2>5. CASE f[k] = "%"
    BY <1>2, <2>1, <2>2, <2>3, <2>5 DEF Body
  <2>6. CASE f[k] \notin {"%", "\\"}
    BY <1>2, <2>1, <2>2, <2>3, <2>6 DEF Body
  <2>7. QED
    BY <2>4, <2>5, <2>6
<1>3. QED
  BY <1>1, <1>2

Parts(f, a, from, k, n) ==
    /\ f[k] \notin {"%", "\\"} => Body(f, a, from, k, n) = <<f[k]>> \o from[k + 1][n]
    /\ f[k] = "\\" => Body(f, a, from, k, n) =
         <<IF f[k + 1] = "t" THEN "tab" ELSE "nl">> \o from[k + 2][n]
    /\ f[k] = "%" /\ f[k + 1] \in {"c", "s"} =>
         Body(f, a, from, k, n) = a[n] \o from[k + 2][n + 1]
    /\ f[k] = "%" /\ f[k + 1] = "x" =>
         Body(f, a, from, k, n) = itox(a[n], f[k + 2]) \o from[k + 3][n + 1]
    /\ f[k] = "%" /\ f[k + 1] \in {"d", "i"} =>
         Body(f, a, from, k, n) = itos(a[n]) \o from[k + 2][n + 1]

LEMMA BodyIs ==
  ASSUME NEW f, Len(f) \in Nat, NEW a, NEW from, NEW k \in 1 .. Len(f), NEW n
  PROVE  Parts(f, a, from, k, n)
<1>1. k <= Len(f) /\ ~(k > Len(f))
  OBVIOUS
<1>2. CASE f[k] \notin {"%", "\\"}
  BY <1>1, <1>2 DEF Body, Parts
<1>3. CASE f[k] = "\\"
  BY <1>1, <1>3 DEF Body, Parts
<1>4. ASSUME f[k] = "%", f[k + 1] \in {"c", "s"}
      PROVE  Body(f, a, from, k, n) = a[n] \o from[k + 2][n + 1]
  BY <1>1, <1>4 DEF Body
<1>5. ASSUME f[k] = "%", f[k + 1] = "x"
      PROVE  Body(f, a, from, k, n) = itox(a[n], f[k + 2]) \o from[k + 3][n + 1]
  BY <1>1, <1>5 DEF Body
<1>6. ASSUME f[k] = "%", f[k + 1] \in {"d", "i"}
      PROVE  Body(f, a, from, k, n) = itos(a[n]) \o from[k + 2][n + 1]
  BY <1>1, <1>6 DEF Body
<1>7. QED
  BY <1>2, <1>3, <1>4, <1>5, <1>6 DEF Parts

LEMMA FromEquation ==
  ASSUME NEW f, Len(f) \in Nat, NEW a
  PROVE  From(f, a) = Table(f, a, From(f, a))
<1> DEFINE N == Len(f) + 3
           A == 1 .. Len(a) + 1
           Right(from, k) == from[k] = [n \in A |-> Body(f, a, from, k, n)]
           Solves(from, m) == /\ from = [k \in 1 .. N |-> from[k]]
                              /\ \A k \in 1 .. N : k > N - m => Right(from, k)
           P == {m \in 0 .. N : \E from : Solves(from, m)}
<1>1. 0 \in P
  <2>1. PICK from : from = [k \in 1 .. N |-> <<>>]
    OBVIOUS
  <2>2. from = [k \in 1 .. N |-> from[k]]
    BY <2>1
  <2>3. \A k \in 1 .. N : ~(k > N - 0)
    OBVIOUS
  <2>4. Solves(from, 0)
    BY <2>2, <2>3
  <2>5. QED
    BY <2>4
<1>2. ASSUME NEW m \in 1 .. N, m - 1 \in P
      PROVE  m \in P
  <2>1. PICK from : Solves(from, m - 1)
    BY <1>2
  <2> DEFINE e == N - m + 1
             v == [n \in A |-> Body(f, a, from, e, n)]
             g == [k \in 1 .. N |-> IF k = e THEN v ELSE from[k]]
  <2>2. e \in 1 .. N /\ N \in Nat
    OBVIOUS
  <2> HIDE DEF v
  <2>3. g = [k \in 1 .. N |-> g[k]] /\ g[e] = v /\ \A k \in 1 .. N : k # e => g[k] = from[k]
    BY <2>2
  <2> HIDE DEF g
  <2>4. ASSUME NEW k \in 1 .. N, k > N - m
        PROVE  Right(g, k)
    <3>1. k >= e /\ k \in Nat
      BY <2>2, <2>4
    <3>2. k <= Len(f) => g[k + 1] = from[k + 1] /\ g[k + 2] = from[k + 2] /\ g[k + 3] = from[k + 3]
      BY <2>2, <2>3, <3>1
    <3>3. \A n : Body(f, a, g, k, n) = Body(f, a, from, k, n)
      BY <3>1, <3>2, BodySame
    <3>4. CASE k = e
      BY <2>3, <3>3, <3>4 DEF v
    <3>5. CASE k # e
      <4>1. k > N - (m - 1)
        BY <3>1, <3>5
      <4>2. Right(from, k)
        BY <2>1, <4>1
      <4>3. QED
        BY <2>3, <3>3, <3>5, <4>2
    <3>6. QED
      BY <3>4, <3>5
  <2>5. Solves(g, m)
    BY <2>3, <2>4
  <2>6. m \in 0 .. N
    BY <2>2
  <2> HIDE DEF Solves, N
  <2>7. QED
    BY <2>5, <2>6
<1> HIDE DEF P
<1>3. N \in Nat
  OBVIOUS
<1>4. \A m \in 0 .. N : m \in P
  BY <1>1, <1>2, <1>3, CountUp
<1>5. PICK from : Solves(from, N)
  BY <1>3, <1>4 DEF P
<1>6. from = Table(f, a, from)
  <2>1. \A k \in 1 .. N : Right(from, k)
    BY <1>5
  <2>2. from = [k \in 1 .. N |-> [n \in A |-> Body(f, a, from, k, n)]]
    BY <1>5, <2>1
  <2>3. QED
    BY <2>2 DEF Table
<1>7. QED
  BY <1>6 DEF From

LEMMA FromIs ==
  ASSUME NEW f, Len(f) \in Nat, NEW a, Len(a) \in Nat,
         NEW k \in 1 .. Len(f) + 3, NEW n \in 1 .. Len(a) + 1
  PROVE  From(f, a)[k][n] = Body(f, a, From(f, a), k, n)
<1> DEFINE F == From(f, a)
<1>1. F = Table(f, a, F)
  BY FromEquation
<1>2. \A G : G = Table(f, a, G) => G[k][n] = Body(f, a, G, k, n)
  <2>1. ASSUME NEW G, G = Table(f, a, G) PROVE G[k][n] = Body(f, a, G, k, n)
    <3> DEFINE row == [o \in 1 .. Len(a) + 1 |-> Body(f, a, G, k, o)]
    <3>1. G[k] = row
      BY <2>1 DEF Table
    <3>2. row[n] = Body(f, a, G, k, n)
      OBVIOUS
    <3>3. QED
      BY <3>1, <3>2
  <2>2. QED
    BY <2>1
<1> HIDE DEF F
<1>3. QED
  BY <1>1, <1>2 DEF F

(* A call's format and arguments. *)
Regular(f, a, u) ==
    /\ f \in Seq(Letters) /\ f # <<>> /\ Lettered(f)
    /\ Len(a) \in Nat /\ u \in UsedBefore(f, a)

LEMMA UsedType ==
  ASSUME NEW f, NEW a, NEW u, Regular(f, a, u)
  PROVE  /\ Len(f) \in Nat /\ u[1] = 0
         /\ \A k \in 1 .. Len(f) + 1 : u[k] \in 0 .. Len(a)
         /\ \A k \in 1 .. Len(f) : u[k + 1] = IF f[k] = "%" THEN u[k] + 1 ELSE u[k]
         /\ \A k \in 1 .. Len(f) : f[k] = "%" => Matches(f[k + 1], a[u[k] + 1])
  BY DEF Regular, UsedBefore

(* The text from each position on, with the arguments used before it. *)
TextFrom(f, a, u, k) == From(f, a)[k][u[k] + 1]

LEMMA TextEnds ==
  ASSUME NEW f, NEW a, NEW u, Regular(f, a, u)
  PROVE  TextFrom(f, a, u, Len(f) + 1) = <<>>
<1> DEFINE k == Len(f) + 1
<1>1. Len(f) \in Nat /\ Len(a) \in Nat /\ u[k] \in 0 .. Len(a)
  BY UsedType DEF Regular
<1>2. k \in 1 .. Len(f) + 3 /\ u[k] + 1 \in 1 .. Len(a) + 1 /\ k > Len(f)
  BY <1>1
<1> HIDE DEF k
<1>3. From(f, a)[k][u[k] + 1] = Body(f, a, From(f, a), k, u[k] + 1)
  BY <1>1, <1>2, FromIs
<1>4. Body(f, a, From(f, a), k, u[k] + 1) = <<>>
  BY <1>2 DEF Body
<1>5. QED
  BY <1>3, <1>4 DEF TextFrom, k

(* One character of the format, or a directive. *)
TextGoesOn(f, a, u, k) ==
    /\ f[k] \notin {"%", "\\"} =>
         /\ u[k + 1] = u[k]
         /\ TextFrom(f, a, u, k) = <<f[k]>> \o TextFrom(f, a, u, k + 1)
    /\ f[k] = "\\" =>
         /\ k + 1 <= Len(f) /\ u[k + 2] = u[k]
         /\ TextFrom(f, a, u, k) =
              <<IF f[k + 1] = "t" THEN "tab" ELSE "nl">> \o TextFrom(f, a, u, k + 2)
    /\ f[k] = "%" =>
         /\ k + 1 <= Len(f) /\ u[k + 2] = u[k] + 1 /\ Matches(f[k + 1], a[u[k] + 1])
         /\ f[k + 1] \in {"c", "s"} =>
              TextFrom(f, a, u, k) = a[u[k] + 1] \o TextFrom(f, a, u, k + 2)
         /\ f[k + 1] = "x" =>
              /\ k + 2 <= Len(f) /\ u[k + 3] = u[k] + 1
              /\ TextFrom(f, a, u, k) = itox(a[u[k] + 1], f[k + 2]) \o TextFrom(f, a, u, k + 3)
         /\ f[k + 1] \in {"d", "i"} =>
              TextFrom(f, a, u, k) = itos(a[u[k] + 1]) \o TextFrom(f, a, u, k + 2)

LEMMA TextStep ==
  ASSUME NEW f, NEW a, NEW u, Regular(f, a, u), NEW k \in 1 .. Len(f)
  PROVE  TextGoesOn(f, a, u, k)
<1> DEFINE F == From(f, a)
           n == u[k] + 1
<1>1. /\ Len(f) \in Nat /\ Len(a) \in Nat /\ n \in 1 .. Len(a) + 1 /\ u[k] \in Nat
      /\ u[k + 1] = IF f[k] = "%" THEN u[k] + 1 ELSE u[k]
      /\ k + 1 <= Len(f) => u[k + 2] = IF f[k + 1] = "%" THEN u[k + 1] + 1 ELSE u[k + 1]
      /\ k + 2 <= Len(f) => u[k + 3] = IF f[k + 2] = "%" THEN u[k + 2] + 1 ELSE u[k + 2]
      /\ f[k] = "%" => Matches(f[k + 1], a[u[k] + 1])
  <2>1. Len(f) \in Nat /\ Len(a) \in Nat /\ u[k] \in 0 .. Len(a)
    BY UsedType DEF Regular
  <2>2. k + 1 <= Len(f) => k + 1 \in 1 .. Len(f) /\ (k + 1) + 1 = k + 2
    BY <2>1
  <2>3. k + 2 <= Len(f) => k + 2 \in 1 .. Len(f) /\ (k + 2) + 1 = k + 3
    BY <2>1
  <2>4. k + 1 <= Len(f) => u[k + 2] = IF f[k + 1] = "%" THEN u[k + 1] + 1 ELSE u[k + 1]
    BY <2>2, UsedType
  <2>5. k + 2 <= Len(f) => u[k + 3] = IF f[k + 2] = "%" THEN u[k + 2] + 1 ELSE u[k + 2]
    BY <2>3, UsedType
  <2>6. /\ u[k + 1] = IF f[k] = "%" THEN u[k] + 1 ELSE u[k]
        /\ f[k] = "%" => Matches(f[k + 1], a[u[k] + 1])
    BY UsedType
  <2>7. n \in 1 .. Len(a) + 1 /\ u[k] \in Nat
    BY <2>1
  <2>8. QED
    BY <2>1, <2>4, <2>5, <2>6, <2>7
<1>2. Lettered(f)
  BY DEF Regular
<1>3. TextFrom(f, a, u, k) = Body(f, a, F, k, n)
  <2>1. k \in 1 .. Len(f) + 3
    BY <1>1
  <2>2. QED
    BY <1>1, <2>1, FromIs DEF TextFrom
<1>0. Len(f) \in Nat
  BY <1>1
<1> HIDE DEF F, n
<1>8. Parts(f, a, F, k, n)
  BY <1>0, BodyIs
<1>4. ASSUME f[k] \notin {"%", "\\"}
      PROVE  /\ u[k + 1] = u[k]
             /\ TextFrom(f, a, u, k) = <<f[k]>> \o TextFrom(f, a, u, k + 1)
  <2>1. u[k + 1] = u[k]
    BY <1>1, <1>4
  <2>2. Body(f, a, F, k, n) = <<f[k]>> \o F[k + 1][n]
    BY <1>4, <1>8 DEF Parts
  <2>3. F[k + 1][n] = TextFrom(f, a, u, k + 1)
    BY <2>1 DEF TextFrom, F, n
  <2>4. QED
    BY <1>3, <2>1, <2>2, <2>3
<1>5. ASSUME f[k] = "\\"
      PROVE  /\ k + 1 <= Len(f) /\ u[k + 2] = u[k]
             /\ TextFrom(f, a, u, k) =
                  <<IF f[k + 1] = "t" THEN "tab" ELSE "nl">> \o TextFrom(f, a, u, k + 2)
  <2>1. k + 1 <= Len(f) /\ f[k + 1] # "%"
    BY <1>2, <1>5 DEF Lettered
  <2>2. u[k + 2] = u[k]
    BY <1>1, <1>5, <2>1
  <2>3. Body(f, a, F, k, n) = <<IF f[k + 1] = "t" THEN "tab" ELSE "nl">> \o F[k + 2][n]
    BY <1>5, <1>8 DEF Parts
  <2>4. F[k + 2][n] = TextFrom(f, a, u, k + 2)
    BY <2>2 DEF TextFrom, F, n
  <2>5. QED
    BY <1>3, <2>1, <2>2, <2>3, <2>4
<1>6. ASSUME f[k] = "%"
      PROVE  /\ k + 1 <= Len(f) /\ u[k + 2] = u[k] + 1 /\ Matches(f[k + 1], a[u[k] + 1])
             /\ f[k + 1] \in {"c", "s"} =>
                  TextFrom(f, a, u, k) = a[u[k] + 1] \o TextFrom(f, a, u, k + 2)
             /\ f[k + 1] = "x" =>
                  /\ k + 2 <= Len(f) /\ u[k + 3] = u[k] + 1
                  /\ TextFrom(f, a, u, k) =
                       itox(a[u[k] + 1], f[k + 2]) \o TextFrom(f, a, u, k + 3)
             /\ f[k + 1] \in {"d", "i"} =>
                  TextFrom(f, a, u, k) = itos(a[u[k] + 1]) \o TextFrom(f, a, u, k + 2)
  <2>1. k + 1 <= Len(f) /\ f[k + 1] # "%"
    BY <1>2, <1>6 DEF Lettered
  <2>2. u[k + 2] = u[k] + 1
    BY <1>1, <1>6, <2>1
  <2>3. f[k + 1] = "x" => k + 2 <= Len(f) /\ f[k + 2] # "%"
    BY <1>2, <1>6 DEF Lettered
  <2>4. f[k + 1] = "x" => u[k + 3] = u[k] + 1
    BY <1>1, <2>2, <2>3
  <2>5. F[k + 2][n + 1] = TextFrom(f, a, u, k + 2)
    BY <2>2 DEF TextFrom, F, n
  <2>6. f[k + 1] = "x" => F[k + 3][n + 1] = TextFrom(f, a, u, k + 3)
    BY <2>4 DEF TextFrom, F, n
  <2>7. /\ f[k + 1] \in {"c", "s"} => Body(f, a, F, k, n) = a[n] \o F[k + 2][n + 1]
        /\ f[k + 1] = "x" => Body(f, a, F, k, n) = itox(a[n], f[k + 2]) \o F[k + 3][n + 1]
        /\ f[k + 1] \in {"d", "i"} => Body(f, a, F, k, n) = itos(a[n]) \o F[k + 2][n + 1]
    BY <1>6, <1>8 DEF Parts
  <2>8. QED
    BY <1>1, <1>3, <1>6, <2>1, <2>2, <2>3, <2>4, <2>5, <2>6, <2>7 DEF n
<1>7. QED
  BY <1>4, <1>5, <1>6 DEF TextGoesOn

LEMMA MatchType ==
  ASSUME NEW letter, NEW value, Matches(letter, value)
  PROVE  /\ letter \in {"c", "s", "x", "d", "i"}
         /\ letter \in {"c", "s"} => value \in Seq(Glyph)
         /\ letter = "c" => Len(value) = 1
         /\ letter = "x" => \A type : itox(value, type) \in Seq(Glyph) /\ itox(value, type) # <<>>
         /\ letter \in {"d", "i"} => itos(value) \in Seq(Glyph) /\ itos(value) # <<>>
<1>1. letter \in {"c", "s", "x", "d", "i"}
  BY DEF Matches
<1>2. CASE letter \in {"c", "s"}
  <2>1. value \in Seq(Letters) /\ (letter = "c" => Len(value) = 1)
    BY <1>2 DEF Matches
  <2>2. value \in Seq(Glyph)
    BY <2>1, DigitGlyph
  <2>3. letter # "x" /\ letter \notin {"d", "i"}
    BY <1>2
  <2>4. QED
    BY <1>1, <2>1, <2>2, <2>3
<1>3. CASE letter = "x"
  <2>1. value[2] \in Nat
    BY <1>3 DEF Matches
  <2>2. \A type : itox(value, type) \in Seq(Glyph) /\ itox(value, type) # <<>>
    BY <2>1, ItoxType
  <2>3. letter \notin {"c", "s"} /\ letter # "c" /\ letter \notin {"d", "i"}
    BY <1>3
  <2>4. QED
    BY <1>1, <2>2, <2>3
<1>4. CASE letter \in {"d", "i"}
  <2>1. value[2] \in Nat
    BY <1>4 DEF Matches
  <2>2. itos(value) \in Seq(Glyph) /\ itos(value) # <<>>
    BY <2>1, ItosType
  <2>3. letter \notin {"c", "s"} /\ letter # "c" /\ letter # "x"
    BY <1>4
  <2>4. QED
    BY <1>1, <2>2, <2>3
<1>5. QED
  BY <1>1, <1>2, <1>3, <1>4

LEMMA ConcatType ==
  ASSUME NEW X, NEW s \in Seq(X), NEW t \in Seq(X)
  PROVE  s \o t \in Seq(X)
  OBVIOUS

(* The text from any position on consists of characters. *)
LEMMA TextType ==
  ASSUME NEW f, NEW a, NEW u, Regular(f, a, u)
  PROVE  \A k \in 1 .. Len(f) + 1 : TextFrom(f, a, u, k) \in Seq(Glyph)
<1> DEFINE N == Len(f)
           P == {m \in 0 .. N : \A k \in 1 .. N + 1 :
                   k > N - m => TextFrom(f, a, u, k) \in Seq(Glyph)}
<1>1. N \in Nat /\ f \in Seq(Letters)
  BY UsedType DEF Regular
<1> HIDE DEF N
<1>2. 0 \in P
  <2>1. \A k \in 1 .. N + 1 : k > N - 0 => k = N + 1
    BY <1>1
  <2>2. TextFrom(f, a, u, N + 1) \in Seq(Glyph)
    <3>1. TextFrom(f, a, u, N + 1) = <<>>
      BY TextEnds DEF N
    <3>2. <<>> \in Seq(Glyph)
      OBVIOUS
    <3>3. QED
      BY <3>1, <3>2, Zenon
  <2>3. QED
    BY <1>1, <2>1, <2>2
<1>3. ASSUME NEW m \in 1 .. N, m - 1 \in P
      PROVE  m \in P
  <2>1. ASSUME NEW k \in 1 .. N + 1, k > N - m
        PROVE  TextFrom(f, a, u, k) \in Seq(Glyph)
    <3>1. CASE k > N - (m - 1)
      BY <1>3, <3>1
    <3>2. CASE ~(k > N - (m - 1))
      <4>1. k \in 1 .. N /\ k = N - m + 1
        BY <1>1, <2>1, <3>2
      <4>2. \A j \in 1 .. N + 1 : j > k => TextFrom(f, a, u, j) \in Seq(Glyph)
        <5>1. \A j \in 1 .. N + 1 : j > k => j > N - (m - 1)
          BY <1>1, <4>1
        <5>2. QED
          BY <1>3, <5>1
      <4>3. /\ k + 1 \in 1 .. N + 1 /\ k + 1 > k
            /\ k + 1 <= N => k + 2 \in 1 .. N + 1 /\ k + 2 > k
            /\ k + 2 <= N => k + 3 \in 1 .. N + 1 /\ k + 3 > k
        BY <1>1, <4>1
      <4>4. /\ TextFrom(f, a, u, k + 1) \in Seq(Glyph)
            /\ k + 1 <= N => TextFrom(f, a, u, k + 2) \in Seq(Glyph)
            /\ k + 2 <= N => TextFrom(f, a, u, k + 3) \in Seq(Glyph)
        BY <4>2, <4>3
      <4>0. TextGoesOn(f, a, u, k)
        BY <4>1, TextStep DEF N
      <4>5. CASE f[k] \notin {"%", "\\"}
        <5>1. <<f[k]>> \in Seq(Glyph)
          <6>1. f[k] \in Letters
            BY <1>1, <4>1 DEF N
          <6>2. f[k] \in Glyph
            BY <6>1, DigitGlyph
          <6>3. QED
            BY <6>2
        <5>2. TextFrom(f, a, u, k) = <<f[k]>> \o TextFrom(f, a, u, k + 1)
          BY <4>0, <4>5 DEF N, TextGoesOn
        <5>3. QED
          BY <4>4, <5>1, <5>2, ConcatType
      <4>6. CASE f[k] = "\\"
        <5>1. <<IF f[k + 1] = "t" THEN "tab" ELSE "nl">> \in Seq(Glyph)
          <6>1. (IF f[k + 1] = "t" THEN "tab" ELSE "nl") \in Glyph
            BY DigitGlyph
          <6>2. QED
            BY <6>1
        <5>2. /\ k + 1 <= N
              /\ TextFrom(f, a, u, k) =
                   <<IF f[k + 1] = "t" THEN "tab" ELSE "nl">> \o TextFrom(f, a, u, k + 2)
          BY <4>0, <4>6 DEF N, TextGoesOn
        <5>3. QED
          BY <4>4, <5>1, <5>2, ConcatType
      <4>7. CASE f[k] = "%"
        <5> DEFINE v == a[u[k] + 1]
        <5>1. /\ k + 1 <= N /\ Matches(f[k + 1], v)
              /\ f[k + 1] \in {"c", "s"} => TextFrom(f, a, u, k) = v \o TextFrom(f, a, u, k + 2)
              /\ f[k + 1] = "x" => k + 2 <= N /\
                   TextFrom(f, a, u, k) = itox(v, f[k + 2]) \o TextFrom(f, a, u, k + 3)
              /\ f[k + 1] \in {"d", "i"} =>
                   TextFrom(f, a, u, k) = itos(v) \o TextFrom(f, a, u, k + 2)
          BY <4>0, <4>7 DEF N, TextGoesOn
        <5> HIDE DEF v
        <5>2. CASE f[k + 1] \in {"c", "s"}
          <6>1. v \in Seq(Glyph)
            BY <5>1, <5>2, MatchType
          <6>2. QED
            BY <4>4, <5>1, <5>2, <6>1, ConcatType
        <5>3. CASE f[k + 1] = "x"
          <6>1. itox(v, f[k + 2]) \in Seq(Glyph)
            BY <5>1, <5>3, MatchType
          <6>2. QED
            BY <4>4, <5>1, <5>3, <6>1, ConcatType
        <5>4. CASE f[k + 1] \in {"d", "i"}
          <6>1. itos(v) \in Seq(Glyph)
            BY <5>1, <5>4, MatchType
          <6>2. QED
            BY <4>4, <5>1, <5>4, <6>1, ConcatType
        <5>5. f[k + 1] \in {"c", "s", "x", "d", "i"}
          BY <5>1, MatchType
        <5>6. QED
          BY <5>2, <5>3, <5>4, <5>5
      <4>8. QED
        BY <4>5, <4>6, <4>7
    <3>3. QED
      BY <3>1, <3>2
  <2>2. m \in 0 .. N
    BY <1>1
  <2>3. QED
    BY <2>1, <2>2
<1> HIDE DEF P
<1>4. \A m \in 0 .. N : m \in P
  BY <1>1, <1>2, <1>3, CountUp
<1>5. \A k \in 1 .. N + 1 : k > N - N => TextFrom(f, a, u, k) \in Seq(Glyph)
  <2>1. N \in P
    BY <1>1, <1>4
  <2>2. QED
    BY <2>1 DEF P
<1>6. \A k \in 1 .. N + 1 : k > N - N
  BY <1>1
<1>7. QED
  BY <1>5, <1>6 DEF N

(* The whole text is the text from the first position on. *)
LEMMA WholeText ==
  ASSUME NEW f, NEW a, NEW u, Regular(f, a, u)
  PROVE  /\ Formatted(f, a) = TextFrom(f, a, u, 1)
         /\ Formatted(f, a) \in Seq(Glyph)
<1>1. Len(f) \in Nat /\ u[1] = 0
  BY UsedType
<1>2. Formatted(f, a) = TextFrom(f, a, u, 1)
  BY <1>1, FormattedIs DEF TextFrom
<1>3. 1 \in 1 .. Len(f) + 1
  BY <1>1
<1>4. QED
  BY <1>2, <1>3, TextType

LEMMA CallRegular ==
  ASSUME NEW c \in Calls
  PROVE  /\ \A u \in UsedBefore(c[1], c[2]) : Regular(c[1], c[2], u)
         /\ UsedBefore(c[1], c[2]) # {}
         /\ Formatted(c[1], c[2]) \in Seq(Glyph) /\ Len(Formatted(c[1], c[2])) < 2 * Size
<1>1. /\ c[1] \in Seq(Letters) /\ c[1] # <<>> /\ Lettered(c[1])
      /\ Len(c[2]) \in Nat /\ UsedBefore(c[1], c[2]) # {}
  BY KprintfAssumption
<1>2. \A u \in UsedBefore(c[1], c[2]) : Regular(c[1], c[2], u)
  BY <1>1 DEF Regular
<1>3. Formatted(c[1], c[2]) \in Seq(Glyph)
  BY <1>1, <1>2, WholeText
<1>4. QED
  BY <1>1, <1>2, <1>3, TextsAssumption

-----------------------------------------------------------------------------
(* The rest of a text: a piece of it begins, gives a character, ends. *)
LEMMA RestBegins ==
  ASSUME NEW t \in Seq(Glyph), NEW p \in Nat, NEW x \in Seq(Glyph), NEW y \in Seq(Glyph),
         Rest(t, p, <<>>, 1, x \o y)
  PROVE  Rest(t, p, x, 1, y)
<1>1. /\ Len(x \o y) = Len(x) + Len(y) /\ Len(x) \in Nat /\ Len(y) \in Nat /\ Len(t) \in Nat
      /\ \A j \in 1 .. Len(x) : (x \o y)[j] = x[j]
      /\ \A j \in 1 .. Len(y) : (x \o y)[Len(x) + j] = y[j]
  OBVIOUS
<1> DEFINE z == x \o y
<1>2. /\ p + (Len(<<>>) + 1 - 1) + Len(z) = Len(t)
      /\ \A j \in 1 .. Len(z) : t[p + (Len(<<>>) + 1 - 1) + j] = z[j]
  BY DEF Rest
<1> HIDE DEF z
<1>3. Len(<<>>) = 0
  OBVIOUS
<1>4. p + Len(z) = Len(t) /\ \A j \in 1 .. Len(z) : t[p + j] = z[j]
  BY <1>2, <1>3
<1>5. p + Len(x) + Len(y) = Len(t)
  BY <1>1, <1>4 DEF z
<1>6. ASSUME NEW j \in 1 .. Len(x) PROVE t[p + (j - 1) + 1] = x[j]
  <2>1. j \in 1 .. Len(z) /\ p + (j - 1) + 1 = p + j
    BY <1>1 DEF z
  <2>2. QED
    BY <1>1, <1>4, <2>1 DEF z
<1>7. ASSUME NEW j \in 1 .. Len(y) PROVE t[p + (Len(x) + 1 - 1) + j] = y[j]
  <2>1. Len(x) + j \in 1 .. Len(z) /\ p + (Len(x) + 1 - 1) + j = p + (Len(x) + j)
    BY <1>1 DEF z
  <2>2. t[p + (Len(x) + j)] = z[Len(x) + j]
    BY <1>4, <2>1
  <2>3. QED
    BY <1>1, <2>1, <2>2 DEF z
<1>8. QED
  BY <1>1, <1>5, <1>6, <1>7 DEF Rest

LEMMA RestGives ==
  ASSUME NEW t \in Seq(Glyph), NEW p \in Nat, NEW x \in Seq(Glyph), NEW i \in Nat,
         NEW y \in Seq(Glyph), Rest(t, p, x, i, y), i <= Len(x)
  PROVE  t[p + 1] = x[i] /\ p + 1 <= Len(t) /\ Rest(t, p + 1, x, i + 1, y)
<1>1. Len(x) \in Nat /\ Len(y) \in Nat /\ Len(t) \in Nat
  OBVIOUS
<1>2. /\ i \in 1 .. Len(x)
      /\ p + (Len(x) + 1 - i) + Len(y) = Len(t)
      /\ \A j \in i .. Len(x) : t[p + (j - i) + 1] = x[j]
      /\ \A j \in 1 .. Len(y) : t[p + (Len(x) + 1 - i) + j] = y[j]
  BY <1>1 DEF Rest
<1>3. t[p + 1] = x[i]
  <2>1. i \in i .. Len(x) /\ p + (i - i) + 1 = p + 1
    BY <1>1
  <2>2. QED
    BY <1>2, <2>1
<1>4. p + 1 <= Len(t) /\ (p + 1) + (Len(x) + 1 - (i + 1)) + Len(y) = Len(t)
      /\ i + 1 \in 1 .. Len(x) + 1
  BY <1>1, <1>2
<1>5. ASSUME NEW j \in i + 1 .. Len(x) PROVE t[(p + 1) + (j - (i + 1)) + 1] = x[j]
  <2>1. j \in i .. Len(x) /\ (p + 1) + (j - (i + 1)) + 1 = p + (j - i) + 1
    BY <1>1
  <2>2. QED
    BY <1>2, <2>1
<1>6. ASSUME NEW j \in 1 .. Len(y) PROVE t[(p + 1) + (Len(x) + 1 - (i + 1)) + j] = y[j]
  <2>1. (p + 1) + (Len(x) + 1 - (i + 1)) + j = p + (Len(x) + 1 - i) + j
    BY <1>1
  <2>2. QED
    BY <1>2, <2>1
<1>7. QED
  BY <1>3, <1>4, <1>5, <1>6 DEF Rest

LEMMA RestEnds ==
  ASSUME NEW t \in Seq(Glyph), NEW p \in Nat, NEW x \in Seq(Glyph), NEW i \in Nat,
         NEW y \in Seq(Glyph), Rest(t, p, x, i, y), i = Len(x) + 1
  PROVE  Rest(t, p, <<>>, 1, y)
<1>1. Len(x) \in Nat /\ Len(y) \in Nat /\ Len(t) \in Nat /\ Len(<<>>) = 0
  OBVIOUS
<1>2. /\ p + (Len(x) + 1 - i) + Len(y) = Len(t)
      /\ \A j \in 1 .. Len(y) : t[p + (Len(x) + 1 - i) + j] = y[j]
  BY DEF Rest
<1>3. Len(x) + 1 - i = 0
  BY <1>1
<1>4. p + Len(y) = Len(t) /\ \A j \in 1 .. Len(y) : t[p + j] = y[j]
  BY <1>1, <1>2, <1>3
<1>5. /\ 1 \in 1 .. Len(<<>>) + 1 /\ p + (Len(<<>>) + 1 - 1) + Len(y) = Len(t)
      /\ \A j \in 1 .. Len(<<>>) : FALSE
  BY <1>1, <1>4
<1>6. \A j \in 1 .. Len(y) : t[p + (Len(<<>>) + 1 - 1) + j] = y[j]
  BY <1>1, <1>4
<1>7. QED
  BY <1>5, <1>6 DEF Rest

LEMMA RestAll ==
  ASSUME NEW t \in Seq(Glyph)
  PROVE  /\ Rest(t, 0, <<>>, 1, t)
         /\ \A p \in Nat : Rest(t, p, <<>>, 1, <<>>) => p = Len(t)
<1>1. Len(t) \in Nat /\ Len(<<>>) = 0
  OBVIOUS
<1>2. QED
  BY <1>1 DEF Rest

LEMMA RestChar ==
  ASSUME NEW t \in Seq(Glyph), NEW p \in Nat, NEW x \in Seq(Glyph), Len(x) = 1, NEW y \in Seq(Glyph),
         Rest(t, p, <<>>, 1, x \o y)
  PROVE  t[p + 1] = x[1] /\ p + 1 <= Len(t) /\ Rest(t, p + 1, <<>>, 1, y)
<1>0. 1 \in Nat /\ 1 <= Len(x)
  OBVIOUS
<1>1. Rest(t, p, x, 1, y)
  BY RestBegins
<1>2. t[p + 1] = x[1] /\ p + 1 <= Len(t) /\ Rest(t, p + 1, x, 1 + 1, y)
  <2> DEFINE i == 1
  <2>1. i \in Nat /\ i <= Len(x) /\ Rest(t, p, x, i, y)
    BY <1>0, <1>1
  <2> HIDE DEF i
  <2>2. t[p + 1] = x[i] /\ p + 1 <= Len(t) /\ Rest(t, p + 1, x, i + 1, y)
    BY <2>1, RestGives
  <2>3. QED
    BY <2>2 DEF i
<1>3. p + 1 \in Nat /\ 1 + 1 \in Nat /\ 1 + 1 = Len(x) + 1
  OBVIOUS
<1>4. QED
  BY <1>2, <1>3, RestEnds

-----------------------------------------------------------------------------
(* A call, its text and what is read of its format. *)
LEMMA TextFacts ==
  ASSUME call \in Calls
  PROVE  /\ Formats \in Seq(Glyph) /\ Len(Formats) \in Nat /\ Len(Formats) < 2 * Size
         /\ format \in Seq(Letters) /\ format # <<>> /\ Len(format) \in Nat /\ Len(args) \in Nat
         /\ \A u \in UsedBefore(format, args) : Regular(format, args, u)
<1>1. Formats \in Seq(Glyph) /\ Len(Formats) < 2 * Size
  BY CallRegular DEF Formats, format, args
<1>2. Len(Formats) \in Nat
  BY <1>1
<1>3. format \in Seq(Letters) /\ format # <<>> /\ Len(args) \in Nat
  BY KprintfAssumption DEF format, args
<1>4. Len(format) \in Nat
  BY <1>3
<1>5. \A u \in UsedBefore(format, args) : Regular(format, args, u)
  BY CallRegular DEF format, args
<1>6. QED
  BY <1>1, <1>2, <1>3, <1>4, <1>5

LEMMA SameText ==
  ASSUME call' = call
  PROVE  /\ Formats' = Formats /\ format' = format /\ args' = args
         /\ InsertsEmpty' = InsertsEmpty
         /\ spoilt' = spoilt => Undisturbed' = Undisturbed
<1>1. format' = format /\ args' = args
  BY DEF format, args
<1>2. InsertsEmpty' = InsertsEmpty
  BY <1>1 DEF InsertsEmpty
<1>3. Formats' = Formats
  BY <1>1 DEF Formats
<1>4. QED
  BY <1>1, <1>2, <1>3 DEF Undisturbed

LEMMA InCallFacts ==
  ASSUME KprintfInv, place # "idle"
  PROVE  /\ ebx \in 1 .. Len(format) + 1
         /\ \E u \in UsedBefore(format, args) :
              /\ Regular(format, args, u) /\ used = u[ebx]
              /\ ToFormat = TextFrom(format, args, u, ebx) /\ ToFormat \in Seq(Glyph)
         /\ Undisturbed => Remains
         /\ Undisturbed /\ ~interrupted => Stored
         /\ Undisturbed => top <= Len(Formats) + 2
<1>1. InCall /\ call \in Calls
  BY DEF KprintfInv, KprintfType
<1>2. PICK u \in UsedBefore(format, args) : used = u[ebx]
  BY <1>1 DEF InCall
<1>3. Regular(format, args, u)
  BY <1>1, <1>2, TextFacts
<1>4. ToFormat = TextFrom(format, args, u, ebx)
  BY <1>2 DEF ToFormat, TextFrom
<1>5. ebx \in 1 .. Len(format) + 1
  BY <1>1 DEF InCall
<1>6. TextFrom(format, args, u, ebx) \in Seq(Glyph)
  BY <1>3, <1>5, TextType
<1>7. Undisturbed => top <= Len(Formats) + 2
  BY DEF KprintfInv
<1>8. QED
  BY <1>1, <1>2, <1>3, <1>4, <1>5, <1>6, <1>7 DEF InCall

LEMMA ByteIs ==
  ASSUME NEW X, NEW s \in Seq(X), NEW k \in Nat
  PROVE  /\ k <= Len(s) => ByteAt(s, k) = s[k]
         /\ k = Len(s) + 1 => ByteAt(s, k) = NUL
<1>1. Len(s) \in Nat
  OBVIOUS
<1>2. k = Len(s) + 1 => ~(k <= Len(s)) /\ k # Len(s) + 2
  BY <1>1
<1>3. QED
  BY <1>2 DEF ByteAt

LEMMA LetterNotNUL == \A c \in Letters : c # NUL
  BY KprintfAssumption

(* Four bytes stored: the first is the text's next character. *)
LEMMA StoreType ==
  ASSUME KprintfType, NEW bytes, Store(bytes)
  PROVE  mem' = [b \in 0 .. 2 * Size - 1 |-> mem'[b]] /\ top' \in Nat
<1>1. DOMAIN mem = 0 .. 2 * Size - 1 /\ ecx \in Nat /\ top \in Nat
  BY DEF KprintfType
<1>2. top' \in Nat
  BY <1>1 DEF Store
<1>3. mem' = [b \in 0 .. 2 * Size - 1 |-> mem'[b]]
  BY <1>1 DEF Store
<1>4. QED
  BY <1>2, <1>3

LEMMA StoreGives ==
  ASSUME KprintfType, NEW bytes, Store(bytes),
         NEW t \in Seq(Glyph), Len(t) < 2 * Size, ecx + 1 <= Len(t), top <= Len(t) + 2,
         bytes[1] = t[ecx + 1]
  PROVE  /\ top' <= Len(t) + 2
         /\ mem'[ecx + 1] = bytes[2]
         /\ (\A b \in 0 .. ecx - 1 : mem[b] = t[b + 1]) =>
              \A b \in 0 .. (ecx + 1) - 1 : mem'[b] = t[b + 1]
<1>1. DOMAIN mem = 0 .. 2 * Size - 1 /\ ecx \in Nat /\ top \in Nat /\ Size \in Nat /\ Len(t) \in Nat
  BY KprintfAssumption DEF KprintfType
<1>2. top' <= Len(t) + 2
  BY <1>1 DEF Store
<1>3. ecx \in DOMAIN mem /\ ecx + 1 \in DOMAIN mem
  BY <1>1
<1>4. \A b \in DOMAIN mem : mem'[b] = IF b \in ecx .. ecx + 3 THEN bytes[b - ecx + 1] ELSE mem[b]
  BY DEF Store
<1>5. /\ ecx \in ecx .. ecx + 3 /\ ecx - ecx + 1 = 1
      /\ ecx + 1 \in ecx .. ecx + 3 /\ (ecx + 1) - ecx + 1 = 2
  BY <1>1
<1>6. mem'[ecx] = bytes[1] /\ mem'[ecx + 1] = bytes[2]
  BY <1>3, <1>4, <1>5
<1>7. ASSUME \A b \in 0 .. ecx - 1 : mem[b] = t[b + 1], NEW b \in 0 .. (ecx + 1) - 1
      PROVE  mem'[b] = t[b + 1]
  <2>1. CASE b = ecx
    BY <1>6, <2>1
  <2>2. CASE b # ecx
    <3>1. b \in 0 .. ecx - 1 /\ b \notin ecx .. ecx + 3 /\ b \in DOMAIN mem
      BY <1>1, <2>2
    <3>2. QED
      BY <1>4, <1>7, <3>1
  <2>3. QED
    BY <2>1, <2>2
<1>8. QED
  BY <1>2, <1>6, <1>7

(* A step inside a call keeps the invariant when it keeps what is left. *)
LEMMA StepGives ==
  ASSUME KprintfInv, place # "idle", place' # "idle",
         call' = call, spoilt' = spoilt, interrupted' = interrupted, KprintfType',
         NEW u \in UsedBefore(format, args), ebx' \in 1 .. Len(format) + 1, used' = u[ebx'],
         Undisturbed => Remains' /\ top' <= Len(Formats) + 2,
         Undisturbed /\ ~interrupted => Stored'
  PROVE  KprintfInv'
<1>1. /\ Formats' = Formats /\ format' = format /\ args' = args
      /\ Undisturbed' = Undisturbed
  BY SameText
<1>2. InCall'
  <2>1. ebx' \in 1 .. Len(format') + 1
    BY <1>1
  <2>2. \E n \in UsedBefore(format', args') : used' = n[ebx']
    BY <1>1
  <2>3. Undisturbed' => Remains'
    BY <1>1
  <2>4. Undisturbed' /\ ~interrupted' => Stored'
    BY <1>1
  <2>5. QED
    BY <2>1, <2>2, <2>3, <2>4 DEF InCall
<1>3. Undisturbed' => top' <= Len(Formats') + 2
  BY <1>1
<1>4. FormatsString'
  BY DEF FormatsString, Returned
<1>5. QED
  BY <1>2, <1>3, <1>4 DEF KprintfInv

LEMMA ToFormatNext ==
  ASSUME call' = call, NEW u, used' = u[ebx']
  PROVE  ToFormat' = TextFrom(format, args, u, ebx')
<1>1. format' = format /\ args' = args
  BY SameText
<1>2. QED
  BY <1>1 DEF ToFormat, TextFrom

-----------------------------------------------------------------------------
(* A call begins with its whole text to print. *)
LEMMA KprintfBegins ==
  ASSUME KprintfInv, NEW c \in Calls, kprintf(c)
  PROVE  KprintfInv'
<1>1. /\ place' = "loopStr" /\ call' = c /\ ebx' = 1 /\ ecx' = 0 /\ used' = 0
      /\ interrupted' = FALSE /\ spoilt' = FALSE /\ top' = 0 /\ mem' = mem /\ at' = at
  BY DEF kprintf, inserted
<1>2. KprintfType'
  BY <1>1 DEF KprintfInv, KprintfType
<1>3. format' = c[1] /\ args' = c[2] /\ Formats' = Formatted(c[1], c[2])
  BY <1>1 DEF format, args, Formats
<1>4. PICK u \in UsedBefore(c[1], c[2]) : Regular(c[1], c[2], u)
  BY CallRegular
<1>5. /\ c[1] \in Seq(Letters) /\ c[1] # <<>> /\ Len(c[1]) \in Nat \ {0} /\ u[1] = 0
  <2>1. c[1] \in Seq(Letters) /\ c[1] # <<>>
    BY KprintfAssumption
  <2>2. u[1] = 0
    BY <1>4, UsedType
  <2>3. QED
    BY <2>1, <2>2
<1>6. Formatted(c[1], c[2]) \in Seq(Glyph) /\ Formatted(c[1], c[2]) = TextFrom(c[1], c[2], u, 1)
  BY <1>4, WholeText
<1>7. ToFormat' = TextFrom(c[1], c[2], u, 1)
  BY <1>1, <1>3, <1>5 DEF ToFormat, TextFrom
<1>8. Remains'
  <2>1. Rest(Formats', ecx', <<>>, 1, ToFormat')
    BY <1>1, <1>3, <1>6, <1>7, RestAll
  <2>2. QED
    BY <1>1, <2>1 DEF Remains
<1>9. Stored'
  <2>1. \A b \in 0 .. ecx' - 1 : FALSE
    BY <1>1
  <2>2. ebx' # Len(format') + 1
    BY <1>1, <1>3, <1>5
  <2>3. QED
    BY <2>1, <2>2 DEF Stored
<1>10. InCall'
  <2>1. ebx' \in 1 .. Len(format') + 1
    BY <1>1, <1>3, <1>5
  <2>2. \E n \in UsedBefore(format', args') : used' = n[ebx']
    BY <1>1, <1>3, <1>5
  <2>3. QED
    BY <1>8, <1>9, <2>1, <2>2 DEF InCall
<1>11. top' <= Len(Formats') + 2
  <2>1. Len(Formats') \in Nat
    BY <1>3, <1>6
  <2>2. QED
    BY <1>1, <2>1
<1>12. FormatsString'
  BY <1>1 DEF FormatsString, Returned
<1>13. QED
  BY <1>2, <1>10, <1>11, <1>12 DEF KprintfInv

(* In the loop: the text goes on with whatever the format has here. *)
LEMMA LoopFacts ==
  ASSUME KprintfInv, place = "loopStr"
  PROVE  /\ Formats \in Seq(Glyph) /\ Len(Formats) < 2 * Size /\ Len(format) \in Nat
         /\ ebx \in Nat /\ ecx \in Nat /\ ebx <= Len(format) + 1
         /\ Here # NUL => ebx \in 1 .. Len(format) /\ Here = format[ebx] /\ Here \in Letters
         /\ Here = NUL => ebx = Len(format) + 1
         /\ \A k \in 1 .. Len(format) + 1 : ByteAt(format, k) =
              IF k = Len(format) + 1 THEN NUL ELSE format[k]
<1>1. call \in Calls /\ ecx \in Nat /\ place # "idle"
  BY DEF KprintfInv, KprintfType
<1>2. /\ Formats \in Seq(Glyph) /\ Len(Formats) < 2 * Size
      /\ format \in Seq(Letters) /\ Len(format) \in Nat
  BY <1>1, TextFacts
<1>3. ebx \in 1 .. Len(format) + 1
  BY <1>1, InCallFacts
<1>4. \A k \in 1 .. Len(format) + 1 :
         /\ k = Len(format) + 1 => ByteAt(format, k) = NUL
         /\ k # Len(format) + 1 => k \in 1 .. Len(format) /\ ByteAt(format, k) = format[k]
  <2>1. \A k \in 1 .. Len(format) + 1 : k \in Nat /\ (k # Len(format) + 1 => k \in 1 .. Len(format))
    BY <1>2
  <2>2. \A k \in 1 .. Len(format) : k <= Len(format)
    BY <1>2
  <2>3. QED
    BY <1>2, <2>1, <2>2, ByteIs
<1>5. \A k \in 1 .. Len(format) : format[k] \in Letters
  BY <1>2
<1>6. Here # NUL => ebx \in 1 .. Len(format) /\ Here = format[ebx] /\ Here \in Letters
  BY <1>3, <1>4, <1>5 DEF Here
<1>7. Here = NUL => ebx = Len(format) + 1
  BY <1>3, <1>4, <1>5, LetterNotNUL DEF Here
<1>8. ebx \in Nat /\ ebx <= Len(format) + 1
  BY <1>2, <1>3
<1>9. \A k \in 1 .. Len(format) + 1 : ByteAt(format, k) =
         IF k = Len(format) + 1 THEN NUL ELSE format[k]
  BY <1>4
<1>10. QED
  BY <1>1, <1>2, <1>6, <1>7, <1>8, <1>9

(* One byte of the text itself is stored, and the loop goes on. *)
LEMMA LoopStores ==
  ASSUME KprintfInv, place = "loopStr", place' = "loopStr",
         call' = call, spoilt' = spoilt, interrupted' = interrupted, edx' = edx, at' = at,
         NEW bytes, Store(bytes), ecx' = ecx + 1,
         NEW u \in UsedBefore(format, args), ebx' \in 1 .. Len(format) + 1, used' = u[ebx'],
         NEW x, Undisturbed => x \in Seq(Glyph) /\ Len(x) = 1 /\ x[1] = bytes[1],
         Undisturbed => ToFormat = x \o TextFrom(format, args, u, ebx'),
         ebx' = Len(format) + 1 => bytes[2] = NUL
  PROVE  KprintfInv'
<1> DEFINE t == Formats
           y == TextFrom(format, args, u, ebx')
<1>1. /\ call \in Calls /\ ecx \in Nat /\ place # "idle" /\ place' # "idle" /\ KprintfType
  BY DEF KprintfInv, KprintfType
<1>2. KprintfType'
  <2>1. mem' = [b \in 0 .. 2 * Size - 1 |-> mem'[b]] /\ top' \in Nat
    BY <1>1, StoreType
  <2>2. QED
    BY <1>1, <2>1 DEF KprintfType
<1>3. t \in Seq(Glyph) /\ Len(t) < 2 * Size /\ y \in Seq(Glyph)
  <2>1. Regular(format, args, u)
    BY <1>1, TextFacts
  <2>2. QED
    BY <1>1, <2>1, TextFacts, TextType
<1>4. Formats' = t /\ format' = format
  BY SameText
<1>5. ToFormat' = y
  BY ToFormatNext
<1> HIDE DEF t, y
<1>6. ASSUME Undisturbed
      PROVE  /\ Remains' /\ top' <= Len(t) + 2
             /\ ~interrupted => Stored'
  <2>1. Rest(t, ecx, <<>>, 1, x \o y) /\ top <= Len(t) + 2
    BY <1>1, <1>6, InCallFacts DEF Remains, t, y
  <2>2. t[ecx + 1] = bytes[1] /\ ecx + 1 <= Len(t) /\ Rest(t, ecx + 1, <<>>, 1, y)
    BY <1>1, <1>3, <1>6, <2>1, RestChar
  <2>3. /\ top' <= Len(t) + 2
        /\ mem'[ecx + 1] = bytes[2]
        /\ (\A b \in 0 .. ecx - 1 : mem[b] = t[b + 1]) =>
             \A b \in 0 .. (ecx + 1) - 1 : mem'[b] = t[b + 1]
    BY <1>1, <1>3, <2>1, <2>2, StoreGives
  <2>4. Remains'
    BY <1>4, <1>5, <2>2 DEF Remains
  <2>5. ASSUME ~interrupted PROVE Stored'
    <3>1. Stored
      BY <1>1, <1>6, <2>5, InCallFacts
    <3>2. \A b \in 0 .. ecx' - 1 : mem'[b] = Formats'[b + 1]
      BY <1>4, <2>3, <3>1 DEF Stored, t
    <3>3. ebx' = Len(format') + 1 => mem'[ecx'] = NUL
      BY <1>4, <2>3
    <3>4. QED
      BY <3>2, <3>3 DEF Stored
  <2>6. QED
    BY <2>3, <2>4, <2>5
<1>7. QED
  BY <1>1, <1>2, <1>6, StepGives DEF t

LEMMA NormalKeeps ==
  ASSUME KprintfInv, normalChar
  PROVE  KprintfInv'
<1> DEFINE bytes == Dword(format, ebx)
           x == <<format[ebx]>>
<1>1. /\ place = "loopStr" /\ Here \notin {"%", "\\"} /\ Here # NUL /\ Store(bytes)
      /\ ecx' = ecx + 1 /\ ebx' = ebx + 1
      /\ place' = place /\ call' = call /\ used' = used /\ edx' = edx /\ at' = at
      /\ spoilt' = spoilt /\ interrupted' = interrupted
  BY DEF normalChar, inserted
<1>2. /\ ebx \in 1 .. Len(format) /\ Here = format[ebx] /\ format[ebx] \in Letters
      /\ Len(format) \in Nat
      /\ ebx + 1 = Len(format) + 1 => ByteAt(format, ebx + 1) = NUL
      /\ ByteAt(format, ebx) = format[ebx]
  <2>1. /\ ebx \in 1 .. Len(format) /\ Here = format[ebx] /\ Here \in Letters /\ Len(format) \in Nat
    BY <1>1, LoopFacts
  <2>2. ebx + 1 \in 1 .. Len(format) + 1
    BY <2>1
  <2>3. ebx + 1 = Len(format) + 1 => ByteAt(format, ebx + 1) = NUL
    BY <1>1, <2>2, LoopFacts
  <2>4. QED
    BY <2>1, <2>3 DEF Here
<1>3. PICK u \in UsedBefore(format, args) :
        /\ Regular(format, args, u) /\ used = u[ebx]
        /\ ToFormat = TextFrom(format, args, u, ebx)
  BY <1>1, InCallFacts
<1>4. u[ebx + 1] = u[ebx] /\ TextFrom(format, args, u, ebx) = x \o TextFrom(format, args, u, ebx + 1)
  <2>1. TextGoesOn(format, args, u, ebx)
    BY <1>2, <1>3, TextStep
  <2>2. QED
    BY <1>1, <1>2, <2>1 DEF TextGoesOn
<1>5. bytes[1] = format[ebx] /\ (ebx + 1 = Len(format) + 1 => bytes[2] = NUL)
  BY <1>2 DEF Dword
<1>6. x \in Seq(Glyph) /\ Len(x) = 1 /\ x[1] = format[ebx]
  BY <1>2, DigitGlyph
<1>7. ebx' \in 1 .. Len(format) + 1
  BY <1>1, <1>2
<1> HIDE DEF bytes, x
<1>8. QED
  BY <1>1, <1>3, <1>4, <1>5, <1>6, <1>7, LoopStores

LEMMA SpecialKeeps ==
  ASSUME KprintfInv, specialChar
  PROVE  KprintfInv'
<1> DEFINE c == IF format[ebx + 1] = "t" THEN "tab" ELSE "nl"
           bytes == <<c, NUL, NUL, NUL>>
           x == <<c>>
<1>1. /\ place = "loopStr" /\ Here = "\\"
      /\ Store(<<IF ByteAt(format, ebx + 1) = "t" THEN "tab" ELSE "nl", NUL, NUL, NUL>>)
      /\ ecx' = ecx + 1 /\ ebx' = ebx + 2
      /\ place' = place /\ call' = call /\ used' = used /\ edx' = edx /\ at' = at
      /\ spoilt' = spoilt /\ interrupted' = interrupted
  BY DEF specialChar, inserted, LoopAt
<1>0. "\\" # NUL /\ "%" # NUL
  BY DEF NUL
<1>2. /\ ebx \in 1 .. Len(format) /\ format[ebx] = "\\" /\ Len(format) \in Nat
  BY <1>0, <1>1, LoopFacts
<1>3. PICK u \in UsedBefore(format, args) :
        /\ Regular(format, args, u) /\ used = u[ebx]
        /\ ToFormat = TextFrom(format, args, u, ebx)
  BY <1>1, InCallFacts
<1>4. /\ ebx + 1 <= Len(format) /\ u[ebx + 2] = u[ebx]
      /\ TextFrom(format, args, u, ebx) = x \o TextFrom(format, args, u, ebx + 2)
  <2>1. TextGoesOn(format, args, u, ebx)
    BY <1>2, <1>3, TextStep
  <2>2. QED
    BY <1>2, <2>1 DEF TextGoesOn
<1>5. ByteAt(format, ebx + 1) = format[ebx + 1]
  <2>1. ebx + 1 \in 1 .. Len(format) + 1 /\ ebx + 1 # Len(format) + 1
    BY <1>2, <1>4
  <2>2. QED
    BY <1>1, <2>1, LoopFacts
<1>6. Store(bytes)
  BY <1>1, <1>5
<1> HIDE DEF c
<1>7. bytes[1] = c /\ bytes[2] = NUL
  OBVIOUS
<1>8. x \in Seq(Glyph) /\ Len(x) = 1 /\ x[1] = c
  <2>1. c \in Glyph
    BY DigitGlyph DEF c
  <2>2. QED
    BY <2>1
<1>9. ebx' \in 1 .. Len(format) + 1
  BY <1>1, <1>2, <1>4
<1> HIDE DEF bytes, x
<1>10. QED
  BY <1>1, <1>3, <1>4, <1>6, <1>7, <1>8, <1>9, LoopStores

(* A piece of the text, a string or a number, begins. *)
LEMMA PieceBegins ==
  ASSUME KprintfInv, place = "loopStr", place' \in {"convert", "addStr"},
         call' = call, spoilt' = spoilt, interrupted' = interrupted, at' = 1,
         mem' = mem, ecx' = ecx, top' = top,
         NEW u \in UsedBefore(format, args), ebx' \in 1 .. Len(format) + 1, used' = u[ebx'],
         Undisturbed => edx' \in Seq(Glyph) /\ edx' # <<>>,
         Undisturbed => ToFormat = edx' \o TextFrom(format, args, u, ebx')
  PROVE  KprintfInv'
<1> DEFINE t == Formats
           y == TextFrom(format, args, u, ebx')
<1>1. /\ call \in Calls /\ ecx \in Nat /\ place # "idle" /\ place' # "idle" /\ place' # "loopStr"
      /\ KprintfType
  BY DEF KprintfInv, KprintfType
<1>2. KprintfType'
  BY <1>1 DEF KprintfType
<1>3. t \in Seq(Glyph) /\ y \in Seq(Glyph)
  <2>1. Regular(format, args, u)
    BY <1>1, TextFacts
  <2>2. QED
    BY <1>1, <2>1, TextFacts, TextType
<1>4. Formats' = t
  BY SameText
<1>5. ToFormat' = y
  BY ToFormatNext
<1> HIDE DEF t, y
<1>6. ASSUME Undisturbed
      PROVE  /\ Remains' /\ top' <= Len(t) + 2
             /\ ~interrupted => Stored'
  <2>1. Rest(t, ecx, <<>>, 1, edx' \o y) /\ top <= Len(t) + 2
    BY <1>1, <1>6, InCallFacts DEF Remains, t, y
  <2>2. edx' \in Seq(Glyph) /\ edx' # <<>>
    BY <1>6
  <2>3. Rest(t, ecx, edx', 1, y)
    BY <1>1, <1>3, <2>1, <2>2, RestBegins
  <2>4. 1 <= Len(edx')
    BY <2>2
  <2>5. Remains'
    BY <1>1, <1>4, <1>5, <2>2, <2>3, <2>4 DEF Remains
  <2>6. ASSUME ~interrupted PROVE Stored'
    <3>1. Stored
      BY <1>1, <1>6, <2>6, InCallFacts
    <3>2. QED
      BY <1>1, <1>4, <3>1 DEF Stored, t
  <2>7. QED
    BY <2>1, <2>5, <2>6
<1>7. QED
  BY <1>1, <1>2, <1>6, StepGives DEF t

(* What a directive finds: its letter and an argument of its kind. *)
Directive(u, letter, value) ==
    /\ place = "loopStr" /\ ebx \in Nat /\ Len(format) \in Nat /\ used + 1 \in 1 .. Len(args)
    /\ ebx + 1 <= Len(format) /\ ByteAt(format, ebx + 1) = letter
    /\ u[ebx + 2] = used + 1 /\ Matches(letter, value)
    /\ letter \in {"c", "s"} => ToFormat = value \o TextFrom(format, args, u, ebx + 2)
    /\ letter = "x" =>
         /\ ebx + 2 <= Len(format) /\ ByteAt(format, ebx + 2) = format[ebx + 2]
         /\ u[ebx + 3] = used + 1
         /\ ToFormat = itox(value, format[ebx + 2]) \o TextFrom(format, args, u, ebx + 3)
    /\ letter \in {"d", "i"} => ToFormat = itos(value) \o TextFrom(format, args, u, ebx + 2)

LEMMA DirectiveFacts ==
  ASSUME KprintfInv, LoopAt("%")
  PROVE  \E u \in UsedBefore(format, args) : Directive(u, format[ebx + 1], args[used + 1])
<1>0. "%" # NUL
  BY DEF NUL
<1>1. place = "loopStr" /\ Here = "%" /\ place # "idle"
  BY DEF LoopAt
<1>2. ebx \in 1 .. Len(format) /\ format[ebx] = "%" /\ Len(format) \in Nat
  BY <1>0, <1>1, LoopFacts
<1>3. PICK u \in UsedBefore(format, args) :
        /\ Regular(format, args, u) /\ used = u[ebx]
        /\ ToFormat = TextFrom(format, args, u, ebx)
  BY <1>1, InCallFacts
<1>4. TextGoesOn(format, args, u, ebx)
  BY <1>2, <1>3, TextStep
<1>5. /\ ebx + 1 <= Len(format) /\ u[ebx + 2] = used + 1 /\ Matches(format[ebx + 1], args[used + 1])
      /\ format[ebx + 1] \in {"c", "s"} =>
           ToFormat = args[used + 1] \o TextFrom(format, args, u, ebx + 2)
      /\ format[ebx + 1] = "x" =>
           /\ ebx + 2 <= Len(format) /\ u[ebx + 3] = used + 1
           /\ ToFormat = itox(args[used + 1], format[ebx + 2]) \o TextFrom(format, args, u, ebx + 3)
      /\ format[ebx + 1] \in {"d", "i"} =>
           ToFormat = itos(args[used + 1]) \o TextFrom(format, args, u, ebx + 2)
  BY <1>2, <1>3, <1>4 DEF TextGoesOn
<1>6. \A k \in 1 .. Len(format) : ByteAt(format, k) = format[k]
  <2>1. \A k \in 1 .. Len(format) : k \in 1 .. Len(format) + 1 /\ k # Len(format) + 1
    BY <1>2
  <2>2. QED
    BY <1>1, <2>1, LoopFacts
<1>7. ByteAt(format, ebx + 1) = format[ebx + 1]
  BY <1>2, <1>5, <1>6
<1>8. ebx + 2 <= Len(format) => ByteAt(format, ebx + 2) = format[ebx + 2]
  BY <1>2, <1>6
<1>9. used + 1 \in 1 .. Len(args)
  <2>1. \A k \in 1 .. Len(format) + 1 : u[k] \in 0 .. Len(args)
    BY <1>3, UsedType
  <2>2. Len(args) \in Nat
    BY <1>3 DEF Regular
  <2>3. used \in 0 .. Len(args) /\ used + 1 \in 0 .. Len(args)
    BY <1>2, <1>3, <1>5, <2>1
  <2>4. QED
    BY <2>2, <2>3
<1>10. Directive(u, format[ebx + 1], args[used + 1])
  <2> DEFINE letter == format[ebx + 1]
             value == args[used + 1]
  <2>1. ebx \in Nat
    BY <1>2
  <2>2. ByteAt(format, ebx + 1) = letter
    BY <1>7
  <2>3. /\ ebx + 1 <= Len(format) /\ u[ebx + 2] = used + 1 /\ Matches(letter, value)
        /\ letter \in {"c", "s"} => ToFormat = value \o TextFrom(format, args, u, ebx + 2)
        /\ letter = "x" =>
             /\ ebx + 2 <= Len(format) /\ u[ebx + 3] = used + 1
             /\ ToFormat = itox(value, format[ebx + 2]) \o TextFrom(format, args, u, ebx + 3)
        /\ letter \in {"d", "i"} => ToFormat = itos(value) \o TextFrom(format, args, u, ebx + 2)
    BY <1>5
  <2> HIDE DEF letter, value
  <2>4. Directive(u, letter, value)
    BY <1>1, <1>2, <1>8, <1>9, <2>1, <2>2, <2>3 DEF Directive
  <2>5. QED
    BY <2>4 DEF letter, value
<1>11. QED
  BY <1>10

LEMMA ArgKeeps ==
  ASSUME KprintfInv, arg
  PROVE  KprintfInv'
<1> DEFINE letter == format[ebx + 1]
           value == args[used + 1]
<1>0. LoopAt("%")
  BY DEF arg
<1>1. PICK u \in UsedBefore(format, args) : Directive(u, letter, value)
  BY <1>0, DirectiveFacts
<1>2. /\ used' = used + 1 /\ call' = call /\ interrupted' = interrupted /\ spoilt' = spoilt
      /\ \/ /\ letter \notin {"s", "x", "d", "i"}
            /\ Store(<<value[1], NUL, NUL, NUL>>)
            /\ ecx' = ecx + 1 /\ ebx' = ebx + 2
            /\ place' = place /\ edx' = edx /\ at' = at
         \/ /\ letter = "s"
            /\ place' = "addStr" /\ edx' = value /\ at' = 1
            /\ ebx' = ebx + 2
            /\ mem' = mem /\ ecx' = ecx /\ top' = top
         \/ /\ letter \in {"x", "d", "i"}
            /\ place' = "convert" /\ at' = 1
            /\ edx' = IF letter = "x" THEN itox(value, ByteAt(format, ebx + 2)) ELSE itos(value)
            /\ ebx' = IF letter = "x" THEN ebx + 3 ELSE ebx + 2
            /\ mem' = mem /\ ecx' = ecx /\ top' = top
  BY <1>1 DEF arg, inserted, Directive
<1> HIDE DEF letter, value
<1>3. /\ place = "loopStr" /\ ebx \in Nat /\ Len(format) \in Nat /\ used + 1 \in 1 .. Len(args)
      /\ ebx + 1 <= Len(format) /\ u[ebx + 2] = used + 1 /\ Matches(letter, value)
      /\ letter \in {"c", "s"} => ToFormat = value \o TextFrom(format, args, u, ebx + 2)
      /\ letter = "x" =>
           /\ ebx + 2 <= Len(format) /\ ByteAt(format, ebx + 2) = format[ebx + 2]
           /\ u[ebx + 3] = used + 1
           /\ ToFormat = itox(value, format[ebx + 2]) \o TextFrom(format, args, u, ebx + 3)
      /\ letter \in {"d", "i"} => ToFormat = itos(value) \o TextFrom(format, args, u, ebx + 2)
  BY <1>1 DEF Directive
<1>4. /\ letter \in {"c", "s", "x", "d", "i"}
      /\ letter \in {"c", "s"} => value \in Seq(Glyph)
      /\ letter = "c" => Len(value) = 1
      /\ letter = "x" => \A type : itox(value, type) \in Seq(Glyph) /\ itox(value, type) # <<>>
      /\ letter \in {"d", "i"} => itos(value) \in Seq(Glyph) /\ itos(value) # <<>>
  BY <1>3, MatchType
<1>5. CASE letter = "c"
  <2> DEFINE bytes == <<value[1], NUL, NUL, NUL>>
  <2>1. /\ Store(bytes) /\ ecx' = ecx + 1 /\ ebx' = ebx + 2 /\ place' = "loopStr"
        /\ edx' = edx /\ at' = at
    BY <1>3, <1>2, <1>5
  <2>2. value \in Seq(Glyph) /\ Len(value) = 1 /\ ToFormat = value \o TextFrom(format, args, u, ebx')
    BY <1>3, <1>4, <1>5, <2>1
  <2>3. bytes[1] = value[1] /\ bytes[2] = NUL
    OBVIOUS
  <2>4. ebx' \in 1 .. Len(format) + 1 /\ used' = u[ebx']
    BY <1>3, <1>2, <2>1
  <2> HIDE DEF bytes
  <2>5. QED
    BY <1>3, <1>2, <2>1, <2>2, <2>3, <2>4, LoopStores
<1>6. CASE letter = "s"
  <2>1. /\ place' = "addStr" /\ edx' = value /\ at' = 1 /\ ebx' = ebx + 2
        /\ mem' = mem /\ ecx' = ecx /\ top' = top
    BY <1>2, <1>6
  <2>2. edx' \in Seq(Glyph) /\ ToFormat = edx' \o TextFrom(format, args, u, ebx')
    BY <1>3, <1>4, <1>6, <2>1
  <2>3. Undisturbed => edx' # <<>>
    BY <1>3, <2>1 DEF Undisturbed, InsertsEmpty, value
  <2>4. ebx' \in 1 .. Len(format) + 1 /\ used' = u[ebx']
    BY <1>3, <1>2, <2>1
  <2>5. QED
    BY <1>3, <1>2, <2>1, <2>2, <2>3, <2>4, PieceBegins
<1>7. CASE letter = "x"
  <2>1. /\ place' = "convert" /\ at' = 1 /\ ebx' = ebx + 3
        /\ edx' = itox(value, ByteAt(format, ebx + 2))
        /\ mem' = mem /\ ecx' = ecx /\ top' = top
    BY <1>2, <1>7
  <2>2. /\ edx' \in Seq(Glyph) /\ edx' # <<>>
        /\ ToFormat = edx' \o TextFrom(format, args, u, ebx')
    BY <1>3, <1>4, <1>7, <2>1
  <2>3. ebx' \in 1 .. Len(format) + 1 /\ used' = u[ebx']
    BY <1>3, <1>2, <1>7, <2>1
  <2>4. QED
    BY <1>3, <1>2, <2>1, <2>2, <2>3, PieceBegins
<1>8. CASE letter \in {"d", "i"}
  <2>1. /\ place' = "convert" /\ at' = 1 /\ ebx' = ebx + 2 /\ edx' = itos(value)
        /\ mem' = mem /\ ecx' = ecx /\ top' = top
    BY <1>2, <1>8
  <2>2. /\ edx' \in Seq(Glyph) /\ edx' # <<>>
        /\ ToFormat = edx' \o TextFrom(format, args, u, ebx')
    BY <1>3, <1>4, <1>8, <2>1
  <2>3. ebx' \in 1 .. Len(format) + 1 /\ used' = u[ebx']
    BY <1>3, <1>2, <2>1
  <2>4. QED
    BY <1>3, <1>2, <2>1, <2>2, <2>3, PieceBegins
<1>9. QED
  BY <1>4, <1>5, <1>6, <1>7, <1>8

LEMMA ConvertedKeeps ==
  ASSUME KprintfInv, converted
  PROVE  KprintfInv'
<1>1. /\ place = "convert" /\ place' = "addStr" /\ mem' = mem /\ call' = call /\ ebx' = ebx
      /\ ecx' = ecx /\ used' = used /\ edx' = edx /\ at' = at /\ top' = top
      /\ interrupted' = interrupted /\ spoilt' = spoilt
  BY DEF converted, inserted
<1>2. KprintfType'
  BY <1>1 DEF KprintfInv, KprintfType
<1>3. PICK u \in UsedBefore(format, args) : used = u[ebx]
  BY <1>1, InCallFacts
<1>4. Formats' = Formats /\ format' = format /\ args' = args
  BY <1>1, SameText
<1>5. ToFormat' = ToFormat
  BY <1>1, <1>4 DEF ToFormat
<1>6. Undisturbed => Remains' /\ top' <= Len(Formats) + 2
  <2>1. Undisturbed => Remains /\ top <= Len(Formats) + 2
    BY <1>1, InCallFacts
  <2>2. QED
    BY <1>1, <1>4, <1>5, <2>1 DEF Remains
<1>7. Undisturbed /\ ~interrupted => Stored'
  <2>1. Undisturbed /\ ~interrupted => Stored
    BY <1>1, InCallFacts
  <2>2. QED
    BY <1>1, <1>4, <2>1 DEF Stored
<1>8. ebx' \in 1 .. Len(format) + 1 /\ used' = u[ebx'] /\ place # "idle" /\ place' # "idle"
  BY <1>1, <1>3, InCallFacts
<1>9. QED
  BY <1>1, <1>2, <1>6, <1>7, <1>8, StepGives

(* The loop of an inserted string: after its last character the terminator *)
(* ends it.                                                                *)
LEMMA AddStrKeeps ==
  ASSUME KprintfInv, addStr
  PROVE  KprintfInv'
<1> DEFINE t == Formats
           y == ToFormat
           bytes == Dword(edx, at)
<1>1. /\ place = "addStr" /\ Store(bytes) /\ at' = at + 1 /\ ecx' = ecx + 1
      /\ place' = IF ByteAt(edx, at + 1) = NUL THEN "loopStr" ELSE "addStr"
      /\ call' = call /\ ebx' = ebx /\ used' = used /\ edx' = edx
      /\ interrupted' = interrupted /\ spoilt' = spoilt
  BY DEF addStr
<1>2. KprintfType /\ call \in Calls /\ ecx \in Nat /\ at \in Nat /\ place # "idle" /\ place' # "idle"
  BY <1>1 DEF KprintfInv, KprintfType
<1>3. KprintfType'
  <2>1. mem' = [b \in 0 .. 2 * Size - 1 |-> mem'[b]] /\ top' \in Nat
    BY <1>1, <1>2, StoreType
  <2>2. QED
    BY <1>1, <1>2, <2>1 DEF KprintfType
<1>4. PICK u \in UsedBefore(format, args) : used = u[ebx] /\ y \in Seq(Glyph)
  BY <1>1, InCallFacts
<1>5. t \in Seq(Glyph) /\ Len(t) < 2 * Size
  BY <1>2, TextFacts
<1>6. Formats' = t /\ format' = format /\ args' = args
  BY <1>1, SameText
<1>7. ToFormat' = y
  BY <1>1, <1>6 DEF ToFormat
<1>8. bytes[1] = ByteAt(edx, at) /\ bytes[2] = ByteAt(edx, at + 1)
  BY DEF Dword
<1> HIDE DEF t, y, bytes
<1>9. ASSUME Undisturbed
      PROVE  /\ Remains' /\ top' <= Len(t) + 2
             /\ ~interrupted => Stored'
  <2>1. edx \in Seq(Glyph) /\ at <= Len(edx) /\ Rest(t, ecx, edx, at, y) /\ top <= Len(t) + 2
    BY <1>1, <1>2, <1>9, InCallFacts DEF Remains, t, y
  <2>2. t[ecx + 1] = edx[at] /\ ecx + 1 <= Len(t) /\ Rest(t, ecx + 1, edx, at + 1, y)
    BY <1>2, <1>4, <1>5, <2>1, RestGives
  <2>3. bytes[1] = t[ecx + 1]
    BY <1>2, <1>8, <2>1, <2>2, ByteIs
  <2>4. /\ top' <= Len(t) + 2
        /\ mem'[ecx + 1] = bytes[2]
        /\ (\A b \in 0 .. ecx - 1 : mem[b] = t[b + 1]) =>
             \A b \in 0 .. (ecx + 1) - 1 : mem'[b] = t[b + 1]
    BY <1>1, <1>2, <1>5, <2>1, <2>2, <2>3, StoreGives
  <2>5. Remains'
    <3>0. at \in 1 .. Len(edx) /\ Len(edx) \in Nat
      <4>1. at \in 1 .. Len(edx) + 1
        BY <2>1 DEF Rest
      <4>2. QED
        BY <2>1, <4>1
    <3>1. CASE at + 1 <= Len(edx)
      <4>1. edx[at + 1] \in Glyph
        BY <2>1, <3>0, <3>1
      <4>2. ByteAt(edx, at + 1) = edx[at + 1] /\ edx[at + 1] # NUL
        BY <1>2, <2>1, <3>1, <4>1, ByteIs, GlyphNotNUL
      <4>3. place' = "addStr"
        BY <1>1, <4>2
      <4>4. QED
        BY <1>1, <1>6, <1>7, <2>1, <2>2, <3>1, <4>3 DEF Remains
    <3>2. CASE ~(at + 1 <= Len(edx))
      <4>1. at + 1 = Len(edx) + 1
        BY <3>0, <3>2
      <4>2. ByteAt(edx, at + 1) = NUL
        BY <1>2, <2>1, <4>1, ByteIs
      <4>3. Rest(t, ecx + 1, <<>>, 1, y)
        <5>1. ecx + 1 \in Nat /\ at + 1 \in Nat
          BY <1>2
        <5>2. QED
          BY <1>4, <1>5, <2>1, <2>2, <4>1, <5>1, RestEnds
      <4>4. QED
        BY <1>1, <1>6, <1>7, <4>2, <4>3 DEF Remains
    <3>3. QED
      BY <3>1, <3>2
  <2>6. ASSUME ~interrupted PROVE Stored'
    <3>1. Stored
      BY <1>2, <1>9, <2>6, InCallFacts
    <3>2. \A b \in 0 .. ecx' - 1 : mem'[b] = Formats'[b + 1]
      BY <1>1, <1>6, <2>4, <3>1 DEF Stored, t
    <3>3. place' = "loopStr" => mem'[ecx'] = NUL
      BY <1>1, <1>8, <2>4
    <3>4. QED
      BY <3>2, <3>3 DEF Stored
  <2>7. QED
    BY <2>4, <2>5, <2>6
<1>10. ebx' \in 1 .. Len(format) + 1 /\ used' = u[ebx']
  BY <1>1, <1>2, <1>4, InCallFacts
<1>11. QED
  BY <1>1, <1>2, <1>3, <1>9, <1>10, StepGives DEF t

(* What puts prints of a buffer with the text and a terminator behind it. *)
LEMMA TextIs ==
  ASSUME NEW m, NEW t \in Seq(Glyph), Len(t) \in DOMAIN m, m[Len(t)] = NUL,
         DOMAIN m \subseteq Nat, \A b \in 0 .. Len(t) - 1 : m[b] = t[b + 1]
  PROVE  Text(m) = t
<1> DEFINE Ends(k) == m[k] = NUL /\ \A j \in 0 .. k - 1 : m[j] # NUL
           n == CHOOSE k \in DOMAIN m : Ends(k)
<1>1. Len(t) \in Nat
  OBVIOUS
<1>2. \A b \in 0 .. Len(t) - 1 : m[b] # NUL
  <2>1. \A b \in 0 .. Len(t) - 1 : b + 1 \in 1 .. Len(t)
    BY <1>1
  <2>2. \A b \in 0 .. Len(t) - 1 : t[b + 1] \in Glyph
    BY <2>1
  <2>3. QED
    BY <2>2, GlyphNotNUL
<1>3. \E k \in DOMAIN m : Ends(k)
  BY <1>2
<1>4. n \in DOMAIN m /\ Ends(n)
  BY <1>3
<1> HIDE DEF n
<1>5. n \in Nat /\ m[n] = NUL /\ \A j \in 0 .. n - 1 : m[j] # NUL
  BY <1>4
<1>6. n = Len(t)
  <2>1. ~(n < Len(t))
    BY <1>1, <1>2, <1>5
  <2>2. ~(Len(t) < n)
    BY <1>1, <1>5
  <2>3. QED
    BY <1>1, <1>5, <2>1, <2>2
<1>7. Text(m) = [k \in 1 .. Len(t) |-> m[k - 1]]
  BY <1>6 DEF Text, n
<1>8. \A k \in 1 .. Len(t) : m[k - 1] = t[k]
  <2>1. \A k \in 1 .. Len(t) : k - 1 \in 0 .. Len(t) - 1 /\ (k - 1) + 1 = k
    BY <1>1
  <2>2. QED
    BY <2>1
<1>9. t = [k \in 1 .. Len(t) |-> t[k]]
  OBVIOUS
<1>10. QED
  BY <1>7, <1>8, <1>9

(* The call prints its text. *)
LEMMA DoneKeeps ==
  ASSUME KprintfInv, done
  PROVE  KprintfInv'
<1>1. /\ place = "loopStr" /\ Here = NUL /\ shown' = Text(mem) /\ place' = "idle" /\ place # "idle"
      /\ mem' = mem /\ call' = call /\ ebx' = ebx /\ ecx' = ecx /\ used' = used /\ edx' = edx
      /\ at' = at /\ interrupted' = interrupted /\ spoilt' = spoilt /\ top' = top
  BY DEF done, inserted, LoopAt
<1>2. KprintfType /\ KprintfType'
  BY <1>1 DEF KprintfInv, KprintfType
<1>3. /\ Formats' = Formats /\ format' = format /\ args' = args
      /\ InsertsEmpty' = InsertsEmpty /\ Undisturbed' = Undisturbed
  BY <1>1, SameText
<1>4. Undisturbed' => top' <= Len(Formats') + 2
  BY <1>1, <1>3, InCallFacts
<1>5. ASSUME ~interrupted, ~InsertsEmpty PROVE Text(mem) = Formats
  <2>1. Undisturbed
    BY <1>2, <1>5 DEF KprintfType, Undisturbed
  <2>2. Remains /\ Stored
    BY <1>1, <1>5, <2>1, InCallFacts
  <2>3. /\ Formats \in Seq(Glyph) /\ Len(Formats) < 2 * Size /\ Len(Formats) \in Nat /\ ecx \in Nat
        /\ ebx = Len(format) + 1
    <3>1. call \in Calls
      BY <1>2 DEF KprintfType
    <3>2. QED
      BY <1>1, <3>1, LoopFacts, TextFacts
  <2>4. ToFormat = <<>>
    <3>1. PICK u \in UsedBefore(format, args) :
            Regular(format, args, u) /\ ToFormat = TextFrom(format, args, u, ebx)
      BY <1>1, InCallFacts
    <3>2. QED
      BY <2>3, <3>1, TextEnds
  <2>5. ecx = Len(Formats)
    BY <1>1, <2>2, <2>3, <2>4, RestAll DEF Remains
  <2>6. mem[ecx] = NUL /\ \A b \in 0 .. ecx - 1 : mem[b] = Formats[b + 1]
    BY <1>1, <2>2, <2>3 DEF Stored
  <2>7. DOMAIN mem \subseteq Nat /\ Len(Formats) \in DOMAIN mem
    <3>1. DOMAIN mem = 0 .. 2 * Size - 1 /\ Size \in Nat
      BY <1>2, KprintfAssumption DEF KprintfType
    <3>2. QED
      BY <2>3, <3>1
  <2>8. QED
    BY <2>3, <2>5, <2>6, <2>7, TextIs
<1>6. FormatsString'
  BY <1>1, <1>3, <1>5 DEF FormatsString, Formats
<1>7. QED
  BY <1>1, <1>2, <1>4, <1>6 DEF KprintfInv

(* A key in the call ends what is known of the buffer, and of the string   *)
(* that is being converted; outside a call it changes the buffer only.     *)
LEMMA KeyboardKeeps ==
  ASSUME KprintfInv, NEW key \in Keys, keyboard(key)
  PROVE  KprintfInv'
<1>1. /\ mem' = [b \in DOMAIN mem |-> IF b = 0 THEN key ELSE IF b \in 1 .. 3 THEN NUL ELSE mem[b]]
      /\ interrupted' = (interrupted \/ place # "idle")
      /\ place = "convert" => spoilt' = TRUE
      /\ place # "convert" => edx' = edx /\ spoilt' = spoilt
      /\ place' = place /\ call' = call /\ ebx' = ebx /\ ecx' = ecx /\ used' = used
      /\ at' = at /\ shown' = shown /\ top' = top
  BY DEF keyboard
<1>2. KprintfType /\ KprintfType'
  <2>1. KprintfType /\ DOMAIN mem = 0 .. 2 * Size - 1
    BY DEF KprintfInv, KprintfType
  <2>2. mem' = [b \in 0 .. 2 * Size - 1 |-> mem'[b]]
    BY <1>1, <2>1
  <2>3. interrupted' \in BOOLEAN /\ spoilt' \in BOOLEAN /\ (spoilt' => interrupted')
    BY <1>1, <2>1 DEF KprintfType
  <2>4. QED
    BY <1>1, <2>1, <2>2, <2>3 DEF KprintfType
<1>3. /\ Formats' = Formats /\ format' = format /\ args' = args
      /\ InsertsEmpty' = InsertsEmpty
  BY <1>1, SameText
<1>4. Undisturbed' => Undisturbed /\ place # "convert" /\ edx' = edx
  BY <1>1, <1>3 DEF Undisturbed
<1>5. place' # "idle" => InCall'
  <2>1. SUFFICES ASSUME place # "idle" PROVE InCall'
    BY <1>1
  <2>2. ~(Undisturbed' /\ ~interrupted')
    BY <1>1, <2>1
  <2>3. ebx' \in 1 .. Len(format') + 1 /\ \E u \in UsedBefore(format', args') : used' = u[ebx']
    BY <1>1, <1>3, <2>1, InCallFacts
  <2>4. ToFormat' = ToFormat
    BY <1>1, <1>3 DEF ToFormat
  <2>5. Undisturbed' => Remains'
    <3>1. Undisturbed => Remains
      BY <2>1, InCallFacts
    <3>2. QED
      BY <1>1, <1>3, <1>4, <2>4, <3>1 DEF Remains
  <2>6. QED
    BY <2>2, <2>3, <2>5 DEF InCall
<1>6. Undisturbed' => top' <= Len(Formats') + 2
  BY <1>1, <1>3, <1>4 DEF KprintfInv
<1>7. FormatsString'
  BY <1>1, <1>3 DEF KprintfInv, FormatsString, Returned
<1>8. QED
  BY <1>2, <1>5, <1>6, <1>7 DEF KprintfInv

LEMMA KprintfStutters ==
  ASSUME KprintfInv, UNCHANGED kprintfVars
  PROVE  KprintfInv'
<1>1. /\ mem' = mem /\ place' = place /\ call' = call /\ ebx' = ebx /\ ecx' = ecx /\ used' = used
      /\ edx' = edx /\ at' = at /\ shown' = shown /\ interrupted' = interrupted
      /\ spoilt' = spoilt /\ top' = top
  BY DEF kprintfVars
<1>2. /\ Formats' = Formats /\ format' = format /\ args' = args
      /\ InsertsEmpty' = InsertsEmpty /\ Undisturbed' = Undisturbed
  BY <1>1, SameText
<1>3. KprintfType'
  BY <1>1 DEF KprintfInv, KprintfType
<1>4. InCall' = InCall
  <2>1. ToFormat' = ToFormat
    BY <1>1, <1>2 DEF ToFormat
  <2>2. Remains' = Remains /\ Stored' = Stored
    BY <1>1, <1>2, <2>1 DEF Remains, Stored
  <2>3. QED
    BY <1>1, <1>2, <2>2 DEF InCall
<1>5. FormatsString'
  BY <1>1, <1>2 DEF KprintfInv, FormatsString, Returned
<1>6. QED
  BY <1>1, <1>2, <1>3, <1>4, <1>5 DEF KprintfInv

(* The invariant: during a call printBuf holds the part of the text that   *)
(* has been stored, and what the registers still point to is the rest.     *)
THEOREM KprintfInvariant == KprintfSpec => []KprintfInv
<1>1. KprintfInit => KprintfInv
  <2>1. SUFFICES ASSUME KprintfInit PROVE KprintfInv
    OBVIOUS
  <2>2. KprintfType
    BY <2>1 DEF KprintfInit, KprintfType
  <2>3. top <= Len(Formats) + 2
    <3>1. call \in Calls /\ top = 0
      BY <2>1 DEF KprintfInit
    <3>2. Len(Formats) \in Nat
      BY <3>1, TextFacts
    <3>3. QED
      BY <3>1, <3>2
  <2>4. place = "idle" /\ FormatsString
    BY <2>1 DEF KprintfInit, FormatsString, Returned
  <2>5. QED
    BY <2>2, <2>3, <2>4 DEF KprintfInv
<1>2. KprintfInv /\ [KprintfNext]_kprintfVars => KprintfInv'
  <2>1. SUFFICES ASSUME KprintfInv, [KprintfNext]_kprintfVars PROVE KprintfInv'
    OBVIOUS
  <2>2. ASSUME NEW c \in Calls, kprintf(c) PROVE KprintfInv'
    BY <2>1, <2>2, KprintfBegins
  <2>3. CASE normalChar
    BY <2>1, <2>3, NormalKeeps
  <2>4. CASE specialChar
    BY <2>1, <2>4, SpecialKeeps
  <2>5. CASE arg
    BY <2>1, <2>5, ArgKeeps
  <2>6. CASE converted
    BY <2>1, <2>6, ConvertedKeeps
  <2>7. CASE addStr
    BY <2>1, <2>7, AddStrKeeps
  <2>8. CASE done
    BY <2>1, <2>8, DoneKeeps
  <2>9. ASSUME NEW key \in Keys, keyboard(key) PROVE KprintfInv'
    BY <2>1, <2>9, KeyboardKeeps
  <2>10. CASE UNCHANGED kprintfVars
    BY <2>1, <2>10, KprintfStutters
  <2>11. QED
    BY <2>1, <2>2, <2>3, <2>4, <2>5, <2>6, <2>7, <2>8, <2>9, <2>10 DEF KprintfNext, step
<1>3. QED
  BY <1>1, <1>2, PTL DEF KprintfSpec

(* An uninterrupted call prints exactly what its format stands for, for    *)
(* every format, argument and length that fit the two buffers.             *)
THEOREM PrintsFormatted == KprintfSpec => []FormatsString
<1>1. KprintfInv => FormatsString
  BY DEF KprintfInv
<1>2. QED
  BY <1>1, KprintfInvariant, PTL

(* No store of a call whose text leaves three bytes of printBuf free goes  *)
(* beyond it.                                                              *)
THEOREM StoresInBuffer == KprintfSpec => []StaysInBuffer
<1>1. KprintfInv => StaysInBuffer
  <2>1. SUFFICES ASSUME KprintfInv, ~spoilt, ~InsertsEmpty, Len(Formatted(format, args)) <= Size - 3
                 PROVE  top < Size
    BY DEF StaysInBuffer
  <2>2. top <= Len(Formats) + 2 /\ call \in Calls /\ top \in Nat
    BY <2>1 DEF KprintfInv, KprintfType, Undisturbed
  <2>3. Len(Formats) \in Nat /\ Len(Formats) <= Size - 3 /\ Size \in Nat
    BY <2>1, <2>2, TextFacts, KprintfAssumption DEF Formats
  <2>4. QED
    BY <2>2, <2>3
<1>2. QED
  BY <1>1, KprintfInvariant, PTL

-----------------------------------------------------------------------------
(* The screen. *)
USE ScreenAssumption

Bytes == 0 .. ByteMod - 1

TypeOK ==
    /\ vga = [c \in VgaCells |-> vga[c]]
    /\ screen_text_x \in Bytes /\ screen_text_y \in 0 .. Rows - 1
    /\ text_color \in Colors
    /\ pc \in {"idle", "print"} /\ str \in Seq(Chars)
    /\ edi \in Int /\ bl \in Bytes
    /\ keys \in Nat
    /\ isKey \in BOOLEAN /\ astray \in BOOLEAN

(* The address and the position, inside puts and between its calls.  A     *)
(* call of puts starts from the record of the position, so nothing of this *)
(* can be left out.                                                        *)
Position ==
    /\ pc = "print" /\ ~astray => edi = screen_text_y * Cols + bl /\ bl <= Cols
    /\ pc = "idle" => cursor = screen_text_y * Cols + screen_text_x
    /\ pc = "idle" /\ ~astray => screen_text_x <= Cols

ScreenInv == TypeOK /\ Position

-----------------------------------------------------------------------------
(* Rows do not overlap. *)
LEMMA RowGap ==
  ASSUME NEW r \in Int, NEW s \in Int, r < s
  PROVE  r * Cols + Cols <= s * Cols
<1>1. PICK d \in Nat : s = r + 1 + d
  <2>1. s - r - 1 \in Nat /\ s = r + 1 + (s - r - 1)
    OBVIOUS
  <2>2. QED
    BY <2>1
<1>2. s * Cols = r * Cols + Cols + d * Cols
  BY <1>1
<1>3. d * Cols >= 0 /\ r * Cols \in Int /\ d * Cols \in Nat
  OBVIOUS
<1>4. QED
  BY <1>2, <1>3

(* A cell is in one row and one column. *)
LEMMA CellIsUnique ==
  ASSUME NEW r \in Int, NEW s \in Int, NEW c \in 0 .. Cols - 1, NEW d \in 0 .. Cols - 1,
         r * Cols + c = s * Cols + d
  PROVE  r = s /\ c = d
<1>1. r * Cols \in Int /\ s * Cols \in Int /\ c \in Int /\ d \in Int
  OBVIOUS
<1>2. ~(r < s)
  BY <1>1, RowGap
<1>3. ~(s < r)
  BY <1>1, RowGap
<1>4. r = s
  BY <1>2, <1>3
<1>5. QED
  BY <1>1, <1>4

(* What the test for a full row computes. *)
LEMMA Column ==
  ASSUME NEW y \in Nat, NEW b \in 0 .. Cols
  PROVE  (y * Cols + b) % Cols = IF b = Cols THEN 0 ELSE b
<1> DEFINE x == y * Cols + b
           q == x \div Cols
           m == x % Cols
<1>1. Cols \in Nat \ {0} /\ y * Cols \in Nat /\ (y + 1) * Cols = y * Cols + Cols
  OBVIOUS
<1>2. x \in Nat /\ x = y * Cols + b
  BY <1>1
<1> HIDE DEF x
<1>3. q \in Int /\ m \in 0 .. Cols - 1 /\ x = q * Cols + m
  BY <1>1, <1>2
<1> HIDE DEF q, m
<1>4. CASE b = Cols
  <2>1. x = (y + 1) * Cols + 0 /\ 0 \in 0 .. Cols - 1 /\ y + 1 \in Int
    BY <1>1, <1>2, <1>4
  <2>2. m = 0
    BY <1>3, <2>1, CellIsUnique
  <2>3. QED
    BY <1>4, <2>2 DEF m, x
<1>5. CASE b # Cols
  <2>1. b \in 0 .. Cols - 1 /\ y \in Int
    BY <1>5
  <2>2. q * Cols + m = y * Cols + b
    BY <1>2, <1>3
  <2>3. m = b
    BY <1>3, <2>1, <2>2, CellIsUnique
  <2>4. QED
    BY <1>5, <2>3 DEF m, x
<1>6. QED
  BY <1>4, <1>5

(* A byte that stays below the modulus does not wrap. *)
LEMMA SmallByte ==
  ASSUME NEW x \in Nat, x < ByteMod
  PROVE  x % ByteMod = x
  OBVIOUS

LEMMA ByteRange ==
  ASSUME NEW x \in Nat
  PROVE  x % ByteMod \in Bytes
  BY DEF Bytes

-----------------------------------------------------------------------------
(* The numbers the steps compute with. *)
LEMMA Numbers ==
  ASSUME TypeOK
  PROVE  /\ Cols \in Nat \ {0} /\ Rows \in Nat \ {0}
         /\ screen_text_y \in Nat /\ screen_text_y <= Rows - 1
         /\ screen_text_x \in Nat /\ bl \in Nat /\ bl < ByteMod /\ ByteMod \in Nat
         /\ edi \in Int /\ screen_text_y * Cols \in Nat
         /\ (screen_text_y + 1) * Cols = screen_text_y * Cols + Cols
<1>1. screen_text_y \in 0 .. Rows - 1 /\ screen_text_x \in Bytes /\ bl \in Bytes /\ edi \in Int
  BY DEF TypeOK
<1>2. screen_text_y \in Nat
  BY <1>1
<1>3. screen_text_y * Cols \in Nat /\ (screen_text_y + 1) * Cols = screen_text_y * Cols + Cols
  BY <1>2
<1>4. QED
  BY <1>1, <1>2, <1>3 DEF Bytes

(* Where the two records agree the test for a full row finds exactly the   *)
(* full rows, and a character that passes it lands on the screen.          *)
LEMMA NotFull ==
  ASSUME ScreenInv, pc = "print", ~astray
  PROVE  /\ RowFull <=> bl = Cols
         /\ ~RowFull => bl < Cols /\ edi \in VgaCells
<1>1. TypeOK /\ edi = screen_text_y * Cols + bl /\ bl <= Cols
  BY DEF ScreenInv, Position
<1>2. screen_text_y \in Nat /\ bl \in 0 .. Cols
  BY <1>1, Numbers
<1> DEFINE m == edi % Cols
<1>3. m = IF bl = Cols THEN 0 ELSE bl
  BY <1>1, <1>2, Column
<1> HIDE DEF m
<1>4. RowFull <=> bl # 0 /\ m = 0
  BY DEF RowFull, m
<1>5. RowFull <=> bl = Cols
  BY <1>2, <1>3, <1>4
<1>6. ASSUME bl # Cols
      PROVE  bl < Cols /\ edi \in VgaCells
  <2>1. bl < Cols
    BY <1>2, <1>6
  <2>2. screen_text_y * Cols + Cols <= Rows * Cols
    BY <1>1, Numbers, RowGap
  <2>3. Rows * Cols \in Int
    OBVIOUS
  <2>4. QED
    BY <1>1, <2>1, <2>2, <2>3, Numbers DEF VgaCells
<1>7. QED
  BY <1>5, <1>6

(* The invariant gives the property. *)
LEMMA InvGivesAddress == ScreenInv => AddressIsPosition
  BY NotFull DEF ScreenInv, Position, AddressIsPosition, Printing

(* Taking a character off the string. *)
LEMMA StringTail ==
  ASSUME TypeOK, str # <<>>
  PROVE  Tail(str) \in Seq(Chars)
  BY DEF TypeOK

LEMMA InitInv == Init => ScreenInv
<1> SUFFICES ASSUME Init PROVE ScreenInv
  OBVIOUS
<1>1. 0 \in Bytes /\ 0 \in 0 .. Rows - 1 /\ 0 * Cols = 0 /\ <<>> \in Seq(Chars)
  BY DEF Bytes
<1>2. TypeOK
  <2>1. vga = [c \in VgaCells |-> vga[c]]
    BY DEF Init
  <2>2. isKey \in BOOLEAN /\ astray \in BOOLEAN
    BY DEF Init
  <2>3. /\ screen_text_x \in Bytes /\ screen_text_y \in 0 .. Rows - 1
        /\ edi \in Int /\ bl \in Bytes /\ keys \in Nat
    BY <1>1 DEF Init
  <2>4. text_color \in Colors /\ pc \in {"idle", "print"} /\ str \in Seq(Chars)
    BY <1>1 DEF Init
  <2>5. QED
    BY <2>1, <2>2, <2>3, <2>4 DEF TypeOK
<1>3. Position
  BY <1>1 DEF Init, Position
<1>4. QED
  BY <1>2, <1>3 DEF ScreenInv

LEMMA PutsInv ==
  ASSUME ScreenInv, NEW s \in Strings, NEW key \in BOOLEAN, puts(s, key)
  PROVE  ScreenInv'
<1>1. TypeOK /\ Position
  BY DEF ScreenInv
<1>2. s \in Seq(Chars)
  <2>1. PICK n \in 1 .. MaxString : s \in [1 .. n -> Chars]
    BY DEF Strings
  <2>2. QED
    BY <2>1
<1>3. screen_text_y * Cols + screen_text_x \in Int
  BY <1>1, Numbers
<1>4. TypeOK'
  BY <1>1, <1>2, <1>3 DEF puts, TypeOK
<1>5. Position'
  BY <1>1 DEF puts, Position, TypeOK
<1>6. QED
  BY <1>4, <1>5 DEF ScreenInv

LEMMA PutsCharInv == ScreenInv /\ putsChar => ScreenInv'
<1> SUFFICES ASSUME ScreenInv, putsChar PROVE ScreenInv'
  OBVIOUS
<1>1. TypeOK /\ Position /\ pc = "print" /\ str # <<>> /\ ~RowFull
  BY DEF ScreenInv, putsChar, Printing
<1>2. TypeOK'
  <2>1. str' \in Seq(Chars)
    BY <1>1, StringTail DEF putsChar
  <2>2. keys' \in Nat
    BY <1>1 DEF putsChar, KeyCounted, TypeOK
  <2>3. bl' \in Bytes /\ edi' \in Int
    <3>1. bl + 1 \in Nat /\ edi + 1 \in Int
      BY <1>1, Numbers
    <3>2. bl' = (bl + 1) % ByteMod /\ edi' = edi + 1
      BY DEF putsChar
    <3>3. QED
      BY <3>1, <3>2, ByteRange
  <2>4. vga' = [c \in VgaCells |-> vga'[c]]
    BY DEF putsChar, Written
  <2>5. QED
    BY <1>1, <2>1, <2>2, <2>3, <2>4 DEF putsChar, TypeOK
<1>3. Position'
  <2>1. ASSUME ~astray
        PROVE  edi' = screen_text_y * Cols + bl' /\ bl' <= Cols
    <3>1. bl < Cols /\ edi = screen_text_y * Cols + bl
      BY <1>1, <2>1, NotFull DEF Position
    <3>2. bl + 1 \in Nat /\ bl + 1 < ByteMod
      BY <1>1, <3>1, Numbers
    <3>3. bl' = bl + 1
      BY <3>2, SmallByte DEF putsChar
    <3>4. edi' = edi + 1
      BY DEF putsChar
    <3>5. screen_text_y * Cols \in Nat /\ bl \in Nat
      BY <1>1, Numbers
    <3>6. QED
      BY <3>1, <3>3, <3>4, <3>5
  <2>2. UNCHANGED <<pc, astray, screen_text_y>>
    BY DEF putsChar
  <2>3. QED
    BY <1>1, <2>1, <2>2 DEF Position
<1>4. QED
  BY <1>2, <1>3 DEF ScreenInv

LEMMA NewLineFacts ==
  ASSUME TypeOK, AtNewLine
  PROVE  /\ pc = "print" /\ str' \in Seq(Chars) /\ keys' \in Nat
         /\ screen_text_x' = 0 /\ bl' = 0 /\ 0 \in Bytes
<1>1. pc = "print" /\ str # <<>>
  BY DEF AtNewLine, Printing
<1>2. str' \in Seq(Chars)
  BY <1>1, StringTail DEF AtNewLine
<1>3. keys' \in Nat
  BY DEF AtNewLine, KeyCounted, TypeOK
<1>4. QED
  BY <1>1, <1>2, <1>3 DEF AtNewLine, Bytes

LEMMA PutsNewLineInv == ScreenInv /\ putsNewLine => ScreenInv'
<1> SUFFICES ASSUME ScreenInv, putsNewLine PROVE ScreenInv'
  OBVIOUS
<1>1. TypeOK /\ Position /\ AtNewLine
  BY DEF ScreenInv, putsNewLine
<1>2. /\ pc = "print" /\ str' \in Seq(Chars) /\ keys' \in Nat
      /\ screen_text_x' = 0 /\ bl' = 0 /\ 0 \in Bytes
  BY <1>1, NewLineFacts
<1>3. /\ screen_text_y # Rows - 1 /\ screen_text_y' = screen_text_y + 1
      /\ edi' = edi + Cols - bl
      /\ UNCHANGED <<vga, text_color, pc, isKey, astray>>
  BY DEF putsNewLine
<1>4. screen_text_y' \in 0 .. Rows - 1 /\ edi' \in Int
  BY <1>1, <1>3, Numbers
<1>5. TypeOK'
  BY <1>1, <1>2, <1>3, <1>4 DEF TypeOK
<1>6. Position'
  <2>1. ASSUME ~astray
        PROVE  edi' = screen_text_y' * Cols + 0 /\ 0 <= Cols
    <3>1. edi = screen_text_y * Cols + bl
      BY <1>1, <1>2, <2>1 DEF Position
    <3>2. /\ screen_text_y' * Cols = screen_text_y * Cols + Cols
          /\ screen_text_y * Cols \in Nat /\ bl \in Nat /\ Cols \in Nat
      BY <1>1, <1>3, Numbers
    <3>3. QED
      BY <1>3, <3>1, <3>2
  <2>2. QED
    BY <1>2, <1>3, <2>1 DEF Position
<1>7. QED
  BY <1>5, <1>6 DEF ScreenInv

LEMMA ScrollInv == ScreenInv /\ scrollScreen => ScreenInv'
<1> SUFFICES ASSUME ScreenInv, scrollScreen PROVE ScreenInv'
  OBVIOUS
<1>1. TypeOK /\ Position /\ AtNewLine
  BY DEF ScreenInv, scrollScreen
<1>2. /\ pc = "print" /\ str' \in Seq(Chars) /\ keys' \in Nat
      /\ screen_text_x' = 0 /\ bl' = 0 /\ 0 \in Bytes
  BY <1>1, NewLineFacts
<1>3. /\ screen_text_y = Rows - 1 /\ edi' = (Rows - 1) * Cols /\ astray' = FALSE
      /\ UNCHANGED <<screen_text_y, text_color, pc, isKey>>
  BY DEF scrollScreen
<1>4. edi' = screen_text_y' * Cols + 0 /\ edi' \in Int /\ 0 <= Cols
  BY <1>1, <1>3, Numbers
<1>5. vga' = [c \in VgaCells |-> vga'[c]]
  BY DEF scrollScreen
<1>6. TypeOK'
  BY <1>1, <1>2, <1>3, <1>4, <1>5 DEF TypeOK
<1>7. Position'
  BY <1>2, <1>3, <1>4 DEF Position
<1>8. QED
  BY <1>6, <1>7 DEF ScreenInv

LEMMA PutsTabInv == ScreenInv /\ putsTab => ScreenInv'
<1> SUFFICES ASSUME ScreenInv, putsTab PROVE ScreenInv'
  OBVIOUS
<1>1. TypeOK /\ pc = "print" /\ str # <<>>
  BY DEF ScreenInv, putsTab, Printing
<1>2. str' \in Seq(Chars)
  BY <1>1, StringTail DEF putsTab
<1>3. screen_text_x' \in Bytes /\ edi' \in Int
  <2>1. screen_text_x + TabWidth \in Nat /\ edi + TabWidth \in Int
    BY <1>1, Numbers
  <2>2. screen_text_x' = (screen_text_x + TabWidth) % ByteMod /\ edi' = edi + TabWidth
    BY DEF putsTab
  <2>3. QED
    BY <2>1, <2>2, ByteRange
<1>4. keys' \in Nat
  BY <1>1 DEF putsTab, KeyCounted, TypeOK
<1>5. /\ astray' = TRUE
      /\ UNCHANGED <<vga, screen_text_y, text_color, pc, bl, isKey>>
  BY DEF putsTab
<1>6. TypeOK'
  BY <1>1, <1>2, <1>3, <1>4, <1>5 DEF TypeOK
<1>7. Position'
  BY <1>1, <1>5 DEF Position
<1>8. QED
  BY <1>6, <1>7 DEF ScreenInv

(* astray as the outcome of a comparison. *)
LEMMA Comparison ==
  ASSUME NEW x \in Nat, NEW b, b = (x > Cols)
  PROVE  b \in BOOLEAN /\ (~b => x <= Cols)
<1>1. (x > Cols) \in BOOLEAN
  OBVIOUS
<1>2. b \in BOOLEAN
  BY ONLY <1>1, b = (x > Cols), Zenon
<1>3. ~b => ~(x > Cols)
  BY ONLY b = (x > Cols), Zenon
<1>4. QED
  BY <1>2, <1>3

LEMMA PutsDoneInv == ScreenInv /\ putsDone => ScreenInv'
<1> SUFFICES ASSUME ScreenInv, putsDone PROVE ScreenInv'
  OBVIOUS
<1>1. TypeOK
  BY DEF ScreenInv
<1>2. /\ screen_text_x' = bl /\ cursor' = screen_text_y * Cols + screen_text_x'
      /\ pc' = "idle" /\ isKey' = FALSE /\ edi' = 0 /\ bl' = 0
      /\ UNCHANGED <<vga, screen_text_y, text_color, str, keys>>
  BY DEF putsDone, updateCursor
<1>3. bl \in Nat /\ 0 \in Bytes
  BY <1>1, Numbers DEF Bytes
<1>4. astray' \in BOOLEAN /\ (~astray' => bl <= Cols)
  <2>1. astray' = (bl > Cols)
    BY DEF putsDone
  <2>2. QED
    BY <1>3, <2>1, Comparison
<1>5. TypeOK'
  <2>1. screen_text_x' \in Bytes /\ edi' \in Int /\ bl' \in Bytes /\ isKey' \in BOOLEAN
    <3>1. bl \in Bytes
      BY <1>1 DEF TypeOK
    <3>2. isKey' \in BOOLEAN
      BY <1>2
    <3>3. screen_text_x' \in Bytes /\ edi' \in Int /\ bl' \in Bytes
      BY <1>2, <1>3, <3>1
    <3>4. QED
      BY <3>2, <3>3
  <2>2. QED
    BY <1>1, <1>2, <1>4, <2>1 DEF TypeOK
<1>6. Position'
  BY <1>2, <1>4 DEF Position
<1>7. QED
  BY <1>5, <1>6 DEF ScreenInv

(* The byte before screen_text_x. *)
LEMMA BackOne ==
  ASSUME TypeOK
  PROVE  (screen_text_x + ByteMod - 1) % ByteMod =
             IF screen_text_x = 0 THEN ByteMod - 1 ELSE screen_text_x - 1
<1>1. screen_text_x \in Nat /\ screen_text_x < ByteMod /\ ByteMod \in Nat \ {0}
  BY DEF TypeOK, Bytes
<1>2. CASE screen_text_x = 0
  BY <1>1, <1>2
<1>3. CASE screen_text_x # 0
  <2> DEFINE y == screen_text_x - 1
  <2>1. y \in 0 .. ByteMod - 1 /\ screen_text_x + ByteMod - 1 = y + ByteMod
    BY <1>1, <1>3
  <2> HIDE DEF y
  <2>2. (y + ByteMod) % ByteMod = y
    BY <1>1, <2>1
  <2>3. QED
    BY <1>3, <2>1, <2>2 DEF y
<1>4. QED
  BY <1>2, <1>3

LEMMA BackspaceInv == ScreenInv /\ backspace => ScreenInv'
<1> SUFFICES ASSUME ScreenInv, backspace PROVE ScreenInv'
  OBVIOUS
<1> DEFINE x == (screen_text_x + ByteMod - 1) % ByteMod
<1>1. TypeOK
  BY DEF ScreenInv
<1>2. /\ pc = "idle" /\ keys # 0 /\ screen_text_x' = x
      /\ vga' = Written(screen_text_y * Cols + x, Blank)
      /\ cursor' = screen_text_y * Cols + screen_text_x'
      /\ astray' = (x > Cols) /\ keys' = keys - 1
      /\ UNCHANGED <<screen_text_y, text_color, pc, str, edi, bl, isKey>>
  BY DEF backspace, updateCursor
<1>3. x \in Bytes
  <2>1. x = IF screen_text_x = 0 THEN ByteMod - 1 ELSE screen_text_x - 1
    BY <1>1, BackOne
  <2>2. screen_text_x \in 0 .. ByteMod - 1 /\ ByteMod \in Nat \ {0}
    BY <1>1 DEF TypeOK, Bytes
  <2> HIDE DEF x
  <2>3. QED
    BY <2>1, <2>2 DEF Bytes
<1>4. vga' = [c \in VgaCells |-> vga'[c]]
  BY <1>2 DEF Written
<1> HIDE DEF x
<1>5. astray' \in BOOLEAN /\ (~astray' => x <= Cols)
  <2>1. x \in Nat /\ astray' = (x > Cols)
    BY <1>2, <1>3 DEF Bytes
  <2>2. QED
    BY <2>1, Comparison
<1>6. keys' \in Nat
  BY <1>1, <1>2 DEF TypeOK
<1>7. TypeOK'
  BY <1>1, <1>2, <1>3, <1>4, <1>5, <1>6 DEF TypeOK
<1>8. Position'
  BY <1>2, <1>5 DEF Position
<1>9. QED
  BY <1>7, <1>8 DEF ScreenInv

LEMMA SetTextColorInv ==
  ASSUME ScreenInv, NEW color \in Colors, setTextColor(color)
  PROVE  ScreenInv'
<1>1. TypeOK /\ Position
  BY DEF ScreenInv
<1>2. TypeOK'
  BY <1>1 DEF setTextColor, TypeOK
<1>3. Position'
  BY <1>1 DEF setTextColor, Position
<1>4. QED
  BY <1>2, <1>3 DEF ScreenInv

LEMMA NextInv == ScreenInv /\ [Next]_vars => ScreenInv'
<1> SUFFICES ASSUME ScreenInv, [Next]_vars PROVE ScreenInv'
  OBVIOUS
<1>1. CASE \E s \in Strings, key \in BOOLEAN : puts(s, key)
  BY <1>1, PutsInv
<1>2. CASE putsChar
  BY <1>2, PutsCharInv
<1>3. CASE putsNewLine
  BY <1>3, PutsNewLineInv
<1>4. CASE scrollScreen
  BY <1>4, ScrollInv
<1>5. CASE putsTab
  BY <1>5, PutsTabInv
<1>6. CASE putsDone
  BY <1>6, PutsDoneInv
<1>7. CASE backspace
  BY <1>7, BackspaceInv
<1>8. CASE \E color \in Colors : setTextColor(color)
  BY <1>8, SetTextColorInv
<1>9. CASE UNCHANGED vars
  BY <1>9 DEF vars, ScreenInv, TypeOK, Position
<1>10. QED
  BY <1>1, <1>2, <1>3, <1>4, <1>5, <1>6, <1>7, <1>8, <1>9 DEF Next, putsStep

(* ScreenInv is an invariant of the specification. *)
THEOREM ScreenInvariant == Spec => []ScreenInv
  BY InitInv, NextInv, PTL DEF Spec

(* The address puts writes to is the position it records, for every size   *)
(* of the screen and every string, through wrapping and scrolling, and no  *)
(* character is written behind the last row.                               *)
THEOREM AddressRight == Spec => []AddressIsPosition
  BY InvGivesAddress, ScreenInvariant, PTL

-----------------------------------------------------------------------------
(* The refinement: what the memory shows.                                  *)
Display == [r \in 0 .. Rows - 1 |-> [c \in 0 .. Cols - 1 |-> vga[r * Cols + c]]]

LEMMA OnScreen ==
  ASSUME NEW r \in 0 .. Rows - 1, NEW c \in 0 .. Cols - 1
  PROVE  r * Cols + c \in VgaCells
<1>1. r * Cols \in Nat /\ Rows * Cols \in Nat
  OBVIOUS
<1>2. r * Cols + Cols <= Rows * Cols
  BY RowGap
<1>3. QED
  BY <1>1, <1>2 DEF VgaCells

(* Writing a cell of the memory changes one cell of the display. *)
LEMMA CellWritten ==
  ASSUME NEW y \in 0 .. Rows - 1, NEW x \in 0 .. Cols - 1, NEW v,
         vga' = Written(y * Cols + x, v)
  PROVE  Display' = [Display EXCEPT ![y][x] = v]
<1>1. ASSUME NEW r \in 0 .. Rows - 1, NEW c \in 0 .. Cols - 1
      PROVE  Display'[r][c] = IF r = y /\ c = x THEN v ELSE Display[r][c]
  <2>1. r * Cols + c \in VgaCells
    BY OnScreen
  <2>2. vga'[r * Cols + c] = IF r * Cols + c = y * Cols + x THEN v ELSE vga[r * Cols + c]
    BY <2>1 DEF Written
  <2>3. r * Cols + c = y * Cols + x <=> r = y /\ c = x
    <3>1. r \in Int /\ y \in Int
      OBVIOUS
    <3>2. ASSUME r * Cols + c = y * Cols + x
          PROVE  r = y /\ c = x
      BY <3>1, <3>2, CellIsUnique
    <3>3. QED
      BY <3>2
  <2>4. Display'[r][c] = vga'[r * Cols + c] /\ Display[r][c] = vga[r * Cols + c]
    BY DEF Display
  <2>5. QED
    BY <2>2, <2>3, <2>4
<1> DEFINE D == [Display EXCEPT ![y][x] = v]
<1>2. /\ Display' = [r \in 0 .. Rows - 1 |-> Display'[r]]
      /\ \A r \in 0 .. Rows - 1 : Display'[r] = [c \in 0 .. Cols - 1 |-> Display'[r][c]]
      /\ Display = [r \in 0 .. Rows - 1 |-> Display[r]]
      /\ \A r \in 0 .. Rows - 1 : Display[r] = [c \in 0 .. Cols - 1 |-> Display[r][c]]
  BY DEF Display
<1>3. /\ D = [r \in 0 .. Rows - 1 |-> D[r]]
      /\ \A r \in 0 .. Rows - 1 : D[r] = [c \in 0 .. Cols - 1 |-> D[r][c]]
      /\ \A r \in 0 .. Rows - 1, c \in 0 .. Cols - 1 :
           D[r][c] = IF r = y /\ c = x THEN v ELSE Display[r][c]
  BY <1>2
<1> HIDE DEF D
<1>4. ASSUME NEW r \in 0 .. Rows - 1
      PROVE  Display'[r] = D[r]
  <2>1. \A c \in 0 .. Cols - 1 : Display'[r][c] = D[r][c]
    BY <1>1, <1>3
  <2> DEFINE new == Display'[r]
             old == D[r]
  <2>2. new = [c \in 0 .. Cols - 1 |-> new[c]] /\ old = [c \in 0 .. Cols - 1 |-> old[c]]
    BY <1>2, <1>3
  <2>3. \A c \in 0 .. Cols - 1 : new[c] = old[c]
    BY <2>1
  <2> HIDE DEF new, old
  <2>4. new = old
    BY <2>2, <2>3
  <2>5. QED
    BY <2>4 DEF new, old
<1>5. Display' = D
  BY <1>2, <1>3, <1>4
<1>6. QED
  BY <1>5 DEF D

(* A character in a row that is not full. *)
LEMMA CharPuts ==
  ASSUME ScreenInv, putsChar, ~astray
  PROVE  Shown!Put
<1>1. TypeOK /\ pc = "print" /\ edi = screen_text_y * Cols + bl /\ bl <= Cols /\ ~RowFull
  BY DEF ScreenInv, Position, putsChar, Printing
<1>2. bl < Cols /\ bl \in Nat /\ bl \in 0 .. Cols - 1
  BY <1>1, NotFull, Numbers
<1>3. screen_text_y \in 0 .. Rows - 1
  BY <1>1 DEF TypeOK
<1>4. Display' = [Display EXCEPT ![screen_text_y][bl] = text_color]
  BY <1>1, <1>2, <1>3, CellWritten DEF putsChar
<1>5. bl' = bl + 1
  <2>1. bl + 1 \in Nat /\ bl + 1 < ByteMod
    BY <1>2
  <2>2. QED
    BY <2>1, SmallByte DEF putsChar
<1>6. UNCHANGED <<pc, screen_text_y, text_color>>
  BY DEF putsChar
<1>7. QED
  BY <1>1, <1>2, <1>4, <1>5, <1>6 DEF Shown!Put, Display

(* A newline, or a character in a full row, that does not scroll. *)
LEMMA NewLineMoves ==
  ASSUME ScreenInv, putsNewLine
  PROVE  Shown!NewLine
<1>1. TypeOK /\ pc = "print"
  BY DEF ScreenInv, putsNewLine, AtNewLine, Printing
<1>2. screen_text_y \in Nat /\ screen_text_y < Rows - 1
  <2>1. screen_text_y # Rows - 1
    BY DEF putsNewLine
  <2>2. QED
    BY <1>1, <2>1, Numbers
<1>3. /\ bl' = 0 /\ screen_text_y' = screen_text_y + 1
      /\ UNCHANGED <<vga, pc, text_color>>
  BY DEF putsNewLine, AtNewLine
<1>4. QED
  BY <1>1, <1>2, <1>3 DEF Shown!NewLine

(* A newline on the last row moves whole rows. *)
LEMMA ScrollMoves ==
  ASSUME ScreenInv, scrollScreen
  PROVE  Shown!NewLine
<1>1. TypeOK /\ pc = "print"
  BY DEF ScreenInv, scrollScreen, AtNewLine, Printing
<1>2. /\ bl' = 0 /\ screen_text_y = Rows - 1
      /\ UNCHANGED <<pc, text_color, screen_text_y>>
      /\ vga' = [c \in VgaCells |-> IF c < (Rows - 1) * Cols THEN vga[c + Cols] ELSE Blank]
  BY DEF scrollScreen, AtNewLine
<1>3. ASSUME NEW r \in 0 .. Rows - 1, NEW c \in 0 .. Cols - 1
      PROVE  vga'[r * Cols + c] = IF r < Rows - 1 THEN vga[(r + 1) * Cols + c] ELSE Blank
  <2>1. r * Cols + c \in VgaCells
    BY OnScreen
  <2>2. /\ r * Cols \in Nat /\ (Rows - 1) * Cols \in Int
        /\ (r + 1) * Cols + c = r * Cols + c + Cols
    OBVIOUS
  <2>3. CASE r < Rows - 1
    <3>1. r * Cols + Cols <= (Rows - 1) * Cols
      BY <2>3, RowGap
    <3>2. r * Cols + c < (Rows - 1) * Cols
      BY <2>2, <3>1
    <3>3. QED
      BY <1>2, <2>1, <2>2, <2>3, <3>2
  <2>4. CASE ~(r < Rows - 1)
    <3>1. r = Rows - 1
      BY <2>4
    <3>2. ~(r * Cols + c < (Rows - 1) * Cols)
      BY <2>2, <3>1
    <3>3. QED
      BY <1>2, <2>1, <2>4, <3>2
  <2>5. QED
    BY <2>3, <2>4
<1>4. Display' = [r \in 0 .. Rows - 1 |->
                     IF r < Rows - 1 THEN Display[r + 1] ELSE [c \in 0 .. Cols - 1 |-> Blank]]
  <2>1. ASSUME NEW r \in 0 .. Rows - 1
        PROVE  Display'[r] = IF r < Rows - 1 THEN Display[r + 1]
                             ELSE [c \in 0 .. Cols - 1 |-> Blank]
    <3>1. Display'[r] = [c \in 0 .. Cols - 1 |-> vga'[r * Cols + c]]
      BY DEF Display
    <3>2. CASE r < Rows - 1
      <4>1. r + 1 \in 0 .. Rows - 1
        BY <3>2
      <4>2. Display[r + 1] = [c \in 0 .. Cols - 1 |-> vga[(r + 1) * Cols + c]]
        BY <4>1 DEF Display
      <4>3. \A c \in 0 .. Cols - 1 : vga'[r * Cols + c] = vga[(r + 1) * Cols + c]
        BY <1>3, <3>2
      <4>4. QED
        BY <3>1, <3>2, <4>2, <4>3
    <3>3. CASE ~(r < Rows - 1)
      BY <1>3, <3>1, <3>3
    <3>4. QED
      BY <3>2, <3>3
  <2>2. Display' = [r \in 0 .. Rows - 1 |-> Display'[r]]
    BY DEF Display
  <2>3. QED
    BY <2>1, <2>2
<1>5. QED
  BY <1>1, <1>2, <1>4 DEF Shown!NewLine, Shown!BlankRow, Display

(* A backspace that does not wrap the column. *)
LEMMA BackspaceErases ==
  ASSUME ScreenInv, backspace, ~astray, ~astray'
  PROVE  Shown!Erase
<1> DEFINE x == (screen_text_x + ByteMod - 1) % ByteMod
<1>1. TypeOK /\ pc = "idle" /\ screen_text_x <= Cols
  BY DEF ScreenInv, Position, backspace
<1>2. /\ screen_text_x' = x /\ vga' = Written(screen_text_y * Cols + x, Blank)
      /\ UNCHANGED <<pc, screen_text_y, text_color>>
  BY DEF backspace
<1>3. x \in Nat /\ x = IF screen_text_x = 0 THEN ByteMod - 1 ELSE screen_text_x - 1
  <2>1. x = IF screen_text_x = 0 THEN ByteMod - 1 ELSE screen_text_x - 1
    BY <1>1, BackOne
  <2> HIDE DEF x
  <2>2. QED
    BY <1>1, <2>1, Numbers
<1>4. x <= Cols
  <2>1. astray' = (x > Cols)
    BY DEF backspace
  <2> HIDE DEF x
  <2>2. QED
    BY <1>3, <2>1, Comparison
<1> HIDE DEF x
<1>5. /\ screen_text_x \in 1 .. Cols /\ x = screen_text_x - 1 /\ x \in 0 .. Cols - 1
  BY <1>1, <1>3, <1>4, Numbers
<1>6. screen_text_y \in 0 .. Rows - 1
  BY <1>1 DEF TypeOK
<1>7. Display' = [Display EXCEPT ![screen_text_y][x] = Blank]
  BY <1>2, <1>5, <1>6, CellWritten
<1>8. Display' = [Display EXCEPT ![screen_text_y][screen_text_x - 1] = Blank]
  BY <1>5, <1>7
<1>9. QED
  BY <1>1, <1>2, <1>5, <1>8 DEF Shown!Erase, Display

LEMMA StepShown == ScreenInv /\ [Next]_vars => [Shown!Next]_(Shown!vars)
<1> SUFFICES ASSUME ScreenInv, [Next]_vars PROVE [Shown!Next]_(Shown!vars)
  OBVIOUS
<1>1. CASE astray \/ astray'
  BY <1>1 DEF Shown!Next, Shown!Stray
<1>2. CASE ~astray /\ ~astray'
  <2>1. CASE \E s \in Strings, key \in BOOLEAN : puts(s, key)
    BY <2>1 DEF puts, Shown!vars
  <2>2. CASE putsChar
    BY <1>2, <2>2, CharPuts DEF Shown!Next
  <2>3. CASE putsNewLine
    BY <1>2, <2>3, NewLineMoves DEF Shown!Next
  <2>4. CASE scrollScreen
    BY <1>2, <2>4, ScrollMoves DEF Shown!Next
  <2>5. CASE putsTab
    BY <1>2, <2>5 DEF putsTab
  <2>6. CASE putsDone
    <3>1. astray \in BOOLEAN /\ astray' \in BOOLEAN
      BY NextInv DEF ScreenInv, TypeOK
    <3>2. astray' = astray
      BY <1>2, <3>1
    <3>3. /\ pc = "print" /\ pc' = "idle" /\ screen_text_x' = bl
          /\ UNCHANGED <<vga, screen_text_y, text_color>>
      BY <2>6 DEF putsDone
    <3>4. QED
      BY <3>2, <3>3 DEF Shown!vars
  <2>7. CASE backspace
    BY <1>2, <2>7, BackspaceErases DEF Shown!Next
  <2>8. CASE \E c \in Colors : setTextColor(c)
    BY <1>2, <2>8 DEF setTextColor, Shown!Next, Shown!SetColor
  <2>9. CASE UNCHANGED vars
    BY <2>9 DEF vars, Shown!vars
  <2>10. QED
    BY <2>1, <2>2, <2>3, <2>4, <2>5, <2>6, <2>7, <2>8, <2>9 DEF Next, putsStep
<1>3. QED
  BY <1>1, <1>2

LEMMA InitShown == Init => Shown!Init
<1> SUFFICES ASSUME Init PROVE Shown!Init
  OBVIOUS
<1>1. \A r \in 0 .. Rows - 1, c \in 0 .. Cols - 1 : vga[r * Cols + c] = Blank
  BY OnScreen DEF Init
<1>2. QED
  BY <1>1 DEF Init, Shown!Init, Shown!BlankRow

(* The screen implements the terminal: every step of screen.asm is a step  *)
(* of it or leaves what is shown alone, for every size of the screen.      *)
THEOREM ScreenIsTerminal == Spec => IsTerminal
<1>1. Spec => Shown!Init /\ [][Shown!Next]_(Shown!vars)
  BY InitShown, StepShown, ScreenInvariant, PTL DEF Spec
<1>2. QED
  BY <1>1 DEF IsTerminal, Shown!Spec

=============================================================================
