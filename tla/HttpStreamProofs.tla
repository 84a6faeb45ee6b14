------------------------- MODULE HttpStreamProofs -------------------------
(***************************************************************************)
(* Proofs about HttpStream, for any payloads, lengths of messages and      *)
(* bases of the numbers: whatever the transport makes of the writes, what  *)
(* is read is what was written.  Induction is over sets of numbers, since  *)
(* the recursive functions of the parsers are over positions in a text.    *)
(***************************************************************************)
EXTENDS MCHttpStream, WellFoundedInduction, TLAPS

\* The size of an empty chunk, which is the last one.
Zero == <<0>>
USE DEF Zero

-----------------------------------------------------------------------------
(* Induction.                                                              *)

LEMMA Induction ==
  ASSUME NEW S, 0 \in S, \A n \in Nat : n \in S => n + 1 \in S
  PROVE  \A n \in Nat : n \in S
<1>1. SUFFICES ASSUME Nat \ S # {}
               PROVE  FALSE
  OBVIOUS
<1>2. PICK x \in Nat \ S : \A y \in Nat \ S : ~ (<<y, x>> \in OpToRel(<, Nat))
  BY <1>1, WFMin, NatLessThanWellFounded
<1>3. \A y \in Nat \ S : ~ (y < x)
  BY <1>2 DEF OpToRel
<1>4. x # 0 /\ x - 1 \in Nat /\ x - 1 \in S
  BY <1>3
<1>. QED  BY <1>4

LEMMA UpTo ==
  ASSUME NEW N \in Nat, NEW S, 0 \in S,
         \A n \in 0 .. N - 1 : n \in S => n + 1 \in S
  PROVE  \A n \in 0..N : n \in S
<1>. DEFINE T == {n \in Nat : n \in 0..N => n \in S}
<1>1. 0 \in T  OBVIOUS
<1>2. \A n \in Nat : n \in T => n + 1 \in T  OBVIOUS
<1>3. \A n \in Nat : n \in T
  <2>. HIDE DEF T
  <2>. QED  BY <1>1, <1>2, Induction
<1>. QED  BY <1>3

LEMMA LeastIsThere ==
  ASSUME NEW S \in SUBSET Nat, S # {}
  PROVE  \E x \in S : \A y \in S : x <= y
<1>1. PICK x \in S : \A y \in S : ~ (<<y, x>> \in OpToRel(<, Nat))
  BY WFMin, NatLessThanWellFounded
<1>2. \A y \in S : ~ (y < x)
  BY <1>1 DEF OpToRel
<1>. QED  BY <1>2

LEMMA MinIsLeast ==
  ASSUME NEW S \in SUBSET Nat, S # {}
  PROVE  Min(S) \in S /\ \A y \in S : Min(S) <= y
BY LeastIsThere DEF Min

LEMMA MaxOfTwo ==
  ASSUME NEW a \in Int, NEW b \in Int
  PROVE  Max({a, b}) = IF a >= b THEN a ELSE b
BY DEF Max

-----------------------------------------------------------------------------
(* Arithmetic with one base.                                               *)

LEMMA Division ==
  ASSUME NEW r \in Nat \ {0}, NEW n \in Nat
  PROVE  /\ n \div r \in Nat /\ (n % r) \in 0 .. r - 1
         /\ (n \div r) * r + (n % r) = n
OBVIOUS

LEMMA DivideTwice ==
  ASSUME NEW r \in Nat \ {0}, NEW p \in Nat \ {0}, NEW n \in Nat
  PROVE  (n \div p) \div r = n \div (r * p)
OBVIOUS

LEMMA DivideLess ==
  ASSUME NEW r \in Nat \ {0}, NEW n \in Nat, n < r
  PROVE  n \div r = 0 /\ n % r = n
OBVIOUS

LEMMA ByOne ==
  ASSUME NEW n \in Nat
  PROVE  n \div 1 = n
OBVIOUS

LEMMA TimesPositive ==
  ASSUME NEW r \in Nat \ {0}, NEW p \in Nat \ {0}
  PROVE  r * p \in Nat \ {0} /\ p <= r * p
OBVIOUS

LEMMA PowerIs ==
  \A n \in 0..Width : Power[n] = IF n = 0 THEN 1 ELSE Radix * Power[n - 1]
<1>. DEFINE Is(f, k) == f = [n \in 0..k |-> IF n = 0 THEN 1 ELSE Radix * f[n - 1]]
            S == {k \in Nat : \E f : Is(f, k)}
<1>0. Width \in Nat  BY RadixAssumption
<1>1. 0 \in S
  <2>1. Is([n \in 0..0 |-> 1], 0)  OBVIOUS
  <2>. HIDE DEF Is
  <2>. QED  BY <2>1
<1>2. ASSUME NEW k \in Nat, k \in S
      PROVE  k + 1 \in S
  <2>1. PICK f : Is(f, k)
    <3>. HIDE DEF Is
    <3>. QED  BY <1>2
  <2>. DEFINE g == [n \in 0 .. k + 1 |-> IF n = k + 1 THEN Radix * f[k] ELSE f[n]]
  <2>2. ASSUME NEW n \in 0 .. k + 1
        PROVE  g[n] = IF n = 0 THEN 1 ELSE Radix * g[n - 1]
    <3>1. CASE n = 0  BY <2>1, <3>1
    <3>2. CASE n \in 1..k
      <4>1. f[n] = Radix * f[n - 1]  BY <2>1, <3>2
      <4>. QED  BY <3>2, <4>1
    <3>3. CASE n = k + 1  BY <3>3
    <3>. QED  BY <3>1, <3>2, <3>3
  <2>3. Is(g, k + 1)  BY <2>2
  <2>. HIDE DEF Is
  <2>. QED  BY <2>3
<1>3. Width \in S
  <2>. HIDE DEF S
  <2>. QED  BY <1>0, <1>1, <1>2, Induction
<1>4. \E f : Is(f, Width)
  <2>. HIDE DEF Is
  <2>. QED  BY <1>3
<1>5. Is(Power, Width)
  BY <1>4 DEF Power
<1>. QED  BY <1>5

LEMMA PowerIsPositive ==
  \A n \in 0..Width : Power[n] \in Nat \ {0}
<1>. DEFINE S == {n \in 0..Width : Power[n] \in Nat \ {0}}
<1>0. Width \in Nat /\ Radix \in Nat \ {0}  BY RadixAssumption
<1>1. 0 \in S  BY <1>0, PowerIs
<1>2. \A n \in 0 .. Width - 1 : n \in S => n + 1 \in S
  BY <1>0, PowerIs, TimesPositive
<1>. HIDE DEF S
<1>3. \A n \in 0..Width : n \in S
  BY <1>0, <1>1, <1>2, UpTo
<1>. QED  BY <1>3 DEF S

LEMMA HighestIs ==
  Width \in Nat \ {0} /\ Highest \in Nat /\ Power[Width - 1] - 1 <= Highest
<1>1. Width \in 0..Width /\ Width # 0 /\ Width - 1 \in 0..Width /\ Width \in Nat \ {0}
  BY RadixAssumption
<1>2. Power[Width] = Radix * Power[Width - 1]
  BY <1>1, PowerIs
<1>. QED  BY <1>1, <1>2, PowerIsPositive, TimesPositive, RadixAssumption DEF Highest

\* What a word counts in the next one.
Base == Highest + 1

LEMMA BaseIs ==
  /\ Base \in Nat /\ Base >= 2 /\ Highest = Base - 1 /\ Highest \in Nat
  /\ Highest + 1 = Base /\ Word = 0 .. Base - 1
<1>1. Width \in 0..Width /\ Width # 0 /\ Width - 1 \in 0..Width /\ Width \in Nat \ {0}
  BY RadixAssumption
<1>2. Power[Width] = Radix * Power[Width - 1]
  BY <1>1, PowerIs
<1>3. Power[Width] \in Nat /\ Power[Width - 1] \in Nat \ {0} /\ Radix \in 2..10
  BY <1>1, PowerIsPositive, RadixAssumption
<1>4. \A r \in 2..10, p \in Nat \ {0} : r * p >= 2
  OBVIOUS
<1>5. Power[Width] >= 2
  BY <1>2, <1>3, <1>4
<1>. QED  BY <1>3, <1>5 DEF Base, Highest, Word

-----------------------------------------------------------------------------
(* Numbers of one word, which the sizes of chunks and lengths are.         *)

\* What texts consist of.
Byte ==
  {"sp", "cr", "lf", ":", "/", "H", "T", "P", "U", "O", "C", "L", "N", "j",
   "0", "1", "2", "3", "4", "5", "6", "7", "8", "9"}
    \cup UNION {{d[i] : i \in DOMAIN d} : d \in Payloads}

\* Fits into a word with a digit to spare, so that its text is shorter than a
\* full word (http-requests.cpp 24-26).
Small(x) == Width > 1 /\ x \in Nat /\ x < Power[Width - 1]

LEMMA SmallIsWord ==
  ASSUME NEW x, Small(x)
  PROVE  x \in Nat /\ x <= Highest /\ Highest \in Nat
BY HighestIs, PowerIsPositive, RadixAssumption DEF Small

LEMMA PlacesOf ==
  ASSUME NEW x \in Word
  PROVE  /\ Places(x) \in 1..Width /\ x < Power[Places(x)]
         /\ Places(x) = 1 \/ x >= Power[Places(x) - 1]
<1>. DEFINE S == {n \in 1..Width : x < Power[n]}
<1>0. Width \in Nat \ {0} /\ Width \in 1..Width /\ x \in Nat
      /\ \A m \in 0..Width : Power[m] \in Nat
  BY PowerIsPositive, RadixAssumption, BaseIs
<1>1. x < Power[Width]
  BY <1>0 DEF Word
<1>2. Width \in S /\ S \subseteq Nat
  BY <1>0, <1>1
<1>3. PICK n \in S : \A m \in S : n <= m
  <2>. HIDE DEF S
  <2>. QED  BY <1>2, LeastIsThere
<1>4. n = 1 \/ ~ (x < Power[n - 1])
  BY <1>0, <1>3
<1>5. n = 1 \/ x >= Power[n - 1]
  <2>1. n = 1 \/ n - 1 \in 0..Width  BY <1>0
  <2>. QED  BY <1>0, <1>4, <2>1
<1>. QED  BY <1>3, <1>5 DEF Places

LEMMA PlacesAre ==
  ASSUME NEW x, Small(x)
  PROVE  /\ Places(x) \in 1 .. Width - 1
         /\ x < Power[Places(x)]
<1>1. x \in Word
  BY SmallIsWord, BaseIs
<1>2. /\ Places(x) \in 1..Width /\ x < Power[Places(x)]
      /\ Places(x) = 1 \/ x >= Power[Places(x) - 1]
  BY <1>1, PlacesOf
<1>3. Width \in Nat /\ Width > 1 /\ x \in Nat /\ x < Power[Width - 1]
      /\ Power[Width - 1] \in Nat
  BY RadixAssumption, PowerIsPositive DEF Small
<1>4. Places(x) # Width
  BY <1>2, <1>3
<1>. QED  BY <1>2, <1>3, <1>4

LEMMA DigitsAre ==
  /\ \A i \in 0..9 : DigitOf(Numeral[i + 1]) = i
  /\ \A i \in 0..9 : Numeral[i + 1] \notin Space /\ Numeral[i + 1] \in Byte
<1>1. \A i \in 0..9 : DigitOf(Numeral[i + 1]) = i
  BY DEF Numeral, DigitOf
<1>2. \A i \in 0..9 : Numeral[i + 1] \notin Space
  BY DEF Numeral, Space
<1>3. \A i \in 0..9 : Numeral[i + 1] \in Byte
  BY DEF Numeral, Byte
<1>. QED  BY <1>1, <1>2, <1>3

\* The digits of a word, the highest first.
LEMMA WordTextIs ==
  ASSUME NEW x \in Nat, NEW k \in 1..Width
  PROVE  /\ WordText(x, k) \in Seq(Byte) /\ Len(WordText(x, k)) = k
         /\ \A i \in 1..k :
              /\ DigitOf(WordText(x, k)[i]) = (x \div Power[k - i]) % Radix
              /\ WordText(x, k)[i] \in Digits
<1>. DEFINE d(i) == (x \div Power[k - i]) % Radix
<1>0. k \in Nat /\ Width \in Nat \ {0} /\ Radix \in 2..10
  BY RadixAssumption
<1>1. ASSUME NEW i \in 1..k
      PROVE  d(i) \in 0 .. Radix - 1
  <2>1. Power[k - i] \in Nat \ {0}
    BY <1>0, PowerIsPositive
  <2>2. x \div Power[k - i] \in Nat
    BY <1>0, <2>1, Division
  <2>3. \A n \in Nat : (n % Radix) \in 0 .. Radix - 1
    BY <1>0, Division
  <2>. QED  BY <2>2, <2>3
<1>2. WordText(x, k) = [i \in 1..k |-> Numeral[d(i) + 1]]
  BY DEF WordText
<1>3. ASSUME NEW i \in 1..k
      PROVE  /\ Numeral[d(i) + 1] \in Byte
             /\ DigitOf(Numeral[d(i) + 1]) = d(i)
             /\ Numeral[d(i) + 1] \in Digits
  <2>1. d(i) \in 0 .. Radix - 1  BY <1>1
  <2>. HIDE DEF d
  <2>. QED  BY <1>0, <2>1, DigitsAre DEF Digits
<1>4. WordText(x, k) \in Seq(Byte) /\ Len(WordText(x, k)) = k
  <2>. HIDE DEF d
  <2>. QED  BY <1>0, <1>2, <1>3
<1>5. \A i \in 1..k : WordText(x, k)[i] = Numeral[d(i) + 1]
  BY <1>2
<1>. QED  BY <1>3, <1>4, <1>5

\* The text of a small number: its digits.
LEMMA TextIs ==
  ASSUME NEW x, Small(x)
  PROVE  /\ Text(<<x>>) = WordText(x, Places(x))
         /\ Text(<<x>>) \in Seq(Byte) /\ Len(Text(<<x>>)) = Places(x)
         /\ \A i \in 1..Places(x) :
              /\ DigitOf(Text(<<x>>)[i]) = (x \div Power[Places(x) - i]) % Radix
              /\ Text(<<x>>)[i] \in Digits /\ Text(<<x>>)[i] \notin Space
<1>. DEFINE k == Places(x)
            t == WordText(x, k)
<1>1. /\ t \in Seq(Byte) /\ Len(t) = k
      /\ \A i \in 1..k : DigitOf(t[i]) = (x \div Power[k - i]) % Radix /\ t[i] \in Digits
  <2>1. k \in 1..Width /\ x \in Nat
    BY PlacesAre, RadixAssumption DEF Small
  <2>. HIDE DEF k
  <2>. QED  BY <2>1, WordTextIs
<1>2. FlattenSeq([i \in 1 .. Len(<<x>>) - 1 |-> WordText(<<x>>[i + 1], Width)]) = <<>>
  BY DEF FlattenSeq
<1>3. Text(<<x>>) = t
  BY <1>1, <1>2 DEF Text
<1>4. ASSUME NEW c \in Digits
      PROVE  c \notin Space
  <2>1. PICK i \in 1..Radix : c = Numeral[i]
    BY DEF Digits
  <2>2. i - 1 \in 0..9 /\ (i - 1) + 1 = i
    BY RadixAssumption
  <2>. QED  BY <2>1, <2>2, DigitsAre
<1>. QED  BY <1>1, <1>3, <1>4

\* What NumberOf computes, digit by digit.
LEMMA NumberRuns ==
  ASSUME NEW text \in Seq(Byte), NEW radix
  PROVE  \E f : /\ f[0] = 0
                /\ \A i \in 1..Len(text) : f[i] = f[i - 1] * radix + DigitOf(text[i])
                /\ NumberOf(text, radix) = f[Len(text)]
<1>. DEFINE n == Len(text)
            Is(f, k) == f = [i \in 0..k |-> IF i = 0 THEN 0
                                            ELSE f[i - 1] * radix + DigitOf(text[i])]
            S == {k \in Nat : \E f : Is(f, k)}
<1>0. n \in Nat  OBVIOUS
<1>1. 0 \in S
  <2>1. Is([i \in 0..0 |-> 0], 0)  OBVIOUS
  <2>. HIDE DEF Is
  <2>. QED  BY <2>1
<1>2. ASSUME NEW k \in Nat, k \in S
      PROVE  k + 1 \in S
  <2>1. PICK f : Is(f, k)
    <3>. HIDE DEF Is
    <3>. QED  BY <1>2
  <2>. DEFINE g == [i \in 0 .. k + 1 |->
                      IF i = k + 1 THEN f[k] * radix + DigitOf(text[i]) ELSE f[i]]
  <2>2. ASSUME NEW i \in 0 .. k + 1
        PROVE  g[i] = IF i = 0 THEN 0 ELSE g[i - 1] * radix + DigitOf(text[i])
    <3>1. CASE i = 0  BY <2>1, <3>1
    <3>2. CASE i \in 1..k
      <4>1. f[i] = f[i - 1] * radix + DigitOf(text[i])  BY <2>1, <3>2
      <4>. QED  BY <3>2, <4>1
    <3>3. CASE i = k + 1  BY <3>3
    <3>. QED  BY <3>1, <3>2, <3>3
  <2>3. Is(g, k + 1)  BY <2>2
  <2>. HIDE DEF Is
  <2>. QED  BY <2>3
<1>3. n \in S
  <2>. HIDE DEF S, n
  <2>. QED  BY <1>0, <1>1, <1>2, Induction
<1>4. PICK f : Is(f, n) /\ f = CHOOSE g : Is(g, n)
  <2>1. \E f : Is(f, n)
    <3>. HIDE DEF Is, n
    <3>. QED  BY <1>3
  <2>. HIDE DEF Is
  <2>. QED  BY <2>1
<1>5. NumberOf(text, radix) = f[n]
  BY <1>4, Zenon DEF NumberOf
<1>6. f[0] = 0 /\ \A i \in 1..n : f[i] = f[i - 1] * radix + DigitOf(text[i])
  <2>1. \A i \in 0..n : f[i] = IF i = 0 THEN 0 ELSE f[i - 1] * radix + DigitOf(text[i])
    BY <1>4
  <2>. HIDE DEF n
  <2>. QED  BY <1>0, <2>1
<1>. WITNESS f
<1>. QED  BY <1>5, <1>6

\* The value of the first i digits is the number without the others.
LEMMA WordIsRead ==
  ASSUME NEW x \in Nat, NEW k \in 1..Width, x < Power[k]
  PROVE  /\ NumberOf(WordText(x, k), Radix) = x
         /\ Scanned(WordText(x, k)) = x /\ Readable(WordText(x, k))
<1>. DEFINE t == WordText(x, k)
<1>0. /\ k \in 1..Width /\ k \in Nat /\ x \in Nat /\ x < Power[k]
      /\ Width \in Nat \ {0} /\ Radix \in Nat \ {0}
      /\ Len(t) = k /\ t \in Seq(Byte)
      /\ \A i \in 1..k : /\ DigitOf(t[i]) = (x \div Power[k - i]) % Radix
                         /\ t[i] \in Digits
  BY WordTextIs, RadixAssumption
<1>1. PICK f : /\ f[0] = 0
               /\ \A i \in 1..k : f[i] = f[i - 1] * Radix + DigitOf(t[i])
               /\ NumberOf(t, Radix) = f[k]
  <2>. HIDE DEF t
  <2>. QED  BY <1>0, NumberRuns
<1>. HIDE DEF t
<1>. DEFINE S == {i \in 0..k : f[i] = x \div Power[k - i]}
<1>2. 0 \in S
  <2>1. Power[k] \in Nat \ {0}
    BY <1>0, PowerIsPositive
  <2>2. x \div Power[k] = 0
    BY <1>0, <2>1, DivideLess
  <2>. QED  BY <1>0, <1>1, <2>2
<1>3. ASSUME NEW i \in 0 .. k - 1, i \in S
      PROVE  i + 1 \in S
  <2>. DEFINE p == Power[k - i - 1]
              m == x \div p
  <2>1. p \in Nat \ {0} /\ Power[k - i] = Radix * p
    BY <1>0, PowerIs, PowerIsPositive
  <2>2. f[i] = x \div Power[k - i]
    BY <1>3
  <2>3. x \div Power[k - i] = m \div Radix
    <3>. HIDE DEF p
    <3>1. (x \div p) \div Radix = x \div (Radix * p)
      BY <1>0, <2>1, DivideTwice
    <3>. QED  BY <2>1, <3>1
  <2>4. f[i + 1] = f[i] * Radix + DigitOf(t[i + 1])
    BY <1>0, <1>1
  <2>5. DigitOf(t[i + 1]) = m % Radix
    <3>1. k - (i + 1) = k - i - 1  BY <1>0
    <3>. QED  BY <1>0, <3>1
  <2>6. m \in Nat
    <3>. HIDE DEF p
    <3>. QED  BY <1>0, <2>1, Division
  <2>7. f[i + 1] = m
    <3>. HIDE DEF m
    <3>1. f[i + 1] = (m \div Radix) * Radix + (m % Radix)
      BY <2>2, <2>3, <2>4, <2>5
    <3>. QED  BY <1>0, <2>6, <3>1, Division
  <2>8. k - (i + 1) = k - i - 1 /\ i + 1 \in 0..k
    BY <1>0
  <2>. QED  BY <2>7, <2>8
<1>4. k \in S
  <2>. HIDE DEF S
  <2>1. \A i \in 0 .. k - 1 : i \in S => i + 1 \in S
    BY <1>3
  <2>2. \A i \in 0..k : i \in S
    BY <1>0, <1>2, <2>1, UpTo
  <2>. QED  BY <1>0, <2>2
<1>5. f[k] = x \div Power[0] /\ Power[0] = 1
  <2>1. k - k = 0 /\ 0 \in 0..Width  BY <1>0
  <2>. QED  BY <1>4, <2>1, PowerIs
<1>6. NumberOf(t, Radix) = x
  BY <1>0, <1>1, <1>5, ByOne
<1>7. Leading(t) = 0
  <2>1. {i \in 1..Len(t) : t[i] \notin Digits} = {}
    BY <1>0
  <2>. QED  BY <2>1 DEF Leading, SelectInSeq
<1>8. Scanned(t) = x
  BY <1>6, <1>7 DEF Scanned
<1>9. Readable(t)
  BY <1>0 DEF Readable
<1>. QED  BY <1>6, <1>8, <1>9 DEF t

LEMMA TextIsRead ==
  ASSUME NEW x, Small(x)
  PROVE  NumberOf(Text(<<x>>), Radix) = x
<1>1. Places(x) \in 1..Width /\ x \in Nat /\ x < Power[Places(x)]
  BY PlacesAre, RadixAssumption DEF Small
<1>. QED  BY <1>1, TextIs, WordIsRead

\* A small number is read back as it was written.
LEMMA HexReadsText ==
  ASSUME NEW x, Small(x)
  PROVE  ~ HexFails(Text(<<x>>)) /\ Hex(Text(<<x>>)) = <<x>>
<1>. DEFINE t == Text(<<x>>)
            k == Places(x)
<1>0. /\ k \in 1 .. Width - 1 /\ Width \in Nat \ {0}
      /\ Len(t) = k /\ t \in Seq(Byte)
  BY PlacesAre, TextIs, RadixAssumption DEF Small
<1>1. \A i \in 1..k : t[i] \in Digits
  BY TextIs
<1>2. NumberOf(t, Radix) = x
  BY TextIsRead
<1>. HIDE DEF t, k
<1>3. k % Width = k /\ k \div Width = 0
  BY <1>0, DivideLess
<1>4. SubSeq(t, 1, k) = t
  BY <1>0
<1>5. Partition(t) = [i \in 1..1 |-> t]
  BY <1>0, <1>3, <1>4 DEF Partition
<1>6. Leading(t) = 0
  <2>1. {i \in 1..Len(t) : t[i] \notin Digits} = {}
    BY <1>0, <1>1
  <2>. QED  BY <2>1 DEF Leading, SelectInSeq
<1>7. Scanned(t) = x
  BY <1>2, <1>6 DEF Scanned
<1>8. Readable(t)
  BY <1>0, <1>1 DEF Readable
<1>9. ~ HexFails(t)
  BY <1>5, <1>8 DEF HexFails
<1>10. Hex(t) = <<x>>
  BY <1>5, <1>7 DEF Hex
<1>. QED  BY <1>9, <1>10 DEF t

\* One word added to one word that leaves no carry.
LEMMA PlusOfWords ==
  ASSUME NEW x \in Nat, NEW y \in Nat, x + y <= Highest, Highest \in Nat
  PROVE  Plus(<<x>>, <<y>>) = <<x + y>>
<1>. DEFINE st == [num |-> <<x>>, carry |-> 0]
            g == [k \in 0..1 |-> IF k = 0 THEN st ELSE AddWord(st, y, 0)]
            Is(f) == f = [k \in 0..1 |->
                            IF k = 0 THEN [num |-> <<x>>, carry |-> 0]
                            ELSE AddWord(f[k - 1], <<y>>[1 - k + 1], k - 1)]
<1>1. AddWord(st, y, 0) = [num |-> <<x + y>>, carry |-> 0]
  <2>1. y % (Highest + 1) = y /\ (x + y) % (Highest + 1) = x + y
    BY DivideLess
  <2>2. y + st.carry = y /\ ~ (st.carry > Highest - y) /\ ~ (y > Highest - st.num[1])
    OBVIOUS
  <2>3. Len(st.num) - 0 = 1 /\ st.num[1] = x
    OBVIOUS
  <2>4. [st.num EXCEPT ![1] = (st.num[1] + y) % (Highest + 1)] = <<x + y>>
    BY <2>1
  <2>5. st.carry = 0  OBVIOUS
  <2>. HIDE DEF st
  <2>. DEFINE tmp == (y + st.carry) % (Highest + 1)
              at == Len(st.num) - 0
  <2>6. tmp = y /\ at = 1 /\ ~ (at < 1)
    <3>1. y + st.carry = y /\ Len(st.num) - 0 = 1
      BY <2>2, <2>3
    <3>2. tmp = y
      BY <2>1, <3>1, Zenon
    <3>3. at = 1
      BY <3>1, Zenon
    <3>. HIDE DEF tmp, at
    <3>. QED  BY <3>2, <3>3
  <2>7. AddWord(st, y, 0) =
          [num |-> IF at < 1 THEN <<tmp>> \o st.num
                   ELSE [st.num EXCEPT ![at] = (st.num[at] + tmp) % (Highest + 1)],
           carry |-> IF at >= 1 /\ tmp > Highest - st.num[at] THEN 1
                     ELSE IF st.carry > Highest - y THEN 1 ELSE 0]
    BY DEF AddWord
  <2>. HIDE DEF tmp, at
  <2>. QED  BY <2>2, <2>4, <2>6, <2>7
<1>2. Is(g)
  <2>. HIDE DEF st
  <2>1. \A k \in 0..1 : k # 0 => k = 1 /\ k - 1 = 0 /\ <<y>>[1 - k + 1] = y /\ g[k - 1] = st
    OBVIOUS
  <2>2. g[0] = st
    OBVIOUS
  <2>. QED  BY <2>1, <2>2 DEF st
<1>3. \A f : Is(f) => f[1] = AddWord(st, y, 0)
  <2>. SUFFICES ASSUME NEW f, Is(f)  PROVE f[1] = AddWord(st, y, 0)
    OBVIOUS
  <2>1. f[0] = st /\ f[1] = AddWord(f[0], <<y>>[1], 0)
    OBVIOUS
  <2>. QED  BY <2>1
<1>4. PICK f : Is(f) /\ f = CHOOSE h : Is(h)
  <2>. HIDE DEF Is, g
  <2>. QED  BY <1>2
<1>5. Len(<<y>>) = 1  OBVIOUS
<1>6. Plus(<<x>>, <<y>>) = IF f[1].carry > 0 THEN <<f[1].carry>> \o f[1].num ELSE f[1].num
  BY <1>4, <1>5 DEF Plus
<1>7. f[1] = [num |-> <<x + y>>, carry |-> 0]
  <2>. HIDE DEF Is, st
  <2>. QED  BY <1>1, <1>3, <1>4
<1>. QED  BY <1>6, <1>7

LEMMA TimesOfZero ==
  ASSUME Highest \in Nat
  PROVE  Times(<<0>>) = <<0>>
<1>. DEFINE Is(f, k) == f = [i \in 1..k |-> IF i = 1 THEN <<0>> ELSE Plus(f[i - 1], <<0>>)]
            z == [i \in 1..Decimal |-> <<0>>]
<1>0. Decimal \in 2..10  BY RadixAssumption
<1>1. Plus(<<0>>, <<0>>) = <<0>>
  BY PlusOfWords
<1>2. Is(z, Decimal)
  BY <1>0, <1>1
<1>3. PICK f : Is(f, Decimal) /\ f = CHOOSE g : Is(g, Decimal)
  <2>. HIDE DEF Is, z
  <2>. QED  BY <1>2
<1>4. Times(<<0>>) = f[Decimal]
  BY <1>3 DEF Times
<1>. DEFINE S == {i \in 0 .. Decimal - 1 : f[i + 1] = <<0>>}
<1>5. 0 \in S
  BY <1>0, <1>3
<1>6. \A i \in 0 .. Decimal - 2 : i \in S => i + 1 \in S
  <2>1. \A i \in 2..Decimal : f[i] = Plus(f[i - 1], <<0>>)
    BY <1>0, <1>3
  <2>. HIDE DEF Is
  <2>. QED  BY <1>0, <1>1, <2>1
<1>7. Decimal - 1 \in S
  <2>. HIDE DEF S, Is
  <2>1. \A i \in 0 .. Decimal - 1 : i \in S
    BY <1>0, <1>5, <1>6, UpTo
  <2>. QED  BY <1>0, <2>1
<1>. QED  BY <1>0, <1>4, <1>7

\* A length of one digit is read as it is.
LEMMA DecReadsDigit ==
  ASSUME NEW x \in 0..9, Small(x)
  PROVE  Dec(<<Numeral[x + 1]>>) = <<x>>
<1>. DEFINE t == <<Numeral[x + 1]>>
            Is(f) == f = [i \in 0..1 |-> IF i = 0 THEN <<0>>
                                         ELSE Plus(Times(f[i - 1]), <<DigitOf(t[i])>>)]
            g == [i \in 0..1 |-> IF i = 0 THEN <<0>> ELSE <<x>>]
<1>1. Times(<<0>>) = <<0>> /\ Plus(<<0>>, <<x>>) = <<x>>
  BY SmallIsWord, PlusOfWords, TimesOfZero
<1>2. Len(t) = 1 /\ DigitOf(t[1]) = x
  BY DigitsAre
<1>. HIDE DEF t
<1>3. Is(g)
  BY <1>1, <1>2
<1>4. PICK f : Is(f) /\ f = CHOOSE h : Is(h)
  <2>. HIDE DEF Is, g
  <2>. QED  BY <1>3
<1>5. Dec(t) = f[1]
  BY <1>2, <1>4 DEF Dec
<1>6. f[0] = <<0>> /\ f[1] = Plus(Times(f[0]), <<DigitOf(t[1])>>)
  BY <1>4
<1>. QED  BY <1>1, <1>2, <1>5, <1>6 DEF t

\* Numbers of one word are compared and counted as what they are.
LEMMA WordsCount ==
  ASSUME NEW x \in Nat, NEW y \in Nat
  PROVE  /\ Less(<<x>>, <<y>>) <=> x < y
         /\ x < Highest /\ Highest \in Nat => Increment(<<x>>) = <<x + 1>>
<1>1. Less(<<x>>, <<y>>) <=> x < y
  <2>1. Len(<<x>>) = 1 /\ Len(<<y>>) = 1 /\ <<x>>[1] = x /\ <<y>>[1] = y
    OBVIOUS
  <2>2. ASSUME NEW a, NEW b, Len(a) = 1, Len(b) = 1
        PROVE  Less(a, b) <=> a[1] < b[1]
    BY <2>2 DEF Less
  <2>. QED  BY <2>1, <2>2
<1>2. ASSUME x < Highest, Highest \in Nat
      PROVE  Increment(<<x>>) = <<x + 1>>
  <2>. DEFINE kept == {i \in 1..Len(<<x>>) : <<x>>[i] # Highest}
  <2>1. kept = {1} /\ Len(<<x>>) = 1
    BY <1>2
  <2>2. (CHOOSE i \in kept : \A j \in kept : j <= i) = 1
    BY <2>1
  <2>3. [i \in 1..1 |-> IF i > 1 THEN 0 ELSE IF i = 1 THEN <<x>>[i] + 1 ELSE <<x>>[i]]
          = <<x + 1>>
    OBVIOUS
  <2>4. Increment(<<x>>) =
          (IF 1 = 0 THEN <<1>> ELSE <<>>)
            \o [i \in 1..1 |-> IF i > 1 THEN 0 ELSE IF i = 1 THEN <<x>>[i] + 1 ELSE <<x>>[i]]
    BY <2>1, <2>2, Zenon DEF Increment
  <2>. QED  BY <2>3, <2>4
<1>. QED  BY <1>1, <1>2

-----------------------------------------------------------------------------
(* Texts put together from a few parts.                                    *)

LEMMA FlattenNone ==
  FlattenSeq(<<>>) = <<>>
BY DEF FlattenSeq

LEMMA FlattenOne ==
  ASSUME NEW s, Len(s) = 1
  PROVE  FlattenSeq(s) = s[1]
<1>. DEFINE Is(f) == f = [i \in 1..1 |-> IF i = 1 THEN s[i] ELSE f[i - 1] \o s[i]]
<1>1. Is([i \in 1..1 |-> s[1]])
  OBVIOUS
<1>2. PICK f : Is(f) /\ f = CHOOSE g : Is(g)
  <2>. HIDE DEF Is
  <2>. QED  BY <1>1
<1>3. FlattenSeq(s) = f[1]
  BY <1>2, Len(s) # 0 DEF FlattenSeq
<1>. QED  BY <1>2, <1>3

LEMMA FlattenTwo ==
  ASSUME NEW s, Len(s) = 2
  PROVE  FlattenSeq(s) = s[1] \o s[2]
<1>. DEFINE Is(f) == f = [i \in 1..2 |-> IF i = 1 THEN s[i] ELSE f[i - 1] \o s[i]]
<1>1. Is([i \in 1..2 |-> IF i = 1 THEN s[1] ELSE s[1] \o s[2]])
  OBVIOUS
<1>2. PICK f : Is(f) /\ f = CHOOSE g : Is(g)
  <2>. HIDE DEF Is
  <2>. QED  BY <1>1
<1>3. FlattenSeq(s) = f[2]
  BY <1>2, Len(s) # 0 DEF FlattenSeq
<1>4. f[1] = s[1] /\ f[2] = f[1] \o s[2]
  BY <1>2
<1>. QED  BY <1>3, <1>4

LEMMA FlattenThree ==
  ASSUME NEW s, Len(s) = 3
  PROVE  FlattenSeq(s) = (s[1] \o s[2]) \o s[3]
<1>. DEFINE Is(f) == f = [i \in 1..3 |-> IF i = 1 THEN s[i] ELSE f[i - 1] \o s[i]]
<1>1. Is([i \in 1..3 |-> IF i = 1 THEN s[1] ELSE IF i = 2 THEN s[1] \o s[2]
                         ELSE (s[1] \o s[2]) \o s[3]])
  OBVIOUS
<1>2. PICK f : Is(f) /\ f = CHOOSE g : Is(g)
  <2>. HIDE DEF Is
  <2>. QED  BY <1>1
<1>3. FlattenSeq(s) = f[3]
  BY <1>2, Len(s) # 0 DEF FlattenSeq
<1>4. f[1] = s[1] /\ f[2] = f[1] \o s[2] /\ f[3] = f[2] \o s[3]
  <2>. DEFINE J(x, y) == x \o y
  <2>1. \A i \in 1..3 : f[i] = IF i = 1 THEN s[i] ELSE J(f[i - 1], s[i])
    BY <1>2
  <2>. HIDE DEF J, Is
  <2>2. f[1] = s[1] /\ f[2] = J(f[1], s[2]) /\ f[3] = J(f[2], s[3])
    BY ONLY <2>1
  <2>. QED  BY <2>2 DEF J
<1>. QED  BY <1>3, <1>4

-----------------------------------------------------------------------------
(* Where the reader is after each byte of a first line.                    *)

Role(k) == IF k \in {"put", "post"} THEN "request" ELSE "response"
Kinds == {"put", "created", "refused", "post"}

StatusOf(k) == CASE k = "created" -> Created [] k = "refused" -> NotFound [] OTHER -> <<>>

Lead(k) ==
  CASE k = "put" ->
         <<"P", "U", "sp", "/", "sp", "H", "T", "T", "P", "/", "1", "cr", "lf">>
    [] k = "post" ->
         <<"P", "O", "sp", "/", "sp", "H", "T", "T", "P", "/", "1", "cr", "lf">>
    [] k = "created" ->
         <<"H", "T", "T", "P", "/", "1", "sp", "2", "1", "sp", "C", "cr", "lf">>
    [] k = "refused" ->
         <<"H", "T", "T", "P", "/", "1", "sp", "4", "4", "sp", "C", "cr", "lf">>

LineAt(k) ==
  IF Role(k) = "request"
  THEN <<"verb", "verb_buf", "verb_buf", "route", "route_buf", "find", "find", "find",
         "find", "find", "version", "version", "eol", "done">>
  ELSE <<"find", "find", "find", "find", "find", "version", "version", "status",
         "status_buf", "status_buf", "eol", "eol", "eol", "done">>

FoundAt(k) ==
  IF Role(k) = "request" THEN <<0, 0, 0, 0, 0, 0, 1, 2, 3, 4, 5, 5, 5, 5>>
  ELSE <<0, 1, 2, 3, 4, 5, 5, 5, 5, 5, 5, 5, 5, 5>>

StatusAt(k, i) ==
  IF Role(k) = "request" \/ i < 8 THEN <<>>
  ELSE IF i = 8 THEN <<StatusOf(k)[1]>> ELSE StatusOf(k)

Reading(k, line, found, status, headers, nh, chunks, nc, sized) ==
  [kind |-> Role(k), line |-> line, found |-> found, status |-> status,
   headers |-> headers, chunks |-> chunks, nh |-> nh, nc |-> nc, sized |-> sized,
   stray |-> FALSE, fault |-> FALSE]

InLead(k, i) ==
  Reading(k, LineAt(k)[i + 1], FoundAt(k)[i + 1], StatusAt(k, i),
          <<NoHeader>>, 0, <<NoChunk>>, 0, FALSE)

LEMMA Thirteen ==
  ASSUME NEW S, NEW s \in Seq(S), Len(s) = 13
  PROVE  s = <<s[1], s[2], s[3], s[4], s[5], s[6], s[7], s[8], s[9], s[10], s[11],
               s[12], s[13]>>
OBVIOUS

LEMMA LeadIsWritten ==
  /\ Request(<<"P", "U">>) = Lead("put") /\ Request(<<"P", "O">>) = Lead("post")
  /\ Response(Created) = Lead("created") /\ Response(NotFound) = Lead("refused")
<1>1. Request(<<"P", "U">>) = Lead("put")
  <2>. DEFINE x == Request(<<"P", "U">>)
  <2>1. x \in Seq(Byte) /\ Len(x) = 13
    BY DEF Request, Version, CrLf, Byte
  <2>2. /\ x[1] = "P" /\ x[2] = "U" /\ x[3] = "sp" /\ x[4] = "/" /\ x[5] = "sp"
        /\ x[6] = "H" /\ x[7] = "T" /\ x[8] = "T" /\ x[9] = "P" /\ x[10] = "/"
        /\ x[11] = "1" /\ x[12] = "cr" /\ x[13] = "lf"
    BY DEF Request, Version, CrLf
  <2>. HIDE DEF x
  <2>. QED  BY <2>1, <2>2, Thirteen DEF Lead, x
<1>2. Request(<<"P", "O">>) = Lead("post")
  <2>. DEFINE x == Request(<<"P", "O">>)
  <2>1. x \in Seq(Byte) /\ Len(x) = 13
    BY DEF Request, Version, CrLf, Byte
  <2>2. /\ x[1] = "P" /\ x[2] = "O" /\ x[3] = "sp" /\ x[4] = "/" /\ x[5] = "sp"
        /\ x[6] = "H" /\ x[7] = "T" /\ x[8] = "T" /\ x[9] = "P" /\ x[10] = "/"
        /\ x[11] = "1" /\ x[12] = "cr" /\ x[13] = "lf"
    BY DEF Request, Version, CrLf
  <2>. HIDE DEF x
  <2>. QED  BY <2>1, <2>2, Thirteen DEF Lead, x
<1>3. Response(Created) = Lead("created")
  <2>. DEFINE x == Response(Created)
  <2>1. x \in Seq(Byte) /\ Len(x) = 13
    BY DEF Response, Created, Version, CrLf, Byte
  <2>2. /\ x[1] = "H" /\ x[2] = "T" /\ x[3] = "T" /\ x[4] = "P" /\ x[5] = "/"
        /\ x[6] = "1" /\ x[7] = "sp" /\ x[8] = "2" /\ x[9] = "1" /\ x[10] = "sp"
        /\ x[11] = "C" /\ x[12] = "cr" /\ x[13] = "lf"
    BY DEF Response, Created, Version, CrLf
  <2>. HIDE DEF x
  <2>. QED  BY <2>1, <2>2, Thirteen DEF Lead, x
<1>4. Response(NotFound) = Lead("refused")
  <2>. DEFINE x == Response(NotFound)
  <2>1. x \in Seq(Byte) /\ Len(x) = 13
    BY DEF Response, NotFound, Version, CrLf, Byte
  <2>2. /\ x[1] = "H" /\ x[2] = "T" /\ x[3] = "T" /\ x[4] = "P" /\ x[5] = "/"
        /\ x[6] = "1" /\ x[7] = "sp" /\ x[8] = "4" /\ x[9] = "4" /\ x[10] = "sp"
        /\ x[11] = "C" /\ x[12] = "cr" /\ x[13] = "lf"
    BY DEF Response, NotFound, Version, CrLf
  <2>. HIDE DEF x
  <2>. QED  BY <2>1, <2>2, Thirteen DEF Lead, x
<1>. QED  BY <1>1, <1>2, <1>3, <1>4

LEMMA LeadIsText ==
  ASSUME NEW k \in Kinds
  PROVE  Lead(k) \in Seq(Byte) /\ Len(Lead(k)) = 13
<1>1. CASE k = "put"  BY <1>1 DEF Lead, Byte
<1>2. CASE k = "post"  BY <1>2 DEF Lead, Byte
<1>3. CASE k = "created"  BY <1>3 DEF Lead, Byte
<1>4. CASE k = "refused"  BY <1>4 DEF Lead, Byte
<1>. QED  BY <1>1, <1>2, <1>3, <1>4 DEF Kinds

\* In a first line nothing else is read.
Line(k, line, found, status) ==
  Reading(k, line, found, status, <<NoHeader>>, 0, <<NoChunk>>, 0, FALSE)

LEMMA LineIs ==
  ASSUME NEW k, NEW line, NEW f, NEW st
  PROVE  Line(k, line, f, st).line = line /\ Line(k, line, f, st).found = f
BY DEF Line, Reading

LEMMA VerbIsRead ==
  ASSUME NEW k, NEW f, NEW st, NEW b
  PROVE  /\ LineNext(Line(k, "verb", f, st), "P") = Line(k, "verb_buf", f, st)
         /\ b \notin Space => LineNext(Line(k, "verb_buf", f, st), b) = Line(k, "verb_buf", f, st)
         /\ LineNext(Line(k, "verb_buf", f, st), "sp") = Line(k, "route", f, st)
<1>1. LineNext(Line(k, "verb", f, st), "P") = Line(k, "verb_buf", f, st)
  BY DEF LineNext, Line, Reading, Space, Verbs, AfterSpace, AfterBlank
<1>2. ASSUME b \notin Space
      PROVE  LineNext(Line(k, "verb_buf", f, st), b) = Line(k, "verb_buf", f, st)
  BY <1>2 DEF LineNext, Line, Reading, AfterSpace, AfterBlank
<1>3. LineNext(Line(k, "verb_buf", f, st), "sp") = Line(k, "route", f, st)
  BY DEF LineNext, Line, Reading, Space, AfterSpace, AfterBlank
<1>. QED  BY <1>1, <1>2, <1>3

LEMMA RouteIsRead ==
  ASSUME NEW k, NEW f, NEW st
  PROVE  /\ LineNext(Line(k, "route", f, st), "/") = Line(k, "route_buf", f, st)
         /\ LineNext(Line(k, "route_buf", f, st), "sp") = Line(k, "find", f, st)
BY DEF LineNext, Line, Reading, Space, AfterSpace, AfterBlank

LEMMA VersionIsFound ==
  ASSUME NEW k, NEW st
  PROVE  /\ LineNext(Line(k, "find", 0, st), "H") = Line(k, "find", 1, st)
         /\ LineNext(Line(k, "find", 1, st), "T") = Line(k, "find", 2, st)
         /\ LineNext(Line(k, "find", 2, st), "T") = Line(k, "find", 3, st)
         /\ LineNext(Line(k, "find", 3, st), "P") = Line(k, "find", 4, st)
         /\ LineNext(Line(k, "find", 4, st), "/") = Line(k, "version", 5, st)
<1>1. /\ Len(Version) = 5 /\ Version[1] = "H" /\ Version[2] = "T" /\ Version[3] = "T"
      /\ Version[4] = "P" /\ Version[5] = "/"
  BY DEF Version
<1>2. ASSUME NEW f \in 0..4
      PROVE  LineNext(Line(k, "find", f, st), Version[f + 1]) =
               Line(k, IF f = 4 THEN "version" ELSE "find", f + 1, st)
  <2>1. LineNext(Line(k, "find", f, st), Version[f + 1]) =
          Find(Line(k, "find", f, st), Version[f + 1])
    BY LineIs DEF LineNext, AfterSpace, AfterBlank
  <2>2. Line(k, "find", f, st).found = f
    BY LineIs
  <2>3. Find(Line(k, "find", f, st), Version[f + 1]) =
          [Line(k, "find", f, st) EXCEPT !.found = f + 1,
                                         !.line = IF f + 1 = 5 THEN "version" ELSE "find"]
    BY <1>1, <2>2, Zenon DEF Find
  <2>4. (f + 1 = 5) <=> (f = 4)
    OBVIOUS
  <2>. QED  BY <2>1, <2>3, <2>4 DEF Line, Reading
<1>3. 0 + 1 = 1 /\ 1 + 1 = 2 /\ 2 + 1 = 3 /\ 3 + 1 = 4 /\ 4 + 1 = 5
  OBVIOUS
<1>. QED  BY <1>1, <1>2, <1>3

LEMMA VersionIsRead ==
  ASSUME NEW k, NEW st, NEW f
  PROVE  /\ LineNext(Line(k, "version", f, st), "1") = Line(k, "version", f, st)
         /\ LineNext(Line(k, "version", f, st), "sp") =
              Line(k, IF Role(k) = "request" THEN "eol" ELSE "status", f, st)
         /\ LineNext(Line(k, "version", f, st), "cr") =
              Line(k, IF Role(k) = "request" THEN "eol" ELSE "status", f, st)
BY DEF LineNext, Line, Reading, Space, AfterSpace, AfterBlank

LEMMA StatusBegins ==
  ASSUME NEW k, NEW st, NEW f, NEW b, b \notin Space
  PROVE  LineNext(Line(k, "status", f, st), b) = Line(k, "status_buf", f, <<b>>)
BY DEF LineNext, Line, Reading, Space, AfterSpace, AfterBlank

LEMMA StatusEnds ==
  ASSUME NEW k, NEW st, NEW f
  PROVE  LineNext(Line(k, "status_buf", f, st), "sp") = Line(k, "eol", f, st)
BY DEF LineNext, Line, Reading, Space, AfterSpace, AfterBlank

LEMMA EndOfLineIsRead ==
  ASSUME NEW k, NEW st, NEW f
  PROVE  /\ LineNext(Line(k, "eol", f, st), "cr") = Line(k, "eol", f, st)
         /\ LineNext(Line(k, "eol", f, st), "C") = Line(k, "eol", f, st)
         /\ LineNext(Line(k, "eol", f, st), "lf") = Line(k, "done", f, st)
BY DEF LineNext, Line, Reading, AfterSpace, AfterBlank

LEMMA RequestLineIsRead ==
  ASSUME NEW k \in {"put", "post"}, NEW i \in 0..12
  PROVE  LineNext(InLead(k, i), Lead(k)[i + 1]) = InLead(k, i + 1)
<1>0. Role(k) = "request"
  BY DEF Role
<1>1. \A j \in 0..13 : InLead(k, j) = Line(k, LineAt(k)[j + 1], FoundAt(k)[j + 1], <<>>)
  BY <1>0 DEF InLead, Line, StatusAt
<1>2. /\ LineAt(k) = <<"verb", "verb_buf", "verb_buf", "route", "route_buf", "find", "find",
                       "find", "find", "find", "version", "version", "eol", "done">>
      /\ FoundAt(k) = <<0, 0, 0, 0, 0, 0, 1, 2, 3, 4, 5, 5, 5, 5>>
  BY <1>0 DEF LineAt, FoundAt
<1>3. /\ \A j \in 1..13 : j # 2 => Lead(k)[j] = Lead("put")[j]
      /\ Lead(k)[2] \in {"U", "O"}
  BY DEF Lead
<1>4. /\ Lead("put")[1] = "P"
      /\ Lead("put")[3] = "sp"
      /\ Lead("put")[4] = "/"
      /\ Lead("put")[5] = "sp"
      /\ Lead("put")[6] = "H"
      /\ Lead("put")[7] = "T"
      /\ Lead("put")[8] = "T"
      /\ Lead("put")[9] = "P"
      /\ Lead("put")[10] = "/"
      /\ Lead("put")[11] = "1"
      /\ Lead("put")[12] = "cr"
      /\ Lead("put")[13] = "lf"
  BY DEF Lead
<1>5. /\ InLead(k, 0) = Line(k, "verb", 0, <<>>)
      /\ InLead(k, 1) = Line(k, "verb_buf", 0, <<>>)
      /\ InLead(k, 2) = Line(k, "verb_buf", 0, <<>>)
      /\ InLead(k, 3) = Line(k, "route", 0, <<>>)
      /\ InLead(k, 4) = Line(k, "route_buf", 0, <<>>)
      /\ InLead(k, 5) = Line(k, "find", 0, <<>>)
      /\ InLead(k, 6) = Line(k, "find", 1, <<>>)
      /\ InLead(k, 7) = Line(k, "find", 2, <<>>)
      /\ InLead(k, 8) = Line(k, "find", 3, <<>>)
      /\ InLead(k, 9) = Line(k, "find", 4, <<>>)
      /\ InLead(k, 10) = Line(k, "version", 5, <<>>)
      /\ InLead(k, 11) = Line(k, "version", 5, <<>>)
      /\ InLead(k, 12) = Line(k, "eol", 5, <<>>)
      /\ InLead(k, 13) = Line(k, "done", 5, <<>>)
  BY <1>1, <1>2
<1>6. "U" \notin Space /\ "O" \notin Space
  BY DEF Space
<1>7. CASE i = 0
  <2>1. i + 1 = 1  BY <1>7
  <2>2. LineNext(Line(k, "verb", 0, <<>>), "P") = Line(k, "verb_buf", 0, <<>>)
    BY VerbIsRead
  <2>. QED  BY <1>3, <1>4, <1>5, <1>7, <2>1, <2>2
<1>8. CASE i = 1
  <2>1. i + 1 = 2  BY <1>8
  <2>. QED  BY <1>0, <1>3, <1>4, <1>5, <1>6, <1>8, <2>1, VerbIsRead
<1>9. CASE i = 2
  <2>1. i + 1 = 3  BY <1>9
  <2>. QED  BY <1>0, <1>3, <1>4, <1>5, <1>6, <1>9, <2>1, VerbIsRead
<1>10. CASE i = 3
  <2>1. i + 1 = 4  BY <1>10
  <2>. QED  BY <1>0, <1>3, <1>4, <1>5, <1>6, <1>10, <2>1, RouteIsRead
<1>11. CASE i = 4
  <2>1. i + 1 = 5  BY <1>11
  <2>. QED  BY <1>0, <1>3, <1>4, <1>5, <1>6, <1>11, <2>1, RouteIsRead
<1>12. CASE i = 5
  <2>1. i + 1 = 6  BY <1>12
  <2>. QED  BY <1>0, <1>3, <1>4, <1>5, <1>6, <1>12, <2>1, VersionIsFound
<1>13. CASE i = 6
  <2>1. i + 1 = 7  BY <1>13
  <2>. QED  BY <1>0, <1>3, <1>4, <1>5, <1>6, <1>13, <2>1, VersionIsFound
<1>14. CASE i = 7
  <2>1. i + 1 = 8  BY <1>14
  <2>. QED  BY <1>0, <1>3, <1>4, <1>5, <1>6, <1>14, <2>1, VersionIsFound
<1>15. CASE i = 8
  <2>1. i + 1 = 9  BY <1>15
  <2>. QED  BY <1>0, <1>3, <1>4, <1>5, <1>6, <1>15, <2>1, VersionIsFound
<1>16. CASE i = 9
  <2>1. i + 1 = 10  BY <1>16
  <2>. QED  BY <1>0, <1>3, <1>4, <1>5, <1>6, <1>16, <2>1, VersionIsFound
<1>17. CASE i = 10
  <2>1. i + 1 = 11  BY <1>17
  <2>. QED  BY <1>0, <1>3, <1>4, <1>5, <1>6, <1>17, <2>1, VersionIsRead
<1>18. CASE i = 11
  <2>1. i + 1 = 12  BY <1>18
  <2>. QED  BY <1>0, <1>3, <1>4, <1>5, <1>6, <1>18, <2>1, VersionIsRead
<1>19. CASE i = 12
  <2>1. i + 1 = 13  BY <1>19
  <2>. QED  BY <1>0, <1>3, <1>4, <1>5, <1>6, <1>19, <2>1, EndOfLineIsRead
<1>. QED  BY <1>7, <1>8, <1>9, <1>10, <1>11, <1>12, <1>13, <1>14, <1>15, <1>16, <1>17, <1>18, <1>19

LEMMA ResponseLineIsRead ==
  ASSUME NEW k \in {"created", "refused"}, NEW i \in 0..12
  PROVE  LineNext(InLead(k, i), Lead(k)[i + 1]) = InLead(k, i + 1)
<1>. DEFINE x == IF k = "created" THEN "2" ELSE "4"
            y == IF k = "created" THEN "1" ELSE "4"
<1>0. Role(k) = "response" /\ StatusOf(k) = <<x, y>> /\ x \notin Space /\ y \notin Space
  BY DEF Role, StatusOf, Created, NotFound, Space
<1>1. \A j \in 0..13 :
        InLead(k, j) = Line(k, LineAt(k)[j + 1], FoundAt(k)[j + 1],
                            IF j < 8 THEN <<>> ELSE IF j = 8 THEN <<x>> ELSE <<x, y>>)
  BY <1>0 DEF InLead, Line, StatusAt
<1>2. /\ LineAt(k) = <<"find", "find", "find", "find", "find", "version", "version", "status",
                       "status_buf", "status_buf", "eol", "eol", "eol", "done">>
      /\ FoundAt(k) = <<0, 1, 2, 3, 4, 5, 5, 5, 5, 5, 5, 5, 5, 5>>
  BY <1>0 DEF LineAt, FoundAt
<1>3. \A j \in 1..13 : Lead(k)[j] = IF j = 8 THEN x ELSE IF j = 9 THEN y ELSE Lead("created")[j]
  BY DEF Lead
<1>4. /\ Lead("created")[1] = "H"
      /\ Lead("created")[2] = "T"
      /\ Lead("created")[3] = "T"
      /\ Lead("created")[4] = "P"
      /\ Lead("created")[5] = "/"
      /\ Lead("created")[6] = "1"
      /\ Lead("created")[7] = "sp"
      /\ Lead("created")[10] = "sp"
      /\ Lead("created")[11] = "C"
      /\ Lead("created")[12] = "cr"
      /\ Lead("created")[13] = "lf"
  BY DEF Lead
<1>. HIDE DEF x, y
<1>5. /\ InLead(k, 0) = Line(k, "find", 0, <<>>)
      /\ InLead(k, 1) = Line(k, "find", 1, <<>>)
      /\ InLead(k, 2) = Line(k, "find", 2, <<>>)
      /\ InLead(k, 3) = Line(k, "find", 3, <<>>)
      /\ InLead(k, 4) = Line(k, "find", 4, <<>>)
      /\ InLead(k, 5) = Line(k, "version", 5, <<>>)
      /\ InLead(k, 6) = Line(k, "version", 5, <<>>)
      /\ InLead(k, 7) = Line(k, "status", 5, <<>>)
      /\ InLead(k, 8) = Line(k, "status_buf", 5, <<x>>)
      /\ InLead(k, 9) = Line(k, "status_buf", 5, <<x, y>>)
      /\ InLead(k, 10) = Line(k, "eol", 5, <<x, y>>)
      /\ InLead(k, 11) = Line(k, "eol", 5, <<x, y>>)
      /\ InLead(k, 12) = Line(k, "eol", 5, <<x, y>>)
      /\ InLead(k, 13) = Line(k, "done", 5, <<x, y>>)
  BY <1>1, <1>2
<1>6. Append(<<x>>, y) = <<x, y>>
  <2>. DEFINE s == Append(<<x>>, y)
  <2>1. s \in Seq({x, y}) /\ Len(s) = 2 /\ s[1] = x /\ s[2] = y
    OBVIOUS
  <2>2. s = <<s[1], s[2]>>
    <3>. HIDE DEF s
    <3>. QED  BY <2>1
  <2>. QED  BY <2>1, <2>2
<1>7. CASE i = 0
  <2>1. i + 1 = 1  BY <1>7
  <2>. QED  BY <1>0, <1>3, <1>4, <1>5, <1>6, <1>7, <2>1, VersionIsFound
<1>8. CASE i = 1
  <2>1. i + 1 = 2  BY <1>8
  <2>. QED  BY <1>0, <1>3, <1>4, <1>5, <1>6, <1>8, <2>1, VersionIsFound
<1>9. CASE i = 2
  <2>1. i + 1 = 3  BY <1>9
  <2>. QED  BY <1>0, <1>3, <1>4, <1>5, <1>6, <1>9, <2>1, VersionIsFound
<1>10. CASE i = 3
  <2>1. i + 1 = 4  BY <1>10
  <2>. QED  BY <1>0, <1>3, <1>4, <1>5, <1>6, <1>10, <2>1, VersionIsFound
<1>11. CASE i = 4
  <2>1. i + 1 = 5  BY <1>11
  <2>. QED  BY <1>0, <1>3, <1>4, <1>5, <1>6, <1>11, <2>1, VersionIsFound
<1>12. CASE i = 5
  <2>1. i + 1 = 6  BY <1>12
  <2>. QED  BY <1>0, <1>3, <1>4, <1>5, <1>6, <1>12, <2>1, VersionIsRead
<1>13. CASE i = 6
  <2>1. i + 1 = 7  BY <1>13
  <2>. QED  BY <1>0, <1>3, <1>4, <1>5, <1>6, <1>13, <2>1, VersionIsRead
<1>14. CASE i = 7
  <2>1. i + 1 = 8  BY <1>14
  <2>2. LineNext(Line(k, "status", 5, <<>>), x) = Line(k, "status_buf", 5, <<x>>)
    BY <1>0, StatusBegins
  <2>. QED  BY <1>3, <1>4, <1>5, <1>14, <2>1, <2>2
<1>15. CASE i = 8
  <2>1. i + 1 = 9  BY <1>15
  <2>2. LineNext(Line(k, "status_buf", 5, <<x>>), y) = Line(k, "status_buf", 5, <<x, y>>)
    BY <1>0, <1>6 DEF LineNext, Line, Reading, AfterSpace, AfterBlank
  <2>. QED  BY <1>3, <1>4, <1>5, <1>15, <2>1, <2>2
<1>16. CASE i = 9
  <2>1. i + 1 = 10  BY <1>16
  <2>. QED  BY <1>0, <1>3, <1>4, <1>5, <1>6, <1>16, <2>1, StatusEnds
<1>17. CASE i = 10
  <2>1. i + 1 = 11  BY <1>17
  <2>. QED  BY <1>0, <1>3, <1>4, <1>5, <1>6, <1>17, <2>1, EndOfLineIsRead
<1>18. CASE i = 11
  <2>1. i + 1 = 12  BY <1>18
  <2>. QED  BY <1>0, <1>3, <1>4, <1>5, <1>6, <1>18, <2>1, EndOfLineIsRead
<1>19. CASE i = 12
  <2>1. i + 1 = 13  BY <1>19
  <2>. QED  BY <1>0, <1>3, <1>4, <1>5, <1>6, <1>19, <2>1, EndOfLineIsRead
<1>. QED  BY <1>7, <1>8, <1>9, <1>10, <1>11, <1>12, <1>13, <1>14, <1>15, <1>16, <1>17, <1>18, <1>19

LEMMA LeadIsRead ==
  ASSUME NEW k \in Kinds, NEW i \in 0..12
  PROVE  /\ LineNext(InLead(k, i), Lead(k)[i + 1]) = InLead(k, i + 1)
         /\ InLead(k, i).line # "done"
<1>1. InLead(k, i).line # "done"
  BY DEF InLead, Reading, LineAt
<1>. QED  BY <1>1, RequestLineIsRead, ResponseLineIsRead DEF Kinds

-----------------------------------------------------------------------------
(* What a message is made of.                                              *)

LEMMA NotEmpty ==
  ASSUME NEW S, NEW s \in Seq(S), s # <<>>
  PROVE  Len(s) \in Nat \ {0}
OBVIOUS

LEMMA PayloadIs ==
  ASSUME NEW d \in Payloads
  PROVE  d \in Seq(Byte) /\ Len(d) \in 1..9 /\ Len(d) # 0 /\ Small(Len(d))
<1>1. /\ d \in Seq(STRING) /\ d # <<>> /\ Len(d) < Power[Width - 1] /\ Len(d) < Decimal
      /\ Decimal \in 2..10 /\ Width \in Nat \ {0}
  BY StreamAssumption, RadixAssumption
<1>2. Len(d) \in 1..9 /\ Len(d) # 0
  <2>. DEFINE n == Len(d)
  <2>1. n \in Nat \ {0} /\ n < Decimal
    BY <1>1, NotEmpty
  <2>. HIDE DEF n
  <2>2. n \in 1..9 /\ n # 0
    BY <1>1, <2>1
  <2>. QED  BY <2>2 DEF n
<1>3. \A i \in 1..Len(d) : d[i] \in Byte
  BY <1>1 DEF Byte
<1>4. Width # 1
  <2>1. Power[0] = 1
    BY <1>1, PowerIs
  <2>. QED  BY <1>1, <1>2, <2>1
<1>. QED  BY <1>1, <1>2, <1>3, <1>4 DEF Small

\* What is written as chunks.
Piece == {Chunk(d) : d \in Payloads} \cup {LastChunk}

LEMMA PieceIs ==
  ASSUME NEW c \in Piece, Payloads # {}
  PROVE  /\ c.data \in Seq(Byte) /\ c.size = <<Len(c.data)>> /\ Small(Len(c.data))
         /\ c.size = <<0>> <=> c = LastChunk
<1>1. CASE c = LastChunk
  <2>1. Width > 1
    BY PayloadIs DEF Small
  <2>2. Small(0)
    BY <2>1, PowerIsPositive, RadixAssumption DEF Small
  <2>. QED  BY <1>1, <2>2 DEF LastChunk
<1>2. CASE c \in {Chunk(d) : d \in Payloads}
  <2>1. PICK d \in Payloads : c = Chunk(d) /\ Len(d) # 0
    BY <1>2, PayloadIs
  <2>2. c.data = d /\ c.size = <<Len(d)>>
    BY <2>1 DEF Chunk
  <2>3. <<Len(d)>> # <<0>>
    <3>. DEFINE n == Len(d)
    <3>1. n # 0  BY <2>1
    <3>. HIDE DEF n
    <3>2. <<n>> # <<0>>  BY <3>1
    <3>. QED  BY <3>2 DEF n
  <2>. QED  BY <2>2, <2>3, PayloadIs DEF LastChunk
<1>. QED  BY <1>1, <1>2 DEF Piece

\* What a reader holds: headers like "L: 5", the end of the headers, chunks.
HeaderLine(f, v) == <<f, ":", "sp", v, "cr", "lf">>
NameOf(f) == IF f = "L" THEN "length" ELSE "other"
Named(f, at, text) == [at |-> at, name |-> NameOf(f), colon |-> TRUE, text |-> text]
Naming(f) == [at |-> "name", name |-> "", colon |-> FALSE, text |-> <<f>>]
HeaderAt(f, v, j) ==
  IF j = 0 THEN NoHeader
  ELSE IF j = 1 THEN Naming(f)
  ELSE IF j < 4 THEN Named(f, "named", <<>>)
  ELSE IF j = 4 THEN Named(f, "value", <<v>>)
  ELSE IF j = 5 THEN Named(f, "ended", <<v>>)
  ELSE Named(f, "complete", <<v>>)

EndHeader == [at |-> "complete", name |-> "end", colon |-> FALSE, text |-> <<>>]
ReadHeader ==
  {NoHeader, EndHeader}
    \cup {HeaderAt(f, v, j) : f \in {"L", "N"}, v \in Byte, j \in 0..6}

Part(at, header, size, got, data) ==
  [at |-> at, header |-> header, size |-> size, got |-> got, data |-> data]
ReadChunk ==
  {Part(at, header, size, got, data) :
     at \in {"start", "digits", "seek", "body", "complete"}, header \in Seq(Byte),
     size \in Seq(Nat), got \in Seq(Nat), data \in Seq(Byte)}

\* A reader that has understood everything, and whose chunks are those written.
Good(k, cs, r) ==
  /\ r = Reading(k, r.line, r.found, r.status, r.headers, r.nh, r.chunks, r.nc, r.sized)
  /\ r.headers \in Seq(ReadHeader) /\ r.headers # <<>> /\ r.nh \in 0..Len(r.headers)
  /\ r.chunks \in Seq(ReadChunk) /\ r.nc \in 0..Len(r.chunks) /\ r.nc <= Len(cs)
  /\ \A i \in 1..r.nc : r.chunks[i].size = cs[i].size /\ r.chunks[i].data = cs[i].data

\* It is past the first line.
Past(k, r) == r.line = "done" /\ r.status = StatusOf(k)

\* R is the way of a reader along a text.  Where a message with a length ends is
\* the end of what there is to read (way = "sealed").
Path(k, cs, text, R, from, way) ==
  /\ text \in Seq(Byte)
  /\ \A n \in 0..Len(text) : Good(k, cs, R[n]) /\ (n >= from => Past(k, R[n]))
  /\ \A n \in 0 .. Len(text) - 1 :
       /\ ~ Stops(R[n]) /\ R[n].nc <= R[n + 1].nc
       /\ \A last \in BOOLEAN :
            (way = "sealed" /\ n + 1 = Len(text) => last) => R[n + 1] = Advance(R[n], text[n + 1], last)

LEMMA PathsJoin ==
  ASSUME NEW k, NEW cs, NEW s, NEW t, NEW R, NEW Q, NEW from \in Nat, NEW way,
         Path(k, cs, s, R, from, "open"), Path(k, cs, t, Q, 0, way), R[Len(s)] = Q[0],
         from <= Len(s)
  PROVE  \E P : /\ Path(k, cs, s \o t, P, from, way)
                /\ \A n \in 0..Len(s) : P[n] = R[n]
                /\ \A n \in 0..Len(t) : P[Len(s) + n] = Q[n]
<1>. DEFINE u == s \o t
            P == [n \in 0..Len(u) |-> IF n <= Len(s) THEN R[n] ELSE Q[n - Len(s)]]
<1>1. /\ s \in Seq(Byte) /\ t \in Seq(Byte) /\ u \in Seq(Byte)
      /\ Len(s) \in Nat /\ Len(t) \in Nat /\ Len(u) = Len(s) + Len(t)
  BY DEF Path
<1>2. /\ \A n \in 1..Len(s) : u[n] = s[n]
      /\ \A n \in 1..Len(t) : u[Len(s) + n] = t[n]
  BY <1>1
<1>3. /\ \A n \in 0..Len(s) : P[n] = R[n]
      /\ \A n \in 0..Len(t) : P[Len(s) + n] = Q[n]
  <2>1. \A n \in 0..Len(s) : P[n] = R[n]
    BY <1>1
  <2>2. ASSUME NEW n \in 0..Len(t)
        PROVE  P[Len(s) + n] = Q[n]
    <3>1. CASE n = 0  BY <1>1, <3>1
    <3>2. CASE n # 0
      <4>1. /\ Len(s) + n \in 0..Len(u) /\ ~ (Len(s) + n <= Len(s))
            /\ (Len(s) + n) - Len(s) = n
        BY <1>1, <3>2
      <4>. HIDE DEF u
      <4>. QED  BY <4>1
    <3>. QED  BY <3>1, <3>2
  <2>. QED  BY <2>1, <2>2
<1>. HIDE DEF P, u
<1>4. ASSUME NEW n \in 0..Len(u)
      PROVE  Good(k, cs, P[n]) /\ (n >= from => Past(k, P[n]))
  <2>1. CASE n <= Len(s)
    BY <1>1, <1>3, <2>1 DEF Path
  <2>2. CASE n > Len(s)
    <3>1. n - Len(s) \in 0..Len(t) /\ Len(s) + (n - Len(s)) = n /\ n - Len(s) >= 0
      BY <1>1, <2>2
    <3>2. P[n] = Q[n - Len(s)]
      BY <1>3, <3>1
    <3>. QED  BY <3>1, <3>2 DEF Path
  <2>. QED  BY <1>1, <2>1, <2>2
<1>5. ASSUME NEW n \in 0 .. Len(u) - 1
      PROVE  /\ ~ Stops(P[n]) /\ P[n].nc <= P[n + 1].nc
             /\ \A last \in BOOLEAN :
                  (way = "sealed" /\ n + 1 = Len(u) => last) =>
                    P[n + 1] = Advance(P[n], u[n + 1], last)
  <2>1. CASE n < Len(s)
    <3>1. n \in 0 .. Len(s) - 1 /\ n \in 0..Len(s) /\ n + 1 \in 1..Len(s) /\ n + 1 \in 0..Len(s)
      BY <1>1, <2>1
    <3>2. P[n] = R[n] /\ P[n + 1] = R[n + 1] /\ u[n + 1] = s[n + 1]
      BY <1>2, <1>3, <3>1
    <3>. QED  BY <3>1, <3>2 DEF Path
  <2>2. CASE n >= Len(s)
    <3>. DEFINE m == n - Len(s)
    <3>1. /\ m \in 0 .. Len(t) - 1 /\ m \in 0..Len(t) /\ m + 1 \in 1..Len(t) /\ m + 1 \in 0..Len(t)
          /\ Len(s) + m = n /\ Len(s) + (m + 1) = n + 1
          /\ (n + 1 = Len(u)) <=> (m + 1 = Len(t))
      BY <1>1, <2>2
    <3>. HIDE DEF m
    <3>2. P[n] = Q[m] /\ P[n + 1] = Q[m + 1] /\ u[n + 1] = t[m + 1]
      BY <1>2, <1>3, <3>1
    <3>. QED  BY <3>1, <3>2 DEF Path
  <2>. QED  BY <1>1, <2>1, <2>2
<1>6. Path(k, cs, u, P, from, way)
  BY <1>1, <1>4, <1>5 DEF Path
<1>. QED  BY <1>3, <1>6 DEF u

\* Reading text leads from r to q.
Reads(k, cs, text, from, way, r, q) ==
  \E R : Path(k, cs, text, R, from, way) /\ R[0] = r /\ R[Len(text)] = q

LEMMA ReadsJoin ==
  ASSUME NEW k, NEW cs, NEW s, NEW t, NEW from \in Nat, NEW way,
         NEW r, NEW q, NEW p, from <= Len(s),
         Reads(k, cs, s, from, "open", r, q), Reads(k, cs, t, 0, way, q, p)
  PROVE  Reads(k, cs, s \o t, from, way, r, p)
<1>1. PICK R : Path(k, cs, s, R, from, "open") /\ R[0] = r /\ R[Len(s)] = q
  BY DEF Reads
<1>2. PICK Q : Path(k, cs, t, Q, 0, way) /\ Q[0] = q /\ Q[Len(t)] = p
  BY DEF Reads
<1>3. PICK P : /\ Path(k, cs, s \o t, P, from, way)
               /\ \A n \in 0..Len(s) : P[n] = R[n]
               /\ \A n \in 0..Len(t) : P[Len(s) + n] = Q[n]
  <2>1. R[Len(s)] = Q[0]
    BY <1>1, <1>2
  <2>. QED  BY <1>1, <1>2, <2>1, PathsJoin
<1>4. Len(s) \in Nat /\ Len(t) \in Nat /\ Len(s \o t) = Len(s) + Len(t)
  BY <1>1, <1>2 DEF Path
<1>5. P[0] = r /\ P[Len(s \o t)] = p
  BY <1>1, <1>2, <1>3, <1>4
<1>. QED  BY <1>3, <1>5 DEF Reads

-----------------------------------------------------------------------------
(* Headers.                                                                *)

LEMMA HeaderAtIs ==
  ASSUME NEW f, NEW v
  PROVE  /\ HeaderAt(f, v, 0) = NoHeader
         /\ HeaderAt(f, v, 1) = Naming(f)
         /\ HeaderAt(f, v, 2) = Named(f, "named", <<>>)
         /\ HeaderAt(f, v, 3) = Named(f, "named", <<>>)
         /\ HeaderAt(f, v, 4) = Named(f, "value", <<v>>)
         /\ HeaderAt(f, v, 5) = Named(f, "ended", <<v>>)
         /\ HeaderAt(f, v, 6) = Named(f, "complete", <<v>>)
BY DEF HeaderAt

LEMMA HeaderStates ==
  ASSUME NEW f \in {"L", "N"}, NEW v \in Byte, NEW j \in 0..6
  PROVE  /\ HeaderAt(f, v, j) \in ReadHeader
         /\ HeaderAt(f, v, j).at = "complete" <=> j = 6
         /\ HeaderAt(f, v, 6).name = NameOf(f)
<1>1. HeaderAt(f, v, j) \in ReadHeader
  BY DEF ReadHeader
<1>2. /\ NoHeader.at = "start" /\ Naming(f).at = "name"
      /\ Named(f, "named", <<>>).at = "named" /\ Named(f, "value", <<v>>).at = "value"
      /\ Named(f, "ended", <<v>>).at = "ended" /\ Named(f, "complete", <<v>>).at = "complete"
      /\ Named(f, "complete", <<v>>).name = NameOf(f)
  BY DEF NoHeader, Naming, Named
<1>3. HeaderAt(f, v, j).at = "complete" <=> j = 6
  BY <1>2 DEF HeaderAt
<1>. QED  BY <1>1, <1>2, <1>3, HeaderAtIs

HeaderOf(at, name, colon, text) == [at |-> at, name |-> name, colon |-> colon, text |-> text]

LEMMA HeaderSteps ==
  ASSUME NEW f \in {"L", "N"}, NEW v \in Byte \ Space, NEW j \in 0..5
  PROVE  HeaderNext(HeaderAt(f, v, j), HeaderLine(f, v)[j + 1]) = HeaderAt(f, v, j + 1)
<1>0. v \notin Space /\ v # "lf" /\ v # "cr" /\ f \notin Space /\ f # "lf" /\ "sp" \in Space
  BY DEF Space
<1>1. /\ HeaderLine(f, v)[1] = f /\ HeaderLine(f, v)[2] = ":" /\ HeaderLine(f, v)[3] = "sp"
      /\ HeaderLine(f, v)[4] = v /\ HeaderLine(f, v)[5] = "cr" /\ HeaderLine(f, v)[6] = "lf"
  BY DEF HeaderLine
<1>2. HeaderNext(NoHeader, f) = Naming(f)
  <2>1. NoHeader = HeaderOf("start", "", FALSE, <<>>) /\ Naming(f) = HeaderOf("name", "", FALSE, <<f>>)
    BY DEF NoHeader, Naming, HeaderOf
  <2>2. ASSUME NEW n, NEW c, NEW t
        PROVE  HeaderNext(HeaderOf("start", n, c, t), f) = HeaderOf("name", n, c, <<f>>)
    BY <1>0 DEF HeaderNext, HeaderOf
  <2>3. HeaderNext(HeaderOf("start", "", FALSE, <<>>), f) = HeaderOf("name", "", FALSE, <<f>>)
    BY <2>2, Zenon
  <2>. QED  BY <2>1, <2>3, Zenon
<1>3. HeaderNext(Naming(f), ":") = Named(f, "named", <<>>)
  <2>1. (<<f>> = <<"L">>) <=> (f = "L")
    OBVIOUS
  <2>. QED  BY <2>1 DEF HeaderNext, Naming, Named, NameOf
<1>4. HeaderNext(Named(f, "named", <<>>), "sp") = Named(f, "named", <<>>)
  BY <1>0 DEF HeaderNext, ValueNext, Named
<1>5. HeaderNext(Named(f, "named", <<>>), v) = Named(f, "value", <<v>>)
  BY <1>0 DEF HeaderNext, ValueNext, Named
<1>6. HeaderNext(Named(f, "value", <<v>>), "cr") = Named(f, "ended", <<v>>)
  BY DEF HeaderNext, ValueNext, Named
<1>7. HeaderNext(Named(f, "ended", <<v>>), "lf") = Named(f, "complete", <<v>>)
  BY DEF HeaderNext, ValueNext, Named
<1>8. CASE j = 0
  <2>1. j + 1 = 1  BY <1>8
  <2>. QED  BY <1>1, <1>2, <1>8, <2>1 DEF HeaderAt
<1>9. CASE j = 1
  <2>1. j + 1 = 2  BY <1>9
  <2>. QED  BY <1>1, <1>3, <1>9, <2>1 DEF HeaderAt
<1>10. CASE j = 2
  <2>1. j + 1 = 3  BY <1>10
  <2>. QED  BY <1>1, <1>4, <1>10, <2>1 DEF HeaderAt
<1>11. CASE j = 3
  <2>1. j + 1 = 4  BY <1>11
  <2>. QED  BY <1>1, <1>5, <1>11, <2>1 DEF HeaderAt
<1>12. CASE j = 4
  <2>1. j + 1 = 5  BY <1>12
  <2>. QED  BY <1>1, <1>6, <1>12, <2>1 DEF HeaderAt
<1>13. CASE j = 5
  <2>1. j + 1 = 6  BY <1>13
  <2>. QED  BY <1>1, <1>7, <1>13, <2>1 DEF HeaderAt
<1>. QED  BY <1>8, <1>9, <1>10, <1>11, <1>12, <1>13

LEMMA Replaced ==
  ASSUME NEW S, NEW s \in Seq(S), NEW x \in S, NEW y \in S
  PROVE  [Append(s, x) EXCEPT ![Len(s) + 1] = y] = Append(s, y)
<1>. DEFINE a == Append(s, x)
            b == Append(s, y)
            n == Len(s) + 1
            u == [a EXCEPT ![n] = y]
<1>1. /\ n \in Nat \ {0} /\ a \in Seq(S) /\ b \in Seq(S) /\ Len(a) = n /\ Len(b) = n
      /\ b[n] = y /\ \A i \in 1 .. n - 1 : a[i] = b[i]
  OBVIOUS
<1>. HIDE DEF a, b, n
<1>2. u \in Seq(S) /\ Len(u) = n /\ u[n] = y /\ \A i \in 1 .. n - 1 : u[i] = b[i]
  BY <1>1
<1>3. \A i \in 1..n : u[i] = b[i]
  BY <1>1, <1>2
<1>. HIDE DEF u
<1>4. u = b
  BY <1>1, <1>2, <1>3
<1>. QED  BY <1>4 DEF a, b, n, u

\* The reader after the headers hs and a part of a further one.
Announces(k) == k \in {"refused", "post"}
Headed(k, hs, h) ==
  Reading(k, "done", 5, StatusOf(k), Append(hs, h), Len(hs), <<NoChunk>>, 0,
          IF Announces(k) /\ hs # <<>> THEN TRUE ELSE FALSE)

\* The reader after all headers.
Ended(k, hs, n) ==
  Reading(k, "done", 5, StatusOf(k), hs, n, <<NoChunk>>, 0,
          IF Announces(k) THEN TRUE ELSE FALSE)

LEMMA HeaderAdvances ==
  ASSUME NEW k, NEW hs \in Seq(ReadHeader), NEW h \in ReadHeader, NEW b
  PROVE  /\ ~ Stops(Headed(k, hs, h))
         /\ \A last \in BOOLEAN :
              Advance(Headed(k, hs, h), b, last) = HeaderRead(Headed(k, hs, h), HeaderNext(h, b))
<1>. DEFINE r == Headed(k, hs, h)
            all == Append(hs, h)
<1>1. /\ r.line = "done" /\ r.nh = Len(hs) /\ r.headers = all /\ r.stray = FALSE
      /\ r.fault = FALSE
  BY DEF Headed, Reading
<1>2. Len(all) = Len(hs) + 1 /\ all[Len(hs) + 1] = h /\ Len(hs) \in Nat /\ Len(hs) < Len(all)
  OBVIOUS
<1>3. ~ Stops(r)
  BY <1>1, <1>2 DEF Stops
<1>4. \A last \in BOOLEAN : Advance(r, b, last) = HeaderRead(r, HeaderNext(h, b))
  BY <1>1, <1>2 DEF Advance
<1>. QED  BY <1>3, <1>4

LEMMA HeaderGoesOn ==
  ASSUME NEW k, NEW hs \in Seq(ReadHeader), NEW h \in ReadHeader, NEW g \in ReadHeader
  PROVE  HeaderRead(Headed(k, hs, h), g) =
           IF g.at = "complete" THEN HeaderDone(Headed(k, hs, g), g) ELSE Headed(k, hs, g)
<1>. DEFINE r == Headed(k, hs, h)
<1>1. Len(Append(hs, h)) = Len(hs) + 1 /\ Len(hs) \in Nat
  OBVIOUS
<1>2. [Append(hs, h) EXCEPT ![Len(hs) + 1] = g] = Append(hs, g)
  BY Replaced
<1>3. PICK q : q = [r EXCEPT !.headers[r.nh + 1] = g]
  OBVIOUS
<1>4. q = Headed(k, hs, g)
  BY <1>1, <1>2, <1>3 DEF Headed, Reading
<1>5. HeaderRead(r, g) = IF g.at = "complete" THEN HeaderDone(q, g) ELSE q
  BY <1>3, Zenon DEF HeaderRead
<1>. QED  BY <1>4, <1>5

LEMMA HeaderEnds ==
  ASSUME NEW k, NEW hs \in Seq(ReadHeader), NEW g \in ReadHeader,
         g.name = "length" => Announces(k),
         g.name # "length" /\ Announces(k) => hs # <<>>
  PROVE  HeaderDone(Headed(k, hs, g), g) =
           IF g.name = "end" THEN Ended(k, Append(hs, g), Len(hs) + 1)
           ELSE Headed(k, Append(hs, g), NoHeader)
<1>1. /\ Len(Append(hs, g)) = Len(hs) + 1 /\ Append(hs, g) # <<>>
  OBVIOUS
<1>2. PICK q : q = HeaderDone(Headed(k, hs, g), g)
  OBVIOUS
<1>3. ASSUME g.name # "end"
      PROVE  q = Headed(k, Append(hs, g), NoHeader)
  BY <1>1, <1>2, <1>3 DEF HeaderDone, Headed, Reading
<1>4. ASSUME g.name = "end"
      PROVE  q = Ended(k, Append(hs, g), Len(hs) + 1)
  BY <1>1, <1>2, <1>4 DEF HeaderDone, Headed, Ended, Reading
<1>. QED  BY <1>2, <1>3, <1>4

LEMMA PartIsChunk ==
  ASSUME NEW at \in {"start", "digits", "seek", "body", "complete"}, NEW header \in Seq(Byte),
         NEW size \in Seq(Nat), NEW got \in Seq(Nat), NEW data \in Seq(Byte)
  PROVE  Part(at, header, size, got, data) \in ReadChunk
BY DEF ReadChunk

LEMMA NoChunkIsChunk ==
  /\ NoChunk = Part("start", <<>>, <<0>>, <<0>>, <<>>)
  /\ NoChunk \in ReadChunk
<1>1. NoChunk = Part("start", <<>>, <<0>>, <<0>>, <<>>)
  BY DEF NoChunk, Part
<1>2. <<>> \in Seq(Byte) /\ <<0>> \in Seq(Nat)
  OBVIOUS
<1>3. Part("start", <<>>, <<0>>, <<0>>, <<>>) \in ReadChunk
  BY <1>2, PartIsChunk
<1>. QED  BY <1>1, <1>3

LEMMA HeadedIsGood ==
  ASSUME NEW k, NEW cs \in Seq(Piece), NEW hs \in Seq(ReadHeader), NEW h \in ReadHeader
  PROVE  Good(k, cs, Headed(k, hs, h)) /\ Past(k, Headed(k, hs, h))
<1>. DEFINE r == Headed(k, hs, h)
<1>1. /\ r = Reading(k, r.line, r.found, r.status, r.headers, r.nh, r.chunks, r.nc, r.sized)
      /\ r.headers = Append(hs, h) /\ r.nh = Len(hs) /\ r.chunks = <<NoChunk>> /\ r.nc = 0
      /\ r.line = "done" /\ r.status = StatusOf(k)
  BY DEF Headed, Reading
<1>3. <<NoChunk>> \in Seq(ReadChunk) /\ Len(<<NoChunk>>) = 1
  BY NoChunkIsChunk
<1>4. /\ Append(hs, h) \in Seq(ReadHeader) /\ Append(hs, h) # <<>>
      /\ Len(hs) \in 0..Len(Append(hs, h)) /\ Len(cs) >= 0
  OBVIOUS
<1>. HIDE DEF r
<1>. QED  BY <1>1, <1>3, <1>4 DEF Good, Past, r

LEMMA HeaderReads ==
  ASSUME NEW k, NEW cs \in Seq(Piece), NEW hs \in Seq(ReadHeader),
         NEW f \in {"L", "N"}, NEW v \in Byte \ Space,
         f = "L" => Announces(k), f = "N" /\ Announces(k) => hs # <<>>
  PROVE  Reads(k, cs, HeaderLine(f, v), 0, "open", Headed(k, hs, NoHeader),
               Headed(k, Append(hs, HeaderAt(f, v, 6)), NoHeader))
<1>. DEFINE t == HeaderLine(f, v)
            end == Headed(k, Append(hs, HeaderAt(f, v, 6)), NoHeader)
            R == [j \in 0..6 |-> IF j = 6 THEN end ELSE Headed(k, hs, HeaderAt(f, v, j))]
<1>1. t \in Seq(Byte) /\ Len(t) = 6
  BY DEF HeaderLine, Byte
<1>2. R[6] = end /\ R[0] = Headed(k, hs, NoHeader)
      /\ \A j \in 0..5 : R[j] = Headed(k, hs, HeaderAt(f, v, j))
  <2>. HIDE DEF end
  <2>1. \A j \in 0..6 : R[j] = IF j = 6 THEN end ELSE Headed(k, hs, HeaderAt(f, v, j))
    OBVIOUS
  <2>2. HeaderAt(f, v, 0) = NoHeader
    BY DEF HeaderAt
  <2>. HIDE DEF R
  <2>3. R[6] = end /\ R[0] = Headed(k, hs, HeaderAt(f, v, 0))
    BY <2>1
  <2>4. \A j \in 0..5 : R[j] = Headed(k, hs, HeaderAt(f, v, j))
    BY <2>1
  <2>. QED  BY <2>2, <2>3, <2>4
<1>3. \A j \in 0..6 : HeaderAt(f, v, j) \in ReadHeader
  BY HeaderStates
<1>4. NoHeader \in ReadHeader /\ Append(hs, HeaderAt(f, v, 6)) \in Seq(ReadHeader)
  BY <1>3 DEF ReadHeader
<1>5. \A j \in 0..6 : Good(k, cs, R[j]) /\ Past(k, R[j])
  <2>1. Good(k, cs, end) /\ Past(k, end)
    BY <1>4, HeadedIsGood
  <2>2. \A j \in 0..5 : Good(k, cs, R[j]) /\ Past(k, R[j])
    BY <1>2, <1>3, HeadedIsGood
  <2>. QED  BY <1>2, <2>1, <2>2
<1>. HIDE DEF R, t
<1>6. ASSUME NEW j \in 0..5
      PROVE  /\ ~ Stops(R[j]) /\ R[j].nc <= R[j + 1].nc
             /\ \A last \in BOOLEAN : R[j + 1] = Advance(R[j], t[j + 1], last)
  <2>. DEFINE h == HeaderAt(f, v, j)
              g == HeaderAt(f, v, j + 1)
              b == t[j + 1]
  <2>1. HeaderNext(h, b) = g
    BY HeaderSteps DEF t
  <2>2. h \in ReadHeader /\ g \in ReadHeader /\ R[j] = Headed(k, hs, h)
    BY <1>2, <1>3
  <2>3. (g.at = "complete" <=> j + 1 = 6) /\ (j + 1 = 6 => g.name = NameOf(f))
    BY HeaderStates
  <2>4. j + 1 # 6 => R[j + 1] = Headed(k, hs, g)
    BY <1>2
  <2>5. j + 1 = 6 => R[j + 1] = Headed(k, Append(hs, g), NoHeader)
    BY <1>2
  <2>. HIDE DEF h, g, b
  <2>6. \A last \in BOOLEAN : Advance(Headed(k, hs, h), b, last) = HeaderRead(Headed(k, hs, h), g)
    BY <2>1, <2>2, HeaderAdvances
  <2>7. \A last \in BOOLEAN : R[j + 1] = Advance(R[j], b, last)
    <3>1. CASE j + 1 # 6
      <4>1. HeaderRead(Headed(k, hs, h), g) = Headed(k, hs, g)
        BY <2>2, <2>3, <3>1, HeaderGoesOn
      <4>. QED  BY <2>2, <2>4, <2>6, <3>1, <4>1
    <3>2. CASE j + 1 = 6
      <4>1. g.at = "complete" /\ g.name = NameOf(f)
        BY <2>3, <3>2
      <4>2. HeaderRead(Headed(k, hs, h), g) = HeaderDone(Headed(k, hs, g), g)
        BY <2>2, <4>1, HeaderGoesOn
      <4>3. /\ NameOf(f) # "end" /\ (NameOf(f) = "length" => Announces(k))
            /\ NameOf(f) # "length" /\ Announces(k) => hs # <<>>
        BY DEF NameOf
      <4>4. HeaderDone(Headed(k, hs, g), g) = Headed(k, Append(hs, g), NoHeader)
        BY <2>2, <4>1, <4>3, HeaderEnds
      <4>. QED  BY <2>2, <2>5, <2>6, <3>2, <4>2, <4>4
    <3>. QED  BY <3>1, <3>2
  <2>8. ~ Stops(R[j])
    BY <2>2, HeaderAdvances
  <2>9. R[j].nc <= R[j + 1].nc
    <3>1. \A x, y : Headed(k, x, y).nc = 0
      BY DEF Headed, Reading
    <3>. QED  BY <2>2, <2>4, <2>5, <3>1
  <2>. QED  BY <2>7, <2>8, <2>9 DEF b
<1>7. Path(k, cs, t, R, 0, "open")
  BY <1>1, <1>5, <1>6 DEF Path
<1>. QED  BY <1>1, <1>2, <1>7 DEF Reads, t

LEMMA EndSteps ==
  HeaderNext(NoHeader, "cr") = NoHeader /\ HeaderNext(NoHeader, "lf") = EndHeader
<1>1. NoHeader = HeaderOf("start", "", FALSE, <<>>) /\ EndHeader = HeaderOf("complete", "end", FALSE, <<>>)
  BY DEF NoHeader, EndHeader, HeaderOf
<1>2. ASSUME NEW n, NEW c, NEW t
      PROVE  /\ HeaderNext(HeaderOf("start", n, c, t), "cr") = HeaderOf("start", n, c, t)
             /\ HeaderNext(HeaderOf("start", n, c, t), "lf") = HeaderOf("complete", "end", c, t)
  BY DEF HeaderNext, HeaderOf, Space
<1>. QED  BY <1>1, <1>2, Zenon

LEMMA EndedIsGood ==
  ASSUME NEW k, NEW cs \in Seq(Piece), NEW hs \in Seq(ReadHeader), hs # <<>>
  PROVE  Good(k, cs, Ended(k, hs, Len(hs))) /\ Past(k, Ended(k, hs, Len(hs)))
<1>. DEFINE r == Ended(k, hs, Len(hs))
<1>1. /\ r = Reading(k, r.line, r.found, r.status, r.headers, r.nh, r.chunks, r.nc, r.sized)
      /\ r.headers = hs /\ r.nh = Len(hs) /\ r.chunks = <<NoChunk>> /\ r.nc = 0
      /\ r.line = "done" /\ r.status = StatusOf(k)
  BY DEF Ended, Reading
<1>3. <<NoChunk>> \in Seq(ReadChunk) /\ Len(<<NoChunk>>) = 1
  BY NoChunkIsChunk
<1>4. Len(hs) \in 0..Len(hs) /\ Len(cs) >= 0
  OBVIOUS
<1>. HIDE DEF r
<1>. QED  BY <1>1, <1>3, <1>4 DEF Good, Past, r

LEMMA EndReads ==
  ASSUME NEW k, NEW cs \in Seq(Piece), NEW hs \in Seq(ReadHeader), hs # <<>>
  PROVE  Reads(k, cs, CrLf, 0, "open", Headed(k, hs, NoHeader),
               Ended(k, Append(hs, EndHeader), Len(hs) + 1))
<1>. DEFINE r == Headed(k, hs, NoHeader)
            e == Ended(k, Append(hs, EndHeader), Len(hs) + 1)
            R == [j \in 0..2 |-> IF j = 2 THEN e ELSE r]
<1>1. CrLf \in Seq(Byte) /\ Len(CrLf) = 2 /\ CrLf[1] = "cr" /\ CrLf[2] = "lf"
  BY DEF CrLf, Byte
<1>2. NoHeader \in ReadHeader /\ EndHeader \in ReadHeader
  BY DEF ReadHeader
<1>3. /\ Append(hs, EndHeader) \in Seq(ReadHeader) /\ Append(hs, EndHeader) # <<>>
      /\ Len(Append(hs, EndHeader)) = Len(hs) + 1
  BY <1>2
<1>4. Good(k, cs, r) /\ Past(k, r) /\ Good(k, cs, e) /\ Past(k, e)
  BY <1>2, <1>3, HeadedIsGood, EndedIsGood
<1>5. /\ NoHeader.at # "complete" /\ EndHeader.at = "complete" /\ EndHeader.name = "end"
  BY DEF NoHeader, EndHeader
<1>6. /\ ~ Stops(r) /\ \A last \in BOOLEAN : Advance(r, "cr", last) = r
      /\ \A last \in BOOLEAN : Advance(r, "lf", last) = e
  <2>1. ~ Stops(r)
    BY <1>2, HeaderAdvances
  <2>2. HeaderRead(r, NoHeader) = r
    BY <1>2, <1>5, HeaderGoesOn
  <2>3. HeaderRead(r, EndHeader) = HeaderDone(Headed(k, hs, EndHeader), EndHeader)
    BY <1>2, <1>5, HeaderGoesOn
  <2>4. HeaderDone(Headed(k, hs, EndHeader), EndHeader) = e
    BY <1>2, <1>5, HeaderEnds
  <2>5. ASSUME NEW last \in BOOLEAN
        PROVE  /\ Advance(r, "cr", last) = HeaderRead(r, HeaderNext(NoHeader, "cr"))
               /\ Advance(r, "lf", last) = HeaderRead(r, HeaderNext(NoHeader, "lf"))
    BY <1>2, HeaderAdvances
  <2>. QED  BY <2>1, <2>2, <2>3, <2>4, <2>5, EndSteps
<1>7. r.nc = 0 /\ e.nc = 0
  BY DEF Headed, Ended, Reading
<1>. HIDE DEF r, e
<1>8. R[0] = r /\ R[1] = r /\ R[2] = e
  OBVIOUS
<1>. HIDE DEF R
<1>9. ASSUME NEW j \in 0..1
      PROVE  /\ ~ Stops(R[j]) /\ R[j].nc <= R[j + 1].nc
             /\ \A last \in BOOLEAN : R[j + 1] = Advance(R[j], CrLf[j + 1], last)
  <2>1. CASE j = 0
    <3>1. j + 1 = 1  BY <2>1
    <3>2. R[j] = r /\ R[j + 1] = r /\ CrLf[j + 1] = "cr"
      BY <1>1, <1>8, <2>1, <3>1
    <3>. QED  BY <1>6, <1>7, <3>2
  <2>2. CASE j = 1
    <3>1. j + 1 = 2  BY <2>2
    <3>2. R[j] = r /\ R[j + 1] = e /\ CrLf[j + 1] = "lf"
      BY <1>1, <1>8, <2>2, <3>1
    <3>. QED  BY <1>6, <1>7, <3>2
  <2>. QED  BY <2>1, <2>2
<1>10. \A j \in 0..2 : Good(k, cs, R[j]) /\ Past(k, R[j])
  BY <1>4, <1>8
<1>11. Path(k, cs, CrLf, R, 0, "open")
  BY <1>1, <1>9, <1>10 DEF Path
<1>. QED  BY <1>1, <1>8, <1>11 DEF Reads, r, e

LEMMA LeadReads ==
  ASSUME NEW k \in Kinds, NEW cs \in Seq(Piece)
  PROVE  Reads(k, cs, Lead(k), 13, "open", InLead(k, 0), Headed(k, <<>>, NoHeader))
<1>. DEFINE R == [i \in 0..13 |-> InLead(k, i)]
<1>1. Lead(k) \in Seq(Byte) /\ Len(Lead(k)) = 13
  BY LeadIsText
<1>2. InLead(k, 13) = Headed(k, <<>>, NoHeader)
  <2>1. Append(<<>>, NoHeader) = <<NoHeader>> /\ Len(<<>>) = 0
    OBVIOUS
  <2>2. LineAt(k)[14] = "done" /\ FoundAt(k)[14] = 5
    BY DEF LineAt, FoundAt
  <2>3. StatusAt(k, 13) = StatusOf(k)
    BY DEF StatusAt, StatusOf, Role, Kinds
  <2>4. 13 + 1 = 14
    OBVIOUS
  <2>. QED  BY <2>1, <2>2, <2>3, <2>4 DEF InLead, Headed
<1>3. ASSUME NEW i \in 0..13
      PROVE  Good(k, cs, InLead(k, i)) /\ InLead(k, i).nc = 0
  <2>. DEFINE r == InLead(k, i)
  <2>1. /\ r = Reading(k, r.line, r.found, r.status, r.headers, r.nh, r.chunks, r.nc, r.sized)
        /\ r.headers = <<NoHeader>> /\ r.nh = 0 /\ r.chunks = <<NoChunk>> /\ r.nc = 0
    BY DEF InLead, Reading
  <2>2. /\ <<NoChunk>> \in Seq(ReadChunk) /\ Len(<<NoChunk>>) = 1
        /\ <<NoHeader>> \in Seq(ReadHeader) /\ Len(<<NoHeader>>) = 1 /\ Len(cs) >= 0
    BY NoChunkIsChunk DEF ReadHeader
  <2>. HIDE DEF r
  <2>. QED  BY <2>1, <2>2 DEF Good, r
<1>4. Past(k, InLead(k, 13))
  BY <1>2, HeadedIsGood DEF Past, Headed, Reading
<1>5. ASSUME NEW i \in 0..12
      PROVE  /\ ~ Stops(InLead(k, i))
             /\ \A last \in BOOLEAN : InLead(k, i + 1) = Advance(InLead(k, i), Lead(k)[i + 1], last)
  <2>1. InLead(k, i).stray = FALSE /\ InLead(k, i).fault = FALSE
    BY DEF InLead, Reading
  <2>. QED  BY <2>1, LeadIsRead DEF Stops, Advance
<1>6. \A i \in 0..13 : R[i] = InLead(k, i)
  OBVIOUS
<1>. HIDE DEF R
<1>7. ASSUME NEW i \in 0..12
      PROVE  /\ ~ Stops(R[i]) /\ R[i].nc <= R[i + 1].nc
             /\ \A last \in BOOLEAN : R[i + 1] = Advance(R[i], Lead(k)[i + 1], last)
  <2>1. R[i] = InLead(k, i) /\ R[i + 1] = InLead(k, i + 1) /\ i \in 0..13 /\ i + 1 \in 0..13
    BY <1>6
  <2>. QED  BY <1>3, <1>5, <2>1
<1>8. \A i \in 0..13 : Good(k, cs, R[i]) /\ (i >= 13 => Past(k, R[i]))
  BY <1>3, <1>4, <1>6
<1>9. Path(k, cs, Lead(k), R, 13, "open")
  BY <1>1, <1>7, <1>8 DEF Path
<1>. QED  BY <1>1, <1>2, <1>6, <1>9 DEF Reads

\* The headers of each message.
FirstHeaders(k, v) == IF Announces(k) THEN Append(<<>>, HeaderAt("L", v, 6)) ELSE <<>>
SomeHeaders(k, v) == Append(FirstHeaders(k, v), HeaderAt("N", "j", 6))
AllHeaders(k, v) == Append(SomeHeaders(k, v), EndHeader)
HeadersText(k, v) ==
  IF Announces(k) THEN (HeaderLine("L", v) \o HeaderLine("N", "j")) \o CrLf
  ELSE HeaderLine("N", "j") \o CrLf

AfterHeaders(k, v) == Ended(k, AllHeaders(k, v), Len(AllHeaders(k, v)))

LEMMA HeadersAre ==
  ASSUME NEW k, NEW v \in Byte
  PROVE  /\ FirstHeaders(k, v) \in Seq(ReadHeader) /\ SomeHeaders(k, v) \in Seq(ReadHeader)
         /\ AllHeaders(k, v) \in Seq(ReadHeader)
         /\ SomeHeaders(k, v) # <<>> /\ AllHeaders(k, v) # <<>>
         /\ Announces(k) => FirstHeaders(k, v) # <<>>
         /\ Len(AllHeaders(k, v)) = Len(SomeHeaders(k, v)) + 1
<1>1. /\ HeaderAt("L", v, 6) \in ReadHeader /\ HeaderAt("N", "j", 6) \in ReadHeader
      /\ EndHeader \in ReadHeader
  BY DEF ReadHeader, Byte
<1>2. FirstHeaders(k, v) \in Seq(ReadHeader) /\ (Announces(k) => FirstHeaders(k, v) # <<>>)
  BY <1>1 DEF FirstHeaders
<1>3. SomeHeaders(k, v) \in Seq(ReadHeader) /\ SomeHeaders(k, v) # <<>>
  BY <1>1, <1>2 DEF SomeHeaders
<1>. QED  BY <1>1, <1>2, <1>3 DEF AllHeaders

LEMMA HeadersRead ==
  ASSUME NEW k, NEW cs \in Seq(Piece), NEW v \in Byte \ Space
  PROVE  Reads(k, cs, HeadersText(k, v), 0, "open", Headed(k, <<>>, NoHeader),
               AfterHeaders(k, v))
<1>. DEFINE h0 == Headed(k, <<>>, NoHeader)
            h1 == Headed(k, FirstHeaders(k, v), NoHeader)
            h2 == Headed(k, SomeHeaders(k, v), NoHeader)
            e == AfterHeaders(k, v)
            t1 == HeaderLine("L", v)
            t2 == HeaderLine("N", "j")
<1>1. "j" \in Byte \ Space
  BY DEF Byte, Space
<1>2. Announces(k) => Reads(k, cs, t1, 0, "open", h0, h1)
  <2>1. <<>> \in Seq(ReadHeader)
    OBVIOUS
  <2>2. ASSUME Announces(k)
        PROVE  Reads(k, cs, t1, 0, "open", h0,
                     Headed(k, Append(<<>>, HeaderAt("L", v, 6)), NoHeader))
    BY <2>1, <2>2, HeaderReads
  <2>. QED  BY <2>2 DEF FirstHeaders
<1>3. ~ Announces(k) => h0 = h1
  BY DEF FirstHeaders
<1>4. Reads(k, cs, t2, 0, "open", h1, h2)
  <2>. DEFINE f == FirstHeaders(k, v)
  <2>1. f \in Seq(ReadHeader) /\ (Announces(k) => f # <<>>)
    BY HeadersAre
  <2>. HIDE DEF f
  <2>2. Reads(k, cs, t2, 0, "open", Headed(k, f, NoHeader),
              Headed(k, Append(f, HeaderAt("N", "j", 6)), NoHeader))
    BY <1>1, <2>1, HeaderReads
  <2>. QED  BY <2>2 DEF f, SomeHeaders
<1>5. Reads(k, cs, CrLf, 0, "open", h2, e)
  <2>. DEFINE f == SomeHeaders(k, v)
  <2>1. f \in Seq(ReadHeader) /\ f # <<>> /\ Len(AllHeaders(k, v)) = Len(f) + 1
    BY HeadersAre
  <2>2. Reads(k, cs, CrLf, 0, "open", Headed(k, f, NoHeader),
              Ended(k, Append(f, EndHeader), Len(f) + 1))
    <3>. HIDE DEF f
    <3>. QED  BY <2>1, EndReads
  <2>. QED  BY <2>1, <2>2 DEF AllHeaders, AfterHeaders
<1>6. Len(t1) = 6 /\ Len(t2) = 6 /\ Len(t1 \o t2) = 12
  BY DEF HeaderLine
<1>. HIDE DEF h0, h1, h2, e, t1, t2
<1>7. CASE Announces(k)
  <2>1. Reads(k, cs, t1 \o t2, 0, "open", h0, h2)
    BY <1>2, <1>4, <1>6, <1>7, ReadsJoin
  <2>2. Reads(k, cs, (t1 \o t2) \o CrLf, 0, "open", h0, e)
    BY <1>5, <1>6, <2>1, ReadsJoin
  <2>. QED  BY <1>7, <2>2 DEF HeadersText, h0, e, t1, t2
<1>8. CASE ~ Announces(k)
  <2>1. Reads(k, cs, t2, 0, "open", h0, h2)
    BY <1>3, <1>4, <1>8
  <2>2. Reads(k, cs, t2 \o CrLf, 0, "open", h0, e)
    BY <1>5, <1>6, <2>1, ReadsJoin
  <2>. QED  BY <1>8, <2>2 DEF HeadersText, h0, e, t2
<1>. QED  BY <1>7, <1>8

LEMMA HeadReads ==
  ASSUME NEW k \in Kinds, NEW cs \in Seq(Piece), NEW v \in Byte \ Space
  PROVE  Reads(k, cs, Lead(k) \o HeadersText(k, v), 13, "open", InLead(k, 0),
               AfterHeaders(k, v))
<1>1. Len(Lead(k)) = 13
  BY LeadIsText
<1>2. Reads(k, cs, Lead(k), 13, "open", InLead(k, 0), Headed(k, <<>>, NoHeader))
  BY LeadReads
<1>3. Reads(k, cs, HeadersText(k, v), 0, "open", Headed(k, <<>>, NoHeader), AfterHeaders(k, v))
  BY HeadersRead
<1>4. 13 \in Nat /\ 13 <= Len(Lead(k))
  BY <1>1
<1>. DEFINE s == Lead(k)  t == HeadersText(k, v)  q == Headed(k, <<>>, NoHeader)
<1>. HIDE DEF s, t, q
<1>5. Reads(k, cs, s, 13, "open", InLead(k, 0), q) /\ Reads(k, cs, t, 0, "open", q, AfterHeaders(k, v))
  BY <1>2, <1>3 DEF s, t, q
<1>6. Reads(k, cs, s \o t, 13, "open", InLead(k, 0), AfterHeaders(k, v))
  BY <1>4, <1>5, ReadsJoin DEF s
<1>. QED  BY <1>6 DEF s, t

-----------------------------------------------------------------------------
(* Chunks.                                                                 *)

LEMMA ChunkBegins ==
  ASSUME NEW h, NEW s, NEW g, NEW d, NEW b, b \notin Space
  PROVE  ChunkNext(Part("start", h, s, g, d), b) = Part("digits", <<b>>, s, g, d)
BY DEF ChunkNext, Part

LEMMA DigitIsRead ==
  ASSUME NEW h, NEW s, NEW g, NEW d, NEW b, b \notin Space
  PROVE  ChunkNext(Part("digits", h, s, g, d), b) = Part("digits", Append(h, b), s, g, d)
BY DEF ChunkNext, Part

LEMMA SizeIsRead ==
  ASSUME NEW h, NEW s, NEW g, NEW d
  PROVE  /\ ChunkNext(Part("digits", h, s, g, d), "cr") = Part("seek", h, Hex(h), g, d)
         /\ ChunkNext(Part("seek", h, s, g, d), "lf") = Part("body", h, s, <<0>>, d)
BY DEF ChunkNext, Part, Space

LEMMA DatumIsRead ==
  ASSUME NEW h, NEW s, NEW g, NEW d, NEW b, Less(g, s)
  PROVE  ChunkNext(Part("body", h, s, g, d), b) = Part("body", h, s, Increment(g), Append(d, b))
BY DEF ChunkNext, Part

LEMMA ChunkIsComplete ==
  ASSUME NEW h, NEW s, NEW g, NEW d, ~ Less(g, s)
  PROVE  /\ ChunkNext(Part("body", h, s, g, d), "cr") = Part("body", h, s, g, d)
         /\ ChunkNext(Part("body", h, s, g, d), "lf") = Part("complete", h, s, g, d)
BY DEF ChunkNext, Part

LEMMA PartHas ==
  ASSUME NEW at, NEW h, NEW s, NEW g, NEW d
  PROVE  /\ Part(at, h, s, g, d).at = at /\ Part(at, h, s, g, d).header = h
         /\ Part(at, h, s, g, d).size = s /\ Part(at, h, s, g, d).got = g
         /\ Part(at, h, s, g, d).data = d
BY DEF Part

\* The reader after the chunks ds and a part of a further one, and after the last.
Chunked(k, hs, ds, c) ==
  Reading(k, "done", 5, StatusOf(k), hs, Len(hs), Append(ds, c), Len(ds), FALSE)
Complete(k, hs, ds) ==
  Reading(k, "done", 5, StatusOf(k), hs, Len(hs), ds, Len(ds), FALSE)

\* The chunks that were read are the first of those written.
Matches(ds, cs) ==
  /\ ds \in Seq(ReadChunk) /\ cs \in Seq(Piece) /\ Len(ds) <= Len(cs)
  /\ \A i \in 1..Len(ds) : ds[i].size = cs[i].size /\ ds[i].data = cs[i].data

LEMMA ChunkedIsGood ==
  ASSUME NEW k, NEW cs, NEW hs \in Seq(ReadHeader), hs # <<>>, NEW ds, NEW c \in ReadChunk,
         Matches(ds, cs)
  PROVE  /\ Good(k, cs, Chunked(k, hs, ds, c)) /\ Past(k, Chunked(k, hs, ds, c))
         /\ Good(k, cs, Complete(k, hs, ds)) /\ Past(k, Complete(k, hs, ds))
<1>1. /\ ds \in Seq(ReadChunk) /\ Len(ds) \in Nat /\ Len(ds) <= Len(cs) /\ Len(hs) \in 0..Len(hs)
      /\ Append(ds, c) \in Seq(ReadChunk) /\ Len(ds) \in 0..Len(Append(ds, c))
      /\ \A i \in 1..Len(ds) : Append(ds, c)[i] = ds[i]
      /\ Len(ds) \in 0..Len(ds)
      /\ \A i \in 1..Len(ds) : ds[i].size = cs[i].size /\ ds[i].data = cs[i].data
  BY DEF Matches
<1>2. Good(k, cs, Chunked(k, hs, ds, c)) /\ Past(k, Chunked(k, hs, ds, c))
  <2>. DEFINE r == Chunked(k, hs, ds, c)
  <2>1. /\ r = Reading(k, r.line, r.found, r.status, r.headers, r.nh, r.chunks, r.nc, r.sized)
        /\ r.headers = hs /\ r.nh = Len(hs) /\ r.chunks = Append(ds, c) /\ r.nc = Len(ds)
        /\ r.line = "done" /\ r.status = StatusOf(k)
    BY DEF Chunked, Reading
  <2>. HIDE DEF r
  <2>. QED  BY <1>1, <2>1 DEF Good, Past, r
<1>3. Good(k, cs, Complete(k, hs, ds)) /\ Past(k, Complete(k, hs, ds))
  <2>. DEFINE r == Complete(k, hs, ds)
  <2>1. /\ r = Reading(k, r.line, r.found, r.status, r.headers, r.nh, r.chunks, r.nc, r.sized)
        /\ r.headers = hs /\ r.nh = Len(hs) /\ r.chunks = ds /\ r.nc = Len(ds)
        /\ r.line = "done" /\ r.status = StatusOf(k)
    BY DEF Complete, Reading
  <2>. HIDE DEF r
  <2>. QED  BY <1>1, <2>1 DEF Good, Past, r
<1>. QED  BY <1>2, <1>3

LEMMA ChunkAdvances ==
  ASSUME NEW k, NEW hs, NEW ds \in Seq(ReadChunk), NEW c \in ReadChunk, NEW b
  PROVE  /\ ~ Stops(Chunked(k, hs, ds, c))
         /\ \A last \in BOOLEAN :
              Advance(Chunked(k, hs, ds, c), b, last) = BodyNext(Chunked(k, hs, ds, c), c, b, last)
<1>. DEFINE r == Chunked(k, hs, ds, c)
            all == Append(ds, c)
<1>1. /\ r.line = "done" /\ r.nh = Len(hs) /\ r.headers = hs /\ r.stray = FALSE
      /\ r.fault = FALSE /\ r.chunks = all /\ r.nc = Len(ds) /\ r.sized = FALSE
  BY DEF Chunked, Reading
<1>2. Len(all) = Len(ds) + 1 /\ all[Len(ds) + 1] = c /\ Len(ds) \in Nat /\ Len(ds) # Len(all)
  OBVIOUS
<1>3. ~ Stops(r)
  BY <1>1, <1>2 DEF Stops
<1>4. InBody(r, c) = c
  BY <1>1 DEF InBody
<1>5. ~ (Len(hs) < Len(hs))
  OBVIOUS
<1>6. \A last \in BOOLEAN : Advance(r, b, last) = BodyNext(r, InBody(r, all[Len(ds) + 1]), b, last)
  BY <1>1, <1>5 DEF Advance
<1>. QED  BY <1>2, <1>3, <1>4, <1>6

LEMMA ChunkGoesOn ==
  ASSUME NEW k, NEW hs, NEW ds \in Seq(ReadChunk), NEW c \in ReadChunk, NEW b,
         NEW g \in ReadChunk, g = ChunkNext(c, b),
         c.at = "digits" /\ b \in Space => ~ HexFails(c.header), NEW last \in BOOLEAN
  PROVE  BodyNext(Chunked(k, hs, ds, c), c, b, last) =
           IF g.at = "complete" THEN ChunkDone(Chunked(k, hs, ds, g), g)
           ELSE Chunked(k, hs, ds, g)
<1>. DEFINE r == Chunked(k, hs, ds, c)
<1>1. Len(Append(ds, c)) = Len(ds) + 1 /\ Len(ds) \in Nat
  OBVIOUS
<1>2. [Append(ds, c) EXCEPT ![Len(ds) + 1] = g] = Append(ds, g)
  BY Replaced
<1>3. PICK q : q = [r EXCEPT !.chunks[r.nc + 1] = g]
  OBVIOUS
<1>4. q = Chunked(k, hs, ds, g)
  BY <1>1, <1>2, <1>3 DEF Chunked, Reading
<1>5. r.sized = FALSE
  BY DEF Chunked, Reading
<1>6. BodyRead(r, g, last) = IF g.at = "complete" THEN ChunkDone(q, g) ELSE q
  BY <1>3, <1>5, Zenon DEF BodyRead
<1>7. BodyNext(r, c, b, last) = BodyRead(r, g, last)
  BY Zenon DEF BodyNext
<1>. QED  BY <1>4, <1>6, <1>7

LEMMA ChunkEnds ==
  ASSUME NEW k, NEW hs, NEW ds \in Seq(ReadChunk), NEW g \in ReadChunk
  PROVE  ChunkDone(Chunked(k, hs, ds, g), g) =
           IF g.size = <<0>> THEN Complete(k, hs, Append(ds, g))
           ELSE Chunked(k, hs, Append(ds, g), NoChunk)
<1>1. Len(Append(ds, g)) = Len(ds) + 1
  OBVIOUS
<1>2. PICK q : q = ChunkDone(Chunked(k, hs, ds, g), g)
  OBVIOUS
<1>3. g.size # <<0>> => q = Chunked(k, hs, Append(ds, g), NoChunk)
  BY <1>1, <1>2 DEF ChunkDone, Chunked, Reading
<1>4. g.size = <<0>> => q = Complete(k, hs, Append(ds, g))
  BY <1>1, <1>2 DEF ChunkDone, Chunked, Complete, Reading
<1>. QED  BY <1>2, <1>3, <1>4

\* A text that leads from one state of a chunk to the next.
LEMMA PartReads ==
  ASSUME NEW k, NEW cs, NEW hs \in Seq(ReadHeader), hs # <<>>, NEW ds, Matches(ds, cs),
         NEW t \in Seq(Byte), NEW C, \A i \in 0..Len(t) : C[i] \in ReadChunk,
         \A i \in 0 .. Len(t) - 1 :
           /\ C[i + 1] = ChunkNext(C[i], t[i + 1]) /\ C[i + 1].at # "complete"
           /\ C[i].at = "digits" /\ t[i + 1] \in Space => ~ HexFails(C[i].header)
  PROVE  Reads(k, cs, t, 0, "open", Chunked(k, hs, ds, C[0]), Chunked(k, hs, ds, C[Len(t)]))
<1>. DEFINE R == [i \in 0..Len(t) |-> Chunked(k, hs, ds, C[i])]
<1>1. \A i \in 0..Len(t) : R[i] = Chunked(k, hs, ds, C[i])
  OBVIOUS
<1>2. ds \in Seq(ReadChunk) /\ Len(t) \in Nat /\ 0 \in 0..Len(t) /\ Len(t) \in 0..Len(t)
  BY DEF Matches
<1>. HIDE DEF R
<1>3. \A i \in 0..Len(t) : Good(k, cs, R[i]) /\ Past(k, R[i])
  BY <1>1, ChunkedIsGood
<1>4. ASSUME NEW i \in 0 .. Len(t) - 1
      PROVE  /\ ~ Stops(R[i]) /\ R[i].nc <= R[i + 1].nc
             /\ \A last \in BOOLEAN : R[i + 1] = Advance(R[i], t[i + 1], last)
  <2>. DEFINE c == C[i]
              g == C[i + 1]
              b == t[i + 1]
  <2>1. /\ i \in 0..Len(t) /\ i + 1 \in 0..Len(t)
        /\ c \in ReadChunk /\ g \in ReadChunk /\ g = ChunkNext(c, b) /\ g.at # "complete"
        /\ R[i] = Chunked(k, hs, ds, c) /\ R[i + 1] = Chunked(k, hs, ds, g)
    BY <1>1, <1>2
  <2>2. c.at = "digits" /\ b \in Space => ~ HexFails(c.header)
    OBVIOUS
  <2>. HIDE DEF c, g, b
  <2>3. ~ Stops(R[i])
    BY <1>2, <2>1, ChunkAdvances
  <2>4. \A x : Chunked(k, hs, ds, x).nc = Len(ds)
    BY DEF Chunked, Reading
  <2>5. Len(ds) <= Len(ds)
    BY <1>2
  <2>6. \A last \in BOOLEAN : Advance(Chunked(k, hs, ds, c), b, last) = BodyNext(Chunked(k, hs, ds, c), c, b, last)
    BY <1>2, <2>1, ChunkAdvances
  <2>7. \A last \in BOOLEAN : BodyNext(Chunked(k, hs, ds, c), c, b, last) =
           IF g.at = "complete" THEN ChunkDone(Chunked(k, hs, ds, g), g)
           ELSE Chunked(k, hs, ds, g)
    BY <1>2, <2>1, <2>2, ChunkGoesOn
  <2>8. \A last \in BOOLEAN : R[i + 1] = Advance(R[i], b, last)
    BY <2>1, <2>6, <2>7
  <2>. QED  BY <2>1, <2>3, <2>4, <2>5, <2>8 DEF b
<1>5. Path(k, cs, t, R, 0, "open")
  BY <1>3, <1>4 DEF Path
<1>. QED  BY <1>1, <1>2, <1>5 DEF Reads

LEMMA FirstOf ==
  ASSUME NEW S, NEW t \in Seq(S), Len(t) \in Nat \ {0}
  PROVE  SubSeq(t, 1, 1) = <<t[1]>>
<1>. DEFINE u == SubSeq(t, 1, 1)
<1>1. u \in Seq(S) /\ Len(u) = 1 /\ u[1] = t[1]
  OBVIOUS
<1>2. <<t[1]>> \in Seq(S) /\ Len(<<t[1]>>) = 1
  OBVIOUS
<1>. HIDE DEF u
<1>3. \A i \in 1..1 : u[i] = <<t[1]>>[i]
  BY <1>1
<1>4. u = <<t[1]>>
  BY <1>1, <1>2, <1>3
<1>. QED  BY <1>4 DEF u

\* A chunk that was read whole.
Whole(c) == Part("complete", Text(c.size), c.size, c.size, c.data)

LEMMA SizeReads ==
  ASSUME NEW k, NEW cs, NEW hs \in Seq(ReadHeader), hs # <<>>, NEW ds, Matches(ds, cs),
         NEW c \in Piece, Payloads # {}
  PROVE  Reads(k, cs, Text(c.size), 0, "open", Chunked(k, hs, ds, NoChunk),
               Chunked(k, hs, ds, Part("digits", Text(c.size), <<0>>, <<0>>, <<>>)))
<1>. DEFINE t == Text(c.size)
            C == [i \in 0..Len(t) |-> IF i = 0 THEN NoChunk
                    ELSE Part("digits", SubSeq(t, 1, i), <<0>>, <<0>>, <<>>)]
<1>1. t \in Seq(Byte) /\ Len(t) \in Nat \ {0} /\ \A i \in 1..Len(t) : t[i] \notin Space
  <2>. DEFINE x == Len(c.data)
  <2>1. Small(x) /\ c.size = <<x>>
    BY PieceIs
  <2>. HIDE DEF x
  <2>2. /\ Text(<<x>>) \in Seq(Byte) /\ Len(Text(<<x>>)) = Places(x)
        /\ \A i \in 1..Places(x) : Text(<<x>>)[i] \notin Space
    BY <2>1, TextIs
  <2>3. Places(x) \in 1 .. Width - 1 /\ Width \in Nat
    BY <2>1, PlacesAre, RadixAssumption
  <2>. QED  BY <2>1, <2>2, <2>3
<1>. HIDE DEF t
<1>2. /\ C[0] = NoChunk
      /\ \A i \in 1..Len(t) : C[i] = Part("digits", SubSeq(t, 1, i), <<0>>, <<0>>, <<>>)
  BY <1>1
<1>. HIDE DEF C
<1>3. <<>> \in Seq(Byte) /\ <<0>> \in Seq(Nat) /\ \A i \in 1..Len(t) : SubSeq(t, 1, i) \in Seq(Byte)
  BY <1>1
<1>4. \A i \in 0..Len(t) : C[i] \in ReadChunk
  <2>1. \A i \in 1..Len(t) : Part("digits", SubSeq(t, 1, i), <<0>>, <<0>>, <<>>) \in ReadChunk
    BY <1>3, PartIsChunk
  <2>. QED  BY <1>1, <1>2, <2>1, NoChunkIsChunk
<1>5. ASSUME NEW i \in 0 .. Len(t) - 1
      PROVE  /\ C[i + 1] = ChunkNext(C[i], t[i + 1]) /\ C[i + 1].at # "complete"
             /\ C[i].at = "digits" /\ t[i + 1] \in Space => ~ HexFails(C[i].header)
  <2>1. t[i + 1] \notin Space
    BY <1>1
  <2>2. i + 1 \in 1..Len(t) /\ C[i + 1] = Part("digits", SubSeq(t, 1, i + 1), <<0>>, <<0>>, <<>>)
    BY <1>1, <1>2
  <2>3. C[i + 1].at # "complete"
    BY <2>2, PartHas
  <2>4. CASE i = 0
    <3>1. SubSeq(t, 1, 1) = <<t[1]>> /\ i + 1 = 1
      BY <1>1, <2>4, FirstOf
    <3>2. C[0] = Part("start", <<>>, <<0>>, <<0>>, <<>>)
      BY <1>2, NoChunkIsChunk
    <3>3. ChunkNext(C[0], t[1]) = Part("digits", <<t[1]>>, <<0>>, <<0>>, <<>>)
      BY <2>1, <3>1, <3>2, ChunkBegins
    <3>. QED  BY <2>1, <2>2, <2>3, <2>4, <3>1, <3>3
  <2>5. CASE i # 0
    <3>1. SubSeq(t, 1, i + 1) = Append(SubSeq(t, 1, i), t[i + 1]) /\ i \in 1..Len(t)
      BY <1>1, <2>5
    <3>2. C[i] = Part("digits", SubSeq(t, 1, i), <<0>>, <<0>>, <<>>)
      BY <1>2, <3>1
    <3>3. ChunkNext(C[i], t[i + 1]) = Part("digits", Append(SubSeq(t, 1, i), t[i + 1]), <<0>>, <<0>>, <<>>)
      BY <2>1, <3>2, DigitIsRead
    <3>. QED  BY <2>1, <2>2, <2>3, <3>1, <3>3
  <2>. QED  BY <2>4, <2>5
<1>6. Reads(k, cs, t, 0, "open", Chunked(k, hs, ds, C[0]), Chunked(k, hs, ds, C[Len(t)]))
  BY <1>1, <1>4, <1>5, PartReads
<1>7. SubSeq(t, 1, Len(t)) = t /\ Len(t) \in 1..Len(t)
  BY <1>1
<1>. QED  BY <1>2, <1>6, <1>7 DEF t

LEMMA CrLfIs ==
  CrLf \in Seq(Byte) /\ Len(CrLf) = 2 /\ CrLf[1] = "cr" /\ CrLf[2] = "lf"
BY DEF CrLf, Byte

LEMMA SizeEndReads ==
  ASSUME NEW k, NEW cs, NEW hs \in Seq(ReadHeader), hs # <<>>, NEW ds, Matches(ds, cs),
         NEW t \in Seq(Byte), NEW s \in Seq(Nat), ~ HexFails(t), Hex(t) = s
  PROVE  Reads(k, cs, CrLf, 0, "open",
               Chunked(k, hs, ds, Part("digits", t, <<0>>, <<0>>, <<>>)),
               Chunked(k, hs, ds, Part("body", t, s, <<0>>, <<>>)))
<1>. DEFINE c0 == Part("digits", t, <<0>>, <<0>>, <<>>)
            c1 == Part("seek", t, s, <<0>>, <<>>)
            c2 == Part("body", t, s, <<0>>, <<>>)
            C == [i \in 0..2 |-> IF i = 0 THEN c0 ELSE IF i = 1 THEN c1 ELSE c2]
<1>1. <<>> \in Seq(Byte) /\ <<0>> \in Seq(Nat)
  OBVIOUS
<1>2. c0 \in ReadChunk /\ c1 \in ReadChunk /\ c2 \in ReadChunk
  BY <1>1, PartIsChunk
<1>3. ChunkNext(c0, "cr") = c1 /\ ChunkNext(c1, "lf") = c2
  BY SizeIsRead
<1>4. c1.at = "seek" /\ c2.at = "body" /\ c0.header = t
  BY PartHas
<1>. HIDE DEF c0, c1, c2
<1>5. C[0] = c0 /\ C[1] = c1 /\ C[2] = c2
  OBVIOUS
<1>. HIDE DEF C
<1>6. \A i \in 0..Len(CrLf) : C[i] \in ReadChunk
  <2>1. \A i \in 0..2 : i = 0 \/ i = 1 \/ i = 2
    OBVIOUS
  <2>. QED  BY <1>2, <1>5, <2>1, CrLfIs
<1>7. ASSUME NEW i \in 0 .. Len(CrLf) - 1
      PROVE  /\ C[i + 1] = ChunkNext(C[i], CrLf[i + 1]) /\ C[i + 1].at # "complete"
             /\ C[i].at = "digits" /\ CrLf[i + 1] \in Space => ~ HexFails(C[i].header)
  <2>1. CASE i = 0
    <3>1. i + 1 = 1  BY <2>1
    <3>. QED  BY <1>3, <1>4, <1>5, <2>1, <3>1, CrLfIs
  <2>2. CASE i = 1
    <3>1. i + 1 = 2  BY <2>2
    <3>. QED  BY <1>3, <1>4, <1>5, <2>2, <3>1, CrLfIs
  <2>. QED  BY <2>1, <2>2, CrLfIs
<1>8. Reads(k, cs, CrLf, 0, "open", Chunked(k, hs, ds, C[0]), Chunked(k, hs, ds, C[Len(CrLf)]))
  BY <1>6, <1>7, CrLfIs, PartReads
<1>. QED  BY <1>5, <1>8, CrLfIs DEF c0, c2

LEMMA DataReads ==
  ASSUME NEW k, NEW cs, NEW hs \in Seq(ReadHeader), hs # <<>>, NEW ds, Matches(ds, cs),
         NEW t \in Seq(Byte), NEW d \in Seq(Byte), Small(Len(d))
  PROVE  Reads(k, cs, d, 0, "open",
               Chunked(k, hs, ds, Part("body", t, <<Len(d)>>, <<0>>, <<>>)),
               Chunked(k, hs, ds, Part("body", t, <<Len(d)>>, <<Len(d)>>, d)))
<1>. DEFINE x == Len(d)
            C == [i \in 0..x |-> Part("body", t, <<x>>, <<i>>, SubSeq(d, 1, i))]
<1>1. x \in Nat /\ x <= Highest /\ Highest \in Nat
  BY SmallIsWord
<1>2. SubSeq(d, 1, 0) = <<>> /\ SubSeq(d, 1, x) = d /\ \A i \in 0..x : SubSeq(d, 1, i) \in Seq(Byte)
  OBVIOUS
<1>3. \A i \in 0 .. x - 1 : SubSeq(d, 1, i + 1) = Append(SubSeq(d, 1, i), d[i + 1])
  OBVIOUS
<1>. HIDE DEF x
<1>4. \A i \in 0..x : C[i] = Part("body", t, <<x>>, <<i>>, SubSeq(d, 1, i))
  OBVIOUS
<1>. HIDE DEF C
<1>5. \A i \in 0..x : C[i] \in ReadChunk
  <2>1. \A i \in Nat : <<i>> \in Seq(Nat)
    OBVIOUS
  <2>2. ASSUME NEW i \in 0..x
        PROVE  Part("body", t, <<x>>, <<i>>, SubSeq(d, 1, i)) \in ReadChunk
    <3>1. SubSeq(d, 1, i) \in Seq(Byte) /\ <<x>> \in Seq(Nat) /\ <<i>> \in Seq(Nat)
      BY <1>1, <1>2, <2>1
    <3>. QED  BY <3>1, PartIsChunk
  <2>. QED  BY <1>4, <2>2
<1>6. ASSUME NEW i \in 0 .. x - 1
      PROVE  /\ C[i + 1] = ChunkNext(C[i], d[i + 1]) /\ C[i + 1].at # "complete"
             /\ C[i].at = "digits" /\ d[i + 1] \in Space => ~ HexFails(C[i].header)
  <2>1. i \in Nat /\ i < x /\ i < Highest /\ i \in 0..x /\ i + 1 \in 0..x
    BY <1>1
  <2>2. Less(<<i>>, <<x>>) /\ Increment(<<i>>) = <<i + 1>>
    BY <1>1, <2>1, WordsCount
  <2>3. /\ C[i] = Part("body", t, <<x>>, <<i>>, SubSeq(d, 1, i))
        /\ C[i + 1] = Part("body", t, <<x>>, <<i + 1>>, SubSeq(d, 1, i + 1))
    BY <1>4, <2>1
  <2>4. ChunkNext(C[i], d[i + 1]) =
          Part("body", t, <<x>>, Increment(<<i>>), Append(SubSeq(d, 1, i), d[i + 1]))
    BY <2>2, <2>3, DatumIsRead
  <2>5. C[i].at = "body" /\ C[i + 1].at = "body"
    BY <2>3, PartHas
  <2>. QED  BY <1>3, <2>2, <2>3, <2>4, <2>5
<1>7. Reads(k, cs, d, 0, "open", Chunked(k, hs, ds, C[0]), Chunked(k, hs, ds, C[Len(d)]))
  BY <1>1, <1>5, <1>6, PartReads DEF x
<1>8. 0 \in 0..x /\ x \in 0..x /\ Len(d) = x
  BY <1>1 DEF x
<1>9. C[0] = Part("body", t, <<x>>, <<0>>, <<>>) /\ C[x] = Part("body", t, <<x>>, <<x>>, d)
  BY <1>2, <1>4, <1>8
<1>. QED  BY <1>7, <1>8, <1>9

LEMMA ChunkEndReads ==
  ASSUME NEW k, NEW cs, NEW hs \in Seq(ReadHeader), hs # <<>>, NEW ds, Matches(ds, cs),
         NEW g \in ReadChunk, g.at = "body", ~ Less(g.got, g.size),
         NEW e \in ReadChunk, ChunkNext(g, "cr") = g, ChunkNext(g, "lf") = e,
         e.at = "complete", Matches(Append(ds, e), cs)
  PROVE  Reads(k, cs, CrLf, 0, "open", Chunked(k, hs, ds, g),
               IF e.size = <<0>> THEN Complete(k, hs, Append(ds, e))
               ELSE Chunked(k, hs, Append(ds, e), NoChunk))
<1>. DEFINE r == Chunked(k, hs, ds, g)
            q == IF e.size = <<0>> THEN Complete(k, hs, Append(ds, e))
                 ELSE Chunked(k, hs, Append(ds, e), NoChunk)
            R == [j \in 0..2 |-> IF j = 2 THEN q ELSE r]
<1>1. ds \in Seq(ReadChunk) /\ Len(ds) \in Nat /\ Len(Append(ds, e)) = Len(ds) + 1
  BY DEF Matches
<1>2. NoChunk \in ReadChunk
  BY NoChunkIsChunk
<1>3. Good(k, cs, r) /\ Past(k, r) /\ Good(k, cs, q) /\ Past(k, q)
  <2>1. Good(k, cs, r) /\ Past(k, r)
    BY ChunkedIsGood
  <2>2. Good(k, cs, q) /\ Past(k, q)
    BY <1>2, ChunkedIsGood
  <2>. QED  BY <2>1, <2>2
<1>4. r.nc = Len(ds) /\ q.nc = Len(ds) + 1
  BY <1>1 DEF Chunked, Complete, Reading
<1>5. ~ Stops(r)
  BY <1>1, ChunkAdvances
<1>6. ASSUME NEW last \in BOOLEAN
      PROVE  Advance(r, "cr", last) = r /\ Advance(r, "lf", last) = q
  <2>1. /\ Advance(r, "cr", last) = BodyNext(r, g, "cr", last)
        /\ Advance(r, "lf", last) = BodyNext(r, g, "lf", last)
    BY <1>1, ChunkAdvances
  <2>2. g.at = "digits" /\ "cr" \in Space => ~ HexFails(g.header)
    OBVIOUS
  <2>3. g.at = "digits" /\ "lf" \in Space => ~ HexFails(g.header)
    OBVIOUS
  <2>4. BodyNext(r, g, "cr", last) = IF g.at = "complete" THEN ChunkDone(r, g) ELSE r
    BY <1>1, <2>2, ChunkGoesOn
  <2>5. BodyNext(r, g, "lf", last) =
          IF e.at = "complete" THEN ChunkDone(Chunked(k, hs, ds, e), e) ELSE Chunked(k, hs, ds, e)
    BY <1>1, <2>3, ChunkGoesOn
  <2>6. ChunkDone(Chunked(k, hs, ds, e), e) = q
    BY <1>1, ChunkEnds
  <2>. HIDE DEF r, q
  <2>. QED  BY <2>1, <2>4, <2>5, <2>6
<1>. HIDE DEF r, q
<1>7. R[0] = r /\ R[1] = r /\ R[2] = q
  OBVIOUS
<1>. HIDE DEF R
<1>8. ASSUME NEW j \in 0..1
      PROVE  /\ ~ Stops(R[j]) /\ R[j].nc <= R[j + 1].nc
             /\ \A last \in BOOLEAN : R[j + 1] = Advance(R[j], CrLf[j + 1], last)
  <2>1. CASE j = 0
    <3>1. j + 1 = 1  BY <2>1
    <3>2. R[j] = r /\ R[j + 1] = r /\ CrLf[j + 1] = "cr"
      BY <1>7, <2>1, <3>1, CrLfIs
    <3>. QED  BY <1>1, <1>4, <1>5, <1>6, <3>2
  <2>2. CASE j = 1
    <3>1. j + 1 = 2  BY <2>2
    <3>2. R[j] = r /\ R[j + 1] = q /\ CrLf[j + 1] = "lf"
      BY <1>7, <2>2, <3>1, CrLfIs
    <3>. QED  BY <1>1, <1>4, <1>5, <1>6, <3>2
  <2>. QED  BY <2>1, <2>2
<1>9. \A j \in 0..2 : Good(k, cs, R[j]) /\ Past(k, R[j])
  <2>1. \A i \in 0..2 : i = 0 \/ i = 1 \/ i = 2
    OBVIOUS
  <2>. QED  BY <1>3, <1>7, <2>1
<1>10. Path(k, cs, CrLf, R, 0, "open")
  BY <1>8, <1>9, CrLfIs DEF Path
<1>. QED  BY <1>7, <1>10, CrLfIs DEF Reads, r, q

LEMMA WholeMatches ==
  ASSUME NEW ds, NEW cs, Matches(ds, cs), Payloads # {}, Len(ds) < Len(cs),
         NEW c, c = cs[Len(ds) + 1]
  PROVE  /\ c \in Piece /\ Whole(c) \in ReadChunk /\ Matches(Append(ds, Whole(c)), cs)
         /\ Whole(c).size = c.size /\ Whole(c).at = "complete"
<1>1. ds \in Seq(ReadChunk) /\ Len(ds) \in Nat /\ Len(cs) \in Nat /\ c \in Piece
  BY DEF Matches
<1>2. c.data \in Seq(Byte) /\ Text(c.size) \in Seq(Byte) /\ c.size \in Seq(Nat)
  <2>. DEFINE x == Len(c.data)
  <2>1. c.data \in Seq(Byte) /\ c.size = <<x>> /\ Small(x)
    BY <1>1, PieceIs
  <2>. HIDE DEF x
  <2>2. Text(<<x>>) \in Seq(Byte) /\ x \in Nat
    BY <2>1, TextIs, SmallIsWord
  <2>. QED  BY <2>1, <2>2
<1>3. Whole(c) \in ReadChunk
  BY <1>2, PartIsChunk DEF Whole
<1>4. Whole(c).size = c.size /\ Whole(c).data = c.data /\ Whole(c).at = "complete"
  BY PartHas DEF Whole
<1>. DEFINE w == Whole(c)
<1>. HIDE DEF w
<1>5. Matches(Append(ds, w), cs)
  <2>1. w \in ReadChunk /\ w.size = c.size /\ w.data = c.data
    BY <1>3, <1>4 DEF w
  <2>2. /\ Append(ds, w) \in Seq(ReadChunk) /\ Len(Append(ds, w)) = Len(ds) + 1
        /\ \A i \in 1..Len(ds) : Append(ds, w)[i] = ds[i]
        /\ Append(ds, w)[Len(ds) + 1] = w
    BY <1>1, <2>1
  <2>3. \A i \in 1 .. Len(ds) + 1 : i \in 1..Len(ds) \/ i = Len(ds) + 1
    BY <1>1
  <2>. QED  BY <1>1, <2>1, <2>2, <2>3 DEF Matches
<1>. QED  BY <1>1, <1>3, <1>4, <1>5 DEF w

\* The reader after a chunk that was read whole.
AfterChunk(k, hs, ds, c) ==
  IF c.size = <<0>> THEN Complete(k, hs, Append(ds, Whole(c)))
  ELSE Chunked(k, hs, Append(ds, Whole(c)), NoChunk)

LEMMA ChunkReads ==
  ASSUME NEW k, NEW cs, NEW hs \in Seq(ReadHeader), hs # <<>>, NEW ds, Matches(ds, cs),
         Payloads # {}, Len(ds) < Len(cs), NEW c, c = cs[Len(ds) + 1]
  PROVE  Reads(k, cs, ChunkText(c), 0, "open", Chunked(k, hs, ds, NoChunk),
               AfterChunk(k, hs, ds, c))
<1>. DEFINE t == Text(c.size)
            d == c.data
            r0 == Chunked(k, hs, ds, NoChunk)
            r1 == Chunked(k, hs, ds, Part("digits", t, <<0>>, <<0>>, <<>>))
            r2 == Chunked(k, hs, ds, Part("body", t, c.size, <<0>>, <<>>))
            g == Part("body", t, c.size, c.size, d)
            r3 == Chunked(k, hs, ds, g)
            r4 == AfterChunk(k, hs, ds, c)
<1>1. /\ c \in Piece /\ Whole(c) \in ReadChunk /\ Matches(Append(ds, Whole(c)), cs)
      /\ Whole(c).size = c.size /\ Whole(c).at = "complete"
  BY WholeMatches
<1>2. d \in Seq(Byte) /\ c.size = <<Len(d)>> /\ Small(Len(d))
  BY <1>1, PieceIs
<1>3. /\ t \in Seq(Byte) /\ ~ HexFails(t) /\ Hex(t) = c.size /\ c.size \in Seq(Nat)
      /\ ~ Less(c.size, c.size)
  <2>. DEFINE x == Len(d)
  <2>1. c.size = <<x>> /\ Small(x)
    BY <1>2
  <2>. HIDE DEF x
  <2>2. /\ Text(<<x>>) \in Seq(Byte) /\ x \in Nat
        /\ ~ HexFails(Text(<<x>>)) /\ Hex(Text(<<x>>)) = <<x>>
    BY <2>1, TextIs, SmallIsWord, HexReadsText
  <2>3. ~ Less(<<x>>, <<x>>)
    <3>1. Less(<<x>>, <<x>>) <=> x < x
      BY <2>2, WordsCount
    <3>. QED  BY <2>2, <3>1
  <2>. QED  BY <2>1, <2>2, <2>3
<1>4. g \in ReadChunk
  BY <1>2, <1>3, PartIsChunk
<1>5. Reads(k, cs, t, 0, "open", r0, r1)
  BY <1>1, SizeReads
<1>6. Reads(k, cs, CrLf, 0, "open", r1, r2)
  <2>. DEFINE s == c.size
  <2>. HIDE DEF t, s
  <2>1. t \in Seq(Byte) /\ s \in Seq(Nat) /\ ~ HexFails(t) /\ Hex(t) = s
    BY <1>3 DEF s
  <2>2. Reads(k, cs, CrLf, 0, "open", Chunked(k, hs, ds, Part("digits", t, <<0>>, <<0>>, <<>>)),
              Chunked(k, hs, ds, Part("body", t, s, <<0>>, <<>>)))
    BY <2>1, SizeEndReads
  <2>. QED  BY <2>2 DEF s
<1>7. Reads(k, cs, d, 0, "open", r2, r3)
  <2>. HIDE DEF t, d
  <2>1. Reads(k, cs, d, 0, "open",
               Chunked(k, hs, ds, Part("body", t, <<Len(d)>>, <<0>>, <<>>)),
               Chunked(k, hs, ds, Part("body", t, <<Len(d)>>, <<Len(d)>>, d)))
    BY <1>2, <1>3, DataReads
  <2>. QED  BY <1>2, <2>1
<1>8. Reads(k, cs, CrLf, 0, "open", r3, r4)
  <2>. DEFINE e == Whole(c)
  <2>1. g.at = "body" /\ g.got = c.size /\ g.size = c.size
    BY PartHas
  <2>2. ChunkNext(g, "cr") = g /\ ChunkNext(g, "lf") = e
    BY <1>3, ChunkIsComplete DEF Whole
  <2>3. e \in ReadChunk /\ e.at = "complete" /\ Matches(Append(ds, e), cs) /\ e.size = c.size
    BY <1>1
  <2>. HIDE DEF g, e
  <2>4. Reads(k, cs, CrLf, 0, "open", Chunked(k, hs, ds, g),
               IF e.size = <<0>> THEN Complete(k, hs, Append(ds, e))
               ELSE Chunked(k, hs, Append(ds, e), NoChunk))
    BY <1>3, <1>4, <2>1, <2>2, <2>3, ChunkEndReads
  <2>. QED  BY <2>3, <2>4 DEF e, AfterChunk
<1>. HIDE DEF t, d, r0, r1, r2, r3, r4
<1>9. Len(t) >= 0 /\ Len(t \o CrLf) >= 0 /\ Len((t \o CrLf) \o d) >= 0
  <2>1. t \in Seq(Byte) /\ CrLf \in Seq(Byte) /\ d \in Seq(Byte)
    BY <1>2, <1>3, CrLfIs
  <2>2. t \o CrLf \in Seq(Byte)
    BY <2>1
  <2>3. (t \o CrLf) \o d \in Seq(Byte)
    BY <2>1, <2>2
  <2>. QED  BY <2>1, <2>2, <2>3
<1>10. Reads(k, cs, t \o CrLf, 0, "open", r0, r2)
  BY <1>5, <1>6, <1>9, ReadsJoin
<1>11. Reads(k, cs, (t \o CrLf) \o d, 0, "open", r0, r3)
  BY <1>7, <1>9, <1>10, ReadsJoin
<1>12. Reads(k, cs, ((t \o CrLf) \o d) \o CrLf, 0, "open", r0, r4)
  BY <1>8, <1>9, <1>11, ReadsJoin
<1>. QED  BY <1>12 DEF ChunkText, t, d, r0, r4

-----------------------------------------------------------------------------
(* A body of announced length.                                             *)

LEMMA LengthIs ==
  ASSUME NEW k, Announces(k), NEW v \in Byte, NEW r, r.headers = AllHeaders(k, v)
  PROVE  Length(r) = <<v>>
<1>. DEFINE hs == AllHeaders(k, v)
            I == {i \in 1..Len(hs) : hs[i].name = "length"}
<1>1. hs \in Seq(ReadHeader) /\ Len(hs) \in Nat \ {0} /\ hs[1] = HeaderAt("L", v, 6)
  <2>. DEFINE a == HeaderAt("L", v, 6)
              b == HeaderAt("N", "j", 6)
              f == FirstHeaders(k, v)
              g == SomeHeaders(k, v)
  <2>1. a \in ReadHeader /\ b \in ReadHeader /\ EndHeader \in ReadHeader
    BY DEF ReadHeader, Byte
  <2>2. f = Append(<<>>, a) /\ g = Append(f, b) /\ hs = Append(g, EndHeader)
    BY DEF FirstHeaders, SomeHeaders, AllHeaders
  <2>. HIDE DEF a, b, f, g, hs
  <2>3. f \in Seq(ReadHeader) /\ Len(f) = 1 /\ f[1] = a
    BY <2>1, <2>2
  <2>4. g \in Seq(ReadHeader) /\ Len(g) = 2 /\ g[1] = a
    BY <2>1, <2>2, <2>3
  <2>5. hs \in Seq(ReadHeader) /\ Len(hs) = 3 /\ hs[1] = a
    BY <2>1, <2>2, <2>4
  <2>. QED  BY <2>5 DEF a
<1>2. HeaderAt("L", v, 6) = Named("L", "complete", <<v>>) /\ NameOf("L") = "length"
  BY DEF HeaderAt, NameOf
<1>3. hs[1].name = "length" /\ hs[1].text = <<v>>
  <2>1. Named("L", "complete", <<v>>).name = NameOf("L") /\ Named("L", "complete", <<v>>).text = <<v>>
    BY DEF Named
  <2>. QED  BY <1>1, <1>2, <2>1
<1>. HIDE DEF hs
<1>4. 1 \in I /\ I # {} /\ \A y \in I : 1 <= y /\ y \in Nat
  BY <1>1, <1>3
<1>. HIDE DEF I
<1>5. (CHOOSE x \in I : \A y \in I : x <= y) = 1
  BY <1>4
<1>6. SelectInSeq(hs, LAMBDA h : h.name = "length") =
        IF I # {} THEN CHOOSE x \in I : \A y \in I : x <= y ELSE 0
  BY Zenon DEF SelectInSeq, Min, I
<1>. QED  BY <1>3, <1>4, <1>5, <1>6 DEF Length, hs

\* The reader of a body when n bytes of it, d, were read, in a message of x.
BodyAt(x, n, d) == Part("body", <<>>, <<x>>, <<n>>, d)
InBodyOf(k, hs, c, nc) ==
  Reading(k, "done", 5, StatusOf(k), hs, Len(hs), <<c>>, nc, TRUE)

LEMMA BodyIsGood ==
  ASSUME NEW k, NEW hs \in Seq(ReadHeader), hs # <<>>, NEW cs \in Seq(Piece), cs # <<>>,
         NEW c \in ReadChunk, NEW nc \in 0..1,
         nc = 1 => c.size = cs[1].size /\ c.data = cs[1].data
  PROVE  Good(k, cs, InBodyOf(k, hs, c, nc)) /\ Past(k, InBodyOf(k, hs, c, nc))
<1>. DEFINE r == InBodyOf(k, hs, c, nc)
<1>1. /\ r = Reading(k, r.line, r.found, r.status, r.headers, r.nh, r.chunks, r.nc, r.sized)
      /\ r.headers = hs /\ r.nh = Len(hs) /\ r.chunks = <<c>> /\ r.nc = nc
      /\ r.line = "done" /\ r.status = StatusOf(k)
  BY DEF InBodyOf, Reading
<1>2. /\ <<c>> \in Seq(ReadChunk) /\ Len(<<c>>) = 1 /\ <<c>>[1] = c /\ Len(hs) \in 0..Len(hs)
      /\ Len(cs) >= 1 /\ \A i \in 1..nc : i = 1 /\ nc = 1
  OBVIOUS
<1>. HIDE DEF r
<1>. QED  BY <1>1, <1>2 DEF Good, Past, r

LEMMA DatumOfBody ==
  ASSUME NEW k, NEW hs \in Seq(ReadHeader), NEW c \in ReadChunk, NEW x \in Nat, NEW n \in Nat,
         n < x, x <= Highest, Highest \in Nat, NEW d \in Seq(Byte), NEW b, NEW last \in BOOLEAN,
         n + 1 = x => last,
         InBody(InBodyOf(k, hs, c, 0), c) = BodyAt(x, n, d)
  PROVE  Advance(InBodyOf(k, hs, c, 0), b, last) =
           InBodyOf(k, hs, BodyAt(x, n + 1, Append(d, b)), IF n + 1 = x THEN 1 ELSE 0)
<1>. DEFINE r == InBodyOf(k, hs, c, 0)
            g == BodyAt(x, n + 1, Append(d, b))
<1>1. /\ r.line = "done" /\ r.nh = Len(hs) /\ r.headers = hs /\ r.chunks = <<c>> /\ r.nc = 0
      /\ r.sized = TRUE
  BY DEF InBodyOf, Reading
<1>2. <<c>>[0 + 1] = c /\ Len(<<c>>) = 1 /\ ~ (Len(hs) < Len(hs))
  OBVIOUS
<1>3. Advance(r, b, last) = BodyNext(r, BodyAt(x, n, d), b, last)
  BY <1>1, <1>2 DEF Advance
<1>4. Less(<<n>>, <<x>>) /\ Increment(<<n>>) = <<n + 1>>
  BY WordsCount
<1>5. ChunkNext(BodyAt(x, n, d), b) = g
  BY <1>4, DatumIsRead DEF BodyAt
<1>6. BodyAt(x, n, d).at # "digits" /\ g.at = "body" /\ g.size = <<x>> /\ g.got = <<n + 1>>
  BY PartHas DEF BodyAt
<1>7. BodyNext(r, BodyAt(x, n, d), b, last) = BodyRead(r, g, last)
  BY <1>5, <1>6 DEF BodyNext
<1>8. PICK q : q = [r EXCEPT !.chunks[r.nc + 1] = g]
  OBVIOUS
<1>9. q = InBodyOf(k, hs, g, 0)
  <2>1. [<<c>> EXCEPT ![0 + 1] = g] = <<g>>
    OBVIOUS
  <2>. HIDE DEF g
  <2>. QED  BY <1>8, <2>1 DEF InBodyOf, Reading
<1>10. BodyRead(r, g, last) =
         IF (last \/ g.at = "complete") /\ g.size = g.got THEN [q EXCEPT !.nc = Len(r.chunks)] ELSE q
  BY <1>1, <1>8 DEF BodyRead
<1>11. (<<x>> = <<n + 1>>) <=> (n + 1 = x)
  OBVIOUS
<1>12. [q EXCEPT !.nc = Len(r.chunks)] = InBodyOf(k, hs, g, 1)
  <2>1. Len(r.chunks) = 1
    BY <1>1, <1>2
  <2>. HIDE DEF g, r
  <2>2. PICK w : w = [q EXCEPT !.nc = 1]
    OBVIOUS
  <2>3. w = InBodyOf(k, hs, g, 1)
    BY <1>9, <2>2 DEF InBodyOf, Reading
  <2>. QED  BY <2>1, <2>2, <2>3
<1>13. BodyRead(r, g, last) = IF n + 1 = x THEN InBodyOf(k, hs, g, 1) ELSE InBodyOf(k, hs, g, 0)
  <2>. HIDE DEF g
  <2>. QED  BY <1>6, <1>9, <1>10, <1>11, <1>12
<1>. HIDE DEF g
<1>. QED  BY <1>3, <1>7, <1>13 DEF g

LEMMA BodyReads ==
  ASSUME NEW k, Announces(k), NEW d \in Payloads, NEW cs \in Seq(Piece), cs # <<>>,
         cs[1] = Chunk(d)
  PROVE  Reads(k, cs, d, 0, "sealed", AfterHeaders(k, Numeral[Len(d) + 1]),
               InBodyOf(k, AllHeaders(k, Numeral[Len(d) + 1]), BodyAt(Len(d), Len(d), d), 1))
<1>. DEFINE x == Len(d)
            v == Numeral[x + 1]
            hs == AllHeaders(k, v)
            C == [n \in 0..x |-> IF n = 0 THEN NoChunk ELSE BodyAt(x, n, SubSeq(d, 1, n))]
            R == [n \in 0..x |-> InBodyOf(k, hs, C[n], IF n = x THEN 1 ELSE 0)]
<1>1. d \in Seq(Byte) /\ x \in 1..9 /\ Small(x)
  BY PayloadIs
<1>2. x <= Highest /\ Highest \in Nat
  BY <1>1, SmallIsWord
<1>3. /\ SubSeq(d, 1, 0) = <<>> /\ SubSeq(d, 1, x) = d
      /\ \A n \in 0..x : SubSeq(d, 1, n) \in Seq(Byte)
      /\ \A n \in 0 .. x - 1 : SubSeq(d, 1, n + 1) = Append(SubSeq(d, 1, n), d[n + 1])
  BY <1>1
<1>. HIDE DEF x
<1>4. x \in 0..9 /\ v \in Byte
  <2>1. x \in 0..9
    BY <1>1
  <2>. QED  BY <2>1, DigitsAre
<1>5. hs \in Seq(ReadHeader) /\ hs # <<>>
  BY <1>4, HeadersAre
<1>6. Dec(<<v>>) = <<x>>
  BY <1>1, <1>4, DecReadsDigit
<1>7. AfterHeaders(k, v) = InBodyOf(k, hs, NoChunk, 0)
  BY DEF AfterHeaders, Ended, InBodyOf
<1>8. \A r : r.headers = hs => Length(r) = <<v>>
  BY <1>4, LengthIs
<1>. HIDE DEF v, hs
<1>9. ASSUME NEW c
      PROVE  /\ InBodyOf(k, hs, c, 0).sized = TRUE /\ InBodyOf(k, hs, c, 0).headers = hs
             /\ InBodyOf(k, hs, c, 0).nc = 0 /\ InBodyOf(k, hs, c, 1).nc = 1
  BY DEF InBodyOf, Reading
<1>10. C[0] = NoChunk /\ \A n \in 1..x : C[n] = BodyAt(x, n, SubSeq(d, 1, n))
  BY <1>1
<1>. HIDE DEF C
<1>11. /\ \A n \in 0 .. x - 1 : R[n] = InBodyOf(k, hs, C[n], 0)
       /\ R[x] = InBodyOf(k, hs, C[x], 1)
  BY <1>1
<1>. HIDE DEF R
<1>12. \A n \in 0..x : C[n] \in ReadChunk
  <2>1. ASSUME NEW n \in 1..x
        PROVE  C[n] \in ReadChunk
    <3>1. SubSeq(d, 1, n) \in Seq(Byte) /\ <<x>> \in Seq(Nat) /\ <<n>> \in Seq(Nat) /\ <<>> \in Seq(Byte)
      BY <1>1, <1>3
    <3>2. BodyAt(x, n, SubSeq(d, 1, n)) \in ReadChunk
      BY <3>1, PartIsChunk DEF BodyAt
    <3>. QED  BY <1>10, <3>2
  <2>. QED  BY <1>1, <1>10, <2>1, NoChunkIsChunk
<1>13. ASSUME NEW n \in 0 .. x - 1
       PROVE  InBody(InBodyOf(k, hs, C[n], 0), C[n]) = BodyAt(x, n, SubSeq(d, 1, n))
  <2>. DEFINE r == InBodyOf(k, hs, C[n], 0)
  <2>1. r.sized = TRUE /\ r.headers = hs
    BY <1>9
  <2>2. Length(r) = <<v>>
    BY <1>8, <2>1
  <2>. HIDE DEF r
  <2>3. CASE n = 0
    <3>1. C[n] = Part("start", <<>>, <<0>>, <<0>>, <<>>)
      BY <1>10, <2>3, NoChunkIsChunk
    <3>2. ASSUME NEW c, c = NoChunk
          PROVE  InBody(r, c) = Part("body", <<>>, Dec(Length(r)), <<0>>, <<>>)
      <4>1. c = Part("start", <<>>, <<0>>, <<0>>, <<>>)
        BY <3>2, NoChunkIsChunk
      <4>. QED  BY <2>1, <4>1 DEF InBody, Part
    <3>. QED  BY <1>3, <1>6, <2>2, <2>3, <3>1, <3>2, NoChunkIsChunk DEF r, BodyAt
  <2>4. CASE n # 0
    <3>1. C[n] = BodyAt(x, n, SubSeq(d, 1, n))
      BY <1>1, <1>10, <2>4
    <3>2. C[n].at = "body"
      BY <3>1, PartHas DEF BodyAt
    <3>3. InBody(r, C[n]) = C[n]
      BY <3>2 DEF InBody
    <3>. QED  BY <3>1, <3>3 DEF r
  <2>. QED  BY <2>3, <2>4
<1>14. \A n \in 0..x : Good(k, cs, R[n]) /\ Past(k, R[n])
  <2>1. ASSUME NEW n \in 0 .. x - 1
        PROVE  Good(k, cs, InBodyOf(k, hs, C[n], 0)) /\ Past(k, InBodyOf(k, hs, C[n], 0))
    <3>1. C[n] \in ReadChunk /\ 0 \in 0..1
      BY <1>1, <1>12
    <3>2. 0 = 1 => C[n].size = cs[1].size /\ C[n].data = cs[1].data
      OBVIOUS
    <3>. QED  BY <1>5, <3>1, <3>2, BodyIsGood
  <2>2. Good(k, cs, InBodyOf(k, hs, C[x], 1)) /\ Past(k, InBodyOf(k, hs, C[x], 1))
    <3>1. C[x] \in ReadChunk /\ 1 \in 0..1 /\ C[x] = BodyAt(x, x, d)
      <4>1. x \in 1..x /\ x \in 0..x
        BY <1>1
      <4>2. C[x] = BodyAt(x, x, SubSeq(d, 1, x))
        BY <1>10, <4>1
      <4>3. C[x] \in ReadChunk
        BY <1>12, <4>1
      <4>4. C[x] = BodyAt(x, x, d)
        BY <1>3, <4>2
      <4>. QED  BY <4>3, <4>4
    <3>2. C[x].size = <<x>> /\ C[x].data = d
      BY <3>1, PartHas DEF BodyAt
    <3>3. cs[1].size = <<x>> /\ cs[1].data = d
      BY DEF Chunk, x
    <3>. QED  BY <1>5, <3>1, <3>2, <3>3, BodyIsGood
  <2>. QED  BY <1>1, <1>11, <2>1, <2>2
<1>15. ASSUME NEW n \in 0 .. x - 1
       PROVE  /\ ~ Stops(R[n]) /\ R[n].nc <= R[n + 1].nc
              /\ \A last \in BOOLEAN : (n + 1 = x => last) => R[n + 1] = Advance(R[n], d[n + 1], last)
  <2>. DEFINE r == InBodyOf(k, hs, C[n], 0)
              s == SubSeq(d, 1, n)
  <2>1. R[n] = r /\ n \in 0..x /\ n + 1 \in 1..x /\ n \in Nat /\ n < x
    BY <1>1, <1>11
  <2>2. C[n] \in ReadChunk /\ s \in Seq(Byte) /\ InBody(r, C[n]) = BodyAt(x, n, s)
    BY <1>3, <1>12, <1>13, <2>1
  <2>3. ~ Stops(r)
    <3>1. r.nc = 0 /\ r.chunks = <<C[n]>> /\ r.stray = FALSE /\ r.fault = FALSE
      BY DEF InBodyOf, Reading
    <3>2. Len(<<C[n]>>) = 1
      OBVIOUS
    <3>. HIDE DEF r
    <3>. QED  BY <3>1, <3>2 DEF Stops
  <2>4. R[n + 1] = InBodyOf(k, hs, BodyAt(x, n + 1, Append(s, d[n + 1])), IF n + 1 = x THEN 1 ELSE 0)
    <3>1. C[n + 1] = BodyAt(x, n + 1, Append(s, d[n + 1]))
      BY <1>3, <1>10, <2>1
    <3>2. R[n + 1] = InBodyOf(k, hs, C[n + 1], IF n + 1 = x THEN 1 ELSE 0)
      BY <1>1, <1>11, <2>1
    <3>. QED  BY <3>1, <3>2
  <2>5. r.nc = 0 /\ R[n + 1].nc \in {0, 1}
    BY <2>4 DEF InBodyOf, Reading
  <2>. HIDE DEF s
  <2>6. ASSUME NEW last \in BOOLEAN, n + 1 = x => last
        PROVE  Advance(r, d[n + 1], last) =
                 InBodyOf(k, hs, BodyAt(x, n + 1, Append(s, d[n + 1])), IF n + 1 = x THEN 1 ELSE 0)
    BY <1>1, <1>2, <1>5, <2>1, <2>2, <2>6, DatumOfBody
  <2>. HIDE DEF r
  <2>. QED  BY <2>1, <2>3, <2>4, <2>5, <2>6
<1>16. x = Len(d)
  BY DEF x
<1>17. Path(k, cs, d, R, 0, "sealed")
  BY <1>1, <1>14, <1>15, <1>16 DEF Path
<1>18. R[0] = AfterHeaders(k, v) /\ R[x] = InBodyOf(k, hs, BodyAt(x, x, d), 1)
  <2>1. 0 \in 0 .. x - 1 /\ x \in 1..x
    BY <1>1
  <2>2. R[0] = AfterHeaders(k, v)
    BY <1>7, <1>10, <1>11, <2>1
  <2>3. C[x] = BodyAt(x, x, SubSeq(d, 1, x))
    BY <1>10, <2>1
  <2>. QED  BY <1>3, <1>11, <2>2, <2>3
<1>. QED  BY <1>16, <1>17, <1>18 DEF Reads, v, hs

-----------------------------------------------------------------------------
(* Reading a part of a text.                                               *)

LEMMA OpenedAgain ==
  ASSUME NEW k, NEW cs, NEW r, Good(k, cs, r)
  PROVE  Opened([r EXCEPT !.stray = FALSE]) = r
<1>1. r = Reading(k, r.line, r.found, r.status, r.headers, r.nh, r.chunks, r.nc, r.sized)
      /\ r.headers # <<>>
  BY DEF Good
<1>2. PICK q : q = [r EXCEPT !.stray = FALSE]
  OBVIOUS
<1>3. q = r
  BY <1>1, <1>2 DEF Reading
<1>. QED  BY <1>1, <1>2, <1>3 DEF Opened

LEMMA OpenedFirst ==
  ASSUME NEW k \in Kinds
  PROVE  Opened([Blank(Role(k)) EXCEPT !.stray = FALSE]) = InLead(k, 0)
<1>. DEFINE line == IF Role(k) = "request" THEN "verb" ELSE "find"
<1>1. LineAt(k)[1] = line /\ FoundAt(k)[1] = 0 /\ StatusAt(k, 0) = <<>> /\ 0 + 1 = 1
  BY DEF LineAt, FoundAt, StatusAt
<1>2. InLead(k, 0) = Reading(k, line, 0, <<>>, <<NoHeader>>, 0, <<NoChunk>>, 0, FALSE)
  BY <1>1 DEF InLead
<1>3. Blank(Role(k)) = Reading(k, line, 0, <<>>, <<>>, 0, <<>>, 0, FALSE)
  BY DEF Blank, Reading
<1>. HIDE DEF line
<1>4. PICK q : q = [Blank(Role(k)) EXCEPT !.stray = FALSE]
  OBVIOUS
<1>5. q = Reading(k, line, 0, <<>>, <<>>, 0, <<>>, 0, FALSE)
  <2>1. PICK z : z = Blank(Role(k))
    OBVIOUS
  <2>2. q = [z EXCEPT !.stray = FALSE] /\ z = Reading(k, line, 0, <<>>, <<>>, 0, <<>>, 0, FALSE)
    BY <1>3, <1>4, <2>1
  <2>. QED  BY <2>2 DEF Reading
<1>6. Opened(q) = [q EXCEPT !.headers = <<NoHeader>>, !.chunks = <<NoChunk>>]
  BY <1>5 DEF Opened, Reading
<1>7. PICK w : w = [q EXCEPT !.headers = <<NoHeader>>, !.chunks = <<NoChunk>>]
  OBVIOUS
<1>8. w = Reading(k, line, 0, <<>>, <<NoHeader>>, 0, <<NoChunk>>, 0, FALSE)
  BY <1>5, <1>7 DEF Reading
<1>. QED  BY <1>2, <1>4, <1>6, <1>7, <1>8

LEMMA SubSeqIs ==
  ASSUME NEW S, NEW T \in Seq(S), NEW n \in Nat, NEW m \in Nat, n <= m, m <= Len(T)
  PROVE  /\ SubSeq(T, n + 1, m) \in Seq(S) /\ Len(SubSeq(T, n + 1, m)) = m - n
         /\ \A i \in 1 .. m - n : SubSeq(T, n + 1, m)[i] = T[n + i]
OBVIOUS

\* Bytes n + 1 to m of the text T lead from r to q, with nothing left.
Parses(r, T, n, m, q) == Parse(r, SubSeq(T, n + 1, m)) = [reader |-> q, left |-> <<>>]

LEMMA ParseAlong ==
  ASSUME NEW k, NEW cs, NEW T, NEW R, NEW from, NEW way, Path(k, cs, T, R, from, way),
         NEW n \in Nat, NEW m \in Nat, n <= m, m <= Len(T),
         NEW r, Opened([r EXCEPT !.stray = FALSE]) = R[n]
  PROVE  Parses(r, T, n, m, R[m])
<1>. DEFINE s == SubSeq(T, n + 1, m)
            N == Len(s)
            Is(f) == f = [i \in 0..N |->
                            IF i = 0 THEN [reader |-> Opened([r EXCEPT !.stray = FALSE]), read |-> 0]
                            ELSE Step(f[i - 1], s[i], i = N)]
            g == [i \in 0..N |-> [reader |-> R[n + i], read |-> i]]
<1>0. T \in Seq(Byte) /\ Len(T) \in Nat
  BY DEF Path
<1>1. /\ T \in Seq(Byte) /\ s \in Seq(Byte) /\ N \in Nat /\ N = m - n
      /\ \A i \in 1..N : s[i] = T[n + i]
  BY <1>0, SubSeqIs
<1>n. N \in Nat /\ N = m - n
  BY <1>1
<1>. HIDE DEF s, N
<1>2. ASSUME NEW i \in 1..N
      PROVE  Step([reader |-> R[n + (i - 1)], read |-> i - 1], s[i], i = N) =
               [reader |-> R[n + i], read |-> i]
  <2>. DEFINE j == n + (i - 1)
  <2>1. j \in 0 .. Len(T) - 1 /\ j + 1 = n + i /\ (j + 1 = Len(T) => i = N) /\ (i - 1) + 1 = i
    <3>. DEFINE L == Len(T)
    <3>1. L \in Nat /\ m <= L
      BY <1>0
    <3>. HIDE DEF L
    <3>a. i \in Nat /\ 1 <= i /\ i <= N /\ N \in Nat /\ n + N = m
      BY <1>n
    <3>b. (n + (i - 1)) + 1 = n + i /\ (i - 1) + 1 = i /\ n + (i - 1) >= 0 /\ n + (i - 1) \in Int
      BY <3>a
    <3>c. n + (i - 1) <= L - 1
      BY <3>1, <3>a
    <3>2. n + (i - 1) \in 0 .. L - 1 /\ (n + (i - 1)) + 1 = n + i /\ (i - 1) + 1 = i
      BY <3>1, <3>b, <3>c
    <3>3. (n + (i - 1)) + 1 = L => i = N
      BY <1>n, <3>1
    <3>. QED  BY <3>2, <3>3 DEF L
  <2>. HIDE DEF j
  <2>2. /\ ~ Stops(R[j]) /\ s[i] = T[j + 1]
        /\ \A last \in BOOLEAN :
             (way = "sealed" /\ j + 1 = Len(T) => last) => R[j + 1] = Advance(R[j], T[j + 1], last)
    BY <1>1, <2>1 DEF Path
  <2>3. ASSUME NEW last \in BOOLEAN, i = N => last
        PROVE  Step([reader |-> R[j], read |-> i - 1], s[i], last) = [reader |-> R[n + i], read |-> i]
    BY <2>1, <2>2, <2>3 DEF Step
  <2>4. Step([reader |-> R[j], read |-> i - 1], s[i], i = N) = [reader |-> R[n + i], read |-> i]
    <3>1. CASE i = N
      <4>1. (i = N) = TRUE  BY <3>1
      <4>. QED  BY <2>3, <4>1, Zenon
    <3>2. CASE i # N
      <4>1. (i = N) = FALSE  BY <3>2
      <4>. QED  BY <2>3, <3>2, <4>1, Zenon
    <3>. QED  BY <3>1, <3>2
  <2>. QED  BY <2>4 DEF j
<1>3. Is(g)
  <2>1. n + 0 = n /\ 0 \in 0..N
    BY <1>1
  <2>2. \A i \in 0..N : g[i] = [reader |-> R[n + i], read |-> i]
    OBVIOUS
  <2>. HIDE DEF g
  <2>3. ASSUME NEW i \in 0..N
        PROVE  g[i] = IF i = 0 THEN [reader |-> Opened([r EXCEPT !.stray = FALSE]), read |-> 0]
                      ELSE Step(g[i - 1], s[i], i = N)
    <3>1. CASE i = 0
      BY <2>1, <2>2, <3>1
    <3>2. CASE i # 0
      <4>1. i \in 1..N /\ i - 1 \in 0..N
        BY <1>1, <3>2
      <4>2. g[i - 1] = [reader |-> R[n + (i - 1)], read |-> i - 1]
        BY <2>2, <4>1
      <4>3. g[i] = [reader |-> R[n + i], read |-> i]
        BY <2>2
      <4>4. g[i] = Step(g[i - 1], s[i], i = N)
        BY <1>2, <4>1, <4>2, <4>3, Zenon
      <4>. QED  BY <3>2, <4>4, Zenon
    <3>. QED  BY <3>1, <3>2
  <2>4. g = [i \in 0..N |-> g[i]]
    BY DEF g
  <2>5. [i \in 0..N |-> g[i]] =
          [i \in 0..N |-> IF i = 0 THEN [reader |-> Opened([r EXCEPT !.stray = FALSE]), read |-> 0]
                          ELSE Step(g[i - 1], s[i], i = N)]
    BY <2>3, Zenon
  <2>. QED  BY <2>4, <2>5, Zenon
<1>4. \A f : Is(f) => \A i \in 0..N : f[i] = g[i]
  <2>. SUFFICES ASSUME NEW f, Is(f)
                PROVE  \A i \in 0..N : f[i] = g[i]
    BY Zenon
  <2>1. \A i \in 0..N : g[i] = [reader |-> R[n + i], read |-> i]
    OBVIOUS
  <2>2. \A i \in 0..N : f[i] = IF i = 0 THEN [reader |-> Opened([r EXCEPT !.stray = FALSE]), read |-> 0]
                               ELSE Step(f[i - 1], s[i], i = N)
    BY Zenon
  <2>. HIDE DEF Is, g
  <2>. DEFINE S == {i \in 0..N : f[i] = g[i]}
  <2>3. 0 \in S
    <3>1. 0 \in 0..N /\ n + 0 = n
      BY <1>1
    <3>2. f[0] = [reader |-> R[n], read |-> 0]
      BY <2>2, <3>1
    <3>3. g[0] = [reader |-> R[n + 0], read |-> 0]
      BY <2>1, <3>1
    <3>. QED  BY <3>1, <3>2, <3>3
  <2>4. ASSUME NEW i \in 0 .. N - 1, i \in S
        PROVE  i + 1 \in S
    <3>1. i + 1 \in 1..N /\ i + 1 \in 0..N /\ (i + 1) - 1 = i /\ i + 1 # 0 /\ i \in 0..N
      BY <1>n
    <3>2. f[i + 1] = Step(f[(i + 1) - 1], s[i + 1], i + 1 = N)
      BY <2>2, <3>1, Zenon
    <3>3. f[(i + 1) - 1] = [reader |-> R[n + ((i + 1) - 1)], read |-> (i + 1) - 1]
      BY <2>1, <2>4, <3>1
    <3>4. Step([reader |-> R[n + ((i + 1) - 1)], read |-> (i + 1) - 1], s[i + 1], i + 1 = N) =
            [reader |-> R[n + (i + 1)], read |-> i + 1]
      BY <1>2, <3>1, Zenon
    <3>5. f[i + 1] = g[i + 1]
      <4>1. g[i + 1] = [reader |-> R[n + (i + 1)], read |-> i + 1]
        BY <2>1, <3>1
      <4>. QED  BY <3>2, <3>3, <3>4, <4>1, Zenon
    <3>. QED  BY <3>1, <3>5
  <2>5. \A i \in 0..N : i \in S
    <3>. HIDE DEF S
    <3>. QED  BY <1>1, <2>3, <2>4, UpTo
  <2>. QED  BY <2>5
<1>5. PICK f : Is(f) /\ f = CHOOSE h : Is(h)
  <2>. HIDE DEF Is, g
  <2>. QED  BY <1>3
<1>6. f[N] = [reader |-> R[m], read |-> N]
  <2>1. f[N] = g[N]
    <3>. HIDE DEF Is, g
    <3>. QED  BY <1>1, <1>4, <1>5
  <2>2. n + N = m /\ N \in 0..N
    BY <1>1
  <2>. HIDE DEF Is
  <2>. QED  BY <2>1, <2>2
<1>7. Parse(r, s) = [reader |-> f[N].reader, left |-> SubSeq(s, f[N].read + 1, Len(s))]
  BY <1>5, Zenon DEF Parse, N
<1>8. SubSeq(s, N + 1, Len(s)) = <<>>
  BY <1>1 DEF N
<1>. HIDE DEF Is
<1>9. Parse(r, s) = [reader |-> R[m], left |-> <<>>]
  <2>1. f[N].reader = R[m] /\ f[N].read = N
    BY <1>6
  <2>. QED  BY <1>7, <1>8, <2>1
<1>. QED  BY <1>9, Zenon DEF s, Parses

-----------------------------------------------------------------------------
(* The text under way.                                                     *)

LEMMA SameSeq ==
  ASSUME NEW S, NEW a \in Seq(S), NEW b \in Seq(S), Len(a) = Len(b),
         \A i \in 1..Len(a) : a[i] = b[i]
  PROVE  a = b
OBVIOUS

LEMMA ConcatIs ==
  ASSUME NEW S, NEW a \in Seq(S), NEW b \in Seq(S)
  PROVE  /\ a \o b \in Seq(S) /\ Len(a \o b) = Len(a) + Len(b)
         /\ \A i \in 1 .. Len(a) + Len(b) :
              (a \o b)[i] = IF i <= Len(a) THEN a[i] ELSE b[i - Len(a)]
OBVIOUS

LEMMA SubSeqJoin ==
  ASSUME NEW S, NEW T \in Seq(S), NEW n \in Nat, NEW m \in Nat, NEW p \in Nat,
         n <= m, m <= p, p <= Len(T)
  PROVE  SubSeq(T, n + 1, m) \o SubSeq(T, m + 1, p) = SubSeq(T, n + 1, p)
<1>. DEFINE a == SubSeq(T, n + 1, m)
            b == SubSeq(T, m + 1, p)
            c == SubSeq(T, n + 1, p)
<1>0. Len(T) \in Nat /\ m <= Len(T) /\ n <= p
  OBVIOUS
<1>1. a \in Seq(S) /\ Len(a) = m - n /\ \A i \in 1 .. m - n : a[i] = T[n + i]
  BY <1>0, SubSeqIs
<1>2. b \in Seq(S) /\ Len(b) = p - m /\ \A i \in 1 .. p - m : b[i] = T[m + i]
  BY <1>0, SubSeqIs
<1>3. c \in Seq(S) /\ Len(c) = p - n /\ \A i \in 1 .. p - n : c[i] = T[n + i]
  BY <1>0, SubSeqIs
<1>. HIDE DEF a, b, c
<1>4. /\ a \o b \in Seq(S) /\ Len(a \o b) = p - n
      /\ \A i \in 1 .. p - n : (a \o b)[i] = IF i <= m - n THEN a[i] ELSE b[i - (m - n)]
  <2>1. Len(a) + Len(b) = p - n
    BY <1>1, <1>2
  <2>2. /\ a \o b \in Seq(S) /\ Len(a \o b) = Len(a) + Len(b)
        /\ \A i \in 1 .. Len(a) + Len(b) :
             (a \o b)[i] = IF i <= Len(a) THEN a[i] ELSE b[i - Len(a)]
    BY <1>1, <1>2, ConcatIs
  <2>3. Len(a) = m - n
    BY <1>1
  <2>. QED  BY <2>1, <2>2, <2>3
<1>5. ASSUME NEW i \in 1 .. p - n
      PROVE  (a \o b)[i] = c[i]
  <2>1. CASE i <= m - n
    BY <1>1, <1>3, <1>4, <2>1
  <2>2. CASE ~ (i <= m - n)
    <3>1. i - (m - n) \in 1 .. p - m /\ m + (i - (m - n)) = n + i
      BY <2>2
    <3>2. b[i - (m - n)] = T[n + i]
      BY <1>2, <3>1
    <3>. QED  BY <1>3, <1>4, <2>2, <3>2
  <2>. QED  BY <2>1, <2>2
<1>6. a \o b = c
  BY <1>3, <1>4, <1>5, SameSeq
<1>. QED  BY <1>6 DEF a, b, c

LEMMA SubSeqOfLonger ==
  ASSUME NEW S, NEW T \in Seq(S), NEW t \in Seq(S), NEW n \in Nat, NEW m \in Nat,
         n <= m, m <= Len(T)
  PROVE  SubSeq(T \o t, n + 1, m) = SubSeq(T, n + 1, m)
<1>. DEFINE u == T \o t
            a == SubSeq(u, n + 1, m)
            b == SubSeq(T, n + 1, m)
<1>1. u \in Seq(S) /\ m <= Len(u) /\ Len(T) \in Nat /\ \A i \in 1..Len(T) : u[i] = T[i]
  OBVIOUS
<1>. HIDE DEF u
<1>2. a \in Seq(S) /\ Len(a) = m - n /\ \A i \in 1 .. m - n : a[i] = u[n + i]
  BY <1>1, SubSeqIs
<1>3. b \in Seq(S) /\ Len(b) = m - n /\ \A i \in 1 .. m - n : b[i] = T[n + i]
  BY <1>1, SubSeqIs
<1>4. \A i \in 1 .. m - n : n + i \in 1..Len(T)
  BY <1>1
<1>. HIDE DEF a, b
<1>5. a = b
  BY <1>1, <1>2, <1>3, <1>4, SameSeq
<1>. QED  BY <1>5 DEF a, b, u

LEMMA SubSeqOfEnd ==
  ASSUME NEW S, NEW T \in Seq(S), NEW t \in Seq(S)
  PROVE  SubSeq(T \o t, Len(T) + 1, Len(T) + Len(t)) = t
<1>. DEFINE u == T \o t
            n == Len(T)
            m == Len(T) + Len(t)
            a == SubSeq(u, n + 1, m)
<1>1. u \in Seq(S) /\ m = Len(u) /\ n \in Nat /\ m \in Nat /\ n <= m /\ m - n = Len(t)
      /\ \A i \in 1..Len(t) : u[n + i] = t[i]
  OBVIOUS
<1>. HIDE DEF u, n, m
<1>2. a \in Seq(S) /\ Len(a) = m - n /\ \A i \in 1 .. m - n : a[i] = u[n + i]
  BY <1>1, SubSeqIs
<1>. HIDE DEF a
<1>3. a = t
  BY <1>1, <1>2, SameSeq
<1>. QED  BY <1>3 DEF a, u, n, m

\* The writes w are the rest of the text T after m bytes, cut into parts.
Cut(T, m, w, c) ==
  /\ c[0] = m /\ c[Len(w)] = Len(T)
  /\ \A i \in 0..Len(w) : c[i] \in Nat /\ c[i] <= Len(T)
  /\ \A i \in 1..Len(w) : c[i - 1] <= c[i] /\ w[i] = SubSeq(T, c[i - 1] + 1, c[i])
Laid(T, m, w) == T \in Seq(Byte) /\ w \in Seq(Seq(Byte)) /\ \E c : Cut(T, m, w, c)

LEMMA LaidMore ==
  ASSUME NEW T, NEW m, NEW w, Laid(T, m, w), NEW t \in Seq(Byte)
  PROVE  Laid(T \o t, m, Append(w, t))
<1>1. T \in Seq(Byte) /\ w \in Seq(Seq(Byte)) /\ Len(w) \in Nat /\ Len(T) \in Nat /\ Len(t) \in Nat
  BY DEF Laid
<1>2. PICK c : Cut(T, m, w, c)
  BY DEF Laid
<1>. DEFINE u == T \o t
            v == Append(w, t)
            b == [i \in 0 .. Len(w) + 1 |-> IF i <= Len(w) THEN c[i] ELSE Len(u)]
<1>3. u \in Seq(Byte) /\ Len(u) = Len(T) + Len(t)
      /\ v \in Seq(Seq(Byte)) /\ Len(v) = Len(w) + 1 /\ v[Len(w) + 1] = t
      /\ \A i \in 1..Len(w) : v[i] = w[i]
  BY <1>1
<1>4. (\A i \in 0..Len(w) : b[i] = c[i]) /\ b[Len(w) + 1] = Len(u)
  BY <1>1
<1>5. SubSeq(u, Len(T) + 1, Len(u)) = t
  BY <1>1, <1>3, SubSeqOfEnd
<1>6. \A i \in 1..Len(w) : SubSeq(u, c[i - 1] + 1, c[i]) = SubSeq(T, c[i - 1] + 1, c[i])
  <2>1. ASSUME NEW i \in 1..Len(w)
        PROVE  c[i - 1] \in Nat /\ c[i] \in Nat /\ c[i - 1] <= c[i] /\ c[i] <= Len(T)
    <3>1. i - 1 \in 0..Len(w) /\ i \in 0..Len(w)
      BY <1>1
    <3>. QED  BY <1>2, <3>1 DEF Cut
  <2>2. ASSUME NEW i \in 1..Len(w)
        PROVE  SubSeq(u, c[i - 1] + 1, c[i]) = SubSeq(T, c[i - 1] + 1, c[i])
    <3>. DEFINE n == c[i - 1]
                p == c[i]
    <3>1. n \in Nat /\ p \in Nat /\ n <= p /\ p <= Len(T)
      BY <2>1
    <3>. HIDE DEF n, p
    <3>2. SubSeq(T \o t, n + 1, p) = SubSeq(T, n + 1, p)
      BY <1>1, <3>1, SubSeqOfLonger
    <3>. QED  BY <3>2 DEF n, p
  <2>. QED  BY <2>2
<1>. HIDE DEF u, v, b
<1>7. b[0] = m /\ b[Len(v)] = Len(u)
  <2>1. 0 \in 0..Len(w)
    BY <1>1
  <2>. QED  BY <1>2, <1>3, <1>4, <2>1 DEF Cut
<1>8. ASSUME NEW i \in 0..Len(v)
      PROVE  b[i] \in Nat /\ b[i] <= Len(u)
  <2>1. i \in 0..Len(w) \/ i = Len(w) + 1
    BY <1>1, <1>3
  <2>2. CASE i \in 0..Len(w)
    <3>1. b[i] = c[i] /\ c[i] \in Nat /\ c[i] <= Len(T)
      BY <1>2, <1>4, <2>2 DEF Cut
    <3>. QED  BY <1>1, <1>3, <3>1
  <2>3. CASE i = Len(w) + 1
    BY <1>1, <1>3, <1>4, <2>3
  <2>. QED  BY <2>1, <2>2, <2>3
<1>9. ASSUME NEW i \in 1..Len(v)
      PROVE  b[i - 1] <= b[i] /\ v[i] = SubSeq(u, b[i - 1] + 1, b[i])
  <2>1. i \in 1..Len(w) \/ i = Len(w) + 1
    BY <1>1, <1>3
  <2>2. CASE i \in 1..Len(w)
    <3>1. i - 1 \in 0..Len(w) /\ i \in 0..Len(w)
      BY <1>1, <2>2
    <3>2. b[i - 1] = c[i - 1] /\ b[i] = c[i] /\ v[i] = w[i]
      BY <1>3, <1>4, <2>2, <3>1
    <3>3. c[i - 1] <= c[i] /\ w[i] = SubSeq(T, c[i - 1] + 1, c[i])
      BY <1>2, <2>2 DEF Cut
    <3>. QED  BY <1>6, <2>2, <3>2, <3>3
  <2>3. CASE i = Len(w) + 1
    <3>1. i - 1 = Len(w) /\ Len(w) \in 0..Len(w)
      BY <1>1, <2>3
    <3>2. b[i - 1] = Len(T) /\ b[i] = Len(u) /\ v[i] = t
      BY <1>2, <1>3, <1>4, <2>3, <3>1 DEF Cut
    <3>3. Len(T) <= Len(u)
      BY <1>1, <1>3
    <3>. QED  BY <1>5, <3>2, <3>3
  <2>. QED  BY <2>1, <2>2, <2>3
<1>10. Cut(u, m, v, b)
  BY <1>7, <1>8, <1>9 DEF Cut
<1>. QED  BY <1>3, <1>10 DEF Laid, u, v

LEMMA LaidFirst ==
  ASSUME NEW T, NEW m, NEW w, NEW c, T \in Seq(Byte), w \in Seq(Seq(Byte)), Cut(T, m, w, c),
         w # <<>>
  PROVE  /\ c[0] = m /\ m \in Nat /\ c[1] \in Nat /\ m <= c[1] /\ c[1] <= Len(T)
         /\ w[1] = SubSeq(T, m + 1, c[1]) /\ w[1] \in Seq(Byte) /\ Len(w[1]) = c[1] - m
<1>1. Len(w) \in Nat \ {0} /\ Len(T) \in Nat /\ w[1] \in Seq(Byte)
  OBVIOUS
<1>2. 0 \in 0..Len(w) /\ 1 \in 0..Len(w) /\ 1 \in 1..Len(w) /\ 1 - 1 = 0
  BY <1>1
<1>3. /\ c[0] = m /\ c[0] \in Nat /\ c[1] \in Nat /\ c[1] <= Len(T) /\ c[0] <= c[1]
      /\ w[1] = SubSeq(T, c[0] + 1, c[1])
  BY <1>2 DEF Cut
<1>4. Len(w[1]) = c[1] - m
  <2>. DEFINE p == c[1]
  <2>1. p \in Nat /\ m \in Nat /\ m <= p /\ p <= Len(T) /\ w[1] = SubSeq(T, m + 1, p)
    BY <1>3
  <2>. HIDE DEF p
  <2>2. Len(w[1]) = p - m
    BY <2>1, SubSeqIs
  <2>. QED  BY <2>2 DEF p
<1>. QED  BY <1>1, <1>3, <1>4

LEMMA LaidWithoutFirst ==
  ASSUME NEW T, NEW m, NEW w, Laid(T, m, w), w # <<>>
  PROVE  Laid(T, m + Len(w[1]), Tail(w))
<1>1. T \in Seq(Byte) /\ w \in Seq(Seq(Byte)) /\ Len(w) \in Nat \ {0} /\ Len(T) \in Nat
  BY DEF Laid
<1>2. PICK c : Cut(T, m, w, c)
  BY DEF Laid
<1>3. m \in Nat /\ c[1] \in Nat /\ Len(w[1]) = c[1] - m
  BY <1>1, <1>2, LaidFirst
<1>4. m + Len(w[1]) = c[1]
  BY <1>3
<1>. DEFINE v == Tail(w)
            b == [i \in 0 .. Len(w) - 1 |-> c[i + 1]]
<1>5. v \in Seq(Seq(Byte)) /\ Len(v) = Len(w) - 1 /\ \A i \in 1 .. Len(w) - 1 : v[i] = w[i + 1]
  BY <1>1
<1>6. \A i \in 0 .. Len(w) - 1 : b[i] = c[i + 1]
  OBVIOUS
<1>. HIDE DEF v, b
<1>7. b[0] = c[1] /\ b[Len(v)] = Len(T)
  <2>1. 0 \in 0 .. Len(w) - 1 /\ Len(w) - 1 \in 0 .. Len(w) - 1 /\ 0 + 1 = 1 /\ (Len(w) - 1) + 1 = Len(w)
    BY <1>1
  <2>2. c[Len(w)] = Len(T)
    BY <1>2 DEF Cut
  <2>. QED  BY <1>5, <1>6, <2>1, <2>2
<1>8. ASSUME NEW i \in 0..Len(v)
      PROVE  b[i] \in Nat /\ b[i] <= Len(T)
  <2>1. i + 1 \in 0..Len(w) /\ i \in 0 .. Len(w) - 1
    BY <1>1, <1>5
  <2>. QED  BY <1>2, <1>6, <2>1 DEF Cut
<1>9. ASSUME NEW i \in 1..Len(v)
      PROVE  b[i - 1] <= b[i] /\ v[i] = SubSeq(T, b[i - 1] + 1, b[i])
  <2>1. /\ i + 1 \in 1..Len(w) /\ i \in 0 .. Len(w) - 1 /\ i - 1 \in 0 .. Len(w) - 1
        /\ i \in 1 .. Len(w) - 1 /\ (i - 1) + 1 = i /\ (i + 1) - 1 = i
    BY <1>1, <1>5
  <2>2. b[i - 1] = c[i] /\ b[i] = c[i + 1] /\ v[i] = w[i + 1]
    BY <1>5, <1>6, <2>1
  <2>3. c[(i + 1) - 1] <= c[i + 1] /\ w[i + 1] = SubSeq(T, c[(i + 1) - 1] + 1, c[i + 1])
    BY <1>2, <2>1 DEF Cut
  <2>. QED  BY <2>1, <2>2, <2>3
<1>10. Cut(T, c[1], v, b)
  BY <1>7, <1>8, <1>9 DEF Cut
<1>. QED  BY <1>1, <1>4, <1>5, <1>10 DEF Laid, v

LEMMA SubSeqOfSub ==
  ASSUME NEW S, NEW T \in Seq(S), NEW m \in Nat, NEW p \in Nat, m <= p, p <= Len(T),
         NEW n \in 1 .. p - m
  PROVE  /\ SubSeq(SubSeq(T, m + 1, p), 1, n) = SubSeq(T, m + 1, m + n)
         /\ SubSeq(SubSeq(T, m + 1, p), n + 1, p - m) = SubSeq(T, (m + n) + 1, p)
<1>. DEFINE u == SubSeq(T, m + 1, p)
            a == SubSeq(u, 0 + 1, n)
            b == SubSeq(T, m + 1, m + n)
            d == SubSeq(u, n + 1, p - m)
            e == SubSeq(T, (m + n) + 1, p)
<1>0. Len(T) \in Nat /\ n \in Nat /\ n <= p - m /\ p - m \in Nat /\ m + n \in Nat /\ m + n <= p
      /\ m <= m + n /\ m + n <= Len(T) /\ 0 <= n /\ 0 + 1 = 1
  OBVIOUS
<1>1. u \in Seq(S) /\ Len(u) = p - m /\ \A i \in 1 .. p - m : u[i] = T[m + i]
  BY SubSeqIs
<1>2. b \in Seq(S) /\ Len(b) = n /\ \A i \in 1..n : b[i] = T[m + i]
  <2>1. (m + n) - m = n
    BY <1>0
  <2>2. b \in Seq(S) /\ Len(b) = (m + n) - m /\ \A i \in 1 .. (m + n) - m : b[i] = T[m + i]
    BY <1>0, SubSeqIs
  <2>. QED  BY <2>1, <2>2
<1>3. e \in Seq(S) /\ Len(e) = p - (m + n) /\ \A i \in 1 .. p - (m + n) : e[i] = T[(m + n) + i]
  BY <1>0, SubSeqIs
<1>. HIDE DEF u, b, e
<1>4. a \in Seq(S) /\ Len(a) = n /\ \A i \in 1..n : a[i] = u[i]
  BY <1>0, <1>1
<1>5. d \in Seq(S) /\ Len(d) = (p - m) - n /\ \A i \in 1 .. (p - m) - n : d[i] = u[n + i]
  BY <1>0, <1>1, SubSeqIs
<1>. HIDE DEF a, d
<1>6. a = b
  <2>1. \A i \in 1..n : a[i] = b[i]
    BY <1>0, <1>1, <1>2, <1>4
  <2>. QED  BY <1>2, <1>4, <2>1, SameSeq
<1>7. d = e
  <2>1. \A i \in 1 .. (p - m) - n : n + i \in 1 .. p - m /\ m + (n + i) = (m + n) + i
    BY <1>0
  <2>2. (p - m) - n = p - (m + n)
    BY <1>0
  <2>3. \A i \in 1 .. (p - m) - n : d[i] = e[i]
    BY <1>1, <1>3, <1>5, <2>1, <2>2
  <2>. QED  BY <1>3, <1>5, <2>2, <2>3, SameSeq
<1>. QED  BY <1>0, <1>6, <1>7 DEF a, b, d, e, u

LEMMA LaidShorter ==
  ASSUME NEW T, NEW m, NEW w, Laid(T, m, w), w # <<>>, NEW n \in 1..Len(w[1])
  PROVE  /\ m \in Nat /\ m + n <= Len(T) /\ SubSeq(w[1], 1, n) = SubSeq(T, m + 1, m + n)
         /\ Laid(T, m + n, [w EXCEPT ![1] = SubSeq(w[1], n + 1, Len(w[1]))])
<1>1. T \in Seq(Byte) /\ w \in Seq(Seq(Byte)) /\ Len(w) \in Nat \ {0} /\ Len(T) \in Nat
  BY DEF Laid
<1>2. PICK c : Cut(T, m, w, c)
  BY DEF Laid
<1>. DEFINE p == c[1]
            x == SubSeq(w[1], n + 1, Len(w[1]))
            v == [w EXCEPT ![1] = x]
            b == [i \in 0..Len(w) |-> IF i = 0 THEN m + n ELSE c[i]]
<1>3. /\ m \in Nat /\ p \in Nat /\ m <= p /\ p <= Len(T)
      /\ w[1] = SubSeq(T, m + 1, p) /\ w[1] \in Seq(Byte) /\ Len(w[1]) = p - m
  BY <1>1, <1>2, LaidFirst
<1>. HIDE DEF p
<1>4. n \in 1 .. p - m /\ n \in Nat
  BY <1>3
<1>5. SubSeq(w[1], 1, n) = SubSeq(T, m + 1, m + n) /\ x = SubSeq(T, (m + n) + 1, p)
  BY <1>1, <1>3, <1>4, SubSeqOfSub
<1>6. x \in Seq(Byte)
  BY <1>3, <1>4
<1>. HIDE DEF x
<1>7. v \in Seq(Seq(Byte)) /\ Len(v) = Len(w) /\ v[1] = x /\ \A i \in 2..Len(w) : v[i] = w[i]
  BY <1>1, <1>6
<1>8. b[0] = m + n /\ \A i \in 1..Len(w) : b[i] = c[i]
  BY <1>1
<1>. HIDE DEF v, b
<1>9. m + n \in Nat /\ m + n <= p /\ m + n <= Len(T)
  BY <1>1, <1>3, <1>4
<1>10. b[Len(v)] = Len(T)
  <2>1. Len(w) \in 1..Len(w) /\ c[Len(w)] = Len(T)
    BY <1>1, <1>2 DEF Cut
  <2>. QED  BY <1>7, <1>8, <2>1
<1>11. ASSUME NEW i \in 0..Len(v)
       PROVE  b[i] \in Nat /\ b[i] <= Len(T)
  <2>1. i = 0 \/ i \in 1..Len(w)
    BY <1>7
  <2>. QED  BY <1>2, <1>7, <1>8, <1>9, <2>1 DEF Cut
<1>12. ASSUME NEW i \in 1..Len(v)
       PROVE  b[i - 1] <= b[i] /\ v[i] = SubSeq(T, b[i - 1] + 1, b[i])
  <2>1. CASE i = 1
    <3>1. b[1] = p /\ i - 1 = 0
      BY <1>1, <1>8, <2>1 DEF p
    <3>. QED  BY <1>5, <1>7, <1>8, <1>9, <2>1, <3>1
  <2>2. CASE i # 1
    <3>1. i \in 2..Len(w) /\ i - 1 \in 1..Len(w) /\ i \in 1..Len(w)
      BY <1>1, <1>7, <2>2
    <3>2. b[i - 1] = c[i - 1] /\ b[i] = c[i] /\ v[i] = w[i]
      BY <1>7, <1>8, <3>1
    <3>. QED  BY <1>2, <3>1, <3>2 DEF Cut
  <2>. QED  BY <2>1, <2>2
<1>13. Cut(T, m + n, v, b)
  BY <1>8, <1>10, <1>11, <1>12 DEF Cut
<1>14. Laid(T, m + n, v)
  BY <1>1, <1>7, <1>13 DEF Laid
<1>. QED  BY <1>3, <1>5, <1>9, <1>14 DEF v, x

-----------------------------------------------------------------------------
(* What is written.                                                        *)

Posted(start, headers, chunks) ==
  [start |-> start, line |-> TRUE, headers |-> headers, chunks |-> chunks,
   nh |-> Len(headers), nc |-> Len(chunks)]
HeadersOf(k, n) == IF Announces(k) THEN <<Announced(n)>> \o Common ELSE Common
SizeOf(k, d) == IF k = "refused" THEN 0 ELSE Len(d)
FirstChunk(k, d) == IF k = "refused" THEN LastChunk ELSE Chunk(d)

LEMMA OpeningIs ==
  ASSUME kind \in Kinds, NEW d
  PROVE  Opening(d) =
           Message(Lead(kind), HeadersOf(kind, SizeOf(kind, d)), <<FirstChunk(kind, d)>>)
<1>1. CASE kind = "put"
  <2>1. Opening(d) = Message(Request(<<"P", "U">>), Common, <<Chunk(d)>>)
    BY <1>1 DEF Opening
  <2>. QED  BY <1>1, <2>1, LeadIsWritten DEF HeadersOf, Announces, FirstChunk
<1>2. CASE kind = "created"
  <2>1. Opening(d) = Message(Response(Created), Common, <<Chunk(d)>>)
    BY <1>2 DEF Opening
  <2>. QED  BY <1>2, <2>1, LeadIsWritten DEF HeadersOf, Announces, FirstChunk
<1>3. CASE kind = "refused"
  <2>1. Opening(d) = Message(Response(NotFound), <<Announced(0)>> \o Common, <<LastChunk>>)
    BY <1>3 DEF Opening
  <2>. QED  BY <1>3, <2>1, LeadIsWritten DEF HeadersOf, Announces, FirstChunk, SizeOf
<1>4. CASE kind = "post"
  <2>1. Opening(d) = Message(Request(<<"P", "O">>), <<Announced(Len(d))>> \o Common, <<Chunk(d)>>)
    BY <1>4 DEF Opening
  <2>. QED  BY <1>4, <2>1, LeadIsWritten DEF HeadersOf, Announces, FirstChunk, SizeOf
<1>. QED  BY <1>1, <1>2, <1>3, <1>4 DEF Kinds

LEMMA HeaderIsWritten ==
  ASSUME NEW f \in Byte, NEW v \in Byte
  PROVE  <<f, ":", "sp">> \o <<v>> \o CrLf = HeaderLine(f, v)
<1>. DEFINE a == <<f, ":", "sp">>
            b == <<v>>
            l == HeaderLine(f, v)
<1>1. a \in Seq(Byte) /\ b \in Seq(Byte) /\ Len(a) = 3 /\ Len(b) = 1
      /\ a[1] = f /\ a[2] = ":" /\ a[3] = "sp" /\ b[1] = v
  BY DEF Byte
<1>2. l \in Seq(Byte) /\ Len(l) = 6 /\ l[1] = f /\ l[2] = ":" /\ l[3] = "sp" /\ l[4] = v
      /\ l[5] = "cr" /\ l[6] = "lf"
  BY DEF HeaderLine, Byte
<1>. HIDE DEF a, b, l
<1>. DEFINE u == a \o b
<1>3. u \in Seq(Byte) /\ Len(u) = 4 /\ u[1] = f /\ u[2] = ":" /\ u[3] = "sp" /\ u[4] = v
  <2>1. /\ u \in Seq(Byte) /\ Len(u) = Len(a) + Len(b)
        /\ \A i \in 1 .. Len(a) + Len(b) : u[i] = IF i <= Len(a) THEN a[i] ELSE b[i - Len(a)]
    BY <1>1, ConcatIs
  <2>. HIDE DEF u
  <2>2. \A i \in 1..4 : u[i] = IF i <= 3 THEN a[i] ELSE b[i - 3]
    BY <1>1, <2>1
  <2>3. 4 - 3 = 1 /\ Len(u) = 4
    BY <1>1, <2>1
  <2>. QED  BY <1>1, <2>1, <2>2, <2>3
<1>. HIDE DEF u
<1>. DEFINE w == u \o CrLf
<1>4. w \in Seq(Byte) /\ Len(w) = 6 /\ w[1] = f /\ w[2] = ":" /\ w[3] = "sp" /\ w[4] = v
      /\ w[5] = "cr" /\ w[6] = "lf"
  <2>1. /\ w \in Seq(Byte) /\ Len(w) = Len(u) + Len(CrLf)
        /\ \A i \in 1 .. Len(u) + Len(CrLf) : w[i] = IF i <= Len(u) THEN u[i] ELSE CrLf[i - Len(u)]
    BY <1>3, CrLfIs, ConcatIs
  <2>. HIDE DEF w
  <2>2. \A i \in 1..6 : w[i] = IF i <= 4 THEN u[i] ELSE CrLf[i - 4]
    BY <1>3, <2>1, CrLfIs
  <2>3. 5 - 4 = 1 /\ 6 - 4 = 2 /\ Len(w) = 6
    BY <1>3, <2>1, CrLfIs
  <2>. QED  BY <1>3, <2>1, <2>2, <2>3, CrLfIs
<1>. HIDE DEF w
<1>5. \A i \in 1..6 : w[i] = l[i]
  <2>1. \A i \in 1..6 : i = 1 \/ i = 2 \/ i = 3 \/ i = 4 \/ i = 5 \/ i = 6
    OBVIOUS
  <2>. QED  BY <1>2, <1>4, <2>1
<1>6. w = l
  BY <1>2, <1>4, <1>5, SameSeq
<1>. QED  BY <1>6 DEF w, u, a, b, l

LEMMA HeadersAreWritten ==
  ASSUME NEW k, NEW n \in 0..9, NEW hs, hs = HeadersOf(k, n)
  PROVE  /\ FlattenSeq([i \in 1 .. Len(hs) - 0 |-> HeaderText(hs[0 + i])]) =
              HeadersText(k, Numeral[n + 1])
         /\ (\E i \in DOMAIN hs : hs[i].name = "length") <=> Announces(k)
<1>. DEFINE v == Numeral[n + 1]
            F == [i \in 1 .. Len(hs) - 0 |-> HeaderText(hs[0 + i])]
            h1 == Announced(n)
            h2 == [name |-> "other", text |-> <<"j">>]
            h3 == [name |-> "end", text |-> <<>>]
<1>1. v \in Byte /\ "L" \in Byte /\ "N" \in Byte /\ "j" \in Byte
  BY DigitsAre DEF Byte
<1>2. h1.name = "length" /\ h1.text = <<v>> /\ h2.name = "other" /\ h2.text = <<"j">> /\ h3.name = "end"
  BY DEF Announced
<1>3. /\ HeaderText(h1) = <<"L", ":", "sp">> \o h1.text \o CrLf
      /\ HeaderText(h2) = <<"N", ":", "sp">> \o h2.text \o CrLf
      /\ HeaderText(h3) = CrLf
  BY <1>2 DEF HeaderText
<1>4. /\ HeaderText(h1) = HeaderLine("L", v) /\ HeaderText(h2) = HeaderLine("N", "j")
      /\ HeaderText(h3) = CrLf
  BY <1>1, <1>2, <1>3, HeaderIsWritten
<1>5. Common = <<h2, h3>>
  BY DEF Common
<1>. HIDE DEF v, h1, h2, h3
<1>6. CASE Announces(k)
  <2>1. hs = <<h1>> \o <<h2, h3>>
    BY <1>5, <1>6 DEF HeadersOf, h1
  <2>2. Len(hs) = 3 /\ hs[1] = h1 /\ hs[2] = h2 /\ hs[3] = h3 /\ DOMAIN hs = 1..3
    BY <2>1
  <2>3. Len(F) = 3 /\ F[1] = HeaderText(h1) /\ F[2] = HeaderText(h2) /\ F[3] = HeaderText(h3)
    BY <2>2
  <2>. HIDE DEF F
  <2>4. FlattenSeq(F) = (F[1] \o F[2]) \o F[3]
    BY <2>3, FlattenThree
  <2>5. FlattenSeq(F) = HeadersText(k, v)
    BY <1>4, <1>6, <2>3, <2>4 DEF HeadersText
  <2>. QED  BY <1>2, <1>6, <2>2, <2>5 DEF F, v
<1>7. CASE ~ Announces(k)
  <2>2. Len(hs) = 2 /\ hs[1] = h2 /\ hs[2] = h3 /\ DOMAIN hs = 1..2
    BY <1>5, <1>7 DEF HeadersOf
  <2>3. Len(F) = 2 /\ F[1] = HeaderText(h2) /\ F[2] = HeaderText(h3)
    BY <2>2
  <2>. HIDE DEF F
  <2>4. FlattenSeq(F) = F[1] \o F[2]
    BY <2>3, FlattenTwo
  <2>5. FlattenSeq(F) = HeadersText(k, v)
    BY <1>4, <1>7, <2>3, <2>4 DEF HeadersText
  <2>6. \A i \in 1..2 : i = 1 \/ i = 2
    OBVIOUS
  <2>7. ~ \E i \in DOMAIN hs : hs[i].name = "length"
    BY <1>2, <2>2, <2>6
  <2>. QED  BY <1>7, <2>5, <2>7 DEF F, v
<1>. QED  BY <1>6, <1>7

LEMMA NoTextBefore ==
  ASSUME NEW s \in Seq(Byte)
  PROVE  <<>> \o s = s /\ s \o <<>> = s
OBVIOUS

LEMMA ChunkTextIs ==
  ASSUME NEW c \in Piece, Payloads # {}
  PROVE  ChunkText(c) \in Seq(Byte)
<1>. DEFINE x == Len(c.data)
<1>1. c.data \in Seq(Byte) /\ c.size = <<x>> /\ Small(x)
  BY PieceIs
<1>. HIDE DEF x
<1>2. Text(<<x>>) \in Seq(Byte)
  BY <1>1, TextIs
<1>. QED  BY <1>1, <1>2, CrLfIs DEF ChunkText

LEMMA OpeningText ==
  ASSUME kind \in Kinds, NEW d \in Payloads
  PROVE  /\ MessageText(Opening(d)) =
              (Lead(kind) \o HeadersText(kind, Numeral[SizeOf(kind, d) + 1]))
                 \o (IF Announces(kind) THEN FirstChunk(kind, d).data
                     ELSE ChunkText(FirstChunk(kind, d)))
         /\ Written(Opening(d)) =
              Posted(Lead(kind), HeadersOf(kind, SizeOf(kind, d)), <<FirstChunk(kind, d)>>)
<1>. DEFINE hs == HeadersOf(kind, SizeOf(kind, d))
            c == FirstChunk(kind, d)
            st == Lead(kind)
            v == Numeral[SizeOf(kind, d) + 1]
<1>1. Opening(d) = Message(st, hs, <<c>>)
  BY OpeningIs
<1>2. SizeOf(kind, d) \in 0..9
  <2>1. Len(d) \in 1..9
    BY PayloadIs
  <2>. QED  BY <2>1 DEF SizeOf
<1>3. /\ FlattenSeq([i \in 1 .. Len(hs) - 0 |-> HeaderText(hs[0 + i])]) = HeadersText(kind, v)
      /\ (\E i \in DOMAIN hs : hs[i].name = "length") <=> Announces(kind)
  BY <1>2, HeadersAreWritten
<1>. HIDE DEF hs, c, st, v
<1>. DEFINE m == Message(st, hs, <<c>>)
<1>4. /\ m.start = st /\ m.line = FALSE /\ m.headers = hs /\ m.chunks = <<c>>
      /\ m.nh = 0 /\ m.nc = 0
  BY DEF Message
<1>5. BodyText(m) = IF Announces(kind) THEN c.data ELSE ChunkText(c)
  <2>1. <<c>>[1] = c /\ Len(<<c>>) = 1 /\ 0 # 1
    OBVIOUS
  <2>2. FlattenSeq([i \in 1 .. Len(<<c>>) - 0 |-> ChunkText(<<c>>[0 + i])]) = ChunkText(c)
    <3>. DEFINE F == [i \in 1 .. Len(<<c>>) - 0 |-> ChunkText(<<c>>[0 + i])]
    <3>1. Len(F) = 1 /\ F[1] = ChunkText(c)
      OBVIOUS
    <3>. HIDE DEF F
    <3>. QED  BY <3>1, FlattenOne DEF F
  <2>. HIDE DEF m
  <2>3. BodyText(m) =
          IF \E i \in DOMAIN hs : hs[i].name = "length" THEN <<c>>[1].data
          ELSE FlattenSeq([i \in 1 .. Len(<<c>>) - 0 |-> ChunkText(<<c>>[0 + i])])
    BY <1>4, <2>1, Zenon DEF BodyText
  <2>. QED  BY <1>3, <2>1, <2>2, <2>3
<1>6. MessageText(m) = (st \o HeadersText(kind, v)) \o BodyText(m)
  <2>. HIDE DEF m
  <2>1. MessageText(m) = (st \o FlattenSeq([i \in 1 .. Len(hs) - 0 |-> HeaderText(hs[0 + i])])) \o BodyText(m)
    BY <1>4, Zenon DEF MessageText
  <2>. QED  BY <1>3, <2>1
<1>7. Written(m) = Posted(st, hs, <<c>>)
  <2>1. PICK q : q = m
    OBVIOUS
  <2>2. q = [start |-> st, line |-> FALSE, headers |-> hs, chunks |-> <<c>>, nh |-> 0, nc |-> 0]
    BY <2>1 DEF Message
  <2>3. PICK w : w = Written(q)
    OBVIOUS
  <2>4. w = Posted(st, hs, <<c>>)
    BY <2>2, <2>3 DEF Written, Posted
  <2>. QED  BY <2>1, <2>3, <2>4
<1>. QED  BY <1>1, <1>5, <1>6, <1>7 DEF hs, c, st, v

LEMMA PushText ==
  ASSUME NEW st, NEW cs \in Seq(Piece), NEW c \in Piece, NEW e \in Piece, Payloads # {},
         out = Posted(st, Common, cs)
  PROVE  /\ MessageText(Push(out, <<c>>)) = ChunkText(c)
         /\ MessageText(Push(out, <<c, e>>)) = ChunkText(c) \o ChunkText(e)
         /\ Written(Push(out, <<c>>)) = Posted(st, Common, cs \o <<c>>)
         /\ Written(Push(out, <<c, e>>)) = Posted(st, Common, cs \o <<c, e>>)
<1>1. ASSUME NEW more \in Seq(Piece)
      PROVE  /\ Push(out, more).start = st /\ Push(out, more).line = TRUE
             /\ Push(out, more).headers = Common /\ Push(out, more).chunks = cs \o more
             /\ Push(out, more).nh = 2 /\ Push(out, more).nc = Len(cs)
             /\ Written(Push(out, more)) = Posted(st, Common, cs \o more)
  <2>1. Len(Common) = 2
    BY DEF Common
  <2>2. PICK q : q = Push(out, more)
    OBVIOUS
  <2>3. q = [start |-> st, line |-> TRUE, headers |-> Common, chunks |-> cs \o more,
             nh |-> 2, nc |-> Len(cs)]
    BY <2>1, <2>2 DEF Push, Posted
  <2>4. PICK w : w = Written(q)
    OBVIOUS
  <2>5. w = Posted(st, Common, cs \o more)
    BY <2>1, <2>3, <2>4 DEF Written, Posted
  <2>. QED  BY <2>2, <2>3, <2>4, <2>5
<1>2. ~ \E i \in DOMAIN Common : Common[i].name = "length"
  BY DEF Common
<1>3. ASSUME NEW more \in Seq(Piece), more # <<>>, NEW t \in Seq(Byte),
             \A F : F = [i \in 1..Len(more) |-> ChunkText(more[i])] => FlattenSeq(F) = t
      PROVE  MessageText(Push(out, more)) = t
  <2>. DEFINE m == Push(out, more)
              F == [i \in 1 .. Len(cs \o more) - Len(cs) |-> ChunkText((cs \o more)[Len(cs) + i])]
  <2>1. m.line = TRUE /\ m.headers = Common /\ m.chunks = cs \o more /\ m.nh = 2 /\ m.nc = Len(cs)
    BY <1>1
  <2>2. /\ Len(cs \o more) - Len(cs) = Len(more) /\ Len(cs) # Len(cs \o more)
        /\ \A i \in 1..Len(more) : (cs \o more)[Len(cs) + i] = more[i]
    BY <1>3
  <2>3. F = [i \in 1..Len(more) |-> ChunkText(more[i])]
    BY <2>2
  <2>4. FlattenSeq(F) = t
    <3>. HIDE DEF F
    <3>. QED  BY <1>3, <2>3
  <2>. HIDE DEF m
  <2>5. BodyText(m) = FlattenSeq(F)
    BY <1>2, <2>1, <2>2, Zenon DEF BodyText
  <2>6. [i \in 1 .. Len(Common) - 2 |-> HeaderText(Common[2 + i])] = <<>>
    BY DEF Common
  <2>7. MessageText(m) = (<<>> \o FlattenSeq([i \in 1 .. Len(Common) - 2 |-> HeaderText(Common[2 + i])])) \o BodyText(m)
    BY <2>1, Zenon DEF MessageText
  <2>8. MessageText(m) = (<<>> \o <<>>) \o t
    BY <2>4, <2>5, <2>6, <2>7, FlattenNone
  <2>9. <<>> \o <<>> = <<>>
    OBVIOUS
  <2>. QED  BY <1>3, <2>8, <2>9, NoTextBefore DEF m
<1>4. <<c>> \in Seq(Piece) /\ <<c>> # <<>> /\ <<c, e>> \in Seq(Piece) /\ <<c, e>> # <<>>
  OBVIOUS
<1>5. ChunkText(c) \in Seq(Byte) /\ ChunkText(e) \in Seq(Byte)
  BY ChunkTextIs
<1>6. ChunkText(c) \o ChunkText(e) \in Seq(Byte)
  BY <1>5
<1>7. \A F : F = [i \in 1..Len(<<c>>) |-> ChunkText(<<c>>[i])] => FlattenSeq(F) = ChunkText(c)
  <2>. SUFFICES ASSUME NEW F, F = [i \in 1..Len(<<c>>) |-> ChunkText(<<c>>[i])]
                PROVE  FlattenSeq(F) = ChunkText(c)
    OBVIOUS
  <2>1. Len(F) = 1 /\ F[1] = ChunkText(c)
    OBVIOUS
  <2>. QED  BY <2>1, FlattenOne
<1>8. \A F : F = [i \in 1..Len(<<c, e>>) |-> ChunkText(<<c, e>>[i])] =>
               FlattenSeq(F) = ChunkText(c) \o ChunkText(e)
  <2>. SUFFICES ASSUME NEW F, F = [i \in 1..Len(<<c, e>>) |-> ChunkText(<<c, e>>[i])]
                PROVE  FlattenSeq(F) = ChunkText(c) \o ChunkText(e)
    OBVIOUS
  <2>1. Len(F) = 2 /\ F[1] = ChunkText(c) /\ F[2] = ChunkText(e)
    OBVIOUS
  <2>. QED  BY <2>1, FlattenTwo
<1>9. MessageText(Push(out, <<c>>)) = ChunkText(c)
  BY <1>3, <1>4, <1>5, <1>7
<1>10. MessageText(Push(out, <<c, e>>)) = ChunkText(c) \o ChunkText(e)
  BY <1>3, <1>4, <1>6, <1>8
<1>. QED  BY <1>1, <1>4, <1>9, <1>10

-----------------------------------------------------------------------------
(* Where the exchange stands.                                              *)

LEMMA GoodOfMore ==
  ASSUME NEW k, NEW cs \in Seq(Piece), NEW more \in Seq(Piece), NEW r, Good(k, cs, r)
  PROVE  Good(k, cs \o more, r)
<1>1. /\ Len(cs) \in Nat /\ Len(cs) <= Len(cs \o more)
      /\ \A i \in 1..Len(cs) : (cs \o more)[i] = cs[i]
  OBVIOUS
<1>2. r.nc \in Nat /\ r.nc <= Len(cs) /\ r.nc <= Len(cs \o more)
  BY <1>1 DEF Good
<1>3. \A i \in 1..r.nc : (cs \o more)[i] = cs[i]
  BY <1>1, <1>2
<1>. QED  BY <1>2, <1>3 DEF Good

\* What is said of the chunks written so far holds when more are written.
LEMMA PathOfMore ==
  ASSUME NEW k, NEW cs \in Seq(Piece), NEW more \in Seq(Piece), NEW T, NEW R, NEW from, NEW way,
         Path(k, cs, T, R, from, way)
  PROVE  Path(k, cs \o more, T, R, from, way)
<1>1. \A n \in 0..Len(T) : Good(k, cs \o more, R[n]) /\ (n >= from => Past(k, R[n]))
  BY GoodOfMore DEF Path
<1>. QED  BY <1>1 DEF Path

\* Along a text the number of chunks that were read only grows.
LEMMA ChunksAlong ==
  ASSUME NEW k, NEW cs, NEW T, NEW R, NEW from, NEW way, Path(k, cs, T, R, from, way),
         NEW n \in Nat, NEW m \in Nat, n <= m, m <= Len(T)
  PROVE  R[n].nc <= R[m].nc
<1>1. /\ Len(T) \in Nat
      /\ \A i \in 0..Len(T) : R[i].nc \in Nat
      /\ \A i \in 0 .. Len(T) - 1 : R[i].nc <= R[i + 1].nc
  <2>1. Len(T) \in Nat
    BY DEF Path
  <2>2. ASSUME NEW i \in 0..Len(T) PROVE R[i].nc \in Nat
    <3>1. Good(k, cs, R[i])
      BY DEF Path
    <3>. QED  BY <3>1 DEF Good
  <2>. QED  BY <2>1, <2>2 DEF Path
<1>. DEFINE C(i) == R[i].nc
            L == Len(T)
            S == {i \in Nat : n + i <= L => C(n) <= C(n + i)}
<1>2. 0 \in S
  BY <1>1
<1>a. L \in Nat /\ (\A i \in 0..L : C(i) \in Nat) /\ \A i \in 0 .. L - 1 : C(i) <= C(i + 1)
  BY <1>1
<1>3. ASSUME NEW i \in Nat, i \in S PROVE i + 1 \in S
  <2>. HIDE DEF L, C
  <2>1. ASSUME n + (i + 1) <= L PROVE C(n) <= C(n + (i + 1))
    <3>1. n + i \in 0 .. L - 1 /\ n + i <= L /\ (n + i) + 1 = n + (i + 1) /\ n \in 0..L
          /\ n + (i + 1) \in 0..L /\ n + i \in 0..L
      BY <1>a, <2>1
    <3>2. C(n) <= C(n + i)
      BY <1>3, <3>1
    <3>3. C(n + i) <= C(n + (i + 1))
      <4>1. C(n + i) <= C((n + i) + 1)
        BY <1>a, <3>1
      <4>. QED  BY <3>1, <4>1
    <3>4. C(n) \in Nat /\ C(n + i) \in Nat /\ C(n + (i + 1)) \in Nat
      BY <1>a, <3>1
    <3>. QED  BY <3>2, <3>3, <3>4
  <2>. QED  BY <2>1
<1>4. \A i \in Nat : i \in S
  <2>. HIDE DEF S
  <2>. QED  BY <1>2, <1>3, Induction
<1>5. m - n \in Nat /\ n + (m - n) = m
  OBVIOUS
<1>. QED  BY <1>4, <1>5

\* Where nothing depends on the end of the text, its end may be as well told.
LEMMA PathSealed ==
  ASSUME NEW k, NEW cs, NEW T, NEW R, NEW from, Path(k, cs, T, R, from, "open"), NEW way
  PROVE  Path(k, cs, T, R, from, way)
BY DEF Path

\* Without a length the headers are followed by chunks.
LEMMA ChunksFollow ==
  ASSUME NEW k, ~ Announces(k), NEW v
  PROVE  AfterHeaders(k, v) = Chunked(k, AllHeaders(k, v), <<>>, NoChunk)
<1>1. Append(<<>>, NoChunk) = <<NoChunk>> /\ Len(<<>>) = 0
  OBVIOUS
<1>. QED  BY <1>1 DEF AfterHeaders, Ended, Chunked

Way(k) == IF k = "post" THEN "sealed" ELSE "open"

\* T is what was written so far and R the way of a reader along it.
Tape(k, cs, T, R) == Path(k, cs, T, R, 13, Way(k)) /\ R[0] = InLead(k, 0)

\* n bytes of it were read and m delivered; the first part is a whole line.
Where(k, cs, T, R, n, m, s, w, r) ==
  /\ Tape(k, cs, T, R)
  /\ n \in Nat /\ m \in Nat /\ n <= m /\ m <= Len(T)
  /\ s = SubSeq(T, n + 1, m) /\ Laid(T, m, w)
  /\ r = R[n] \/ (n = 0 /\ r = Blank(Role(k)))
  /\ m = 0 => r = Blank(Role(k)) /\ (w # <<>> => Len(w[1]) >= 13)
  /\ m > 0 => m >= 13

\* The reader waits for a further chunk.
Ready(k, cs, r) ==
  \E hs, ds : /\ hs \in Seq(ReadHeader) /\ hs # <<>> /\ Matches(ds, cs) /\ Len(ds) = Len(cs)
              /\ r = Chunked(k, hs, ds, NoChunk)

LEMMA BlankIs ==
  ASSUME NEW k
  PROVE  /\ Blank(Role(k)).headers = <<>> /\ Blank(Role(k)).chunks = <<>>
         /\ Blank(Role(k)).nh = 0 /\ Blank(Role(k)).nc = 0 /\ Blank(Role(k)).fault = FALSE
         /\ Blank(Role(k)).stray = FALSE
BY DEF Blank

LEMMA ReaderOpened ==
  ASSUME NEW k \in Kinds, NEW cs, NEW T, NEW R, NEW n, NEW m, NEW s, NEW w, NEW r,
         Where(k, cs, T, R, n, m, s, w, r)
  PROVE  Opened([r EXCEPT !.stray = FALSE]) = R[n]
<1>1. CASE r = R[n]
  <2>1. Good(k, cs, R[n])
    BY DEF Where, Tape, Path
  <2>. QED  BY <1>1, <2>1, OpenedAgain
<1>2. CASE n = 0 /\ r = Blank(Role(k))
  BY <1>2, OpenedFirst DEF Where, Tape
<1>. QED  BY <1>1, <1>2 DEF Where

\* All that lies in the stream is read.
LEMMA AllIsRead ==
  ASSUME NEW k \in Kinds, NEW cs, NEW T, NEW R, NEW n, NEW m, NEW s, NEW w, NEW r,
         Where(k, cs, T, R, n, m, s, w, r)
  PROVE  Parse(r, s) = [reader |-> R[m], left |-> <<>>]
<1>1. Opened([r EXCEPT !.stray = FALSE]) = R[n]
  BY ReaderOpened
<1>2. Path(k, cs, T, R, 13, Way(k)) /\ n \in Nat /\ m \in Nat /\ n <= m /\ m <= Len(T)
  BY DEF Where, Tape
<1>3. Parses(r, T, n, m, R[m])
  BY <1>1, <1>2, ParseAlong
<1>. QED  BY <1>3 DEF Where, Parses

\* When it was, the reader is past the first line and has the chunks it had.
LEMMA AfterRead ==
  ASSUME NEW k \in Kinds, NEW cs, NEW T, NEW R, NEW n, NEW m, NEW s, NEW w, NEW r,
         Where(k, cs, T, R, n, m, s, w, r), m # 0
  PROVE  /\ Where(k, cs, T, R, m, m, <<>>, w, R[m])
         /\ Good(k, cs, R[m]) /\ Past(k, R[m])
         /\ R[n].nc \in Nat /\ r.nc \in Nat /\ R[m].nc \in Nat /\ r.nc <= R[m].nc
<1>0. /\ Path(k, cs, T, R, 13, Way(k)) /\ n \in Nat /\ m \in Nat /\ n <= m /\ m <= Len(T)
      /\ (m > 0 => m >= 13)
  BY DEF Where, Tape
<1>t. T \in Seq(Byte)
  BY <1>0 DEF Path
<1>1. Len(T) \in Nat /\ n \in 0..Len(T) /\ m \in 0..Len(T) /\ m >= 13 /\ Path(k, cs, T, R, 13, Way(k))
  BY <1>0, <1>t
<1>2. Good(k, cs, R[m]) /\ Past(k, R[m]) /\ Good(k, cs, R[n])
  BY <1>1 DEF Path
<1>3. SubSeq(T, m + 1, m) = <<>>
  BY <1>1 DEF Path
<1>4. Where(k, cs, T, R, m, m, <<>>, w, R[m])
  BY <1>1, <1>3 DEF Where
<1>5. R[n].nc \in Nat /\ R[m].nc \in Nat
  BY <1>2 DEF Good
<1>6. R[n].nc <= R[m].nc
  BY <1>1, ChunksAlong DEF Where
<1>7. r.nc \in Nat /\ r.nc <= R[m].nc
  <2>1. CASE r = R[n]
    BY <1>5, <1>6, <2>1
  <2>2. CASE r = Blank(Role(k))
    <3>1. r.nc = 0
      BY <2>2, BlankIs
    <3>. QED  BY <1>5, <3>1
  <2>. QED  BY <2>1, <2>2 DEF Where
<1>. QED  BY <1>2, <1>4, <1>5, <1>7

\* Likewise, and at the end of what was written the reader will be q.
Heading(k, cs, T, n, m, s, w, r, q) ==
  \E P : Where(k, cs, T, P, n, m, s, w, r) /\ P[Len(T)] = q

\* More is written.
LEMMA WhereGrows ==
  ASSUME NEW k \in Kinds, k # "post", NEW cs \in Seq(Piece), NEW more \in Seq(Piece),
         NEW T, NEW R, NEW n, NEW m, NEW s, NEW w, NEW r, Where(k, cs, T, R, n, m, s, w, r),
         Len(T) >= 13, NEW t, NEW q, Reads(k, cs \o more, t, 0, "open", R[Len(T)], q)
  PROVE  Heading(k, cs \o more, T \o t, n, m, s, Append(w, t), r, q)
<1>1. Path(k, cs \o more, T, R, 13, "open")
  <2>1. Path(k, cs, T, R, 13, "open")
    BY DEF Where, Tape, Way
  <2>. QED  BY <2>1, PathOfMore
<1>2. PICK Q : Path(k, cs \o more, t, Q, 0, "open") /\ Q[0] = R[Len(T)] /\ Q[Len(t)] = q
  BY DEF Reads
<1>3. PICK P : /\ Path(k, cs \o more, T \o t, P, 13, "open")
               /\ \A i \in 0..Len(T) : P[i] = R[i]
               /\ \A i \in 0..Len(t) : P[Len(T) + i] = Q[i]
  <2>1. R[Len(T)] = Q[0]
    BY <1>2
  <2>. QED  BY <1>1, <1>2, <2>1, PathsJoin
<1>4. /\ T \in Seq(Byte) /\ t \in Seq(Byte) /\ Len(T) \in Nat /\ Len(t) \in Nat
      /\ Len(T \o t) = Len(T) + Len(t)
  <2>1. T \in Seq(Byte) /\ t \in Seq(Byte)
    BY <1>1, <1>2 DEF Path
  <2>. QED  BY <2>1, ConcatIs
<1>5. P[Len(T \o t)] = q
  BY <1>2, <1>3, <1>4
<1>6. n \in Nat /\ m \in Nat /\ n <= m /\ m <= Len(T) /\ n \in 0..Len(T)
  BY <1>4 DEF Where
<1>7. Tape(k, cs \o more, T \o t, P)
  <2>1. P[0] = R[0]
    BY <1>3, <1>4
  <2>. QED  BY <1>3, <2>1 DEF Where, Tape, Way
<1>8. s = SubSeq(T \o t, n + 1, m)
  BY <1>4, <1>6, SubSeqOfLonger DEF Where
<1>9. Laid(T \o t, m, Append(w, t))
  BY <1>4, LaidMore DEF Where
<1>10. r = P[n] \/ (n = 0 /\ r = Blank(Role(k)))
  BY <1>3, <1>6 DEF Where
<1>11. m = 0 => w # <<>>
  <2>. SUFFICES ASSUME m = 0, w = <<>> PROVE FALSE
    OBVIOUS
  <2>1. PICK c : Cut(T, m, w, c)
    BY DEF Where, Laid
  <2>2. Len(w) = 0
    OBVIOUS
  <2>3. c[0] = 0 /\ c[0] = Len(T)
    BY <2>1, <2>2 DEF Cut
  <2>. QED  BY <2>3
<1>12. w # <<>> => Append(w, t)[1] = w[1] /\ Append(w, t) # <<>>
  <2>1. w \in Seq(Seq(Byte)) /\ t \in Seq(Byte)
    BY <1>4 DEF Where, Laid
  <2>2. ASSUME NEW S, NEW u \in Seq(S), NEW x \in S, u # <<>>
        PROVE  Append(u, x)[1] = u[1] /\ Append(u, x) # <<>>
    <3>1. Len(u) \in Nat \ {0} /\ \A i \in 1..Len(u) : Append(u, x)[i] = u[i]
      BY <2>2, NotEmpty
    <3>2. Append(u, x)[1] = u[1]
      BY <3>1
    <3>3. Len(Append(u, x)) = Len(u) + 1
      BY <2>2
    <3>. QED  BY <3>1, <3>2, <3>3
  <2>. QED  BY <2>1, <2>2
<1>13. Where(k, cs \o more, T \o t, P, n, m, s, Append(w, t), r)
  <2>1. m <= Len(T \o t)
    BY <1>4, <1>6
  <2>2. m = 0 => r = Blank(Role(k)) /\ Len(Append(w, t)[1]) >= 13
    BY <1>11, <1>12 DEF Where
  <2>3. m > 0 => m >= 13
    BY DEF Where
  <2>. QED  BY <1>6, <1>7, <1>8, <1>9, <1>10, <2>1, <2>2, <2>3 DEF Where
<1>. QED  BY <1>5, <1>13 DEF Heading

\* What is known of the reader, wherever it is.
Fine(cs, r) ==
  /\ r.fault = FALSE /\ r.stray = FALSE
  /\ r.nh <= Len(r.headers) /\ r.chunks \in Seq(ReadChunk) /\ Len(r.chunks) \in Nat
  /\ r.nc \in Nat /\ r.nc <= Len(r.chunks) /\ r.nc <= Len(cs)
  /\ \A i \in 1..r.nc : r.chunks[i].size = cs[i].size /\ r.chunks[i].data = cs[i].data

LEMMA WhereReader ==
  ASSUME NEW k \in Kinds, NEW cs \in Seq(Piece), NEW T, NEW R, NEW n, NEW m, NEW s, NEW w, NEW r,
         Where(k, cs, T, R, n, m, s, w, r)
  PROVE  Fine(cs, r)
<1>1. CASE r = R[n]
  <2>1. Path(k, cs, T, R, 13, Way(k)) /\ n \in Nat /\ n <= m /\ m \in Nat /\ m <= Len(T)
    BY DEF Where, Tape
  <2>2. T \in Seq(Byte)
    BY <2>1 DEF Path
  <2>3. n \in 0..Len(T)
    BY <2>1, <2>2
  <2>4. Good(k, cs, r)
    BY <1>1, <2>1, <2>3 DEF Path
  <2>5. PICK x : x = r
    OBVIOUS
  <2>6. x.fault = FALSE /\ x.stray = FALSE
    <3>1. x = Reading(k, x.line, x.found, x.status, x.headers, x.nh, x.chunks, x.nc, x.sized)
      BY <2>4, <2>5 DEF Good
    <3>. QED  BY <3>1 DEF Reading
  <2>. QED  BY <2>4, <2>5, <2>6 DEF Good, Fine
<1>2. CASE r = Blank(Role(k))
  <2>1. /\ r.headers = <<>> /\ r.chunks = <<>> /\ r.nh = 0 /\ r.nc = 0
        /\ r.fault = FALSE /\ r.stray = FALSE
    BY <1>2, BlankIs
  <2>. QED  BY <2>1 DEF Fine
<1>. QED  BY <1>1, <1>2 DEF Where

\* The first line was written.
LEMMA WhereOpens ==
  ASSUME NEW k \in Kinds, NEW cs \in Seq(Piece), NEW R, NEW n, NEW m, NEW s, NEW r,
         Where(k, <<>>, <<>>, R, n, m, s, <<>>, r),
         NEW t, Len(t) >= 13, NEW q, Reads(k, cs, t, 13, Way(k), InLead(k, 0), q)
  PROVE  m = 0 /\ \E P : Where(k, cs, t, P, 0, 0, s, <<t>>, r) /\ P[Len(t)] = q
<1>1. PICK P : Path(k, cs, t, P, 13, Way(k)) /\ P[0] = InLead(k, 0) /\ P[Len(t)] = q
  BY DEF Reads
<1>2. Tape(k, cs, t, P) /\ t \in Seq(Byte) /\ Len(t) \in Nat
  BY <1>1 DEF Tape, Path
<1>3. n = 0 /\ m = 0
  BY DEF Where
<1>4. s = <<>> /\ SubSeq(t, 0 + 1, 0) = <<>>
  BY <1>2, <1>3 DEF Where
<1>5. Laid(t, 0, <<t>>)
  <2>1. Laid(<<>>, 0, <<>>)
    BY <1>3 DEF Where
  <2>2. Laid(<<>> \o t, 0, Append(<<>>, t))
    BY <1>2, <2>1, LaidMore
  <2>3. <<>> \o t = t /\ Append(<<>>, t) = <<t>>
    BY <1>2
  <2>. QED  BY <2>2, <2>3
<1>6. r = Blank(Role(k))
  BY <1>3 DEF Where
<1>7. Where(k, cs, t, P, 0, 0, s, <<t>>, r)
  <2>1. <<t>>[1] = t
    OBVIOUS
  <2>. QED  BY <1>2, <1>4, <1>5, <1>6, <2>1 DEF Where
<1>. QED  BY <1>1, <1>3, <1>7

\* More is delivered.
LEMMA WhereDelivers ==
  ASSUME NEW k \in Kinds, NEW cs, NEW T, NEW R, NEW n, NEW m, NEW s, NEW w, NEW r,
         Where(k, cs, T, R, n, m, s, w, r), w # <<>>, NEW j \in 1..Len(w[1]),
         r = Blank(Role(k)) /\ s = <<>> => j = Len(w[1])
  PROVE  /\ Where(k, cs, T, R, n, m + j, s \o SubSeq(w[1], 1, j),
                  IF j = Len(w[1]) THEN Tail(w) ELSE [w EXCEPT ![1] = SubSeq(@, j + 1, Len(@))], r)
         /\ m + j # 0
<1>. DEFINE v == IF j = Len(w[1]) THEN Tail(w)
                 ELSE [w EXCEPT ![1] = SubSeq(@, j + 1, Len(@))]
<1>1. /\ Tape(k, cs, T, R) /\ n \in Nat /\ m \in Nat /\ n <= m /\ s = SubSeq(T, n + 1, m)
      /\ Laid(T, m, w) /\ (r = R[n] \/ (n = 0 /\ r = Blank(Role(k))))
      /\ (m = 0 => r = Blank(Role(k)) /\ Len(w[1]) >= 13) /\ (m > 0 => m >= 13)
  BY DEF Where
<1>2. T \in Seq(Byte)
  BY <1>1 DEF Laid
<1>3. m + j <= Len(T) /\ SubSeq(w[1], 1, j) = SubSeq(T, m + 1, m + j)
  <2>1. Laid(T, m, w)
    BY <1>1
  <2>2. /\ m \in Nat /\ m + j <= Len(T) /\ SubSeq(w[1], 1, j) = SubSeq(T, m + 1, m + j)
        /\ Laid(T, m + j, [w EXCEPT ![1] = SubSeq(w[1], j + 1, Len(w[1]))])
    BY <2>1, LaidShorter, Zenon
  <2>. QED  BY <2>2
<1>4. Laid(T, m + j, v)
  <2>1. CASE j = Len(w[1])
    <3>1. Laid(T, m + j, Tail(w))
      BY <1>1, <2>1, LaidWithoutFirst
    <3>. QED  BY <2>1, <3>1
  <2>2. CASE j # Len(w[1])
    <3>1. Laid(T, m + j, [w EXCEPT ![1] = SubSeq(w[1], j + 1, Len(w[1]))])
      BY <1>1, LaidShorter
    <3>. QED  BY <2>2, <3>1
  <2>. QED  BY <2>1, <2>2
<1>5. j \in Nat \ {0}
  OBVIOUS
<1>6. s \o SubSeq(w[1], 1, j) = SubSeq(T, n + 1, m + j)
  <2>1. SubSeq(T, n + 1, m) \o SubSeq(T, m + 1, m + j) = SubSeq(T, n + 1, m + j)
    BY <1>1, <1>2, <1>3, <1>5, SubSeqJoin
  <2>. QED  BY <1>1, <1>3, <2>1
<1>7. m = 0 => s = <<>>
  BY <1>1, <1>2
<1>8. m + j >= 13
  BY <1>1, <1>5, <1>7
<1>. HIDE DEF v
<1>9. Where(k, cs, T, R, n, m + j, s \o SubSeq(w[1], 1, j), v, r)
  BY <1>1, <1>3, <1>4, <1>5, <1>6, <1>8 DEF Where
<1>. QED  BY <1>8, <1>9, <1>1, <1>5 DEF v

-----------------------------------------------------------------------------
(* The inductive invariant.                                                *)

\* What was pushed: the end comes last, and only then.
Sender ==
  /\ kind \in Kinds /\ ended \in BOOLEAN
  /\ \/ out = NotOpened /\ ended = FALSE
     \/ /\ Payloads # {} /\ out.chunks \in Seq(Piece) /\ out.chunks # <<>>
        /\ out = Posted(out.start, out.headers, out.chunks)
        /\ Len(out.chunks) <= IF ended THEN MaxChunks + 2 ELSE MaxChunks
        /\ \A i \in 1..Len(out.chunks) :
             out.chunks[i].size = <<0>> => ended /\ i = Len(out.chunks)
        /\ IF Streams THEN out.headers = Common ELSE ended

\* What was handled was read, and the end was not handled; the end is passed by
\* the position of a response that has ended only.
Receiver ==
  /\ due \in 0..MaxQueue
  /\ accepted \in BOOLEAN /\ again \in BOOLEAN /\ refused \in BOOLEAN /\ over \in BOOLEAN
  /\ pos \in 0..reader.nc /\ handled \in 0..reader.nc
  /\ \A i \in 1..handled : out.chunks[i].size # <<0>>
  /\ (accepted \/ IsRequest) => \A i \in 1..pos : out.chunks[i].size # <<0>>
  /\ IsRequest /\ ~ accepted => reader = FromPeer
  /\ lost = FALSE /\ (refused => kind = "refused")

\* The text T that was written is what was read, lies in the stream and is
\* under way.
Under(T, R, n, m) ==
  /\ Where(kind, out.chunks, T, R, n, m, stream, wire, reader)
  /\ out = NotOpened => T = <<>> /\ wire = <<>>
  /\ out # NotOpened => Len(T) >= 13
  /\ out # NotOpened /\ ~ ended => Ready(kind, out.chunks, R[Len(T)])
  /\ m = 0 => due = 0

StreamInv == Sender /\ Receiver /\ \E T, R, n, m : Under(T, R, n, m)

LEMMA InitInv ==
  ASSUME Init
  PROVE  StreamInv
<1>1. /\ kind \in Kinds /\ ended = FALSE /\ out = NotOpened /\ wire = <<>> /\ stream = <<>>
      /\ due = 0 /\ reader = FromPeer /\ pos = 0 /\ handled = 0
  BY DEF Init, Kinds
<1>2. reader = Blank(Role(kind)) /\ reader.nc = 0
  BY <1>1, BlankIs DEF FromPeer, IsRequest, Role
<1>3. Sender
  BY <1>1 DEF Sender
<1>4. accepted \in BOOLEAN
  BY DEF Init, IsRequest
<1>5. Receiver
  <2>1. due \in 0..MaxQueue /\ pos \in 0..reader.nc /\ handled \in 0..reader.nc
    BY <1>1, <1>2, StreamAssumption
  <2>2. 1..pos = {} /\ 1..handled = {}
    BY <1>1
  <2>3. /\ again \in BOOLEAN /\ refused \in BOOLEAN /\ over \in BOOLEAN
        /\ lost = FALSE /\ refused = FALSE
    BY DEF Init
  <2>. QED  BY <1>1, <1>4, <2>1, <2>2, <2>3, Zenon DEF Receiver
<1>6. out.chunks = <<>>
  BY <1>1 DEF NotOpened, Message
<1>7. <<>> \in Seq(Piece) /\ <<>> \in Seq(Byte) /\ Len(<<>>) = 0
  OBVIOUS
<1>8. Good(kind, <<>>, InLead(kind, 0))
  <2>1. PICK Q : Path(kind, <<>>, Lead(kind), Q, 13, "open") /\ Q[0] = InLead(kind, 0)
    BY <1>1, <1>7, LeadReads DEF Reads
  <2>2. 0 \in 0..Len(Lead(kind))
    BY <1>1, LeadIsText
  <2>. QED  BY <2>1, <2>2 DEF Path
<1>. DEFINE R == [i \in {0} |-> InLead(kind, 0)]
<1>9. R[0] = InLead(kind, 0)
  OBVIOUS
<1>. HIDE DEF R
<1>10. Tape(kind, <<>>, <<>>, R)
  <2>1. Path(kind, <<>>, <<>>, R, 13, Way(kind))
    <3>1. \A i \in 0..0 : Good(kind, <<>>, R[i]) /\ (i >= 13 => Past(kind, R[i]))
      BY <1>8, <1>9
    <3>. QED  BY <1>7, <3>1 DEF Path
  <2>. QED  BY <1>9, <2>1 DEF Tape
<1>11. Laid(<<>>, 0, <<>>)
  <2>. DEFINE c == [i \in {0} |-> 0]
  <2>1. Cut(<<>>, 0, <<>>, c)
    BY DEF Cut
  <2>2. <<>> \in Seq(Seq(Byte))
    OBVIOUS
  <2>. HIDE DEF c
  <2>. QED  BY <1>7, <2>1, <2>2 DEF Laid
<1>12. SubSeq(<<>>, 0 + 1, 0) = <<>>
  OBVIOUS
<1>13. Where(kind, <<>>, <<>>, R, 0, 0, <<>>, <<>>, reader)
  BY <1>2, <1>7, <1>10, <1>11, <1>12 DEF Where
<1>14. Under(<<>>, R, 0, 0)
  BY <1>1, <1>6, <1>13 DEF Under
<1>. QED  BY <1>3, <1>5, <1>14 DEF StreamInv

\* The receiver is not disturbed by what is written.
LEMMA ReceiverStays ==
  ASSUME Sender, Receiver, NEW T, NEW R, NEW n, NEW m, Under(T, R, n, m),
         NEW more \in Seq(Piece), out.chunks \in Seq(Piece), out'.chunks = out.chunks \o more,
         UNCHANGED <<kind, due, readVars, over>>
  PROVE  Receiver'
<1>1. UNCHANGED <<kind, due, accepted, reader, pos, handled, again, refused, lost, over>>
  BY DEF readVars
<1>2. reader.nc \in Nat /\ reader.nc <= Len(out.chunks)
  BY WhereReader DEF Sender, Under, Fine
<1>3. \A i \in 1..Len(out.chunks) : out'.chunks[i] = out.chunks[i]
  OBVIOUS
<1>4. \A i \in 1..handled : out'.chunks[i] = out.chunks[i]
  <2>1. handled \in Nat /\ handled <= Len(out.chunks) /\ Len(out.chunks) \in Nat
    BY <1>2 DEF Receiver
  <2>. QED  BY <1>3, <2>1
<1>5. \A i \in 1..pos : out'.chunks[i] = out.chunks[i]
  <2>1. pos \in Nat /\ pos <= Len(out.chunks) /\ Len(out.chunks) \in Nat
    BY <1>2 DEF Receiver
  <2>. QED  BY <1>3, <2>1
<1>6. IsRequest' = IsRequest /\ FromPeer' = FromPeer
  BY <1>1 DEF IsRequest, FromPeer
<1>. QED  BY <1>1, <1>4, <1>5, <1>6 DEF Receiver

-----------------------------------------------------------------------------
(* The writer keeps it.                                                    *)

LEMMA ChunkIs ==
  ASSUME NEW d \in Payloads
  PROVE  /\ Chunk(d) \in Piece /\ Chunk(d).size # <<0>> /\ Chunk(d).data = d
         /\ LastChunk \in Piece /\ LastChunk.size = <<0>> /\ LastChunk.data = <<>>
<1>1. Len(d) # 0
  BY PayloadIs
<1>2. Chunk(d).size = <<Len(d)>> /\ Chunk(d).data = d
  BY DEF Chunk
<1>3. <<Len(d)>>[1] = Len(d) /\ <<0>>[1] = 0
  OBVIOUS
<1>4. Chunk(d).size # <<0>>
  BY <1>1, <1>2, <1>3
<1>. QED  BY <1>2, <1>4 DEF Piece, LastChunk

LEMMA FirstChunkIs ==
  ASSUME NEW k \in Kinds, NEW d \in Payloads
  PROVE  /\ FirstChunk(k, d) \in Piece /\ <<FirstChunk(k, d)>> \in Seq(Piece)
         /\ <<FirstChunk(k, d)>>[1] = FirstChunk(k, d) /\ Len(<<FirstChunk(k, d)>>) = 1
         /\ FirstChunk(k, d).size = <<0>> <=> k = "refused"
<1>1. FirstChunk(k, d) \in Piece /\ (FirstChunk(k, d).size = <<0>> <=> k = "refused")
  BY ChunkIs DEF FirstChunk
<1>2. PICK c \in Piece : c = FirstChunk(k, d)
  BY <1>1
<1>3. <<c>> \in Seq(Piece) /\ <<c>>[1] = c /\ Len(<<c>>) = 1
  OBVIOUS
<1>. QED  BY <1>1, <1>2, <1>3

\* A stream of chunks is ready for a further one after its first.
LEMMA OpeningReads ==
  ASSUME NEW k \in Kinds, NEW d \in Payloads, NEW cs, cs = <<FirstChunk(k, d)>>,
         NEW t, t = (Lead(k) \o HeadersText(k, Numeral[SizeOf(k, d) + 1]))
                       \o (IF Announces(k) THEN FirstChunk(k, d).data
                           ELSE ChunkText(FirstChunk(k, d)))
  PROVE  /\ t \in Seq(Byte) /\ Len(t) >= 13
         /\ \E q : /\ Reads(k, cs, t, 13, Way(k), InLead(k, 0), q)
                   /\ ~ Announces(k) => Ready(k, cs, q)
<1>. DEFINE v == Numeral[SizeOf(k, d) + 1]
            head == Lead(k) \o HeadersText(k, v)
            c == FirstChunk(k, d)
            body == IF Announces(k) THEN c.data ELSE ChunkText(c)
<1>1. v \in Byte \ Space /\ (k # "refused" => v = Numeral[Len(d) + 1])
  <2>1. SizeOf(k, d) \in 0..9
    BY PayloadIs DEF SizeOf
  <2>. QED  BY <2>1, DigitsAre DEF SizeOf
<1>2. /\ cs \in Seq(Piece) /\ c \in Piece /\ cs[1] = c /\ Len(cs) = 1 /\ cs # <<>>
      /\ Payloads # {} /\ (c.size = <<0>> <=> k = "refused")
  BY FirstChunkIs
<1>3. Reads(k, cs, head, 13, "open", InLead(k, 0), AfterHeaders(k, v))
  BY <1>1, <1>2, HeadReads
<1>4. head \in Seq(Byte) /\ Len(head) \in Nat
  BY <1>3 DEF Reads, Path
<1>5. Len(head) >= 13
  <2>1. /\ Lead(k) \in Seq(Byte) /\ Len(Lead(k)) = 13
    BY LeadIsText
  <2>2. HeadersText(k, v) \in Seq(Byte)
    BY <1>1, <1>2, HeadersRead DEF Reads, Path
  <2>3. ASSUME NEW a \in Seq(Byte), NEW b \in Seq(Byte), Len(a) = 13
        PROVE  Len(a \o b) >= 13
    <3>1. Len(a \o b) = Len(a) + Len(b) /\ Len(b) \in Nat
      BY ConcatIs
    <3>. QED  BY <2>3, <3>1
  <2>. HIDE DEF v
  <2>. QED  BY <2>1, <2>2, <2>3
<1>6. /\ AllHeaders(k, v) \in Seq(ReadHeader) /\ AllHeaders(k, v) # <<>>
  BY <1>1, HeadersAre
<1>. HIDE DEF v, c, head
<1>7. \E q : /\ Reads(k, cs, body, 0, Way(k), AfterHeaders(k, v), q)
             /\ ~ Announces(k) => Ready(k, cs, q)
  <2>1. CASE k = "post"
    <3>1. Announces(k) /\ Way(k) = "sealed" /\ c = Chunk(d) /\ body = d
      BY <2>1, ChunkIs DEF Announces, Way, FirstChunk, c
    <3>2. Reads(k, cs, d, 0, "sealed", AfterHeaders(k, Numeral[Len(d) + 1]),
                InBodyOf(k, AllHeaders(k, Numeral[Len(d) + 1]), BodyAt(Len(d), Len(d), d), 1))
      BY <1>2, <3>1, BodyReads
    <3>. QED  BY <1>1, <2>1, <3>1, <3>2
  <2>2. CASE k = "refused"
    <3>1. Announces(k) /\ Way(k) = "open" /\ body = <<>>
      BY <2>2, ChunkIs DEF Announces, Way, FirstChunk, c
    <3>2. PICK Q : Path(k, cs, head, Q, 13, "open") /\ Q[Len(head)] = AfterHeaders(k, v)
      BY <1>3 DEF Reads
    <3>3. Good(k, cs, AfterHeaders(k, v)) /\ Past(k, AfterHeaders(k, v))
      <4>1. Len(head) \in 0..Len(head)
        BY <1>4
      <4>. QED  BY <1>4, <1>5, <3>2, <4>1 DEF Path
    <3>. DEFINE P == [i \in {0} |-> AfterHeaders(k, v)]
    <3>4. P[0] = AfterHeaders(k, v) /\ Len(<<>>) = 0 /\ <<>> \in Seq(Byte)
      OBVIOUS
    <3>. HIDE DEF P
    <3>5. Path(k, cs, <<>>, P, 0, "open")
      <4>1. \A i \in 0..0 : Good(k, cs, P[i]) /\ (i >= 0 => Past(k, P[i]))
        BY <3>3, <3>4
      <4>. QED  BY <3>4, <4>1 DEF Path
    <3>6. Reads(k, cs, <<>>, 0, "open", AfterHeaders(k, v), AfterHeaders(k, v))
      BY <3>4, <3>5 DEF Reads
    <3>. QED  BY <3>1, <3>6
  <2>3. CASE k \in {"put", "created"}
    <3>1. ~ Announces(k) /\ Way(k) = "open" /\ body = ChunkText(c)
      BY <2>3 DEF Announces, Way
    <3>2. AfterHeaders(k, v) = Chunked(k, AllHeaders(k, v), <<>>, NoChunk)
      BY <3>1, ChunksFollow
    <3>3. Matches(<<>>, cs) /\ Len(<<>>) < Len(cs) /\ c = cs[Len(<<>>) + 1]
      BY <1>2 DEF Matches
    <3>4. Reads(k, cs, ChunkText(c), 0, "open", Chunked(k, AllHeaders(k, v), <<>>, NoChunk),
                AfterChunk(k, AllHeaders(k, v), <<>>, c))
      BY <1>2, <1>6, <3>3, ChunkReads
    <3>5. AfterChunk(k, AllHeaders(k, v), <<>>, c) =
            Chunked(k, AllHeaders(k, v), Append(<<>>, Whole(c)), NoChunk)
      BY <1>2, <2>3 DEF AfterChunk
    <3>6. Matches(Append(<<>>, Whole(c)), cs)
      BY <1>2, <3>3, WholeMatches
    <3>7. Len(Append(<<>>, Whole(c))) = Len(cs)
      BY <1>2
    <3>8. Ready(k, cs, AfterChunk(k, AllHeaders(k, v), <<>>, c))
      BY <1>6, <3>5, <3>6, <3>7 DEF Ready
    <3>. QED  BY <3>1, <3>2, <3>4, <3>8
  <2>. QED  BY <2>1, <2>2, <2>3 DEF Kinds
<1>8. PICK q : /\ Reads(k, cs, body, 0, Way(k), AfterHeaders(k, v), q)
               /\ ~ Announces(k) => Ready(k, cs, q)
  BY <1>7
<1>9. Reads(k, cs, head \o body, 13, Way(k), InLead(k, 0), q)
  BY <1>3, <1>5, <1>8, ReadsJoin
<1>10. t = head \o body
  BY DEF head, c, v
<1>11. body \in Seq(Byte)
  BY <1>8 DEF Reads, Path
<1>12. t \in Seq(Byte) /\ Len(t) >= 13
  <2>. HIDE DEF body
  <2>1. ASSUME NEW a \in Seq(Byte), NEW b \in Seq(Byte), Len(a) >= 13
        PROVE  a \o b \in Seq(Byte) /\ Len(a \o b) >= 13
    <3>1. a \o b \in Seq(Byte) /\ Len(a \o b) = Len(a) + Len(b) /\ Len(a) \in Nat /\ Len(b) \in Nat
      BY ConcatIs
    <3>. QED  BY <2>1, <3>1
  <2>2. head \o body \in Seq(Byte) /\ Len(head \o body) >= 13
    BY <1>4, <1>5, <1>11, <2>1
  <2>. QED  BY <1>10, <2>2
<1>. QED  BY <1>8, <1>9, <1>10, <1>12

LEMMA StreamsIs ==
  ASSUME kind \in Kinds
  PROVE  /\ (Streams => ~ Announces(kind)) /\ (Announces(kind) => ~ Streams)
         /\ FromPeer = Blank(Role(kind)) /\ (IsRequest <=> Role(kind) = "request")
         /\ (kind = "refused" => ~ Streams) /\ (Streams => kind # "post")
BY DEF Streams, Announces, FromPeer, IsRequest, Role, Kinds

LEMMA NotPosted ==
  ASSUME NEW st, NEW hs, NEW cs
  PROVE  /\ Posted(st, hs, cs) # NotOpened
         /\ Posted(st, hs, cs).start = st /\ Posted(st, hs, cs).headers = hs
         /\ Posted(st, hs, cs).chunks = cs /\ NotOpened.chunks = <<>>
<1>1. Posted(st, hs, cs).line = TRUE /\ NotOpened.line = FALSE
  BY DEF Posted, NotOpened, Message
<1>. QED  BY <1>1 DEF Posted, NotOpened, Message

LEMMA OpenInv ==
  ASSUME StreamInv, NEW d \in Payloads, Open(d)
  PROVE  StreamInv'
<1>1. PICK T, R, n, m : Under(T, R, n, m)
  BY DEF StreamInv
<1>2. /\ kind \in Kinds /\ out = NotOpened /\ ended = FALSE
      /\ wire' = Append(wire, MessageText(Opening(d))) /\ out' = Written(Opening(d))
      /\ UNCHANGED <<kind, stream, due, readVars, over>> /\ ended' = ~ Streams
  BY NotPosted DEF StreamInv, Sender, Open, Write
<1>a. PICK cs : cs = <<FirstChunk(kind, d)>>
  OBVIOUS
<1>b. PICK hs : hs = HeadersOf(kind, SizeOf(kind, d))
  OBVIOUS
<1>c. PICK t : t = MessageText(Opening(d))
  OBVIOUS
<1>3. /\ cs \in Seq(Piece) /\ cs[1] = FirstChunk(kind, d) /\ Len(cs) = 1 /\ cs # <<>>
      /\ (cs[1].size = <<0>> <=> kind = "refused")
  BY <1>2, <1>a, FirstChunkIs
<1>4. out' = Posted(Lead(kind), hs, cs)
  BY <1>2, <1>a, <1>b, OpeningText
<1>5. t = (Lead(kind) \o HeadersText(kind, Numeral[SizeOf(kind, d) + 1]))
            \o (IF Announces(kind) THEN FirstChunk(kind, d).data
                ELSE ChunkText(FirstChunk(kind, d)))
  BY <1>2, <1>c, OpeningText
<1>6. /\ t \in Seq(Byte) /\ Len(t) >= 13
      /\ \E q : /\ Reads(kind, cs, t, 13, Way(kind), InLead(kind, 0), q)
                /\ ~ Announces(kind) => Ready(kind, cs, q)
  BY <1>2, <1>5, <1>a, OpeningReads
<1>7. PICK q : /\ Reads(kind, cs, t, 13, Way(kind), InLead(kind, 0), q)
               /\ ~ Announces(kind) => Ready(kind, cs, q)
  BY <1>6
<1>8. Where(kind, <<>>, <<>>, R, n, m, stream, <<>>, reader)
  BY <1>1, <1>2, NotPosted DEF Under
<1>9. m = 0 /\ \E P : Where(kind, cs, t, P, 0, 0, stream, <<t>>, reader) /\ P[Len(t)] = q
  BY <1>2, <1>3, <1>6, <1>7, <1>8, WhereOpens
<1>10. PICK P : Where(kind, cs, t, P, 0, 0, stream, <<t>>, reader) /\ P[Len(t)] = q
  BY <1>9
<1>11. wire' = <<t>>
  BY <1>1, <1>2, <1>c DEF Under
<1>12. /\ out'.chunks = cs /\ out'.headers = hs /\ out'.start = Lead(kind)
       /\ out' # NotOpened /\ out' # NotOpened'
  BY <1>4, NotPosted DEF NotOpened
<1>13. kind' = kind /\ stream' = stream /\ reader' = reader /\ due' = due /\ Streams' = Streams
  BY <1>2 DEF readVars, Streams
<1>14. Under(t, P, 0, 0)'
  <2>1. due = 0
    BY <1>1, <1>9 DEF Under
  <2>2. ~ ended' => Ready(kind, cs, P[Len(t)])
    BY <1>2, <1>7, <1>10, StreamsIs
  <2>. QED  BY <1>6, <1>10, <1>11, <1>12, <1>13, <2>1, <2>2 DEF Under
<1>15. Sender'
  <2>1. Payloads # {} /\ ended' \in BOOLEAN
    BY <1>2, ChunkIs DEF Streams
  <2>2. Len(cs) <= IF ended' THEN MaxChunks + 2 ELSE MaxChunks
    BY <1>3, StreamAssumption
  <2>3. \A i \in 1..Len(cs) : cs[i].size = <<0>> => ended' /\ i = Len(cs)
    <3>1. kind = "refused" => ended'
      BY <1>2, StreamsIs, Zenon
    <3>2. \A i \in 1..Len(cs) : cs[i].size = <<0>> => i = 1 /\ kind = "refused"
      <4>. TAKE i \in 1..Len(cs)
      <4>1. i = 1
        BY <1>3
      <4>. QED  BY <1>3, <4>1
    <3>. QED  BY <1>3, <3>1, <3>2
  <2>4. IF Streams THEN hs = Common ELSE ended'
    BY <1>2, <1>b, StreamsIs DEF HeadersOf
  <2>. QED  BY <1>2, <1>3, <1>4, <1>12, <1>13, <2>1, <2>2, <2>3, <2>4 DEF Sender
<1>16. Receiver'
  <2>1. out.chunks = <<>> /\ out.chunks \in Seq(Piece) /\ out'.chunks = out.chunks \o cs
    <3>1. out.chunks = <<>>
      BY <1>2, NotPosted
    <3>2. <<>> \o cs = cs /\ <<>> \in Seq(Piece)
      BY <1>3
    <3>. QED  BY <1>12, <3>1, <3>2
  <2>2. UNCHANGED <<kind, due, readVars, over>>
    BY <1>2
  <2>. QED  BY <1>1, <1>3, <2>1, <2>2, ReceiverStays DEF StreamInv
<1>. QED  BY <1>14, <1>15, <1>16 DEF StreamInv

LEMMA MatchesMore ==
  ASSUME NEW ds, NEW cs, Matches(ds, cs), NEW more \in Seq(Piece)
  PROVE  Matches(ds, cs \o more)
<1>1. /\ cs \in Seq(Piece) /\ Len(ds) \in Nat /\ Len(cs) \in Nat /\ Len(ds) <= Len(cs)
  BY DEF Matches
<1>2. /\ cs \o more \in Seq(Piece) /\ Len(cs) <= Len(cs \o more)
      /\ \A i \in 1..Len(cs) : (cs \o more)[i] = cs[i]
  BY <1>1
<1>3. \A i \in 1..Len(ds) : (cs \o more)[i] = cs[i]
  BY <1>1, <1>2
<1>4. Len(cs \o more) \in Nat
  BY <1>2
<1>5. Len(ds) <= Len(cs \o more)
  BY <1>1, <1>2, <1>4
<1>. QED  BY <1>2, <1>3, <1>5 DEF Matches

\* A further chunk, and one that is followed by the last.
LEMMA OneMoreReads ==
  ASSUME NEW k, NEW cs \in Seq(Piece), NEW r, Ready(k, cs, r), Payloads # {},
         NEW c \in Piece, c.size # Zero
  PROVE  \E q : /\ Reads(k, cs \o <<c>>, ChunkText(c), 0, "open", r, q)
                /\ Ready(k, cs \o <<c>>, q)
<1>1. PICK hs, ds : /\ hs \in Seq(ReadHeader) /\ hs # <<>> /\ Matches(ds, cs)
                    /\ Len(ds) = Len(cs) /\ r = Chunked(k, hs, ds, NoChunk)
  BY DEF Ready
<1>2. PICK all : all = cs \o <<c>>
  OBVIOUS
<1>3. /\ all \in Seq(Piece) /\ Len(all) = Len(cs) + 1 /\ all[Len(cs) + 1] = c
      /\ <<c>> \in Seq(Piece) /\ Len(cs) \in Nat
  BY <1>2
<1>4. Matches(ds, all)
  BY <1>1, <1>2, <1>3, MatchesMore
<1>5. Len(ds) < Len(all) /\ c = all[Len(ds) + 1]
  BY <1>1, <1>3
<1>6. Reads(k, all, ChunkText(c), 0, "open", r, AfterChunk(k, hs, ds, c))
  BY <1>1, <1>4, <1>5, ChunkReads
<1>7. AfterChunk(k, hs, ds, c) = Chunked(k, hs, Append(ds, Whole(c)), NoChunk)
  BY DEF AfterChunk
<1>8. Matches(Append(ds, Whole(c)), all)
  BY <1>4, <1>5, WholeMatches
<1>9. Len(Append(ds, Whole(c))) = Len(all)
  <2>1. ds \in Seq(ReadChunk) /\ Whole(c) \in ReadChunk
    BY <1>4, <1>5, WholeMatches DEF Matches
  <2>. QED  BY <1>1, <1>3, <2>1
<1>10. Ready(k, all, AfterChunk(k, hs, ds, c))
  BY <1>1, <1>7, <1>8, <1>9 DEF Ready
<1>. QED  BY <1>2, <1>6, <1>10

LEMMA LastReads ==
  ASSUME NEW k, NEW cs \in Seq(Piece), NEW r, Ready(k, cs, r), Payloads # {},
         NEW c \in Piece, c.size # Zero, NEW e \in Piece
  PROVE  \E q : Reads(k, cs \o <<c, e>>, ChunkText(c) \o ChunkText(e), 0, "open", r, q)
<1>1. PICK one : one = cs \o <<c>>
  OBVIOUS
<1>2. PICK all : all = cs \o <<c, e>>
  OBVIOUS
<1>3. one \in Seq(Piece) /\ <<e>> \in Seq(Piece) /\ Len(one) \in Nat
  BY <1>1
<1>4. /\ all = one \o <<e>> /\ all \in Seq(Piece) /\ Len(all) = Len(one) + 1
      /\ all[Len(one) + 1] = e
  <2>1. /\ Len(one) = Len(cs) + 1 /\ Len(all) = Len(cs) + 2 /\ Len(cs) \in Nat
        /\ \A i \in 1..Len(cs) : one[i] = cs[i] /\ all[i] = cs[i]
        /\ one[Len(cs) + 1] = c /\ all[Len(cs) + 1] = c /\ all[Len(cs) + 2] = e
        /\ all \in Seq(Piece)
    <3>1. <<c, e>> \in Seq(Piece) /\ Len(<<c, e>>) = 2 /\ <<c, e>>[1] = c /\ <<c, e>>[2] = e
      OBVIOUS
    <3>2. <<c>> \in Seq(Piece) /\ Len(<<c>>) = 1 /\ <<c>>[1] = c
      OBVIOUS
    <3>. QED  BY <1>1, <1>2, <3>1, <3>2
  <2>2. PICK two : two = one \o <<e>>
    OBVIOUS
  <2>3. /\ two \in Seq(Piece) /\ Len(two) = Len(one) + 1 /\ two[Len(one) + 1] = e
        /\ \A i \in 1..Len(one) : two[i] = one[i]
    BY <1>3, <2>2
  <2>4. \A i \in 1..Len(all) : all[i] = two[i]
    <3>1. ASSUME NEW i \in 1..Len(all) PROVE all[i] = two[i]
      <4>1. CASE i <= Len(cs)
        BY <2>1, <2>3, <4>1
      <4>2. CASE i = Len(cs) + 1
        BY <2>1, <2>3, <4>2
      <4>3. CASE i = Len(cs) + 2
        BY <2>1, <2>3, <4>3
      <4>. QED  BY <2>1, <4>1, <4>2, <4>3
    <3>. QED  BY <3>1
  <2>5. all = two
    BY <2>1, <2>3, <2>4, SameSeq
  <2>. QED  BY <2>1, <2>2, <2>3, <2>5
<1>5. PICK q : Reads(k, one, ChunkText(c), 0, "open", r, q) /\ Ready(k, one, q)
  BY <1>1, OneMoreReads
<1>6. Reads(k, all, ChunkText(c), 0, "open", r, q)
  <2>1. PICK Q : Path(k, one, ChunkText(c), Q, 0, "open") /\ Q[0] = r /\ Q[Len(ChunkText(c))] = q
    BY <1>5 DEF Reads
  <2>2. Path(k, all, ChunkText(c), Q, 0, "open")
    BY <1>3, <1>4, <2>1, PathOfMore
  <2>. QED  BY <2>1, <2>2 DEF Reads
<1>7. PICK hs, ds : /\ hs \in Seq(ReadHeader) /\ hs # <<>> /\ Matches(ds, one)
                    /\ Len(ds) = Len(one) /\ q = Chunked(k, hs, ds, NoChunk)
  BY <1>5 DEF Ready
<1>8. Matches(ds, all)
  BY <1>3, <1>4, <1>7, MatchesMore
<1>9. Len(ds) < Len(all) /\ e = all[Len(ds) + 1]
  BY <1>3, <1>4, <1>7
<1>10. Reads(k, all, ChunkText(e), 0, "open", q, AfterChunk(k, hs, ds, e))
  BY <1>7, <1>8, <1>9, ChunkReads
<1>11. Len(ChunkText(c)) >= 0
  BY ChunkTextIs
<1>12. Reads(k, all, ChunkText(c) \o ChunkText(e), 0, "open", r, AfterChunk(k, hs, ds, e))
  BY <1>6, <1>10, <1>11, ReadsJoin
<1>. QED  BY <1>2, <1>12

\* What is known when more can be pushed.
LEMMA CanPush ==
  ASSUME Sender, out # NotOpened, ended = FALSE
  PROVE  /\ kind \in Kinds /\ Payloads # {} /\ out.chunks \in Seq(Piece) /\ out.chunks # <<>>
         /\ Streams /\ kind # "post" /\ Len(out.chunks) <= MaxChunks
         /\ out = Posted(out.start, Common, out.chunks)
         /\ \A i \in 1..Len(out.chunks) : out.chunks[i].size # <<0>>
<1>1. kind \in Kinds
  BY DEF Sender
<1>2. Streams /\ kind # "post"
  BY <1>1, StreamsIs DEF Sender
<1>. QED  BY <1>2 DEF Sender

LEMMA PushInv ==
  ASSUME StreamInv, out # NotOpened, ended = FALSE, NEW more \in Seq(Piece), more # <<>>, NEW t,
         wire' = Append(wire, t), out' = Posted(out.start, Common, out.chunks \o more),
         ended' \in BOOLEAN, UNCHANGED <<kind, stream, due, readVars, over>>,
         \A r : Ready(kind, out.chunks, r) =>
                  \E q : /\ Reads(kind, out.chunks \o more, t, 0, "open", r, q)
                         /\ ~ ended' => Ready(kind, out.chunks \o more, q),
         Len(out.chunks) + Len(more) <= IF ended' THEN MaxChunks + 2 ELSE MaxChunks,
         \A i \in 1..Len(more) : more[i].size = Zero => ended' /\ i = Len(more)
  PROVE  StreamInv'
<1>1. PICK T, R, n, m : Under(T, R, n, m)
  BY DEF StreamInv
<1>2. /\ kind \in Kinds /\ Payloads # {} /\ out.chunks \in Seq(Piece) /\ out.chunks # <<>>
      /\ Streams /\ kind # "post" /\ \A i \in 1..Len(out.chunks) : out.chunks[i].size # <<0>>
  BY CanPush DEF StreamInv
<1>3. PICK cs \in Seq(Piece) : cs = out.chunks
  BY <1>2
<1>4. PICK all : all = cs \o more
  OBVIOUS
<1>5. /\ all \in Seq(Piece) /\ Len(all) = Len(cs) + Len(more) /\ Len(cs) \in Nat /\ Len(more) \in Nat
      /\ \A i \in 1..Len(cs) : all[i] = cs[i]
      /\ \A i \in 1..Len(more) : all[Len(cs) + i] = more[i]
  BY <1>4
<1>6. all # <<>>
  <2>1. Len(more) > 0
    BY NotEmpty
  <2>. QED  BY <1>5, <2>1
<1>7. /\ out'.chunks = all /\ out'.headers = Common /\ out'.start = out.start
      /\ out' # NotOpened
  <2>1. PICK st : st = out.start
    OBVIOUS
  <2>2. out' = Posted(st, Common, all)
    BY <1>3, <1>4, <2>1
  <2>. QED  BY <2>1, <2>2, NotPosted
<1>8. /\ kind' = kind /\ stream' = stream /\ reader' = reader /\ due' = due /\ Streams' = Streams
  BY DEF readVars, Streams
<1>9. PICK r : r = R[Len(T)]
  OBVIOUS
<1>10. Ready(kind, out.chunks, r)
  BY <1>1, <1>9 DEF Under
<1>11. PICK q : Reads(kind, all, t, 0, "open", r, q) /\ (~ ended' => Ready(kind, all, q))
  BY <1>3, <1>4, <1>10
<1>12. PICK P : /\ Where(kind, all, T \o t, P, n, m, stream, Append(wire, t), reader)
                /\ P[Len(T \o t)] = q
  <2>1. Where(kind, cs, T, R, n, m, stream, wire, reader) /\ Len(T) >= 13
    BY <1>1, <1>3 DEF Under
  <2>2. Reads(kind, cs \o more, t, 0, "open", R[Len(T)], q)
    BY <1>4, <1>9, <1>11
  <2>3. Heading(kind, cs \o more, T \o t, n, m, stream, Append(wire, t), reader, q)
    <3>1. kind \in Kinds /\ kind # "post"
      BY <1>2
    <3>2. Where(kind, cs, T, R, n, m, stream, wire, reader)
      BY <2>1
    <3>3. Len(T) >= 13
      BY <2>1
    <3>. QED  BY <3>1, <3>2, <3>3, <2>2, WhereGrows
  <2>. QED  BY <1>4, <2>3 DEF Heading
<1>13. Len(T \o t) >= 13
  <2>1. T \in Seq(Byte) /\ t \in Seq(Byte) /\ Len(T) >= 13
    BY <1>1, <1>11 DEF Under, Where, Laid, Reads, Path
  <2>2. Len(T \o t) = Len(T) + Len(t) /\ Len(t) \in Nat /\ Len(T) \in Nat
    BY <2>1, ConcatIs
  <2>. QED  BY <2>1, <2>2
<1>14. Under(T \o t, P, n, m)'
  <2>1. m = 0 => due = 0
    BY <1>1 DEF Under
  <2>. QED  BY <1>7, <1>8, <1>11, <1>12, <1>13, <2>1 DEF Under
<1>15. Sender'
  <2>1. Len(all) <= IF ended' THEN MaxChunks + 2 ELSE MaxChunks
    BY <1>3, <1>5
  <2>2. \A i \in 1..Len(all) : all[i].size = <<0>> => ended' /\ i = Len(all)
    <3>. TAKE i \in 1..Len(all)
    <3>. HAVE all[i].size = <<0>>
    <3>1. i > Len(cs)
      <4>. SUFFICES ASSUME ~ (i > Len(cs)) PROVE FALSE
        OBVIOUS
      <4>1. i \in 1..Len(cs)
        BY <1>5
      <4>2. all[i] = cs[i] /\ cs[i].size # <<0>>
        BY <1>2, <1>3, <1>5, <4>1
      <4>. QED  BY <4>2
    <3>2. i - Len(cs) \in 1..Len(more) /\ Len(cs) + (i - Len(cs)) = i
      BY <1>5, <3>1
    <3>3. all[i] = more[i - Len(cs)]
      BY <1>5, <3>2
    <3>4. ended' /\ i - Len(cs) = Len(more)
      BY <3>2, <3>3
    <3>. QED  BY <1>5, <3>4
  <2>3. out' = Posted(out.start, Common, all)
    BY <1>3, <1>4
  <2>. QED  BY <1>2, <1>5, <1>6, <1>7, <1>8, <2>1, <2>2, <2>3 DEF Sender
<1>16. Receiver'
  <2>1. out'.chunks = out.chunks \o more /\ UNCHANGED <<kind, due, readVars, over>>
    BY <1>3, <1>4, <1>7
  <2>. QED  BY <1>1, <1>2, <2>1, ReceiverStays DEF StreamInv
<1>. QED  BY <1>14, <1>15, <1>16 DEF StreamInv

LEMMA UpdateInv ==
  ASSUME StreamInv, NEW d \in Payloads, Update(d)
  PROVE  StreamInv'
<1>1. /\ out # NotOpened /\ ended = FALSE /\ Len(out.chunks) < MaxChunks /\ ended' = ended
      /\ wire' = Append(wire, MessageText(Push(out, <<Chunk(d)>>)))
      /\ out' = Written(Push(out, <<Chunk(d)>>))
      /\ UNCHANGED <<kind, stream, due, readVars, over>>
  BY DEF Update, Write, StreamInv, Sender
<1>2. /\ Payloads # {} /\ out.chunks \in Seq(Piece) /\ out = Posted(out.start, Common, out.chunks)
  BY <1>1, CanPush DEF StreamInv
<1>3. PICK c \in Piece : c = Chunk(d) /\ c.size # <<0>>
  BY ChunkIs
<1>4. PICK t : t = ChunkText(c)
  OBVIOUS
<1>5. wire' = Append(wire, t) /\ out' = Posted(out.start, Common, out.chunks \o <<c>>)
  <2>1. /\ MessageText(Push(out, <<c>>)) = ChunkText(c)
        /\ Written(Push(out, <<c>>)) = Posted(out.start, Common, out.chunks \o <<c>>)
    BY <1>2, PushText
  <2>. QED  BY <1>1, <1>3, <1>4, <2>1
<1>6. /\ <<c>> \in Seq(Piece) /\ <<c>> # <<>> /\ Len(<<c>>) = 1 /\ <<c>>[1] = c
  OBVIOUS
<1>7. ASSUME NEW r, Ready(kind, out.chunks, r)
      PROVE  \E q : /\ Reads(kind, out.chunks \o <<c>>, t, 0, "open", r, q)
                    /\ ~ ended' => Ready(kind, out.chunks \o <<c>>, q)
  BY <1>2, <1>3, <1>4, <1>7, OneMoreReads
<1>8. Len(out.chunks) + Len(<<c>>) <= IF ended' THEN MaxChunks + 2 ELSE MaxChunks
  BY <1>1, <1>2, <1>6, StreamAssumption
<1>9. \A i \in 1..Len(<<c>>) : <<c>>[i].size = <<0>> => ended' /\ i = Len(<<c>>)
  BY <1>3, <1>6
<1>10. ended' \in BOOLEAN
  BY <1>1
<1>. QED  BY <1>1, <1>5, <1>6, <1>7, <1>8, <1>9, <1>10, PushInv

LEMMA FinishInv ==
  ASSUME StreamInv, NEW d \in Payloads, Finish(d)
  PROVE  StreamInv'
<1>1. /\ out # NotOpened /\ ended = FALSE /\ ended' = TRUE
      /\ wire' = Append(wire, MessageText(Push(out, <<Chunk(d), LastChunk>>)))
      /\ out' = Written(Push(out, <<Chunk(d), LastChunk>>))
      /\ UNCHANGED <<kind, stream, due, readVars, over>>
  BY DEF Finish, Write, StreamInv, Sender
<1>2. /\ Payloads # {} /\ out.chunks \in Seq(Piece) /\ out = Posted(out.start, Common, out.chunks)
      /\ Len(out.chunks) <= MaxChunks
  BY <1>1, CanPush DEF StreamInv
<1>3. PICK c \in Piece, e \in Piece : c = Chunk(d) /\ c.size # <<0>> /\ e = LastChunk
  BY ChunkIs
<1>4. PICK t : t = ChunkText(c) \o ChunkText(e)
  OBVIOUS
<1>5. wire' = Append(wire, t) /\ out' = Posted(out.start, Common, out.chunks \o <<c, e>>)
  <2>1. /\ MessageText(Push(out, <<c>>)) = ChunkText(c)
        /\ MessageText(Push(out, <<c, e>>)) = ChunkText(c) \o ChunkText(e)
        /\ Written(Push(out, <<c>>)) = Posted(out.start, Common, out.chunks \o <<c>>)
        /\ Written(Push(out, <<c, e>>)) = Posted(out.start, Common, out.chunks \o <<c, e>>)
    BY <1>2, PushText, Zenon
  <2>. QED  BY <1>1, <1>3, <1>4, <2>1
<1>6. /\ <<c, e>> \in Seq(Piece) /\ <<c, e>> # <<>> /\ Len(<<c, e>>) = 2 /\ <<c, e>>[1] = c
  OBVIOUS
<1>7. ASSUME NEW r, Ready(kind, out.chunks, r)
      PROVE  \E q : /\ Reads(kind, out.chunks \o <<c, e>>, t, 0, "open", r, q)
                    /\ ~ ended' => Ready(kind, out.chunks \o <<c, e>>, q)
  BY <1>1, <1>2, <1>3, <1>4, <1>7, LastReads
<1>8. Len(out.chunks) + Len(<<c, e>>) <= IF ended' THEN MaxChunks + 2 ELSE MaxChunks
  BY <1>1, <1>2, <1>6, StreamAssumption
<1>9. \A i \in 1..Len(<<c, e>>) : <<c, e>>[i].size = <<0>> => ended' /\ i = Len(<<c, e>>)
  <2>. TAKE i \in 1..Len(<<c, e>>)
  <2>1. <<c, e>>[i].size = <<0>> => i # 1
    BY <1>3, <1>6
  <2>. QED  BY <1>1, <1>6, <2>1
<1>. QED  BY <1>1, <1>5, <1>6, <1>7, <1>8, <1>9, PushInv

-----------------------------------------------------------------------------
(* The transport and the reader keep it.                                   *)

LEMMA DeliverInv ==
  ASSUME StreamInv, NEW j, Deliver(j)
  PROVE  StreamInv'
<1>1. PICK T, R, n, m : Under(T, R, n, m)
  BY DEF StreamInv
<1>2. /\ kind \in Kinds /\ wire # <<>> /\ due < MaxQueue /\ j \in 1..Len(wire[1])
      /\ (reader = FromPeer /\ stream = <<>> => j = Len(wire[1]))
      /\ stream' = stream \o SubSeq(wire[1], 1, j)
      /\ wire' = IF j = Len(wire[1]) THEN Tail(wire)
                 ELSE [wire EXCEPT ![1] = SubSeq(@, j + 1, Len(@))]
      /\ due' = due + 1
      /\ UNCHANGED <<kind, out, ended, accepted, reader, pos, handled, again, refused, lost, over>>
  BY DEF Deliver, CanDeliver, Untouched, StreamInv, Sender, sendVars, readVars
<1>3. Where(kind, out.chunks, T, R, n, m, stream, wire, reader)
  BY <1>1 DEF Under
<1>4. /\ Where(kind, out.chunks, T, R, n, m + j, stream \o SubSeq(wire[1], 1, j),
               IF j = Len(wire[1]) THEN Tail(wire)
               ELSE [wire EXCEPT ![1] = SubSeq(@, j + 1, Len(@))], reader)
      /\ m + j # 0
  <2>1. reader = Blank(Role(kind)) /\ stream = <<>> => j = Len(wire[1])
    BY <1>2, StreamsIs
  <2>. QED  BY <1>2, <1>3, <2>1, WhereDelivers
<1>5. Under(T, R, n, m + j)'
  <2>1. Where(kind, out.chunks, T, R, n, m + j, stream', wire', reader)
    BY <1>2, <1>4
  <2>2. out # NotOpened /\ Len(T) >= 13 /\ (~ ended => Ready(kind, out.chunks, R[Len(T)]))
    BY <1>1, <1>2 DEF Under
  <2>. QED  BY <1>2, <1>4, <2>1, <2>2 DEF Under
<1>6. Sender'
  <2>1. Streams' = Streams
    BY <1>2 DEF Streams
  <2>. QED  BY <1>2, <2>1 DEF StreamInv, Sender
<1>7. Receiver'
  <2>1. IsRequest' = IsRequest /\ FromPeer' = FromPeer
    BY <1>2 DEF IsRequest, FromPeer
  <2>2. due' \in 0..MaxQueue
    BY <1>2, StreamAssumption DEF StreamInv, Receiver
  <2>. QED  BY <1>2, <2>1, <2>2 DEF StreamInv, Receiver
<1>. QED  BY <1>5, <1>6, <1>7 DEF StreamInv

LEMMA LeaveInv ==
  ASSUME StreamInv, Leave
  PROVE  StreamInv'
<1>1. /\ UNCHANGED <<kind, out, ended, wire, stream, due, accepted, reader, pos, handled, again,
                     refused, lost>>
      /\ over' = TRUE
  BY DEF Leave, sendVars, readVars
<1>2. /\ IsRequest' = IsRequest /\ FromPeer' = FromPeer /\ Streams' = Streams
  BY <1>1 DEF IsRequest, FromPeer, Streams
<1>3. Sender'
  BY <1>1, <1>2 DEF StreamInv, Sender
<1>4. Receiver'
  BY <1>1, <1>2 DEF StreamInv, Receiver
<1>5. PICK T, R, n, m : Under(T, R, n, m)
  BY DEF StreamInv
<1>6. Under(T, R, n, m)'
  BY <1>1, <1>5 DEF Under
<1>. QED  BY <1>3, <1>4, <1>6 DEF StreamInv

LEMMA StutterInv ==
  ASSUME StreamInv, UNCHANGED vars
  PROVE  StreamInv'
<1>1. /\ UNCHANGED <<kind, out, ended, wire, stream, due, accepted, reader, pos, handled, again,
                     refused, lost, over>>
  BY DEF vars, sendVars, readVars
<1>2. /\ IsRequest' = IsRequest /\ FromPeer' = FromPeer /\ Streams' = Streams
  BY <1>1 DEF IsRequest, FromPeer, Streams
<1>3. Sender'
  BY <1>1, <1>2 DEF StreamInv, Sender
<1>4. Receiver'
  BY <1>1, <1>2 DEF StreamInv, Receiver
<1>5. PICK T, R, n, m : Under(T, R, n, m)
  BY DEF StreamInv
<1>6. Under(T, R, n, m)'
  BY <1>1, <1>5 DEF Under
<1>. QED  BY <1>3, <1>4, <1>6 DEF StreamInv

\* The chunks up to the end, or all, have data.
LEMMA DataIs ==
  ASSUME NEW r, r.nc \in Nat, pos \in 0..r.nc
  PROVE  /\ DataUpTo(r) \in pos..r.nc
         /\ \A i \in pos + 1 .. DataUpTo(r) : r.chunks[i].size # <<0>>
         /\ Ends(r) = {} => \A i \in pos + 1 .. r.nc : r.chunks[i].size # <<0>>
<1>1. CASE Ends(r) = {}
  <2>1. DataUpTo(r) = r.nc
    BY <1>1 DEF DataUpTo
  <2>2. \A i \in pos + 1 .. r.nc : r.chunks[i].size # <<0>>
    BY <1>1 DEF Ends
  <2>. QED  BY <2>1, <2>2
<1>2. CASE Ends(r) # {}
  <2>1. Ends(r) \in SUBSET Nat /\ Ends(r) \subseteq pos + 1 .. r.nc
    BY DEF Ends
  <2>2. PICK e : e = Min(Ends(r))
    OBVIOUS
  <2>3. e \in Ends(r) /\ \A y \in Ends(r) : e <= y
    BY <1>2, <2>1, <2>2, MinIsLeast
  <2>4. DataUpTo(r) = e - 1
    BY <1>2, <2>2 DEF DataUpTo
  <2>5. e \in pos + 1 .. r.nc
    BY <2>1, <2>3
  <2>6. ASSUME NEW i \in pos + 1 .. e - 1 PROVE r.chunks[i].size # <<0>>
    <3>1. i \in pos + 1 .. r.nc /\ ~ (e <= i)
      BY <2>5
    <3>2. i \notin Ends(r)
      BY <2>3, <3>1
    <3>. QED  BY <3>1, <3>2 DEF Ends
  <2>. QED  BY <1>2, <2>4, <2>5, <2>6
<1>. QED  BY <1>1, <1>2

\* What handling leaves: of the chunks cs that were written the end is not handled.
LEMMA Handled ==
  ASSUME NEW r, r.nc \in Nat, pos \in 0..r.nc, handled \in 0..r.nc, NEW cs,
         \A i \in 1..r.nc : r.chunks[i].size = cs[i].size,
         \A i \in 1..handled : cs[i].size # Zero, \A i \in 1..pos : cs[i].size # Zero
  PROVE  /\ Handle(r) => /\ handled' \in 0..r.nc /\ handled <= handled'
                         /\ \A i \in 1..handled' : cs[i].size # <<0>>
                         /\ again' \in BOOLEAN
         /\ Ends(r) = {} => \A i \in 1..r.nc : cs[i].size # <<0>>
<1>1. PICK d : d = DataUpTo(r)
  OBVIOUS
<1>2. d \in pos..r.nc /\ \A i \in pos + 1 .. d : r.chunks[i].size # <<0>>
  BY <1>1, DataIs
<1>3. \A i \in 1..d : cs[i].size # <<0>>
  <2>1. ASSUME NEW i \in 1..d PROVE cs[i].size # <<0>>
    <3>1. CASE i <= pos
      BY <3>1
    <3>2. CASE i > pos
      <4>1. i \in pos + 1 .. d /\ i \in 1..r.nc
        BY <1>2, <3>2
      <4>. QED  BY <1>2, <4>1
    <3>. QED  BY <1>2, <3>1, <3>2
  <2>. QED  BY <2>1
<1>4. Ends(r) = {} => \A i \in 1..r.nc : cs[i].size # <<0>>
  <2>1. Ends(r) = {} => d = r.nc
    BY <1>1 DEF DataUpTo
  <2>. QED  BY <1>3, <2>1
<1>5. ASSUME Handle(r)
      PROVE  /\ handled' \in 0..r.nc /\ handled <= handled'
             /\ \A i \in 1..handled' : cs[i].size # <<0>>
             /\ again' \in BOOLEAN
  <2>1. handled' = Max({handled, d}) /\ again' = (again \/ (pos < handled /\ pos < DataUpTo(r)))
    BY <1>1, <1>5 DEF Handle
  <2>2. handled' = IF handled >= d THEN handled ELSE d
    <3>1. handled \in Int /\ d \in Int
      BY <1>2
    <3>. QED  BY <2>1, <3>1, MaxOfTwo
  <2>3. again' \in BOOLEAN
    BY <2>1
  <2>4. handled' \in 0..r.nc /\ handled <= handled'
    BY <1>2, <2>2
  <2>5. \A i \in 1..handled' : cs[i].size # <<0>>
    BY <1>3, <2>2
  <2>. QED  BY <2>3, <2>4, <2>5
<1>. QED  BY <1>4, <1>5

\* What the main thread finds when it reads the stream.
Found(T, R, m) ==
  /\ Parse(reader, stream) = [reader |-> R[m], left |-> <<>>]
  /\ Where(kind, out.chunks, T, R, m, m, <<>>, wire, R[m]) /\ m # 0
  /\ out = NotOpened => T = <<>> /\ wire = <<>>
  /\ out # NotOpened => Len(T) >= 13
  /\ out # NotOpened /\ ~ ended => Ready(kind, out.chunks, R[Len(T)])
  /\ R[m].fault = FALSE /\ Past(kind, R[m]) /\ R[m].nc \in Nat
  /\ pos \in 0..R[m].nc /\ handled \in 0..R[m].nc
  /\ \A i \in 1..R[m].nc : R[m].chunks[i].size = out.chunks[i].size

LEMMA ReadFinds ==
  ASSUME StreamInv, due > 0
  PROVE  \E T, R, m : Found(T, R, m)
<1>1. PICK T, R, n, m : Under(T, R, n, m)
  BY DEF StreamInv
<1>2. kind \in Kinds /\ out.chunks \in Seq(Piece)
  <2>1. <<>> \in Seq(Piece)
    OBVIOUS
  <2>. QED  BY <2>1, NotPosted DEF StreamInv, Sender
<1>3. m # 0 /\ Where(kind, out.chunks, T, R, n, m, stream, wire, reader)
  BY <1>1 DEF Under
<1>4. Parse(reader, stream) = [reader |-> R[m], left |-> <<>>]
  BY <1>2, <1>3, AllIsRead
<1>5. /\ Where(kind, out.chunks, T, R, m, m, <<>>, wire, R[m]) /\ Past(kind, R[m])
      /\ reader.nc \in Nat /\ R[m].nc \in Nat /\ reader.nc <= R[m].nc
  BY <1>2, <1>3, AfterRead
<1>6. /\ R[m].fault = FALSE
      /\ \A i \in 1..R[m].nc : R[m].chunks[i].size = out.chunks[i].size
  <2>1. PICK cs \in Seq(Piece) : cs = out.chunks
    BY <1>2
  <2>2. PICK r : r = R[m]
    OBVIOUS
  <2>3. Where(kind, cs, T, R, m, m, <<>>, wire, r)
    BY <1>5, <2>1, <2>2
  <2>4. Fine(cs, r)
    BY <1>2, <2>3, WhereReader
  <2>. QED  BY <2>1, <2>2, <2>4 DEF Fine
<1>7. pos \in 0..R[m].nc /\ handled \in 0..R[m].nc
  BY <1>5 DEF StreamInv, Receiver
<1>8. /\ out = NotOpened => T = <<>> /\ wire = <<>>
      /\ out # NotOpened => Len(T) >= 13
      /\ out # NotOpened /\ ~ ended => Ready(kind, out.chunks, R[Len(T)])
  BY <1>1 DEF Under
<1>9. Found(T, R, m)
  BY <1>3, <1>4, <1>5, <1>6, <1>7, <1>8 DEF Found
<1>. QED  BY <1>9

\* Nothing but the reader has moved.
LEMMA StreamWasRead ==
  ASSUME NEW T, NEW R, NEW m, Where(kind, out.chunks, T, R, m, m, <<>>, wire, R[m]), m # 0,
         out = NotOpened => T = <<>> /\ wire = <<>>,
         out # NotOpened => Len(T) >= 13,
         out # NotOpened /\ ~ ended => Ready(kind, out.chunks, R[Len(T)]),
         stream' = <<>>, reader' = R[m], UNCHANGED <<kind, out, ended, wire>>
  PROVE  Under(T, R, m, m)'
BY DEF Under

LEMMA SenderStays ==
  ASSUME Sender, UNCHANGED <<kind, out, ended>>
  PROVE  Sender' /\ IsRequest' = IsRequest /\ FromPeer' = FromPeer /\ Streams' = Streams
<1>1. IsRequest' = IsRequest /\ FromPeer' = FromPeer /\ Streams' = Streams
  BY DEF IsRequest, FromPeer, Streams
<1>. QED  BY <1>1 DEF Sender

\* A request, the first time or further on.
LEMMA RequestInv ==
  ASSUME StreamInv, due > 0, due' = due - 1, UNCHANGED <<kind, out, ended, wire>>, IsRequest,
         ReadRequest \/ ReadMore
  PROVE  StreamInv' /\ handled <= handled'
<1>0. PICK T, R, m : Found(T, R, m)
  BY ReadFinds
<1>1.   /\ Parse(reader, stream) = [reader |-> R[m], left |-> <<>>]
        /\ Where(kind, out.chunks, T, R, m, m, <<>>, wire, R[m]) /\ m # 0
        /\ out = NotOpened => T = <<>> /\ wire = <<>>
        /\ out # NotOpened => Len(T) >= 13
        /\ out # NotOpened /\ ~ ended => Ready(kind, out.chunks, R[Len(T)])
        /\ R[m].fault = FALSE /\ Past(kind, R[m]) /\ R[m].nc \in Nat
        /\ pos \in 0..R[m].nc /\ handled \in 0..R[m].nc
        /\ \A i \in 1..R[m].nc : R[m].chunks[i].size = out.chunks[i].size
  BY <1>0 DEF Found
<1>2. PICK r : r = R[m]
  OBVIOUS
<1>3. /\ stream' = <<>> /\ reader' = r /\ accepted' = TRUE /\ RouteRequest(r) /\ lost' = lost
  <2>1. CASE ReadRequest
    <3>1. reader = FromPeer
      BY <2>1 DEF ReadRequest, StreamInv, Receiver
    <3>2. PICK p : p = Parse(FromPeer, stream)
      OBVIOUS
    <3>3. p.reader = r /\ p.left = <<>>
      BY <1>1, <1>2, <3>1, <3>2
    <3>4. p.reader.line = "done"
      BY <1>1, <1>2, <3>3 DEF Past
    <3>5. stream' = p.left /\ accepted' = (p.reader.line # "verb")
      BY <2>1, <3>2 DEF ReadRequest
    <3>6. accepted' = TRUE
      BY <3>4, <3>5
    <3>7. reader' = p.reader /\ RouteRequest(p.reader) /\ UNCHANGED lost
      BY <2>1, <3>2, <3>6 DEF ReadRequest
    <3>. QED  BY <3>3, <3>5, <3>6, <3>7
  <2>2. CASE ReadMore
    <3>1. PICK p : p = Parse(reader, stream)
      OBVIOUS
    <3>2. p.reader = r /\ p.left = <<>>
      BY <1>1, <1>2, <3>1
    <3>3. /\ accepted /\ stream' = p.left /\ reader' = p.reader /\ RouteRequest(p.reader)
          /\ UNCHANGED <<accepted, lost>>
      BY <2>2, <3>1 DEF ReadMore
    <3>4. accepted' = TRUE
      BY <3>3 DEF StreamInv, Receiver
    <3>. QED  BY <3>2, <3>3, <3>4
  <2>. QED  BY <2>1, <2>2
<1>4. /\ Handle(r) /\ pos' = (IF Ends(r) = {} THEN r.nc ELSE pos) /\ UNCHANGED <<refused, over>>
  BY <1>3 DEF RouteRequest
<1>5. PICK cs : cs = out.chunks
  OBVIOUS
<1>6. /\ r.nc \in Nat /\ pos \in 0..r.nc /\ handled \in 0..r.nc
      /\ \A i \in 1..r.nc : r.chunks[i].size = cs[i].size
      /\ \A i \in 1..handled : cs[i].size # <<0>>
      /\ \A i \in 1..pos : cs[i].size # <<0>>
  BY <1>1, <1>2, <1>5 DEF StreamInv, Receiver
<1>7. /\ handled' \in 0..r.nc /\ handled <= handled' /\ again' \in BOOLEAN
      /\ \A i \in 1..handled' : cs[i].size # <<0>>
      /\ Ends(r) = {} => \A i \in 1..r.nc : cs[i].size # <<0>>
  BY <1>4, <1>6, Handled
<1>8. pos' \in 0..r.nc /\ \A i \in 1..pos' : cs[i].size # <<0>>
  BY <1>4, <1>6, <1>7
<1>9. Under(T, R, m, m)'
  BY <1>1, <1>2, <1>3, StreamWasRead
<1>10. Sender' /\ IsRequest' = IsRequest /\ FromPeer' = FromPeer
  BY SenderStays DEF StreamInv
<1>11. Receiver'
  <2>1. due' \in 0..MaxQueue
    BY StreamAssumption DEF StreamInv, Receiver
  <2>2. refused' \in BOOLEAN /\ over' \in BOOLEAN /\ lost' = FALSE /\ (refused' => kind' = "refused")
    BY <1>3, <1>4 DEF StreamInv, Receiver
  <2>3. out'.chunks = cs
    BY <1>5
  <2>. QED  BY <1>3, <1>7, <1>8, <1>10, <2>1, <2>2, <2>3 DEF Receiver
<1>. QED  BY <1>7, <1>9, <1>10, <1>11 DEF StreamInv

LEMMA ResponseInv ==
  ASSUME StreamInv, due > 0, due' = due - 1, UNCHANGED <<kind, out, ended, wire>>, ReadResponse
  PROVE  StreamInv' /\ handled <= handled'
<1>0. PICK T, R, m : Found(T, R, m)
  BY ReadFinds
<1>1.   /\ Parse(reader, stream) = [reader |-> R[m], left |-> <<>>]
        /\ Where(kind, out.chunks, T, R, m, m, <<>>, wire, R[m]) /\ m # 0
        /\ out = NotOpened => T = <<>> /\ wire = <<>>
        /\ out # NotOpened => Len(T) >= 13
        /\ out # NotOpened /\ ~ ended => Ready(kind, out.chunks, R[Len(T)])
        /\ R[m].fault = FALSE /\ Past(kind, R[m]) /\ R[m].nc \in Nat
        /\ pos \in 0..R[m].nc /\ handled \in 0..R[m].nc
        /\ \A i \in 1..R[m].nc : R[m].chunks[i].size = out.chunks[i].size
  BY <1>0 DEF Found
<1>2. PICK r : r = R[m]
  OBVIOUS
<1>3. PICK p : p = Parse(reader, stream)
  OBVIOUS
<1>4. p.reader = r /\ p.left = <<>> /\ r.fault = FALSE
  BY <1>1, <1>2, <1>3
<1>5. /\ ~ IsRequest /\ accepted /\ stream' = <<>> /\ reader' = r
      /\ accepted' = (~ r.fault /\ (IsCreated(r) => Ends(r) = {}))
      /\ refused' = (refused \/ ~ (r.fault \/ IsCreated(r)))
      /\ IF IsCreated(r) /\ ~ r.fault /\ ~ over THEN Handle(r) ELSE UNCHANGED <<handled, again>>
      /\ pos' = (IF IsCreated(r) THEN r.nc ELSE pos)
      /\ lost' = lost /\ over' = over
  BY <1>3, <1>4, Zenon DEF ReadResponse
<1>6. PICK cs : cs = out.chunks
  OBVIOUS
<1>7. /\ r.nc \in Nat /\ pos \in 0..r.nc /\ handled \in 0..r.nc
      /\ \A i \in 1..r.nc : r.chunks[i].size = cs[i].size
      /\ \A i \in 1..handled : cs[i].size # <<0>>
      /\ \A i \in 1..pos : cs[i].size # <<0>>
  BY <1>1, <1>2, <1>5, <1>6 DEF StreamInv, Receiver
<1>8. /\ Handle(r) => /\ handled' \in 0..r.nc /\ handled <= handled'
                      /\ \A i \in 1..handled' : cs[i].size # <<0>>
                      /\ again' \in BOOLEAN
      /\ Ends(r) = {} => \A i \in 1..r.nc : cs[i].size # <<0>>
  BY <1>7, Handled
<1>9. /\ handled' \in 0..r.nc /\ handled <= handled' /\ again' \in BOOLEAN
      /\ \A i \in 1..handled' : cs[i].size # <<0>>
  <2>1. CASE Handle(r)
    BY <1>8, <2>1
  <2>2. CASE UNCHANGED <<handled, again>>
    <3>1. again \in BOOLEAN
      BY DEF StreamInv, Receiver
    <3>. QED  BY <1>7, <2>2, <3>1
  <2>. QED  BY <1>5, <2>1, <2>2
<1>10. pos' \in 0..r.nc
  BY <1>5, <1>7
<1>11. accepted' => \A i \in 1..pos' : cs[i].size # <<0>>
  BY <1>5, <1>7, <1>8
<1>12. kind = "created" => IsCreated(r)
  BY <1>1, <1>2 DEF Past, StatusOf, IsCreated
<1>13. refused' => kind = "refused"
  <2>1. kind \in Kinds /\ kind \notin {"put", "post"}
    BY <1>5 DEF StreamInv, Sender, IsRequest
  <2>2. kind = "created" \/ kind = "refused"
    BY <2>1 DEF Kinds
  <2>3. kind = "created" => ~ refused
    BY DEF StreamInv, Receiver
  <2>. QED  BY <1>5, <1>12, <2>2, <2>3
<1>14. Under(T, R, m, m)'
  BY <1>1, <1>2, <1>5, StreamWasRead
<1>15. Sender' /\ IsRequest' = IsRequest /\ FromPeer' = FromPeer
  BY SenderStays DEF StreamInv
<1>16. Receiver'
  <2>1. due' \in 0..MaxQueue
    BY StreamAssumption DEF StreamInv, Receiver
  <2>2. accepted' \in BOOLEAN /\ refused' \in BOOLEAN /\ over' \in BOOLEAN /\ lost' = FALSE
    BY <1>5 DEF StreamInv, Receiver
  <2>3. out'.chunks = cs /\ kind' = kind /\ ~ IsRequest'
    BY <1>5, <1>6, <1>15
  <2>. QED  BY <1>5, <1>9, <1>10, <1>11, <1>13, <2>1, <2>2, <2>3 DEF Receiver
<1>. QED  BY <1>9, <1>14, <1>15, <1>16 DEF StreamInv

LEMMA ReadInv ==
  ASSUME StreamInv, Read
  PROVE  StreamInv' /\ handled <= handled'
<1>1. /\ due > 0 /\ due' = due - 1 /\ UNCHANGED <<kind, out, ended, wire>>
      /\ ReadRequest \/ ReadMore \/ ReadNothing \/ ReadResponse
  BY DEF Read, CanRead, sendVars
<1>2. CASE ReadRequest \/ ReadMore
  <2>1. IsRequest
    BY <1>2 DEF ReadRequest, ReadMore
  <2>. QED  BY <1>1, <1>2, <2>1, RequestInv
<1>3. CASE ReadResponse
  BY <1>1, <1>3, ResponseInv
<1>4. CASE ReadNothing
  <2>1. UNCHANGED <<stream, accepted, reader, pos, handled, again, refused, lost, over>>
    BY <1>4 DEF ReadNothing, readVars
  <2>2. PICK T, R, n, m : Under(T, R, n, m)
    BY DEF StreamInv
  <2>3. Under(T, R, n, m)'
    BY <1>1, <2>1, <2>2 DEF Under
  <2>4. Sender' /\ IsRequest' = IsRequest /\ FromPeer' = FromPeer
    BY <1>1, SenderStays DEF StreamInv
  <2>5. due' \in 0..MaxQueue
    BY <1>1, StreamAssumption DEF StreamInv, Receiver
  <2>6. Receiver'
    BY <1>1, <2>1, <2>4, <2>5 DEF StreamInv, Receiver
  <2>7. handled <= handled'
    <3>1. handled \in Nat
      BY <2>2, WhereReader DEF StreamInv, Receiver
    <3>. QED  BY <2>1, <3>1
  <2>. QED  BY <2>3, <2>4, <2>6, <2>7 DEF StreamInv
<1>. QED  BY <1>1, <1>2, <1>3, <1>4

LEMMA NextInv ==
  ASSUME StreamInv, [Next]_vars
  PROVE  StreamInv'
<1>1. CASE Writes
  <2>1. PICK d \in Payloads : Open(d) \/ Update(d) \/ Finish(d)
    BY <1>1 DEF Writes
  <2>. QED  BY <2>1, OpenInv, UpdateInv, FinishInv
<1>2. CASE Delivers
  <2>1. PICK j \in 1..Len(wire[1]) : Deliver(j)
    BY <1>2 DEF Delivers
  <2>. QED  BY <2>1, DeliverInv
<1>3. CASE Read
  BY <1>3, ReadInv
<1>4. CASE Leave
  BY <1>4, LeaveInv
<1>5. CASE UNCHANGED vars
  BY <1>5, StutterInv
<1>. QED  BY <1>1, <1>2, <1>3, <1>4, <1>5 DEF Next

\* What was written, read and handled of a message always belongs to one text and
\* one way of a reader along it (http-requests.cpp 422-1179, controller-app.cpp
\* 758-812).  The theorems below follow from it.
THEOREM StreamInvariant == Spec => []StreamInv
<1>1. Init => StreamInv
  BY InitInv
<1>2. StreamInv /\ [Next]_vars => StreamInv'
  BY NextInv
<1>. QED  BY <1>1, <1>2, PTL DEF Spec

-----------------------------------------------------------------------------
(* What follows from it.                                                   *)

\* The chunks that were written, and what is known of the reader.
LEMMA StreamFacts ==
  ASSUME StreamInv
  PROVE  /\ kind \in Kinds /\ out.chunks \in Seq(Piece) /\ Fine(out.chunks, reader)
         /\ handled \in Nat /\ handled <= reader.nc /\ pos <= reader.nc
         /\ handled <= Len(out.chunks) /\ Len(out.chunks) \in Nat
<1>1. PICK T, R, n, m : Under(T, R, n, m)
  BY DEF StreamInv
<1>2. kind \in Kinds /\ out.chunks \in Seq(Piece)
  <2>1. <<>> \in Seq(Piece)
    OBVIOUS
  <2>. QED  BY <2>1, NotPosted DEF StreamInv, Sender
<1>3. Fine(out.chunks, reader)
  BY <1>1, <1>2, WhereReader DEF Under
<1>4. reader.nc \in Nat /\ reader.nc <= Len(out.chunks) /\ Len(out.chunks) \in Nat
  BY <1>2, <1>3 DEF Fine
<1>5. handled \in 0..reader.nc /\ pos \in 0..reader.nc
  BY DEF StreamInv, Receiver
<1>6. handled \in Nat /\ handled <= reader.nc /\ pos <= reader.nc /\ handled <= Len(out.chunks)
  BY <1>4, <1>5
<1>. QED  BY <1>2, <1>3, <1>4, <1>6

\* Two reads of what lies there.
LEMMA TwoReads ==
  ASSUME NEW k, NEW cs, NEW T, NEW R, NEW from, NEW way, Path(k, cs, T, R, from, way),
         NEW n \in Nat, NEW a \in Nat, NEW m \in Nat, n <= a, a <= m, m <= Len(T),
         NEW r, Opened([r EXCEPT !.stray = FALSE]) = R[n]
  PROVE  Parses(r, T, n, a, R[a]) /\ Parses(R[a], T, a, m, R[m])
<1>1. a <= Len(T) /\ a \in 0..Len(T)
  BY DEF Path
<1>2. Parses(r, T, n, a, R[a])
  BY <1>1, ParseAlong
<1>3. Good(k, cs, R[a])
  BY <1>1 DEF Path
<1>4. PICK q : q = R[a]
  OBVIOUS
<1>5. Opened([q EXCEPT !.stray = FALSE]) = q
  BY <1>3, <1>4, OpenedAgain
<1>6. Opened([q EXCEPT !.stray = FALSE]) = R[a]
  BY <1>4, <1>5
<1>7. Parses(q, T, a, m, R[m])
  BY <1>6, ParseAlong
<1>. QED  BY <1>2, <1>4, <1>7

\* No message gets longer than was meant, the mailbox never holds more than it
\* can, and no position is behind what was read (http-requests.hpp 150-180).
THEOREM TypesCorrect == Spec => []TypeOK
<1>1. ASSUME StreamInv PROVE TypeOK
  <2>1. /\ kind \in Kinds /\ out.chunks \in Seq(Piece) /\ Fine(out.chunks, reader)
        /\ handled <= reader.nc /\ pos <= reader.nc
    BY <1>1, StreamFacts
  <2>2. out.nc = Len(out.chunks) /\ Len(out.chunks) <= MaxChunks + 2
    <3>1. CASE out = NotOpened
      <4>1. out.nc = 0 /\ out.chunks = <<>>
        BY <3>1 DEF NotOpened, Message
      <4>. QED  BY <4>1, StreamAssumption
    <3>2. CASE out # NotOpened
      <4>1. /\ out = Posted(out.start, out.headers, out.chunks)
            /\ Len(out.chunks) <= IF ended THEN MaxChunks + 2 ELSE MaxChunks
        BY <1>1, <3>2 DEF StreamInv, Sender
      <4>2. out.nc = Len(out.chunks)
        BY <4>1 DEF Posted
      <4>3. Len(out.chunks) \in Nat
        BY <2>1
      <4>. QED  BY <4>1, <4>2, <4>3, StreamAssumption
    <3>. QED  BY <3>1, <3>2
  <2>3. /\ ended \in BOOLEAN /\ accepted \in BOOLEAN /\ again \in BOOLEAN /\ refused \in BOOLEAN
        /\ lost \in BOOLEAN /\ over \in BOOLEAN /\ due \in 0..MaxQueue
    BY <1>1 DEF StreamInv, Sender, Receiver
  <2>4. {ended, accepted, again, refused, lost, over} \subseteq BOOLEAN
    BY <2>3
  <2>. QED  BY <2>1, <2>2, <2>3, <2>4 DEF TypeOK, Kinds, Fine
<1>. QED  BY <1>1, StreamInvariant, PTL

\* However the bytes of a message are cut and pile up, reading them in two reads
\* leaves the parser where one read does (http-requests.cpp 615-840, 997-1179).
THEOREM ReadsSplit == Spec => []SplitAnywhere
<1>1. ASSUME StreamInv PROVE SplitAnywhere
  <2>1. PICK T, R, n, m : Under(T, R, n, m)
    BY <1>1 DEF StreamInv
  <2>2. kind \in Kinds
    BY <1>1, StreamFacts
  <2>3. /\ Where(kind, out.chunks, T, R, n, m, stream, wire, reader)
        /\ Path(kind, out.chunks, T, R, 13, Way(kind)) /\ T \in Seq(Byte)
        /\ n \in Nat /\ m \in Nat /\ n <= m /\ m <= Len(T) /\ stream = SubSeq(T, n + 1, m)
    BY <2>1 DEF Under, Where, Tape, Path
  <2>4. Parse(reader, stream) = [reader |-> R[m], left |-> <<>>]
    BY <2>2, <2>3, AllIsRead
  <2>5. Opened([reader EXCEPT !.stray = FALSE]) = R[n]
    BY <2>2, <2>3, ReaderOpened
  <2>6. stream \in Seq(Byte) /\ Len(stream) = m - n
    BY <2>3, SubSeqIs
  <2>7. ASSUME NEW i \in 0..Len(stream),
               NEW first, first = Parse(reader, SubSeq(stream, 1, i)),
               NEW rest, rest = SubSeq(stream, i + 1, Len(stream))
        PROVE  Parse(first.reader, first.left \o rest) = Parse(reader, stream)
    <3>1. i \in 0 .. m - n /\ n + i \in Nat /\ n <= n + i /\ n + i <= m /\ n + i <= Len(T)
          /\ n + i \in 0..Len(T)
      BY <2>3, <2>6
    <3>2. SubSeq(stream, 1, i) = SubSeq(T, n + 1, n + i) /\ rest = SubSeq(T, (n + i) + 1, m)
      <4>1. CASE i = 0
        <5>1. SubSeq(stream, 1, 0) = <<>> /\ SubSeq(T, n + 1, n) = <<>>
          BY <2>3, <2>6
        <5>2. SubSeq(stream, 1, Len(stream)) = stream
          BY <2>6
        <5>3. n + i = n /\ i + 1 = 1
          BY <2>3, <4>1
        <5>. QED  BY <2>3, <2>7, <4>1, <5>1, <5>2, <5>3
      <4>2. CASE i # 0
        <5>1. i \in 1 .. m - n
          BY <3>1, <4>2
        <5>2. /\ SubSeq(SubSeq(T, n + 1, m), 1, i) = SubSeq(T, n + 1, n + i)
              /\ SubSeq(SubSeq(T, n + 1, m), i + 1, m - n) = SubSeq(T, (n + i) + 1, m)
          BY <2>3, <5>1, SubSeqOfSub
        <5>. QED  BY <2>3, <2>6, <2>7, <5>2
      <4>. QED  BY <4>1, <4>2
    <3>0. PICK a \in Nat : a = n + i
      BY <3>1
    <3>3. Parses(reader, T, n, a, R[a]) /\ Parses(R[a], T, a, m, R[m])
      <4>1. n \in Nat /\ m \in Nat /\ n <= a /\ a <= m /\ m <= Len(T)
        BY <2>3, <3>0, <3>1
      <4>2. PICK k, cs, way : Path(k, cs, T, R, 13, way)
        BY <2>3
      <4>. QED  BY <2>5, <4>1, <4>2, TwoReads
    <3>4. first = [reader |-> R[a], left |-> <<>>]
      BY <2>7, <3>0, <3>2, <3>3 DEF Parses
    <3>6. first.reader = R[a] /\ first.left = <<>>
      BY <3>4
    <3>7. Parse(first.reader, rest) = [reader |-> R[m], left |-> <<>>]
      BY <3>0, <3>2, <3>3, <3>6 DEF Parses
    <3>5. first.left \o rest = rest
      <4>1. rest \in Seq(Byte)
        BY <2>3, <3>1, <3>2, SubSeqIs
      <4>. QED  BY <3>6, <4>1, NoTextBefore
    <3>. QED  BY <2>4, <3>5, <3>7
  <2>. QED  BY <2>7 DEF SplitAnywhere
<1>. QED  BY <1>1, StreamInvariant, PTL

\* No session is dropped whose bytes have arrived, everything parses, and only a
\* 404 is taken for a refusal (controller-app.cpp 758-812, 1231).
THEOREM AllUnderstood == Spec => []AlwaysUnderstood
<1>1. ASSUME StreamInv PROVE AlwaysUnderstood
  <2>1. reader.fault = FALSE /\ reader.stray = FALSE
    BY <1>1, StreamFacts DEF Fine
  <2>2. lost = FALSE /\ (refused => kind = "refused")
    BY <1>1 DEF StreamInv, Receiver
  <2>. QED  BY <2>1, <2>2 DEF AlwaysUnderstood
<1>. QED  BY <1>1, StreamInvariant, PTL

-----------------------------------------------------------------------------
(* The refinement of ChunkChannel.                                         *)

\* The data of the first n chunks, and how many chunks have data.
DataFrom(cs, n) == [i \in 1..n |-> cs[i].data]
Full(cs) == IF cs # <<>> /\ cs[Len(cs)].size = <<0>> THEN Len(cs) - 1 ELSE Len(cs)

LEMMA DataOfIs ==
  ASSUME NEW S, NEW cs \in Seq(S)
  PROVE  DataOf(cs) = DataFrom(cs, Full(cs)) /\ Full(cs) \in Nat /\ Full(cs) <= Len(cs)
<1>. DEFINE full == IF cs # <<>> /\ Last(cs).size = <<0>> THEN Front(cs) ELSE cs
<1>1. DataOf(cs) = [i \in DOMAIN full |-> full[i].data]
  BY DEF DataOf
<1>2. CASE cs # <<>> /\ cs[Len(cs)].size = <<0>>
  <2>1. full = Front(cs) /\ Full(cs) = Len(cs) - 1
    BY <1>2 DEF Last, Full
  <2>2. Len(cs) \in Nat \ {0}
    BY <1>2, NotEmpty
  <2>3. /\ DOMAIN Front(cs) = 1 .. Len(cs) - 1
        /\ \A i \in 1 .. Len(cs) - 1 : Front(cs)[i] = cs[i]
    BY <2>2 DEF Front
  <2>. HIDE DEF full
  <2>. QED  BY <1>1, <2>1, <2>2, <2>3 DEF DataFrom
<1>3. CASE ~ (cs # <<>> /\ cs[Len(cs)].size = <<0>>)
  <2>1. full = cs /\ Full(cs) = Len(cs)
    BY <1>3 DEF Last, Full
  <2>2. DOMAIN cs = 1..Len(cs) /\ Len(cs) \in Nat
    OBVIOUS
  <2>. HIDE DEF full
  <2>. QED  BY <1>1, <2>1, <2>2 DEF DataFrom
<1>. QED  BY <1>2, <1>3

LEMMA DataExtends ==
  ASSUME NEW cs \in Seq(Piece), NEW all \in Seq(Piece), NEW n \in Nat, NEW p \in Nat, n <= p,
         n <= Len(cs), p <= Len(all), \A i \in 1..n : all[i] = cs[i]
  PROVE  Channel!Extends(DataFrom(all, p), DataFrom(cs, n))
<1>. DEFINE S == {c.data : c \in Piece}
<1>1. DataFrom(all, p) \in Seq(S) /\ Len(DataFrom(all, p)) = p
  BY DEF DataFrom
<1>2. DataFrom(cs, n) \in Seq(S) /\ Len(DataFrom(cs, n)) = n
  BY DEF DataFrom
<1>3. \A i \in 1..n : DataFrom(all, p)[i] = DataFrom(cs, n)[i]
  BY DEF DataFrom
<1>. HIDE DEF S
<1>4. PICK a \in Seq(S), b \in Seq(S) : a = DataFrom(all, p) /\ b = DataFrom(cs, n)
  BY <1>1, <1>2
<1>5. SubSeq(a, 1, n) = b
  <2>1. SubSeq(a, 1, n) \in Seq(S) /\ Len(SubSeq(a, 1, n)) = n
    BY <1>1, <1>4
  <2>2. \A i \in 1..n : SubSeq(a, 1, n)[i] = b[i]
    BY <1>1, <1>3, <1>4
  <2>. HIDE DEF DataFrom
  <2>. QED  BY <1>2, <1>4, <2>1, <2>2, SameSeq
<1>. QED  BY <1>1, <1>2, <1>4, <1>5 DEF Channel!Extends

LEMMA TakenIs ==
  ASSUME NEW cs \in Seq(Piece), NEW r, Fine(cs, r), NEW h \in Nat, h <= r.nc,
         \A i \in 1..h : cs[i].size # Zero
  PROVE  DataOf(SubSeq(r.chunks, 1, h)) = DataFrom(cs, h) /\ h <= Full(cs) /\ Full(cs) <= Len(cs)
         /\ Full(cs) \in Nat
<1>1. /\ r.chunks \in Seq(ReadChunk) /\ h <= Len(r.chunks) /\ h <= Len(cs)
      /\ \A i \in 1..h : r.chunks[i].size = cs[i].size /\ r.chunks[i].data = cs[i].data
  BY DEF Fine
<1>2. PICK u : u = SubSeq(r.chunks, 1, h)
  OBVIOUS
<1>3. u \in Seq(ReadChunk) /\ Len(u) = h /\ \A i \in 1..h : u[i] = r.chunks[i]
  BY <1>1, <1>2
<1>4. Full(u) = h
  <2>1. u # <<>> => h \in 1..h
    BY <1>3
  <2>2. u # <<>> => u[Len(u)].size # <<0>>
    BY <1>1, <1>3, <2>1
  <2>. QED  BY <1>3, <2>2 DEF Full
<1>5. DataOf(u) = DataFrom(u, h)
  BY <1>3, <1>4, DataOfIs
<1>6. DataFrom(u, h) = DataFrom(cs, h)
  BY <1>1, <1>3 DEF DataFrom
<1>7. Len(cs) \in Nat /\ (cs # <<>> => Len(cs) # 0)
  OBVIOUS
<1>8. h <= Full(cs)
  <2>1. CASE cs # <<>> /\ cs[Len(cs)].size = <<0>>
    <3>1. h # Len(cs)
      BY <1>7, <2>1
    <3>. QED  BY <1>1, <1>7, <2>1, <3>1 DEF Full
  <2>2. CASE ~ (cs # <<>> /\ cs[Len(cs)].size = <<0>>)
    BY <1>1, <2>2 DEF Full
  <2>. QED  BY <2>1, <2>2
<1>9. Full(cs) <= Len(cs) /\ Full(cs) \in Nat
  BY DataOfIs
<1>. QED  BY <1>2, <1>5, <1>6, <1>8, <1>9

\* What the two sides of the channel have, in terms of the chunks.
ChannelFacts ==
  /\ out.chunks \in Seq(Piece) /\ Fine(out.chunks, reader)
  /\ handled \in Nat /\ handled <= reader.nc
  /\ \A i \in 1..handled : out.chunks[i].size # <<0>>

LEMMA ChannelFactsHold == StreamInv => ChannelFacts
BY StreamFacts DEF ChannelFacts, StreamInv, Receiver

LEMMA ChannelInit == Init => Channel!Init
<1>. SUFFICES ASSUME Init PROVE Channel!Init
  OBVIOUS
<1>1. out.chunks = <<>> /\ reader.chunks = <<>> /\ handled = 0 /\ over = FALSE
  BY NotPosted, BlankIs DEF Init, FromPeer, Blank
<1>2. SubSeq(<<>>, 1, 0) = <<>>
  OBVIOUS
<1>3. <<>> \in Seq(Piece) /\ Full(<<>>) = 0
  BY DEF Full
<1>4. DataOf(<<>>) = DataFrom(<<>>, 0)
  BY <1>3, DataOfIs
<1>5. DataFrom(<<>>, 0) = <<>>
  BY DEF DataFrom
<1>. QED  BY <1>1, <1>2, <1>4, <1>5 DEF Channel!Init

\* What is pushed comes after what was sent.
LEMMA ChannelSends ==
  ASSUME StreamInv, ChannelFacts, StreamInv', ChannelFacts', Writes
  PROVE  [Channel!Next]_(Channel!vars)
<1>1. PICK d \in Payloads : Open(d) \/ Update(d) \/ Finish(d)
  BY DEF Writes
<1>2. UNCHANGED <<reader, handled, over>>
  BY <1>1 DEF Open, Update, Finish, Write, readVars
<1>3. PICK cs \in Seq(Piece), all \in Seq(Piece) : cs = out.chunks /\ all = out'.chunks
  BY DEF ChannelFacts
<1>4. PICK more \in Seq(Piece) : more # <<>> /\ all = cs \o more
  <2>1. CASE Open(d)
    <3>1. kind \in Kinds /\ out = NotOpened /\ out' = Written(Opening(d))
      BY <2>1 DEF Open, Write, StreamInv, Sender
    <3>2. all = <<FirstChunk(kind, d)>> /\ cs = <<>>
      <4>1. out' = Posted(Lead(kind), HeadersOf(kind, SizeOf(kind, d)), <<FirstChunk(kind, d)>>)
        BY <3>1, OpeningText
      <4>2. out'.chunks = <<FirstChunk(kind, d)>>
        BY <4>1, Zenon DEF Posted
      <4>. QED  BY <1>3, <3>1, <4>2, NotPosted
    <3>3. all \in Seq(Piece) /\ Len(all) = 1
      BY <3>1, <3>2, FirstChunkIs
    <3>4. cs \o all = all /\ all # <<>>
      BY <3>2, <3>3
    <3>. QED  BY <3>3, <3>4
  <2>2. CASE Update(d) \/ Finish(d)
    <3>1. out # NotOpened /\ ended = FALSE
      BY <2>2 DEF Update, Finish, StreamInv, Sender
    <3>2. /\ Payloads # {} /\ out.chunks \in Seq(Piece)
          /\ out = Posted(out.start, Common, out.chunks)
      BY <3>1, CanPush DEF StreamInv
    <3>3. PICK c \in Piece, e \in Piece : c = Chunk(d) /\ e = LastChunk
      BY ChunkIs
    <3>4. /\ MessageText(Push(out, <<c>>)) = ChunkText(c)
          /\ MessageText(Push(out, <<c, e>>)) = ChunkText(c) \o ChunkText(e)
          /\ Written(Push(out, <<c>>)) = Posted(out.start, Common, out.chunks \o <<c>>)
          /\ Written(Push(out, <<c, e>>)) = Posted(out.start, Common, out.chunks \o <<c, e>>)
      BY <3>2, PushText, Zenon
    <3>5. <<c>> \in Seq(Piece) /\ <<c, e>> \in Seq(Piece) /\ <<c>> # <<>> /\ <<c, e>> # <<>>
      OBVIOUS
    <3>6. CASE Update(d)
      <4>1. out' = Posted(out.start, Common, out.chunks \o <<c>>)
        BY <3>3, <3>4, <3>6 DEF Update, Write
      <4>2. out'.chunks = out.chunks \o <<c>>
        BY <4>1, Zenon DEF Posted
      <4>. QED  BY <1>3, <3>5, <4>2
    <3>7. CASE Finish(d)
      <4>1. out' = Posted(out.start, Common, out.chunks \o <<c, e>>)
        BY <3>3, <3>4, <3>7 DEF Finish, Write
      <4>2. out'.chunks = out.chunks \o <<c, e>>
        BY <4>1, Zenon DEF Posted
      <4>. QED  BY <1>3, <3>5, <4>2
    <3>. QED  BY <2>2, <3>6, <3>7
  <2>. QED  BY <1>1, <2>1, <2>2
<1>5. /\ Len(all) = Len(cs) + Len(more) /\ Len(more) \in Nat \ {0} /\ Len(cs) \in Nat
      /\ \A i \in 1..Len(cs) : all[i] = cs[i]
  <2>1. Len(more) \in Nat \ {0}
    BY <1>4, NotEmpty
  <2>. QED  BY <1>4, <2>1
<1>6. /\ Full(cs) \in Nat /\ Full(cs) <= Len(cs) /\ DataOf(cs) = DataFrom(cs, Full(cs))
      /\ Full(all) \in Nat /\ Full(all) <= Len(all) /\ DataOf(all) = DataFrom(all, Full(all))
  BY DataOfIs
<1>7. Len(all) - 1 <= Full(all)
  BY <1>5 DEF Full
<1>8. Full(cs) <= Full(all)
  BY <1>5, <1>6, <1>7
<1>9. Channel!Extends(DataFrom(all, Full(all)), DataFrom(cs, Full(cs)))
  <2>1. \A i \in 1..Full(cs) : all[i] = cs[i]
    BY <1>5, <1>6
  <2>. QED  BY <1>6, <1>8, <2>1, DataExtends
<1>10. Channel!Extends(DataOf(out'.chunks), DataOf(out.chunks))
  BY <1>3, <1>6, <1>9
<1>11. CASE DataOf(out'.chunks) = DataOf(out.chunks)
  BY <1>2, <1>11 DEF Channel!vars
<1>12. CASE DataOf(out'.chunks) # DataOf(out.chunks)
  <2>1. Channel!Send
    BY <1>2, <1>10, <1>12 DEF Channel!Send
  <2>. QED  BY <2>1 DEF Channel!Next
<1>. QED  BY <1>11, <1>12

\* What is handled comes after what was, and was sent.
LEMMA ChannelTakes ==
  ASSUME StreamInv, ChannelFacts, ChannelFacts', Read
  PROVE  [Channel!Next]_(Channel!vars)
<1>1. UNCHANGED <<out, over>>
  BY DEF Read, sendVars, ReadRequest, ReadMore, ReadNothing, ReadResponse, RouteRequest
<1>2. handled <= handled'
  BY ReadInv
<1>3. PICK cs \in Seq(Piece) : cs = out.chunks /\ cs = out'.chunks
  BY <1>1 DEF ChannelFacts
<1>4. DataOf(SubSeq(reader.chunks, 1, handled)) = DataFrom(cs, handled)
  BY <1>3, TakenIs DEF ChannelFacts
<1>5. /\ DataOf(SubSeq(reader'.chunks, 1, handled')) = DataFrom(cs, handled')
      /\ handled' <= Full(cs) /\ Full(cs) <= Len(cs) /\ Full(cs) \in Nat
  <2>0. PICK r : r = reader'
    OBVIOUS
  <2>1. PICK h \in Nat : r = reader' /\ h = handled'
    BY <2>0 DEF ChannelFacts
  <2>2. Fine(cs, r) /\ h <= r.nc /\ \A i \in 1..h : cs[i].size # <<0>>
    BY <1>3, <2>1 DEF ChannelFacts
  <2>3. DataOf(SubSeq(r.chunks, 1, h)) = DataFrom(cs, h) /\ h <= Full(cs) /\ Full(cs) <= Len(cs)
        /\ Full(cs) \in Nat
    BY <2>2, TakenIs
  <2>. QED  BY <2>1, <2>3
<1>6. handled \in Nat /\ handled' \in Nat /\ handled <= Len(cs) /\ handled' <= Len(cs) /\ Len(cs) \in Nat
  BY <1>2, <1>5 DEF ChannelFacts
<1>7. Channel!Extends(DataFrom(cs, handled'), DataFrom(cs, handled))
  BY <1>2, <1>6, DataExtends
<1>8. Channel!Extends(DataOf(cs), DataFrom(cs, handled'))
  <2>1. DataOf(cs) = DataFrom(cs, Full(cs))
    BY DataOfIs
  <2>2. Channel!Extends(DataFrom(cs, Full(cs)), DataFrom(cs, handled'))
    BY <1>5, <1>6, DataExtends
  <2>. QED  BY <2>1, <2>2
<1>9. CASE DataFrom(cs, handled') = DataFrom(cs, handled)
  BY <1>1, <1>4, <1>5, <1>9 DEF Channel!vars
<1>10. CASE DataFrom(cs, handled') # DataFrom(cs, handled)
  <2>1. Channel!Take
    BY <1>1, <1>3, <1>4, <1>5, <1>7, <1>8, <1>10 DEF Channel!Take
  <2>. QED  BY <2>1 DEF Channel!Next
<1>. QED  BY <1>9, <1>10

LEMMA ChannelStep ==
  ASSUME StreamInv, ChannelFacts, StreamInv', ChannelFacts', [Next]_vars
  PROVE  [Channel!Next]_(Channel!vars)
<1>1. CASE Writes
  BY <1>1, ChannelSends
<1>2. CASE Delivers
  <2>1. UNCHANGED <<out, reader, handled, over>>
    BY <1>2 DEF Delivers, Deliver, sendVars, readVars
  <2>. QED  BY <2>1 DEF Channel!vars
<1>3. CASE Read
  BY <1>3, ChannelTakes
<1>4. CASE Leave
  <2>1. Channel!Leave
    BY <1>4 DEF Leave, sendVars, readVars, Channel!Leave
  <2>. QED  BY <2>1 DEF Channel!Next
<1>5. CASE UNCHANGED vars
  <2>1. UNCHANGED <<out, reader, handled, over>>
    BY <1>5 DEF vars, sendVars, readVars
  <2>. QED  BY <2>1 DEF Channel!vars
<1>. QED  BY <1>1, <1>2, <1>3, <1>4, <1>5 DEF Next

\* What a context has handled of a message is what its peer's wrote for it, in
\* order and no more, and it never takes back what it has handled
\* (http-requests.cpp 422-1179, controller-app.cpp 1056-1070, 1296-1325).  This
\* is the safety of IsChannel.
THEOREM ChannelIsKept == Spec => Channel!Init /\ [][Channel!Next]_(Channel!vars)
<1>1. StreamInv /\ ChannelFacts /\ StreamInv' /\ ChannelFacts' /\ [Next]_vars
        => [Channel!Next]_(Channel!vars)
  BY ChannelStep
<1>. QED  BY <1>1, ChannelInit, ChannelFactsHold, StreamInvariant, PTL DEF Spec

-----------------------------------------------------------------------------
(* The objects in a chunk (JsonScanner).                                   *)

\* The symbols of a text.
Symbols == {"lbrace", "rbrace", "lbracket", "rbracket", "comma", "x"}

\* Texts in which braces come in pairs: a depth that begins and ends at 0.
Change(c) == IF c = "lbrace" THEN 1 ELSE IF c = "rbrace" THEN -1 ELSE 0
Measures(d, v) ==
  /\ d \in [0..Len(v) -> Nat] /\ d[0] = 0 /\ d[Len(v)] = 0
  /\ \A i \in 1..Len(v) : d[i] = d[i - 1] + Change(v[i])
Balanced == {v \in Seq(Symbols) : \E d : Measures(d, v)}
AnObject(v) == \E b \in Balanced : v = <<"lbrace">> \o b \o <<"rbrace">>

LEMMA JoinIs ==
  ASSUME NEW S, NEW s \in Seq(S), NEW t \in Seq(S)
  PROVE  /\ s \o t \in Seq(S) /\ Len(s \o t) = Len(s) + Len(t)
         /\ \A i \in 1 .. Len(s) : (s \o t)[i] = s[i]
         /\ \A i \in 1 .. Len(t) : (s \o t)[Len(s) + i] = t[i]
OBVIOUS

LEMMA SymbolsAre ==
  \A c \in {"lbrace", "rbrace", "lbracket", "rbracket", "comma", "x"} : c \in Symbols
BY DEF Symbols

LEMMA SingleBalanced ==
  ASSUME NEW c \in Symbols, c # "lbrace", c # "rbrace"
  PROVE  <<c>> \in Balanced
<1>. DEFINE v == <<c>>
<1>1. v \in Seq(Symbols) /\ Len(v) = 1 /\ v[1] = c  OBVIOUS
<1>. HIDE DEF v
<1>2. Change(v[1]) = 0  BY <1>1 DEF Change
<1>3. Measures([i \in 0..1 |-> 0], v)
  BY <1>1, <1>2 DEF Measures
<1>. QED  BY <1>1, <1>3 DEF Balanced, v

LEMMA EmptyBalanced == <<>> \in Balanced
<1>1. Measures([i \in 0..0 |-> 0], <<>>)
  BY DEF Measures, Change
<1>2. <<>> \in Seq(Symbols)  OBVIOUS
<1>. QED  BY <1>1, <1>2 DEF Balanced

LEMMA JoinBalanced ==
  ASSUME NEW u \in Balanced, NEW v \in Balanced
  PROVE  u \o v \in Balanced
<1>0. u \in Seq(Symbols) /\ v \in Seq(Symbols)  BY DEF Balanced
<1>1. PICK d : Measures(d, u)  BY DEF Balanced
<1>2. PICK e : Measures(e, v)  BY DEF Balanced
<1>. DEFINE w == u \o v
            m == Len(u)
            n == Len(v)
            f == [i \in 0 .. m + n |-> IF i <= m THEN d[i] ELSE e[i - m]]
<1>3. /\ w \in Seq(Symbols) /\ Len(w) = m + n /\ m \in Nat /\ n \in Nat
      /\ \A i \in 1..m : w[i] = u[i]
      /\ \A i \in 1..n : w[m + i] = v[i]
  BY <1>0, JoinIs
<1>. HIDE DEF w
<1>4. /\ d \in [0..m -> Nat] /\ d[0] = 0 /\ d[m] = 0
      /\ \A i \in 1..m : d[i] = d[i - 1] + Change(u[i])
  BY <1>1 DEF Measures
<1>5. /\ e \in [0..n -> Nat] /\ e[0] = 0 /\ e[n] = 0
      /\ \A i \in 1..n : e[i] = e[i - 1] + Change(v[i])
  BY <1>2 DEF Measures
<1>. HIDE DEF m, n
<1>6. f \in [0 .. m + n -> Nat] /\ f[0] = 0 /\ f[m + n] = 0
  BY <1>3, <1>4, <1>5
<1>7. ASSUME NEW i \in 1 .. m + n
      PROVE  f[i] = f[i - 1] + Change(w[i])
  <2>1. CASE i <= m
    <3>1. f[i] = d[i] /\ f[i - 1] = d[i - 1] /\ w[i] = u[i]  BY <1>3, <2>1
    <3>. QED  BY <1>3, <1>4, <2>1, <3>1
  <2>2. CASE i = m + 1
    <3>1. f[i] = e[1] /\ f[i - 1] = e[0] /\ w[i] = v[1] /\ 1 \in 1..n
      BY <1>3, <1>4, <1>5, <2>2
    <3>. QED  BY <1>5, <3>1
  <2>3. CASE i > m + 1
    <3>. DEFINE j == i - m
    <3>1. j \in 1..n /\ i = m + j /\ j - 1 \in 1..n  BY <1>3, <2>3
    <3>2. f[i] = e[j] /\ f[i - 1] = e[j - 1] /\ w[i] = v[j]
      BY <1>3, <2>3, <3>1
    <3>. QED  BY <1>5, <3>1, <3>2
  <2>. QED  BY <1>3, <2>1, <2>2, <2>3
<1>8. Measures(f, w)
  <2>. HIDE DEF f
  <2>. QED  BY <1>3, <1>6, <1>7 DEF Measures
<1>. QED  BY <1>3, <1>8 DEF Balanced, w

LEMMA Braced ==
  ASSUME NEW v \in Seq(Symbols), NEW w, w = <<"lbrace">> \o v \o <<"rbrace">>
  PROVE  /\ w \in Seq(Symbols) /\ Len(w) = Len(v) + 2 /\ Len(v) \in Nat
         /\ w[1] = "lbrace" /\ w[Len(v) + 2] = "rbrace"
         /\ \A i \in 1..Len(v) : w[i + 1] = v[i]
<1>. DEFINE n == Len(v)
<1>0. "lbrace" \in Symbols /\ "rbrace" \in Symbols  BY SymbolsAre
<1>1. /\ <<"lbrace">> \o v \in Seq(Symbols) /\ Len(<<"lbrace">> \o v) = n + 1 /\ n \in Nat
      /\ (<<"lbrace">> \o v)[1] = "lbrace" /\ \A i \in 1..n : (<<"lbrace">> \o v)[i + 1] = v[i]
  BY <1>0
<1>. DEFINE u == <<"lbrace">> \o v
<1>. HIDE DEF u
<1>2. /\ u \in Seq(Symbols) /\ Len(u) = n + 1 /\ n \in Nat
      /\ u[1] = "lbrace" /\ \A i \in 1..n : u[i + 1] = v[i]
  BY <1>1 DEF u
<1>. HIDE DEF n
<1>3. /\ u \o <<"rbrace">> \in Seq(Symbols) /\ Len(u \o <<"rbrace">>) = n + 2
      /\ (u \o <<"rbrace">>)[n + 2] = "rbrace"
      /\ \A i \in 1 .. n + 1 : (u \o <<"rbrace">>)[i] = u[i]
  BY <1>0, <1>2
<1>4. w = u \o <<"rbrace">>  BY DEF u
<1>. QED  BY <1>2, <1>3, <1>4 DEF n

LEMMA BraceBalanced ==
  ASSUME NEW v \in Balanced
  PROVE  <<"lbrace">> \o v \o <<"rbrace">> \in Balanced
<1>0. v \in Seq(Symbols)  BY DEF Balanced
<1>1. PICK d : Measures(d, v)  BY DEF Balanced
<1>. DEFINE n == Len(v)
            w == <<"lbrace">> \o v \o <<"rbrace">>
            f == [i \in 0 .. n + 2 |-> IF i = 0 \/ i = n + 2 THEN 0 ELSE d[i - 1] + 1]
<1>2. /\ w \in Seq(Symbols) /\ Len(w) = n + 2 /\ n \in Nat
      /\ w[1] = "lbrace" /\ w[n + 2] = "rbrace" /\ \A i \in 1..n : w[i + 1] = v[i]
  BY <1>0, Braced
<1>. HIDE DEF w
<1>3. /\ d \in [0..n -> Nat] /\ d[0] = 0 /\ d[n] = 0
      /\ \A i \in 1..n : d[i] = d[i - 1] + Change(v[i])
  BY <1>1 DEF Measures
<1>. HIDE DEF n
<1>4. f \in [0 .. n + 2 -> Nat] /\ f[0] = 0 /\ f[n + 2] = 0
  BY <1>2, <1>3
<1>5. ASSUME NEW i \in 1 .. n + 2
      PROVE  f[i] = f[i - 1] + Change(w[i])
  <2>1. CASE i = 1
    <3>1. f[1] = d[0] + 1 /\ f[0] = 0  BY <1>2
    <3>. QED  BY <1>2, <1>3, <2>1, <3>1 DEF Change
  <2>2. CASE i \in 2 .. n + 1
    <3>. DEFINE j == i - 1
    <3>1. j \in 1..n /\ f[i] = d[j] + 1 /\ f[i - 1] = d[j - 1] + 1 /\ w[i] = v[j]
      BY <1>2, <2>2
    <3>2. Change(v[j]) = Change(w[i])  BY <3>1 DEF Change
    <3>. HIDE DEF j
    <3>3. d[j] = d[j - 1] + Change(v[j])  BY <1>3, <3>1
    <3>4. j - 1 \in 0..n /\ Change(v[j]) \in Int  BY <1>2, <3>1 DEF Change
    <3>5. d[j - 1] \in Nat  BY <1>3, <3>4
    <3>. QED  BY <3>1, <3>2, <3>3, <3>4, <3>5
  <2>3. CASE i = n + 2
    <3>1. f[i] = 0 /\ f[i - 1] = d[n] + 1  BY <1>2, <2>3
    <3>. QED  BY <1>2, <1>3, <2>3, <3>1 DEF Change
  <2>. QED  BY <1>2, <2>1, <2>2, <2>3
<1>6. Measures(f, w)
  <2>. HIDE DEF f
  <2>. QED  BY <1>2, <1>4, <1>5 DEF Measures
<1>. QED  BY <1>2, <1>6 DEF Balanced, w

LEMMA ElementsBalanced ==
  ASSUME NEW S \in SUBSET Balanced, NEW e \in Json!Elements(S)
  PROVE  e \in Balanced
<1>1. CASE e = <<>>  BY <1>1, EmptyBalanced
<1>2. CASE e \in S  BY <1>2
<1>3. CASE \E u, v \in S : e = u \o <<"comma">> \o v
  <2>1. PICK u \in S, v \in S : e = u \o <<"comma">> \o v  BY <1>3
  <2>2. <<"comma">> \in Balanced  BY SymbolsAre, SingleBalanced
  <2>3. u \o <<"comma">> \in Balanced  BY <2>2, JoinBalanced
  <2>. QED  BY <2>1, <2>3, JoinBalanced
<1>. QED  BY <1>1, <1>2, <1>3 DEF Json!Elements

LEMMA EnclosedBalanced ==
  ASSUME NEW S \in SUBSET Balanced
  PROVE  /\ Json!Enclosed("lbrace", S, "rbrace") \subseteq Balanced
         /\ Json!Enclosed("lbracket", S, "rbracket") \subseteq Balanced
<1>1. ASSUME NEW e \in Json!Elements(S)
      PROVE  <<"lbrace">> \o e \o <<"rbrace">> \in Balanced
  BY ElementsBalanced, BraceBalanced
<1>2. ASSUME NEW e \in Json!Elements(S)
      PROVE  <<"lbracket">> \o e \o <<"rbracket">> \in Balanced
  <2>1. e \in Balanced /\ <<"lbracket">> \in Balanced /\ <<"rbracket">> \in Balanced
    BY ElementsBalanced, SymbolsAre, SingleBalanced
  <2>2. <<"lbracket">> \o e \in Balanced  BY <2>1, JoinBalanced
  <2>. QED  BY <2>1, <2>2, JoinBalanced
<1>. QED  BY <1>1, <1>2 DEF Json!Enclosed

LEMMA ValuesBalanced ==
  ASSUME NEW n \in Nat
  PROVE  Json!Values(n) \subseteq Balanced
<1>. DEFINE Scalars == {<<"x">>, <<"rbracket">>, <<"lbracket">>}
            More(S) == S \union Json!Enclosed("lbrace", S, "rbrace") \union Json!Enclosed("lbracket", S, "rbracket")
            Is(f, k) == f = [i \in 0..k |-> IF i = 0 THEN Scalars ELSE More(f[i - 1])]
            S == {k \in Nat : \E f : Is(f, k)}
<1>1. 0 \in S
  <2>1. Is([i \in 0..0 |-> Scalars], 0)  OBVIOUS
  <2>. HIDE DEF Is
  <2>. QED  BY <2>1
<1>2. ASSUME NEW k \in Nat, k \in S
      PROVE  k + 1 \in S
  <2>1. PICK f : Is(f, k)
    <3>. HIDE DEF Is
    <3>. QED  BY <1>2
  <2>. DEFINE g == [i \in 0 .. k + 1 |-> IF i = k + 1 THEN More(f[k]) ELSE f[i]]
  <2>. HIDE DEF More, Scalars
  <2>2. ASSUME NEW i \in 0 .. k + 1
        PROVE  g[i] = IF i = 0 THEN Scalars ELSE More(g[i - 1])
    <3>1. CASE i = 0  BY <2>1, <3>1
    <3>2. CASE i \in 1..k
      <4>1. f[i] = More(f[i - 1])  BY <2>1, <3>2
      <4>. QED  BY <3>2, <4>1
    <3>3. CASE i = k + 1  BY <3>3
    <3>. QED  BY <3>1, <3>2, <3>3
  <2>3. Is(g, k + 1)  BY <2>2
  <2>. HIDE DEF Is
  <2>. QED  BY <2>3
<1>3. n \in S
  <2>. HIDE DEF S
  <2>. QED  BY <1>1, <1>2, Induction
<1>4. \E f : Is(f, n)
  <2>. HIDE DEF Is
  <2>. QED  BY <1>3
<1>. DEFINE values[k \in 0 .. n] ==
        IF k = 0 THEN {<<"x">>, <<"rbracket">>, <<"lbracket">>}
        ELSE values[k - 1] \union Json!Enclosed("lbrace", values[k - 1], "rbrace")
                           \union Json!Enclosed("lbracket", values[k - 1], "rbracket")
<1>5. Is(values, n)
  BY <1>4
<1>6. Json!Values(n) = values[n]
  BY DEF Json!Values
<1>. HIDE DEF values
<1>. DEFINE T == {k \in 0..n : values[k] \subseteq Balanced}
<1>7. 0 \in T
  <2>1. values[0] = Scalars  BY <1>5
  <2>. QED  BY <2>1, SymbolsAre, SingleBalanced
<1>8. ASSUME NEW k \in 0 .. n - 1, k \in T
      PROVE  k + 1 \in T
  <2>1. values[k + 1] = More(values[k])
    <3>. HIDE DEF More, Scalars
    <3>1. values[k + 1] = IF k + 1 = 0 THEN Scalars ELSE More(values[k + 1 - 1])
      BY <1>5
    <3>2. k + 1 # 0 /\ k + 1 - 1 = k  OBVIOUS
    <3>. QED  BY <3>1, <3>2
  <2>. QED  BY <1>8, <2>1, EnclosedBalanced
<1>. HIDE DEF T
<1>9. \A k \in 0..n : k \in T  BY <1>7, <1>8, UpTo
<1>. QED  BY <1>6, <1>9 DEF T

LEMMA ObjectsAre ==
  ASSUME NEW n \in Nat, NEW v \in Json!Objects(n)
  PROVE  AnObject(v)
<1>1. PICK e \in Json!Elements(Json!Values(n)) : v = <<"lbrace">> \o e \o <<"rbrace">>
  BY DEF Json!Objects, Json!Enclosed
<1>2. e \in Balanced  BY ValuesBalanced, ElementsBalanced
<1>. QED  BY <1>1, <1>2 DEF AnObject

Scanning ==
  [pos : Nat, braces : Int, brackets : Int, opening : Nat, closing : Nat, last : BOOLEAN]

LEMMA StepIs ==
  ASSUME NEW t, NEW s \in Scanning, NEW n, n = Json!Step(t, s)
  PROVE  /\ n \in Scanning /\ n.pos = s.pos + 1
         /\ t[s.pos] = "lbrace" =>
              /\ n.braces = s.braces + 1 /\ n.brackets = s.brackets
              /\ n.opening = IF s.braces = 0 THEN s.pos ELSE s.opening
              /\ n.closing = s.closing /\ n.last = s.last
         /\ t[s.pos] = "rbrace" /\ s.braces > 0 =>
              /\ n.braces = s.braces - 1 /\ n.brackets = s.brackets
              /\ n.opening = s.opening /\ n.last = s.last
              /\ n.closing = IF s.braces = 1 THEN s.pos ELSE s.closing
         /\ t[s.pos] \notin {"lbrace", "rbrace"} =>
              /\ n.braces = s.braces
              /\ n.opening = s.opening /\ n.closing = s.closing
         /\ t[s.pos] \notin {"lbrace", "rbrace", "lbracket", "rbracket"} =>
              n.brackets = s.brackets /\ n.last = s.last
         /\ t[s.pos] = "lbracket" =>
              n.brackets = s.brackets + 1 /\ n.last = s.last
         /\ t[s.pos] = "rbracket" =>
              n.last = (s.braces = 0 /\ s.brackets <= 1)
<1>. DEFINE c == t[s.pos]
            m == [s EXCEPT !.pos = @ + 1]
<1>0. /\ m \in Scanning /\ m.pos = s.pos + 1 /\ m.braces = s.braces
      /\ m.brackets = s.brackets /\ m.opening = s.opening
      /\ m.closing = s.closing /\ m.last = s.last
  BY DEF Scanning
<1>s. s.pos \in Nat /\ s.braces \in Int /\ s.brackets \in Int  BY DEF Scanning
<1>1. CASE c = "lbrace"
  <2>1. PICK b \in Int : b = m.braces + 1  BY <1>0, <1>s
  <2>0. PICK o \in Nat : o = IF s.braces = 0 THEN s.pos ELSE m.opening
    BY <1>0, <1>s DEF Scanning
  <2>3. n = [m EXCEPT !.braces = b, !.opening = o]
    BY <1>1, <2>1, <2>0 DEF Json!Step
  <2>2. /\ n \in Scanning /\ n.pos = s.pos + 1
        /\ n.braces = s.braces + 1 /\ n.brackets = s.brackets
        /\ n.opening = IF s.braces = 0 THEN s.pos ELSE s.opening
        /\ n.closing = s.closing /\ n.last = s.last
    <3>. HIDE DEF m, c
    <3>1. m \in Scanning  BY <1>0
    <3>2. /\ n \in Scanning /\ n.pos = m.pos /\ n.braces = b /\ n.brackets = m.brackets
          /\ n.opening = o /\ n.closing = m.closing /\ n.last = m.last
      BY <3>1, <2>3 DEF Scanning
    <3>. QED  BY <1>0, <1>s, <2>0, <2>1, <3>2
  <2>. QED  BY <1>s, <1>1, <2>2
<1>2. CASE c = "rbrace" /\ Json!Closes(s)
  <2>1. PICK b \in Int : b = m.braces - 1  BY <1>0, <1>s
  <2>0. PICK o \in Nat : o = s.pos  BY <1>s
  <2>3. n = [m EXCEPT !.braces = b, !.closing = o]
    BY <1>2, <2>1, <2>0 DEF Json!Step
  <2>2. /\ n \in Scanning /\ n.pos = s.pos + 1
        /\ n.braces = s.braces - 1 /\ n.brackets = s.brackets
        /\ n.opening = s.opening /\ n.closing = s.pos /\ n.last = s.last
    <3>. HIDE DEF m, c
    <3>1. m \in Scanning  BY <1>0
    <3>2. /\ n \in Scanning /\ n.pos = m.pos /\ n.braces = b /\ n.brackets = m.brackets
          /\ n.opening = m.opening /\ n.closing = o /\ n.last = m.last
      BY <3>1, <2>3 DEF Scanning
    <3>. QED  BY <1>0, <1>s, <2>0, <2>1, <3>2
  <2>. QED  BY <1>s, <1>2, <2>2 DEF Json!Closes
<1>3. CASE c = "rbrace" /\ ~ Json!Closes(s) /\ s.braces > 0
  <2>1. n = [m EXCEPT !.braces = m.braces - 1]
    BY <1>3 DEF Json!Step
  <2>2. /\ n \in Scanning /\ n.pos = s.pos + 1
        /\ n.braces = s.braces - 1 /\ n.brackets = s.brackets
        /\ n.opening = s.opening /\ n.closing = s.closing /\ n.last = s.last
    <3>. HIDE DEF m, c
    <3>. QED  BY <1>0, <1>s, <2>1 DEF Scanning
  <2>. QED  BY <1>s, <1>3, <2>2 DEF Json!Closes
<1>4. CASE c = "lbracket"
  <2>1. n = [m EXCEPT !.brackets = m.brackets + 1]
    BY <1>4 DEF Json!Step
  <2>2. /\ n \in Scanning /\ n.pos = s.pos + 1
        /\ n.braces = s.braces /\ n.brackets = s.brackets + 1
        /\ n.opening = s.opening /\ n.closing = s.closing /\ n.last = s.last
    <3>. HIDE DEF m, c
    <3>. QED  BY <1>0, <1>s, <2>1 DEF Scanning
  <2>. QED  BY <1>s, <1>4, <2>2
<1>5. CASE c = "rbracket"
  <2>1. PICK b \in Int : b = m.brackets - 1  BY <1>0, <1>s
  <2>0. PICK o \in BOOLEAN : o = (s.braces = 0 /\ s.brackets <= 1)  BY <1>s
  <2>3. n = [m EXCEPT !.brackets = b, !.last = o]
    BY <1>5, <2>1, <2>0 DEF Json!Step
  <2>2. /\ n \in Scanning /\ n.pos = s.pos + 1
        /\ n.braces = s.braces /\ n.brackets = s.brackets - 1
        /\ n.opening = s.opening /\ n.closing = s.closing
        /\ n.last = (s.braces = 0 /\ s.brackets <= 1)
    <3>. HIDE DEF m, c
    <3>1. m \in Scanning  BY <1>0
    <3>2. /\ n \in Scanning /\ n.pos = m.pos /\ n.braces = m.braces /\ n.brackets = b
          /\ n.opening = m.opening /\ n.closing = m.closing /\ n.last = o
      BY <3>1, <2>3 DEF Scanning
    <3>. QED  BY <1>0, <1>s, <2>0, <2>1, <3>2
  <2>. QED  BY <1>s, <1>5, <2>2
<1>6. CASE /\ ~ (c = "rbrace" /\ Json!Closes(s))
           /\ ~ (c = "rbrace" /\ ~ Json!Closes(s) /\ s.braces > 0)
           /\ c \notin {"lbrace", "lbracket", "rbracket"}
  <2>1. n = m
    BY <1>6 DEF Json!Step
  <2>. QED  BY <1>0, <1>6, <2>1 DEF Scanning, Json!Closes
<1>. QED  BY <1>1, <1>2, <1>3, <1>4, <1>5, <1>6

ScanOn(t, s) == IF Json!Stopped(s) THEN s ELSE Json!Step(t, s)
ScansAs(at, t, p) ==
  /\ at[p] = Json!Start(p)
  /\ \A q \in p + 1 .. Len(t) + 1 : at[q] = ScanOn(t, at[q - 1])
  /\ Json!Scan(t, p) = at[Len(t) + 1]

LEMMA ScanSteps ==
  ASSUME NEW t \in Seq(Symbols), NEW p \in 1 .. Len(t) + 1
  PROVE  \E at : ScansAs(at, t, p)
<1>. DEFINE N == Len(t) + 1 - p
            Is(f, k) == f = [q \in p .. p + k |->
                              IF q = p THEN Json!Start(p) ELSE ScanOn(t, f[q - 1])]
            S == {k \in 0..N : \E f : Is(f, k)}
<1>0. Len(t) \in Nat /\ N \in Nat /\ p + N = Len(t) + 1  OBVIOUS
<1>. HIDE DEF N
<1>1. 0 \in S
  <2>1. Is([q \in p .. p + 0 |-> Json!Start(p)], 0)  OBVIOUS
  <2>. HIDE DEF Is
  <2>. QED  BY <1>0, <2>1
<1>2. ASSUME NEW k \in 0 .. N - 1, k \in S
      PROVE  k + 1 \in S
  <2>1. PICK f : Is(f, k)
    <3>. HIDE DEF Is
    <3>. QED  BY <1>2
  <2>. DEFINE g == [q \in p .. p + (k + 1) |-> IF q = p + k + 1 THEN ScanOn(t, f[p + k]) ELSE f[q]]
  <2>2. ASSUME NEW q \in p .. p + (k + 1)
        PROVE  g[q] = IF q = p THEN Json!Start(p) ELSE ScanOn(t, g[q - 1])
    <3>1. CASE q = p
      <4>1. f[p] = Json!Start(p)  BY <2>1
      <4>. QED  BY <3>1, <4>1
    <3>2. CASE q \in p + 1 .. p + k
      <4>1. f[q] = ScanOn(t, f[q - 1])  BY <2>1, <3>2
      <4>. QED  BY <3>2, <4>1
    <3>3. CASE q = p + k + 1  BY <3>3
    <3>. QED  BY <3>1, <3>2, <3>3
  <2>3. Is(g, k + 1)  BY <2>2
  <2>. HIDE DEF Is
  <2>. QED  BY <1>0, <2>3
<1>3. N \in S
  <2>. HIDE DEF S
  <2>1. \A k \in 0..N : k \in S  BY <1>0, <1>1, <1>2, UpTo
  <2>. QED  BY <1>0, <2>1
<1>4. \E f : Is(f, N)
  <2>. HIDE DEF Is
  <2>. QED  BY <1>3
<1>. DEFINE at[q \in p .. Len(t) + 1] ==
        IF q = p THEN Json!Start(p)
        ELSE LET s == at[q - 1]
             IN  IF Json!Stopped(s) THEN s ELSE Json!Step(t, s)
<1>5. Is(at, N)
  BY <1>0, <1>4 DEF ScanOn
<1>6. Json!Scan(t, p) = at[Len(t) + 1]
  BY DEF Json!Scan
<1>. HIDE DEF at
<1>7. ScansAs(at, t, p)
  BY <1>0, <1>5, <1>6 DEF ScansAs
<1>. QED  BY <1>7

LEMMA StartIs ==
  ASSUME NEW p \in Nat
  PROVE  /\ Json!Start(p) \in Scanning /\ ~ Json!Stopped(Json!Start(p))
         /\ Json!Start(p).pos = p /\ Json!Start(p).braces = 0
         /\ Json!Start(p).brackets = 0 /\ Json!Start(p).opening = 0
         /\ Json!Start(p).closing = 0 /\ Json!Start(p).last = FALSE
BY DEF Json!Start, Json!Stopped, Scanning

LEMMA ScanGoesOn ==
  ASSUME NEW t \in Seq(Symbols), NEW p \in 1 .. Len(t)
  PROVE  Json!Scan(t, p).pos \in p + 1 .. Len(t) + 1
<1>1. PICK at : ScansAs(at, t, p)  BY ScanSteps
<1>. DEFINE N == Len(t) - p
            S == {k \in 0..N : /\ at[p + 1 + k] \in Scanning
                               /\ at[p + 1 + k].pos \in p + 1 .. p + 1 + k}
<1>0. Len(t) \in Nat /\ N \in Nat /\ p + 1 + N = Len(t) + 1  OBVIOUS
<1>. HIDE DEF N
<1>2. 0 \in S
  <2>1. at[p + 1] = Json!Step(t, at[p]) /\ at[p] \in Scanning /\ at[p].pos = p
    <3>1. at[p + 1] = ScanOn(t, at[p + 1 - 1]) /\ at[p] = Json!Start(p) /\ p + 1 - 1 = p
      BY <1>0, <1>1 DEF ScansAs
    <3>2. p \in Nat  OBVIOUS
    <3>. QED  BY <3>1, <3>2, StartIs DEF ScanOn
  <2>2. at[p + 1] \in Scanning /\ at[p + 1].pos = p + 1
    BY <2>1, StepIs
  <2>. QED  BY <1>0, <2>2
<1>3. ASSUME NEW k \in 0 .. N - 1, k \in S
      PROVE  k + 1 \in S
  <2>. DEFINE q == p + 1 + k
  <2>1. at[q + 1] = ScanOn(t, at[q])
    <3>1. q + 1 \in p + 1 .. Len(t) + 1 /\ q + 1 - 1 = q  BY <1>0
    <3>. QED  BY <1>1, <3>1 DEF ScansAs
  <2>2. at[q] \in Scanning /\ at[q].pos \in p + 1 .. q  BY <1>3
  <2>3. at[q + 1] \in Scanning /\ at[q + 1].pos \in {at[q].pos, at[q].pos + 1}
    <3>. HIDE DEF q
    <3>. QED  BY <2>1, <2>2, StepIs DEF ScanOn
  <2>4. q + 1 = p + 1 + (k + 1) /\ q \in Nat /\ k + 1 \in 0..N  BY <1>0
  <2>. HIDE DEF q
  <2>5. at[q + 1].pos \in p + 1 .. q + 1  BY <2>2, <2>3, <2>4
  <2>. QED  BY <2>3, <2>4, <2>5
<1>. HIDE DEF S
<1>4. \A k \in 0..N : k \in S  BY <1>0, <1>2, <1>3, UpTo
<1>5. N \in S  BY <1>0, <1>4
<1>. USE DEF S
<1>6. at[Len(t) + 1].pos \in p + 1 .. Len(t) + 1  BY <1>0, <1>5
<1>. QED  BY <1>1, <1>6 DEF ScansAs

\* A text in which an object begins at a and ends at z, with depth d inside,
\* and only a bracket or a comma is between p and it.
Leads(t, p, a) == \A i \in p .. a - 1 : t[i] \in {"lbracket", "comma"}
ObjectAt(t, a, z, d) ==
  /\ a \in 1..Len(t) /\ z \in a + 1 .. Len(t)
  /\ t[a] = "lbrace" /\ t[z] = "rbrace"
  /\ d \in [0 .. z - a - 1 -> Nat] /\ d[0] = 0 /\ d[z - a - 1] = 0
  /\ \A i \in 1 .. z - a - 1 : d[i] = d[i - 1] + Change(t[a + i])

\* Where a scan stands before the symbol at q.
Stands(s, q, a, z, d) ==
  /\ s \in Scanning
  /\ q <= a => s.pos = q /\ s.braces = 0 /\ s.opening = 0 /\ s.closing = 0 /\ s.last = FALSE
  /\ q \in a + 1 .. z =>
       /\ s.pos = q /\ s.braces = d[q - 1 - a] + 1
       /\ s.opening = a /\ s.closing = 0 /\ s.last = FALSE
  /\ q > z => s.pos = z + 1 /\ s.opening = a /\ s.closing = z /\ s.last = FALSE

LEMMA StandsOn ==
  ASSUME NEW t \in Seq(Symbols), NEW p \in 1..Len(t), NEW a, NEW z, NEW d,
         ObjectAt(t, a, z, d), Leads(t, p, a), NEW q \in p .. Len(t),
         NEW s, Stands(s, q, a, z, d)
  PROVE  Stands(ScanOn(t, s), q + 1, a, z, d)
<1>. DEFINE n == Json!Step(t, s)
<1>0. Len(t) \in Nat /\ a \in Nat /\ z \in Nat /\ q \in Nat /\ a >= 1 /\ z > a
      /\ s \in Scanning /\ s.opening \in Nat /\ s.braces \in Int
  BY DEF ObjectAt, Stands, Scanning
<1>1. CASE q < a
  <2>1. s.pos = q /\ s.braces = 0 /\ s.opening = 0 /\ s.closing = 0 /\ s.last = FALSE
    BY <1>0, <1>1 DEF Stands
  <2>2. ScanOn(t, s) = n  BY <2>1 DEF ScanOn, Json!Stopped
  <2>3. t[q] \in {"lbracket", "comma"}  BY <1>0, <1>1 DEF Leads
  <2>4. n \in Scanning /\ n.pos = q + 1 /\ n.braces = 0 /\ n.opening = 0 /\ n.closing = 0
        /\ n.last = FALSE
    <3>1. t[s.pos] \notin {"lbrace", "rbrace"} /\ t[s.pos] \in {"lbracket", "comma"}
      BY <2>1, <2>3
    <3>. QED  BY <1>0, <2>1, <3>1, StepIs
  <2>. HIDE DEF n
  <2>. QED  BY <1>0, <1>1, <2>2, <2>4 DEF Stands
<1>2. CASE q = a
  <2>1. s.pos = q /\ s.braces = 0 /\ s.opening = 0 /\ s.closing = 0 /\ s.last = FALSE
    BY <1>0, <1>2 DEF Stands
  <2>2. ScanOn(t, s) = n  BY <2>1 DEF ScanOn, Json!Stopped
  <2>3. t[s.pos] = "lbrace" /\ d[0] = 0  BY <1>2, <2>1 DEF ObjectAt
  <2>4. n \in Scanning /\ n.pos = q + 1 /\ n.braces = 1 /\ n.opening = a /\ n.closing = 0
        /\ n.last = FALSE
    BY <1>0, <1>2, <2>1, <2>3, StepIs
  <2>. HIDE DEF n
  <2>. QED  BY <1>0, <1>2, <2>2, <2>3, <2>4 DEF Stands
<1>3. CASE q \in a + 1 .. z
  <2>. DEFINE i == q - a
  <2>1. /\ s.pos = q /\ s.braces = d[i - 1] + 1
        /\ s.opening = a /\ s.closing = 0 /\ s.last = FALSE
    <3>1. q - 1 - a = i - 1  BY <1>0
    <3>. QED  BY <1>3, <3>1 DEF Stands
  <2>2. ScanOn(t, s) = n  BY <1>0, <2>1 DEF ScanOn, Json!Stopped
  <2>3. d[i - 1] \in Nat
    <3>1. i - 1 \in 0 .. z - a - 1  BY <1>0, <1>3
    <3>. QED  BY <3>1 DEF ObjectAt
  <2>4. CASE q = z
    <3>1. t[s.pos] = "rbrace" /\ d[i - 1] = 0  BY <2>1, <2>4 DEF ObjectAt
    <3>2. s.braces = 1  BY <2>1, <3>1
    <3>3. n \in Scanning /\ n.pos = q + 1 /\ n.opening = a /\ n.closing = z /\ n.last = FALSE
      BY <1>0, <2>1, <2>4, <3>1, <3>2, StepIs
    <3>. HIDE DEF n
    <3>. QED  BY <1>0, <2>2, <2>4, <3>3 DEF Stands
  <2>5. CASE q < z
    <3>. HIDE DEF i
    <3>1. d[i] = d[i - 1] + Change(t[q]) /\ d[i] \in Nat
      <4>1. i \in 1 .. z - a - 1 /\ a + i = q  BY <1>0, <1>3, <2>5 DEF i
      <4>2. i \in 0 .. z - a - 1  BY <4>1
      <4>3. /\ d \in [0 .. z - a - 1 -> Nat]
            /\ \A j \in 1 .. z - a - 1 : d[j] = d[j - 1] + Change(t[a + j])
        BY DEF ObjectAt
      <4>. QED  BY <4>1, <4>2, <4>3
    <3>2. /\ n \in Scanning /\ n.pos = q + 1 /\ n.braces = d[i] + 1
          /\ n.opening = a /\ n.closing = 0 /\ n.last = FALSE
      <4>1. CASE t[s.pos] = "lbrace"
        <5>1. d[i] = d[i - 1] + 1  BY <2>1, <3>1, <4>1 DEF Change
        <5>. QED  BY <1>0, <2>1, <2>3, <4>1, <5>1, StepIs
      <4>2. CASE t[s.pos] = "rbrace"
        <5>1. d[i] = d[i - 1] - 1  BY <2>1, <2>3, <3>1, <4>2 DEF Change
        <5>2. s.braces > 1  BY <2>1, <2>3, <3>1, <5>1
        <5>3. /\ n \in Scanning /\ n.pos = s.pos + 1 /\ n.braces = s.braces - 1
              /\ n.opening = s.opening /\ n.last = s.last
              /\ n.closing = IF s.braces = 1 THEN s.pos ELSE s.closing
          BY <1>0, <4>2, <5>2, StepIs
        <5>. QED  BY <2>1, <2>3, <5>1, <5>2, <5>3
      <4>3. CASE t[s.pos] \notin {"lbrace", "rbrace"}
        <5>1. d[i] = d[i - 1]  BY <2>1, <2>3, <3>1, <4>3 DEF Change
        <5>2. s.braces # 0  BY <2>1, <2>3
        <5>3. /\ n \in Scanning /\ n.pos = q + 1 /\ n.braces = s.braces
              /\ n.opening = s.opening /\ n.closing = s.closing
          BY <1>0, <2>1, <4>3, StepIs
        <5>4. n.last = FALSE
          <6>1. CASE t[s.pos] = "rbracket"
            <7>1. n.last = (s.braces = 0 /\ s.brackets <= 1)  BY <1>0, <6>1, StepIs
            <7>. QED  BY <5>2, <7>1
          <6>2. CASE t[s.pos] = "lbracket"
            <7>1. n.last = s.last  BY <1>0, <6>2, StepIs
            <7>. QED  BY <2>1, <7>1
          <6>3. CASE t[s.pos] \notin {"lbracket", "rbracket"}
            <7>1. n.last = s.last  BY <1>0, <4>3, <6>3, StepIs
            <7>. QED  BY <2>1, <7>1
          <6>. QED  BY <6>1, <6>2, <6>3
        <5>. QED  BY <2>1, <5>1, <5>3, <5>4
      <4>. QED  BY <4>1, <4>2, <4>3
    <3>3. q + 1 - 1 - a = i  BY <1>0 DEF i
    <3>. HIDE DEF n
    <3>. QED  BY <1>0, <1>3, <2>2, <2>5, <3>2, <3>3 DEF Stands
  <2>. QED  BY <1>0, <1>3, <2>4, <2>5
<1>4. CASE q > z
  <2>1. ScanOn(t, s) = s
    BY <1>0, <1>4 DEF ScanOn, Json!Stopped, Stands
  <2>. QED  BY <1>0, <1>4, <2>1 DEF Stands
<1>. QED  BY <1>0, <1>1, <1>2, <1>3, <1>4

\* The scan of such a text ends after the object.
LEMMA ObjectScanned ==
  ASSUME NEW t \in Seq(Symbols), NEW p \in 1..Len(t), NEW a, NEW z, NEW d,
         ObjectAt(t, a, z, d), Leads(t, p, a), p <= a
  PROVE  /\ Json!Scan(t, p).opening = a /\ Json!Scan(t, p).closing = z
         /\ Json!Scan(t, p).pos = z + 1 /\ Json!Scan(t, p).last = FALSE
<1>1. PICK at : ScansAs(at, t, p)  BY ScanSteps
<1>. DEFINE N == Len(t) + 1 - p
            S == {k \in 0..N : Stands(at[p + k], p + k, a, z, d)}
<1>0. Len(t) \in Nat /\ N \in Nat /\ p + N = Len(t) + 1 /\ p \in Nat
      /\ a \in Nat /\ z \in Nat /\ z > a /\ z <= Len(t)
  BY DEF ObjectAt
<1>. HIDE DEF N
<1>2. 0 \in S
  <2>1. at[p] = Json!Start(p)  BY <1>1 DEF ScansAs
  <2>2. Stands(at[p], p, a, z, d)
    <3>. DEFINE s == at[p]
    <3>1. /\ s \in Scanning /\ s.pos = p /\ s.braces = 0
          /\ s.opening = 0 /\ s.closing = 0 /\ s.last = FALSE
      BY <1>0, <2>1, StartIs
    <3>. HIDE DEF s
    <3>2. p <= a /\ ~ p \in a + 1 .. z /\ ~ p > z  BY <1>0
    <3>3. Stands(s, p, a, z, d)  BY <3>1, <3>2 DEF Stands
    <3>. QED  BY <3>3 DEF s
  <2>. QED  BY <1>0, <2>2
<1>3. ASSUME NEW k \in 0 .. N - 1, k \in S
      PROVE  k + 1 \in S
  <2>. DEFINE q == p + k
  <2>1. q + 1 \in p + 1 .. Len(t) + 1 /\ q + 1 - 1 = q /\ q \in p .. Len(t)
    BY <1>0
  <2>2. at[q + 1] = ScanOn(t, at[q])
    <3>. HIDE DEF q
    <3>. QED  BY <1>1, <2>1 DEF ScansAs
  <2>3. Stands(at[q], q, a, z, d)  BY <1>3
  <2>4. Stands(at[q + 1], q + 1, a, z, d)
    <3>. HIDE DEF q
    <3>. QED  BY <2>1, <2>2, <2>3, StandsOn
  <2>5. q + 1 = p + (k + 1) /\ k + 1 \in 0..N  BY <1>0
  <2>. HIDE DEF q
  <2>. QED  BY <2>4, <2>5
<1>. HIDE DEF S
<1>4. \A k \in 0..N : k \in S  BY <1>0, <1>2, <1>3, UpTo
<1>5. N \in S  BY <1>0, <1>4
<1>. USE DEF S
<1>6. Stands(at[Len(t) + 1], Len(t) + 1, a, z, d)  BY <1>0, <1>5
<1>7. Json!Scan(t, p) = at[Len(t) + 1]  BY <1>1 DEF ScansAs
<1>. QED  BY <1>0, <1>6, <1>7 DEF Stands

\* Before anything but the bracket or comma in front.
Waits(s, q, p) ==
  /\ s \in Scanning /\ s.pos = q /\ s.braces = 0 /\ s.opening = 0
  /\ s.closing = 0 /\ s.last = FALSE /\ s.brackets <= q - p

LEMMA LeadScanned ==
  ASSUME NEW t \in Seq(Symbols), NEW p \in 1 .. Len(t) + 1, NEW at, ScansAs(at, t, p),
         NEW m \in p .. Len(t) + 1, Leads(t, p, m)
  PROVE  Waits(at[m], m, p)
<1>. DEFINE N == m - p
            S == {k \in 0..N : Waits(at[p + k], p + k, p)}
<1>0. Len(t) \in Nat /\ N \in Nat /\ p + N = m /\ p \in Nat /\ m \in Nat
  OBVIOUS
<1>. HIDE DEF N
<1>2. 0 \in S
  <2>1. at[p] = Json!Start(p)  BY DEF ScansAs
  <2>. DEFINE s == at[p]
  <2>2. /\ s \in Scanning /\ s.pos = p /\ s.braces = 0 /\ s.brackets = 0
        /\ s.opening = 0 /\ s.closing = 0 /\ s.last = FALSE
    BY <1>0, <2>1, StartIs
  <2>. HIDE DEF s
  <2>3. Waits(s, p, p)  BY <1>0, <2>2 DEF Waits
  <2>. USE DEF s
  <2>. QED  BY <1>0, <2>3
<1>3. ASSUME NEW k \in 0 .. N - 1, k \in S
      PROVE  k + 1 \in S
  <2>. DEFINE q == p + k
              s == at[q]
              n == Json!Step(t, s)
  <2>1. q + 1 \in p + 1 .. Len(t) + 1 /\ q + 1 - 1 = q /\ q \in p .. m - 1 /\ q \in Nat
    BY <1>0
  <2>2. at[q + 1] = ScanOn(t, s)
    <3>. HIDE DEF q
    <3>. QED  BY <2>1 DEF ScansAs
  <2>3. Waits(s, q, p)  BY <1>3
  <2>4. k + 1 \in 0..N /\ q + 1 = p + (k + 1)  BY <1>0
  <2>. HIDE DEF q, s
  <2>5. t[s.pos] \in {"lbracket", "comma"}  BY <2>1, <2>3 DEF Waits, Leads
  <2>6. ScanOn(t, s) = n  BY <2>3 DEF Waits, ScanOn, Json!Stopped
  <2>7. s \in Scanning  BY <2>3 DEF Waits
  <2>8. s.brackets \in Int  BY <2>7 DEF Scanning
  <2>9. /\ n \in Scanning /\ n.pos = q + 1 /\ n.braces = 0 /\ n.opening = 0
        /\ n.closing = 0 /\ n.last = FALSE
    <3>1. t[s.pos] \notin {"lbrace", "rbrace"}  BY <2>5
    <3>2. /\ n \in Scanning /\ n.pos = s.pos + 1 /\ n.braces = s.braces
          /\ n.opening = s.opening /\ n.closing = s.closing
      BY <2>7, <3>1, StepIs
    <3>3. n.last = s.last  BY <2>5, <2>7, StepIs
    <3>. QED  BY <2>3, <3>2, <3>3 DEF Waits
  <2>10. n.brackets \in {s.brackets, s.brackets + 1}
    <3>1. CASE t[s.pos] = "lbracket"  BY <2>7, <3>1, StepIs
    <3>2. CASE t[s.pos] = "comma"
      <4>1. t[s.pos] \notin {"lbrace", "rbrace", "lbracket", "rbracket"}  BY <3>2
      <4>. QED  BY <2>7, <4>1, StepIs
    <3>. QED  BY <2>5, <3>1, <3>2
  <2>. HIDE DEF n
  <2>11. n.brackets <= (q + 1) - p
    BY <1>0, <2>1, <2>3, <2>8, <2>10 DEF Waits
  <2>12. Waits(n, q + 1, p)  BY <2>9, <2>11 DEF Waits
  <2>. QED  BY <2>2, <2>4, <2>6, <2>12
<1>. HIDE DEF S
<1>4. \A k \in 0..N : k \in S  BY <1>0, <1>2, <1>3, UpTo
<1>5. N \in S  BY <1>0, <1>4
<1>. USE DEF S
<1>. QED  BY <1>0, <1>5

\* The scan of the end of a text finds no object, and the bracket if it is there.
LEMMA NothingScanned ==
  ASSUME NEW t \in Seq(Symbols), NEW p \in 1..Len(t), Leads(t, p, Len(t) + 1)
  PROVE  /\ ~ Json!Scan(t, p).closing > Json!Scan(t, p).opening
         /\ Json!Scan(t, p).pos = Len(t) + 1 /\ Json!Scan(t, p).last = FALSE
<1>1. PICK at : ScansAs(at, t, p)  BY ScanSteps
<1>2. Waits(at[Len(t) + 1], Len(t) + 1, p)
  <2>1. p \in 1 .. Len(t) + 1 /\ Len(t) + 1 \in p .. Len(t) + 1  OBVIOUS
  <2>. QED  BY <1>1, <2>1, LeadScanned
<1>3. Json!Scan(t, p) = at[Len(t) + 1]  BY <1>1 DEF ScansAs
<1>. QED  BY <1>2, <1>3 DEF Waits

LEMMA EndScanned ==
  ASSUME NEW t \in Seq(Symbols), NEW p \in 1..Len(t), Leads(t, p, Len(t)),
         t[Len(t)] = "rbracket", Len(t) <= p + 1
  PROVE  Json!Scan(t, p).last = TRUE
<1>1. PICK at : ScansAs(at, t, p)  BY ScanSteps
<1>. DEFINE q == Len(t)
            s == at[q]
            n == Json!Step(t, s)
<1>2. q \in Nat /\ p \in 1 .. q + 1 /\ q \in p .. q + 1 /\ q + 1 \in p + 1 .. q + 1
      /\ q + 1 - 1 = q
  OBVIOUS
<1>3. Waits(s, q, p)
  <2>. HIDE DEF s
  <2>1. Waits(at[Len(t)], Len(t), p)  BY <1>1, <1>2, LeadScanned
  <2>. QED  BY <2>1 DEF s
<1>4. at[q + 1] = ScanOn(t, s) /\ Json!Scan(t, p) = at[q + 1]
  BY <1>1, <1>2 DEF ScansAs
<1>. HIDE DEF s
<1>5. t[s.pos] = "rbracket" /\ s \in Scanning /\ s.braces = 0 /\ s.brackets <= 1
  BY <1>2, <1>3 DEF Waits, Scanning
<1>6. ScanOn(t, s) = n  BY <1>3 DEF Waits, ScanOn, Json!Stopped
<1>7. n.last = (s.braces = 0 /\ s.brackets <= 1)  BY <1>5, StepIs
<1>. QED  BY <1>4, <1>5, <1>6, <1>7

-----------------------------------------------------------------------------
\* The loop over a chunk, by the scan from each position.
ItemsAt(t, p, f) ==
  IF p > Len(t) THEN <<>>
  ELSE IF Json!Scan(t, p).last THEN <<"rbracket">>
  ELSE IF Json!Scan(t, p).closing > Json!Scan(t, p).opening
  THEN <<SubSeq(t, Json!Scan(t, p).opening, Json!Scan(t, p).closing)>>
         \o f[Json!Scan(t, p).pos]
  ELSE f[Json!Scan(t, p).pos]

LEMMA ItemsSteps ==
  ASSUME NEW t \in Seq(Symbols)
  PROVE  \E f : /\ \A p \in 1 .. Len(t) + 1 : f[p] = ItemsAt(t, p, f)
                /\ Json!Items(t) = f[1]
<1>. DEFINE L == Len(t)
            Is(f, k) == f = [p \in L + 1 - k .. L + 1 |-> ItemsAt(t, p, f)]
            S == {k \in 0..L : \E f : Is(f, k)}
<1>0. L \in Nat  OBVIOUS
<1>1. 0 \in S
  <2>. DEFINE g == [p \in L + 1 - 0 .. L + 1 |-> <<>>]
  <2>1. ASSUME NEW p \in L + 1 - 0 .. L + 1
        PROVE  ItemsAt(t, p, g) = <<>>
    <3>. HIDE DEF g
    <3>1. p > Len(t)  BY <1>0
    <3>. QED  BY <3>1 DEF ItemsAt
  <2>2. Is(g, 0)
    <3>1. \A p \in L + 1 - 0 .. L + 1 : g[p] = ItemsAt(t, p, g)
      BY <2>1
    <3>. QED  BY <3>1
  <2>. HIDE DEF Is
  <2>. QED  BY <1>0, <2>2
<1>2. ASSUME NEW k \in 0 .. L - 1, k \in S
      PROVE  k + 1 \in S
  <2>1. PICK f : Is(f, k)
    <3>. HIDE DEF Is
    <3>. QED  BY <1>2
  <2>. DEFINE m == L - k
              g == [p \in L + 1 - (k + 1) .. L + 1 |->
                      IF p = m THEN ItemsAt(t, m, f) ELSE f[p]]
  <2>0. /\ m \in 1..L /\ L + 1 - (k + 1) = m /\ L + 1 - k = m + 1 /\ k + 1 \in 0..L
    BY <1>0
  <2>2. ASSUME NEW p \in m .. L + 1
        PROVE  g[p] = ItemsAt(t, p, g)
    <3>. DEFINE n == Json!Scan(t, p).pos
    <3>1. CASE p > L
      <4>1. p = L + 1 /\ p # m  BY <2>0, <3>1
      <4>4. p \in m + 1 .. L + 1  BY <2>0, <4>1
      <4>5. f[p] = ItemsAt(t, p, f)  BY <2>0, <2>1, <4>4
      <4>2. f[p] = ItemsAt(t, p, f) /\ g[p] = f[p]  BY <2>0, <4>1, <4>5
      <4>3. ItemsAt(t, p, f) = <<>> /\ ItemsAt(t, p, g) = <<>>
        <5>. HIDE DEF g
        <5>. QED  BY <3>1 DEF ItemsAt
      <4>. QED  BY <4>2, <4>3
    <3>2. CASE p <= L
      <4>1. n \in p + 1 .. L + 1
        <5>1. p \in 1 .. Len(t)  BY <2>0, <3>2
        <5>. QED  BY <5>1, ScanGoesOn
      <4>2. g[n] = f[n]  BY <2>0, <4>1
      <4>3. ItemsAt(t, p, g) = ItemsAt(t, p, f)
        <5>. HIDE DEF g
        <5>. QED  BY <4>2 DEF ItemsAt
      <4>4. g[p] = ItemsAt(t, p, f)
        <5>1. CASE p = m  BY <2>0, <5>1
        <5>2. CASE p # m
          <6>1. p \in m + 1 .. L + 1  BY <2>0, <5>2
          <6>2. f[p] = ItemsAt(t, p, f)  BY <2>0, <2>1, <6>1
          <6>. QED  BY <2>0, <5>2, <6>2
        <5>. QED  BY <5>1, <5>2
      <4>. QED  BY <4>3, <4>4
    <3>. QED  BY <2>0, <3>1, <3>2
  <2>3. Is(g, k + 1)
    <3>1. DOMAIN g = L + 1 - (k + 1) .. L + 1
          /\ \A p \in L + 1 - (k + 1) .. L + 1 : g[p] = ItemsAt(t, p, g)
      BY <2>0, <2>2
    <3>2. g = [p \in L + 1 - (k + 1) .. L + 1 |-> g[p]]  OBVIOUS
    <3>. HIDE DEF g
    <3>. QED  BY <3>1, <3>2
  <2>. HIDE DEF Is
  <2>. QED  BY <2>0, <2>3
<1>3. L \in S
  <2>. HIDE DEF S, L
  <2>1. \A k \in 0..L : k \in S  BY <1>0, <1>1, <1>2, UpTo
  <2>. QED  BY <1>0, <2>1
<1>4. \E f : Is(f, L)
  <2>. HIDE DEF Is, L
  <2>. QED  BY <1>3
<1>. DEFINE items[p \in 1 .. Len(t) + 1] ==
        LET s == Json!Scan(t, p)
        IN  IF p > Len(t) THEN <<>>
            ELSE IF s.last THEN <<"rbracket">>
            ELSE IF s.closing > s.opening
            THEN <<SubSeq(t, s.opening, s.closing)>> \o items[s.pos]
            ELSE items[s.pos]
<1>5. Is(items, L)
  <2>1. L + 1 - L = 1  BY <1>0
  <2>. QED  BY <1>4, <2>1 DEF ItemsAt
<1>6. Json!Items(t) = items[1]
  BY DEF Json!Items
<1>. HIDE DEF items
<1>7. \A p \in 1 .. L + 1 : items[p] = ItemsAt(t, p, items)
  <2>1. L + 1 - L = 1  BY <1>0
  <2>2. items = [p \in L + 1 - L .. L + 1 |-> ItemsAt(t, p, items)]  BY <1>5
  <2>. QED  BY <2>1, <2>2
<1>. QED  BY <1>6, <1>7

\* A chunk, piece by piece: e[i] is where the object i ends.
Sep(i) == IF i = 1 THEN <<>> ELSE <<"comma">>
PieceAt(u, objects, e, i) ==
  /\ e[i] = e[i - 1] + Len(Sep(i)) + Len(objects[i])
  /\ \A j \in 1 .. Len(Sep(i)) : u[e[i - 1] + j] = "comma"
  /\ \A j \in 1 .. Len(objects[i]) : u[e[i] - Len(objects[i]) + j] = objects[i][j]
Pieces(u, first, objects, e, k) ==
  /\ u \in Seq(Symbols) /\ e[0] = Len(first)
  /\ \A i \in 0..k : e[i] \in 0..Len(u)
  /\ \A j \in 1..Len(first) : u[j] = first[j]
  /\ \A i \in 1..k : PieceAt(u, objects, e, i)

LEMMA LenIs ==
  ASSUME NEW S, NEW s \in Seq(S)
  PROVE  Len(s) \in Nat
OBVIOUS

LEMMA OneIs ==
  ASSUME NEW S, NEW c \in S
  PROVE  <<c>> \in Seq(S) /\ Len(<<c>>) = 1 /\ <<c>>[1] = c
OBVIOUS

LEMMA ElementIs ==
  ASSUME NEW S, NEW s \in Seq(S), NEW i \in 1..Len(s)
  PROVE  s[i] \in S
OBVIOUS

LEMMA SepIs ==
  ASSUME NEW i \in Nat
  PROVE  /\ Sep(i) \in Seq(Symbols) /\ Len(Sep(i)) = (IF i = 1 THEN 0 ELSE 1)
         /\ \A j \in 1 .. Len(Sep(i)) : Sep(i)[j] = "comma"
<1>1. CASE i = 1  BY <1>1 DEF Sep
<1>2. CASE i # 1
  <2>1. "comma" \in Symbols  BY SymbolsAre
  <2>. QED  BY <1>2, <2>1 DEF Sep
<1>. QED  BY <1>1, <1>2

LEMMA Inside ==
  ASSUME NEW a \in Nat, NEW b \in Nat, NEW m \in Nat, NEW n \in Nat, NEW l \in Nat,
         b = a + m + n, b <= l
  PROVE  /\ \A j \in 1..m : a + j \in 1..l
         /\ \A j \in 1..n : b - n + j \in 1..l
OBVIOUS

LEMMA PiecesStay ==
  ASSUME NEW u, NEW v \in Seq(Symbols), NEW first \in Seq(Symbols),
         NEW objects \in Seq(Seq(Symbols)),
         NEW e, NEW k \in 0..Len(objects), Pieces(u, first, objects, e, k), Len(u) <= Len(v),
         \A j \in 1..Len(u) : v[j] = u[j]
  PROVE  Pieces(v, first, objects, e, k)
<1>0. /\ u \in Seq(Symbols) /\ e[0] = Len(first) /\ Len(first) <= Len(u)
      /\ Len(u) \in Nat /\ Len(v) \in Nat /\ Len(first) \in Nat
  BY DEF Pieces
<1>1. \A i \in 0..k : e[i] \in 0..Len(u) /\ e[i] \in 0..Len(v)
  BY <1>0 DEF Pieces
<1>2. ASSUME NEW i \in 1..k
      PROVE  PieceAt(v, objects, e, i)
  <2>1. /\ e[i] = e[i - 1] + Len(Sep(i)) + Len(objects[i])
        /\ \A j \in 1 .. Len(Sep(i)) : u[e[i - 1] + j] = "comma"
        /\ \A j \in 1 .. Len(objects[i]) : u[e[i] - Len(objects[i]) + j] = objects[i][j]
    BY DEF Pieces, PieceAt
  <2>2. Len(objects[i]) \in Nat /\ Len(Sep(i)) \in Nat /\ i \in Nat
    <3>1. i \in Nat /\ i \in 1..Len(objects)  OBVIOUS
    <3>2. objects[i] \in Seq(Symbols)  BY <3>1
    <3>3. Len(objects[i]) \in Nat  BY <3>2, LenIs
    <3>4. Len(Sep(i)) \in Nat  BY <3>1, SepIs
    <3>. QED  BY <3>1, <3>3, <3>4
  <2>3. i - 1 \in 0..k /\ i \in 0..k  OBVIOUS
  <2>4. e[i] \in Nat /\ e[i - 1] \in Nat /\ e[i] <= Len(u)  BY <1>0, <1>1, <2>3
  <2>5. /\ \A j \in 1 .. Len(Sep(i)) : e[i - 1] + j \in 1..Len(u)
        /\ \A j \in 1 .. Len(objects[i]) : e[i] - Len(objects[i]) + j \in 1..Len(u)
    <3>1. e[i] = e[i - 1] + Len(Sep(i)) + Len(objects[i])  BY <2>1
    <3>. QED  BY ONLY <1>0, <2>2, <2>4, <3>1, Inside
  <2>. QED  BY <2>1, <2>5 DEF PieceAt
<1>3. \A j \in 1..Len(first) : v[j] = first[j]
  BY <1>0 DEF Pieces
<1>. QED  BY <1>0, <1>1, <1>2, <1>3 DEF Pieces

LEMMA PiecesMore ==
  ASSUME NEW u \in Seq(Symbols), NEW first \in Seq(Symbols),
         NEW objects \in Seq(Seq(Symbols)),
         NEW e, NEW k \in 0 .. Len(objects) - 1, Pieces(u, first, objects, e, k),
         e[k] = Len(u),
         NEW v, v = u \o Sep(k + 1) \o objects[k + 1], e[k + 1] = Len(v)
  PROVE  Pieces(v, first, objects, e, k + 1)
<1>. DEFINE i == k + 1
            o == objects[i]
            w == u \o Sep(i)
<1>0. i \in 1..Len(objects) /\ i \in Nat /\ Len(objects) \in Nat /\ k \in 0..Len(objects)
      /\ i - 1 = k
  OBVIOUS
<1>1. o \in Seq(Symbols) /\ Len(o) \in Nat /\ Sep(i) \in Seq(Symbols) /\ Len(Sep(i)) \in Nat
      /\ Len(u) \in Nat
  <2>1. o \in Seq(Symbols)  BY <1>0
  <2>2. Sep(i) \in Seq(Symbols)  BY <1>0, SepIs
  <2>. HIDE DEF o, i
  <2>. QED  BY <2>1, <2>2, LenIs
<1>2. /\ w \in Seq(Symbols) /\ Len(w) = Len(u) + Len(Sep(i))
      /\ \A j \in 1..Len(u) : w[j] = u[j]
      /\ \A j \in 1..Len(Sep(i)) : w[Len(u) + j] = Sep(i)[j]
  BY <1>1, JoinIs
<1>. HIDE DEF w
<1>3. /\ w \o o \in Seq(Symbols) /\ Len(w \o o) = Len(w) + Len(o)
      /\ \A j \in 1..Len(w) : (w \o o)[j] = w[j]
      /\ \A j \in 1..Len(o) : (w \o o)[Len(w) + j] = o[j]
  <2>1. w \in Seq(Symbols) /\ o \in Seq(Symbols)  BY <1>1, <1>2
  <2>. HIDE DEF o
  <2>. QED  BY ONLY <2>1, JoinIs
<1>4. v = w \o o  BY DEF w
<1>. HIDE DEF o, i
<1>5. /\ v \in Seq(Symbols) /\ Len(v) = Len(u) + Len(Sep(i)) + Len(o)
      /\ \A j \in 1..Len(u) : v[j] = u[j]
      /\ \A j \in 1..Len(Sep(i)) : v[Len(u) + j] = Sep(i)[j]
      /\ \A j \in 1..Len(o) : v[Len(v) - Len(o) + j] = o[j]
  <2>1. \A j \in 1..Len(Sep(i)) : Len(u) + j \in 1..Len(w)  BY <1>1, <1>2
  <2>2. \A j \in 1..Len(u) : j \in 1..Len(w)  BY <1>1, <1>2
  <2>3. Len(v) = Len(w) + Len(o) /\ Len(v) - Len(o) = Len(w)
    <3>1. Len(w) \in Nat /\ Len(v) = Len(w) + Len(o)  BY <1>2, <1>3, <1>4, LenIs
    <3>. QED  BY ONLY <1>1, <3>1
  <2>. QED  BY <1>1, <1>2, <1>3, <1>4, <2>1, <2>2, <2>3
<1>6. Pieces(v, first, objects, e, k)
  <2>1. Len(u) <= Len(v)  BY ONLY <1>1, <1>5
  <2>2. v \in Seq(Symbols) /\ \A j \in 1..Len(u) : v[j] = u[j]  BY <1>5
  <2>. QED  BY <1>0, <2>1, <2>2, PiecesStay
<1>7. PieceAt(v, objects, e, i)
  <2>1. e[i] = Len(v) /\ e[i - 1] = Len(u)  BY <1>0 DEF i
  <2>2. \A j \in 1..Len(Sep(i)) : Sep(i)[j] = "comma"
    <3>1. i \in Nat  BY <1>0 DEF i
    <3>. QED  BY <3>1, SepIs
  <2>. QED  BY <1>5, <2>1, <2>2 DEF PieceAt, o
<1>8. e[i] \in 0..Len(v)
  <2>1. e[i] = Len(v) /\ Len(v) \in Nat  BY <1>5, LenIs DEF i
  <2>. QED  BY ONLY <2>1
<1>. QED
  <2>1. \A j \in 0..i : j \in 0..k \/ j = i  BY <1>0 DEF i
  <2>2. \A j \in 1..i : j \in 1..k \/ j = i  BY <1>0 DEF i
  <2>3. Pieces(v, first, objects, e, i)  BY <1>6, <1>7, <1>8, <2>1, <2>2 DEF Pieces
  <2>. QED  BY <2>3 DEF i

ChunksAs(c, first, objects, end) ==
  /\ c[0] = first
  /\ \A i \in 1..Len(objects) : c[i] = c[i - 1] \o Sep(i) \o objects[i]
  /\ Json!Chunk(first, objects, end) = c[Len(objects)] \o end

LEMMA ChunkSteps ==
  ASSUME NEW first, NEW objects \in Seq(Seq(Symbols)), NEW end
  PROVE  \E c : ChunksAs(c, first, objects, end)
<1>. DEFINE N == Len(objects)
            More(u, i) == u \o Sep(i) \o objects[i]
            Is(f, k) == f = [i \in 0..k |-> IF i = 0 THEN first ELSE More(f[i - 1], i)]
            S == {k \in 0..N : \E f : Is(f, k)}
<1>0. N \in Nat  OBVIOUS
<1>1. 0 \in S
  <2>1. Is([i \in 0..0 |-> first], 0)  OBVIOUS
  <2>. HIDE DEF Is
  <2>. QED  BY <1>0, <2>1
<1>2. ASSUME NEW k \in 0 .. N - 1, k \in S
      PROVE  k + 1 \in S
  <2>1. PICK f : Is(f, k)
    <3>. HIDE DEF Is
    <3>. QED  BY <1>2
  <2>. DEFINE g == [i \in 0 .. k + 1 |-> IF i = k + 1 THEN More(f[k], i) ELSE f[i]]
  <2>. HIDE DEF More
  <2>2. ASSUME NEW i \in 0 .. k + 1
        PROVE  g[i] = IF i = 0 THEN first ELSE More(g[i - 1], i)
    <3>1. CASE i = 0  BY <2>1, <3>1
    <3>2. CASE i \in 1..k
      <4>1. f[i] = More(f[i - 1], i)  BY <2>1, <3>2
      <4>. QED  BY <3>2, <4>1
    <3>3. CASE i = k + 1  BY <3>3
    <3>. QED  BY <3>1, <3>2, <3>3
  <2>3. Is(g, k + 1)  BY <2>2
  <2>. HIDE DEF Is
  <2>. QED  BY <1>0, <2>3
<1>3. N \in S
  <2>. HIDE DEF S, N
  <2>1. \A k \in 0..N : k \in S  BY <1>0, <1>1, <1>2, UpTo
  <2>. QED  BY <1>0, <2>1
<1>4. \E f : Is(f, N)
  <2>. HIDE DEF Is
  <2>. QED  BY <1>3
<1>. DEFINE chunk[i \in 0..Len(objects)] ==
        IF i = 0 THEN first
        ELSE chunk[i - 1] \o (IF i = 1 THEN <<>> ELSE <<"comma">>) \o objects[i]
<1>5. Is(chunk, N)
  BY <1>4 DEF Sep
<1>6. Json!Chunk(first, objects, end) = chunk[N] \o end
  BY DEF Json!Chunk
<1>. HIDE DEF chunk
<1>7. chunk[0] = first /\ \A i \in 1..N : chunk[i] = chunk[i - 1] \o Sep(i) \o objects[i]
  <2>. HIDE DEF N, More
  <2>1. \A i \in 0..N : chunk[i] = IF i = 0 THEN first ELSE More(chunk[i - 1], i)
    BY <1>5
  <2>2. chunk[0] = first /\ \A i \in 1..N : chunk[i] = More(chunk[i - 1], i)
    BY <1>0, <2>1
  <2>. QED  BY <2>2 DEF More
<1>8. ChunksAs(chunk, first, objects, end)  BY <1>6, <1>7 DEF ChunksAs
<1>. QED  BY <1>8

LEMMA ChunkLaid ==
  ASSUME NEW first \in Seq(Symbols), NEW objects \in Seq(Seq(Symbols)), NEW end \in Seq(Symbols),
         NEW t, t = Json!Chunk(first, objects, end)
  PROVE  \E e : /\ Pieces(t, first, objects, e, Len(objects))
                /\ Len(t) = e[Len(objects)] + Len(end)
                /\ \A j \in 1..Len(end) : t[e[Len(objects)] + j] = end[j]
<1>1. PICK c : /\ c[0] = first
               /\ \A i \in 1..Len(objects) : c[i] = c[i - 1] \o Sep(i) \o objects[i]
               /\ t = c[Len(objects)] \o end
  <2>1. PICK c : ChunksAs(c, first, objects, end)  BY ChunkSteps
  <2>. QED  BY <2>1 DEF ChunksAs
<1>. DEFINE N == Len(objects)
            e == [i \in 0..N |-> Len(c[i])]
            S == {k \in 0..N : Pieces(c[k], first, objects, e, k)}
<1>0. N \in Nat /\ Len(first) \in Nat  BY LenIs
<1>. HIDE DEF N
<1>e. \A i \in 0..N : e[i] = Len(c[i])  OBVIOUS
<1>. HIDE DEF e
<1>2. 0 \in S
  <2>1. e[0] = Len(first) /\ c[0] = first  BY <1>0, <1>1, <1>e
  <2>2. \A i \in 0..0 : e[i] \in 0..Len(c[0])  BY <1>0, <2>1
  <2>3. \A j \in 1..Len(first) : c[0][j] = first[j]  BY <2>1
  <2>4. \A i \in 1..0 : PieceAt(c[0], objects, e, i)  OBVIOUS
  <2>5. Pieces(c[0], first, objects, e, 0)  BY <2>1, <2>2, <2>3, <2>4 DEF Pieces
  <2>. QED  BY <1>0, <2>5
<1>3. ASSUME NEW k \in 0 .. N - 1, k \in S
      PROVE  k + 1 \in S
  <2>1. Pieces(c[k], first, objects, e, k)  BY <1>3
  <2>2. k + 1 \in 1..N /\ k + 1 - 1 = k /\ k \in 0..N /\ k + 1 \in 0..N  BY <1>0
  <2>3. c[k + 1] = c[k] \o Sep(k + 1) \o objects[k + 1]
    <3>1. ASSUME NEW i \in 1..N
          PROVE  c[i] = c[i - 1] \o Sep(i) \o objects[i]
      BY <1>1 DEF N
    <3>. DEFINE i == k + 1
    <3>2. i \in 1..N /\ i - 1 = k  BY <2>2
    <3>. HIDE DEF i
    <3>3. c[i] = c[i - 1] \o Sep(i) \o objects[i]  BY <3>1, <3>2
    <3>4. c[i] = c[k] \o Sep(i) \o objects[i]  BY <3>2, <3>3
    <3>. QED  BY <3>4 DEF i
  <2>4. e[k] = Len(c[k]) /\ e[k + 1] = Len(c[k + 1])  BY <1>e, <2>2
  <2>5. c[k] \in Seq(Symbols)  BY <2>1 DEF Pieces
  <2>6. k \in 0 .. Len(objects) - 1  BY DEF N
  <2>7. Pieces(c[k + 1], first, objects, e, k + 1)
    BY <2>1, <2>3, <2>4, <2>5, <2>6, PiecesMore
  <2>. QED  BY <2>2, <2>7
<1>. HIDE DEF S
<1>4. \A k \in 0..N : k \in S  BY <1>0, <1>2, <1>3, UpTo
<1>5. N \in S  BY <1>0, <1>4
<1>. USE DEF S
<1>6. Pieces(c[N], first, objects, e, N) /\ c[N] \in Seq(Symbols)  BY <1>5 DEF Pieces
<1>7. /\ t \in Seq(Symbols) /\ Len(t) = Len(c[N]) + Len(end)
      /\ \A j \in 1..Len(c[N]) : t[j] = c[N][j]
      /\ \A j \in 1..Len(end) : t[Len(c[N]) + j] = end[j]
  <2>. DEFINE u == c[N]
  <2>1. t = u \o end /\ u \in Seq(Symbols)  BY <1>1, <1>6 DEF N
  <2>. HIDE DEF u
  <2>2. /\ t \in Seq(Symbols) /\ Len(t) = Len(u) + Len(end)
        /\ \A j \in 1..Len(u) : t[j] = u[j]
        /\ \A j \in 1..Len(end) : t[Len(u) + j] = end[j]
    BY <2>1, JoinIs
  <2>. QED  BY <2>2 DEF u
<1>8. e[N] = Len(c[N])  BY <1>0, <1>e
<1>9. Pieces(t, first, objects, e, N)
  <2>1. Len(c[N]) \in Nat /\ Len(end) \in Nat  BY <1>6, LenIs
  <2>2. Len(c[N]) <= Len(t)  BY ONLY <1>7, <2>1
  <2>3. N \in 0..Len(objects)  BY <1>0 DEF N
  <2>. QED  BY <1>6, <1>7, <2>2, <2>3, PiecesStay
<1>. QED  BY <1>7, <1>8, <1>9 DEF N

LEMMA OneMoreObject ==
  ASSUME NEW S, NEW o \in Seq(S), NEW e \in Seq(S), NEW i \in 0 .. Len(o) - 1
  PROVE  <<o[i + 1]>> \o (SubSeq(o, i + 2, Len(o)) \o e) = SubSeq(o, i + 1, Len(o)) \o e
<1>. DEFINE n == Len(o)
            x == <<o[i + 1]>>
            u == SubSeq(o, i + 2, n)
            v == SubSeq(o, i + 1, n)
<1>0. n \in Nat /\ i \in Nat /\ i < n  OBVIOUS
<1>1. x \in Seq(S) /\ Len(x) = 1 /\ x[1] = o[i + 1]
  <2>1. o[i + 1] \in S  BY <1>0
  <2>. QED  BY <2>1
<1>2. u \in Seq(S) /\ Len(u) = n - i - 1 /\ \A j \in 1 .. n - i - 1 : u[j] = o[i + 1 + j]
  OBVIOUS
<1>3. v \in Seq(S) /\ Len(v) = n - i /\ \A j \in 1 .. n - i : v[j] = o[i + j]
  OBVIOUS
<1>. HIDE DEF n, x, u, v
<1>4. x \o u \in Seq(S) /\ Len(x \o u) = n - i /\ \A j \in 1 .. n - i : (x \o u)[j] = o[i + j]
  <2>1. /\ x \o u \in Seq(S) /\ Len(x \o u) = n - i
        /\ (x \o u)[1] = o[i + 1]
        /\ \A j \in 1 .. n - i - 1 : (x \o u)[1 + j] = o[i + 1 + j]
    <3>1. /\ x \o u \in Seq(S) /\ Len(x \o u) = Len(x) + Len(u)
          /\ \A j \in 1..Len(x) : (x \o u)[j] = x[j]
          /\ \A j \in 1..Len(u) : (x \o u)[Len(x) + j] = u[j]
      <4>1. x \in Seq(S) /\ u \in Seq(S)  BY <1>1, <1>2
      <4>. QED  BY ONLY <4>1, JoinIs
    <3>. QED  BY <1>0, <1>1, <1>2, <3>1
  <2>2. ASSUME NEW j \in 1 .. n - i
        PROVE  (x \o u)[j] = o[i + j]
    <3>1. CASE j = 1  BY <2>1, <3>1
    <3>2. CASE j # 1
      <4>1. j - 1 \in 1 .. n - i - 1 /\ 1 + (j - 1) = j /\ i + 1 + (j - 1) = i + j
        BY <1>0, <3>2
      <4>2. (x \o u)[1 + (j - 1)] = o[i + 1 + (j - 1)]  BY <2>1, <4>1
      <4>. QED  BY <4>1, <4>2
    <3>. QED  BY <3>1, <3>2
  <2>. QED  BY <2>1, <2>2
<1>5. x \o u = v
  <2>. DEFINE w == x \o u
  <2>1. w \in Seq(S) /\ Len(w) = n - i /\ \A j \in 1 .. n - i : w[j] = o[i + j]  BY <1>4
  <2>. HIDE DEF w
  <2>2. w = v  BY <1>3, <2>1, SameSeq
  <2>. QED  BY <2>2 DEF w
<1>6. x \o (u \o e) = (x \o u) \o e  BY <1>1, <1>2
<1>. QED  BY <1>5, <1>6 DEF n, x, u, v

\* Where an object lies in a text, it is found by the scan.
LEMMA ObjectLies ==
  ASSUME NEW t \in Seq(Symbols), NEW v, AnObject(v), NEW z \in 1..Len(t), NEW a,
         a = z - Len(v) + 1, a >= 1,
         \A j \in 1..Len(v) : t[z - Len(v) + j] = v[j]
  PROVE  /\ \E d : ObjectAt(t, a, z, d)
         /\ SubSeq(t, a, z) = v /\ v \in Seq(Symbols) /\ Len(v) >= 2
<1>1. PICK b \in Balanced : v = <<"lbrace">> \o b \o <<"rbrace">>  BY DEF AnObject
<1>2. b \in Seq(Symbols)  BY DEF Balanced
<1>3. PICK d : Measures(d, b)  BY DEF Balanced
<1>. DEFINE n == Len(b)
<1>4. /\ v \in Seq(Symbols) /\ Len(v) = n + 2 /\ n \in Nat
      /\ v[1] = "lbrace" /\ v[n + 2] = "rbrace" /\ \A i \in 1..n : v[i + 1] = b[i]
  BY <1>1, <1>2, Braced
<1>5. /\ d \in [0..n -> Nat] /\ d[0] = 0 /\ d[n] = 0
      /\ \A i \in 1..n : d[i] = d[i - 1] + Change(b[i])
  BY <1>3 DEF Measures
<1>. HIDE DEF n
<1>6. z \in Nat /\ Len(t) \in Nat /\ a \in Nat /\ a = z - n - 1 /\ z - a - 1 = n
      /\ z - Len(v) + 1 = a /\ z - Len(v) + (n + 2) = z /\ z <= Len(t)
  BY <1>4
<1>7. t[a] = "lbrace" /\ t[z] = "rbrace"
  <2>1. 1 \in 1..Len(v) /\ n + 2 \in 1..Len(v)  BY <1>4
  <2>2. t[z - Len(v) + 1] = v[1] /\ t[z - Len(v) + (n + 2)] = v[n + 2]  BY <2>1
  <2>. QED  BY <1>4, <1>6, <2>2
<1>8. \A i \in 1..n : t[a + i] = b[i]
  <2>1. TAKE i \in 1..n
  <2>2. i + 1 \in 1..Len(v) /\ z - Len(v) + (i + 1) = a + i  BY <1>4, <1>6
  <2>3. t[z - Len(v) + (i + 1)] = v[i + 1]  BY <2>2
  <2>. QED  BY <1>4, <2>2, <2>3
<1>9. ObjectAt(t, a, z, d)
  <2>1. a \in 1..Len(t) /\ z \in a + 1 .. Len(t)  BY <1>4, <1>6
  <2>2. \A i \in 1..n : d[i] = d[i - 1] + Change(t[a + i])  BY <1>5, <1>8
  <2>. QED  BY <1>5, <1>6, <1>7, <2>1, <2>2 DEF ObjectAt
<1>10. SubSeq(t, a, z) = v
  <2>1. /\ SubSeq(t, a, z) \in Seq(Symbols) /\ Len(SubSeq(t, a, z)) = n + 2
        /\ \A i \in 1 .. n + 2 : SubSeq(t, a, z)[i] = t[a + i - 1]
    BY ONLY t \in Seq(Symbols), <1>4, <1>6, a >= 1
  <2>2. ASSUME NEW i \in 1 .. n + 2
        PROVE  SubSeq(t, a, z)[i] = v[i]
    <3>1. i \in 1..Len(v) /\ z - Len(v) + i = a + i - 1  BY <1>4, <1>6
    <3>2. t[z - Len(v) + i] = v[i]  BY <3>1
    <3>. QED  BY <2>1, <3>1, <3>2
  <2>. DEFINE w == SubSeq(t, a, z)
  <2>3. /\ w \in Seq(Symbols) /\ Len(w) = Len(v) /\ \A i \in 1..Len(w) : w[i] = v[i]
    BY <1>4, <2>1, <2>2
  <2>. HIDE DEF w
  <2>4. w = v  BY <1>4, <2>3, SameSeq
  <2>. QED  BY <2>4 DEF w
<1>. QED  BY <1>4, <1>9, <1>10

LEMMA Begins ==
  ASSUME NEW x \in Nat, NEW s \in 0..1, NEW l \in Nat, NEW p \in Nat, p <= x + 1,
         NEW z \in Nat, z = x + s + l
  PROVE  /\ z - l + 1 = x + s + 1 /\ z - l + 1 >= 1
         /\ p <= z - l + 1 /\ z - l + 1 \in Nat
OBVIOUS

LEMMA ItemsAre ==
  ASSUME NEW objects, NEW S, objects \in Seq(S), \A v \in S : AnObject(v),
         NEW first, first \in {<<>>, <<"lbracket">>, <<"comma">>},
         NEW end, end \in {<<>>, <<"rbracket">>}
  PROVE  Json!Items(Json!Chunk(first, objects, end)) = objects \o end
<1>. DEFINE n == Len(objects)
            t == Json!Chunk(first, objects, end)
<1>0. n \in Nat /\ \A i \in 1..n : AnObject(objects[i])  BY LenIs
<1>1. /\ first \in Seq(Symbols) /\ Len(first) \in 0..1
      /\ \A j \in 1..Len(first) : first[j] \in {"lbracket", "comma"}
  <2>1. "lbracket" \in Symbols /\ "comma" \in Symbols  BY SymbolsAre
  <2>2. CASE first = <<>>  BY <2>2
  <2>3. ASSUME NEW c \in {"lbracket", "comma"}, first = <<c>>
        PROVE  /\ first \in Seq(Symbols) /\ Len(first) \in 0..1
               /\ \A j \in 1..Len(first) : first[j] \in {"lbracket", "comma"}
    <3>1. c \in Symbols  BY <2>1
    <3>2. first \in Seq(Symbols) /\ Len(first) = 1 /\ first[1] = c
      BY <2>3, <3>1, OneIs
    <3>. QED  BY ONLY <3>2, c \in {"lbracket", "comma"}
  <2>. QED  BY <2>2, <2>3
<1>2. /\ end \in Seq(Symbols) /\ (end = <<>> => Len(end) = 0)
      /\ (end # <<>> => Len(end) = 1 /\ end[1] = "rbracket")
  <2>1. "rbracket" \in Symbols  BY SymbolsAre
  <2>2. CASE end = <<>>  BY <2>2
  <2>3. CASE end = <<"rbracket">>
    <3>1. end \in Seq(Symbols) /\ Len(end) = 1 /\ end[1] = "rbracket"
      BY <2>1, <2>3, OneIs
    <3>2. end = <<>> => Len(end) = 0  OBVIOUS
    <3>. QED  BY ONLY <3>1, <3>2
  <2>. QED  BY <2>2, <2>3
<1>3. objects \in Seq(Seq(Symbols))
  <2>1. \A v \in S : v \in Seq(Symbols)
    <3>1. ASSUME NEW v \in S  PROVE v \in Seq(Symbols)
      <4>1. PICK b \in Balanced : v = <<"lbrace">> \o b \o <<"rbrace">>  BY DEF AnObject
      <4>2. b \in Seq(Symbols)  BY DEF Balanced
      <4>. QED  BY <4>1, <4>2, Braced
    <3>. QED  BY <3>1
  <2>. QED  BY <2>1
<1>. HIDE DEF n, t
<1>4. PICK e : /\ Pieces(t, first, objects, e, n)
               /\ Len(t) = e[n] + Len(end)
               /\ \A j \in 1..Len(end) : t[e[n] + j] = end[j]
  BY <1>1, <1>2, <1>3, ChunkLaid DEF n, t
<1>5. /\ t \in Seq(Symbols) /\ e[0] = Len(first) /\ Len(t) \in Nat
      /\ \A i \in 0..n : e[i] \in 0..Len(t)
      /\ \A j \in 1..Len(first) : t[j] = first[j]
  BY <1>4, LenIs DEF Pieces
<1>6. PICK f : /\ \A p \in 1 .. Len(t) + 1 : f[p] = ItemsAt(t, p, f)
               /\ Json!Items(t) = f[1]
  BY <1>5, ItemsSteps
<1>. DEFINE P(i) == IF i = 0 THEN 1 ELSE e[i] + 1
            R == {k \in 0..n : f[P(n - k)] = SubSeq(objects, n - k + 1, n) \o end}
<1>7. ASSUME NEW i \in 0..n
      PROVE  /\ P(i) \in 1 .. Len(t) + 1 /\ e[i] <= P(i) /\ P(i) <= e[i] + 1
             /\ Leads(t, P(i), e[i] + 1)
  <2>1. e[i] \in 0..Len(t)  BY <1>5
  <2>2. CASE i = 0
    <3>1. P(i) = 1 /\ e[i] = Len(first)  BY <1>5, <2>2
    <3>2. Leads(t, 1, Len(first) + 1)
      <4>1. ASSUME NEW j \in 1 .. Len(first) + 1 - 1
            PROVE  t[j] \in {"lbracket", "comma"}
        <5>1. j \in 1..Len(first)  BY <1>1
        <5>. QED  BY <1>1, <1>5, <5>1
      <4>. QED  BY <4>1 DEF Leads
    <3>. QED  BY <1>1, <2>1, <3>1, <3>2
  <2>3. CASE i # 0
    <3>1. P(i) = e[i] + 1  BY <2>3
    <3>2. Leads(t, e[i] + 1, e[i] + 1)  BY <2>1 DEF Leads
    <3>. QED  BY <1>5, <2>1, <3>1, <3>2
  <2>. QED  BY <2>2, <2>3
<1>8. 0 \in R
  <2>. DEFINE p == P(n)
  <2>1. /\ p \in 1 .. Len(t) + 1 /\ e[n] <= p /\ p <= e[n] + 1
        /\ Leads(t, p, e[n] + 1) /\ e[n] \in Nat /\ f[p] = ItemsAt(t, p, f)
    <3>1. n \in 0..n  BY <1>0
    <3>2. e[n] \in Nat  BY <1>5, <3>1
    <3>3. /\ p \in 1 .. Len(t) + 1 /\ e[n] <= p /\ p <= e[n] + 1 /\ Leads(t, p, e[n] + 1)
      BY <1>7, <3>1
    <3>. HIDE DEF p
    <3>. QED  BY <1>6, <3>2, <3>3
  <2>. HIDE DEF p
  <2>2. f[p] = end
    <3>1. CASE end = <<>>
      <4>1. Len(t) = e[n]  BY <1>2, <1>4, <2>1, <3>1
      <4>2. CASE p > Len(t)  BY <2>1, <3>1, <4>2 DEF ItemsAt
      <4>3. CASE p <= Len(t)
        <5>1. p \in 1..Len(t)  BY <1>5, <2>1, <4>3
        <5>2. /\ ~ Json!Scan(t, p).closing > Json!Scan(t, p).opening
              /\ Json!Scan(t, p).pos = Len(t) + 1 /\ Json!Scan(t, p).last = FALSE
          BY <1>5, <2>1, <4>1, <5>1, NothingScanned
        <5>3. f[p] = f[Len(t) + 1]  BY <2>1, <4>3, <1>5, <5>2 DEF ItemsAt
        <5>4. f[Len(t) + 1] = <<>>
          <6>1. Len(t) + 1 \in 1 .. Len(t) + 1 /\ Len(t) + 1 > Len(t)  BY <1>5
          <6>2. f[Len(t) + 1] = ItemsAt(t, Len(t) + 1, f)  BY <1>6, <6>1
          <6>. QED  BY <6>1, <6>2 DEF ItemsAt
        <5>. QED  BY <3>1, <5>3, <5>4
      <4>. QED  BY <1>5, <2>1, <4>2, <4>3
    <3>2. CASE end # <<>>
      <4>1. Len(t) = e[n] + 1 /\ t[Len(t)] = "rbracket"
        <5>1. Len(end) = 1 /\ end[1] = "rbracket" /\ 1 \in 1..Len(end)  BY <1>2, <3>2
        <5>2. t[e[n] + 1] = end[1] /\ Len(t) = e[n] + 1  BY <1>4, <5>1
        <5>. QED  BY <5>1, <5>2
      <4>2. p \in 1..Len(t) /\ Len(t) <= p + 1 /\ Leads(t, p, Len(t))  BY <2>1, <4>1
      <4>3. Json!Scan(t, p).last = TRUE  BY <1>5, <4>1, <4>2, EndScanned
      <4>4. ~ p > Len(t)  BY <1>5, <4>2
      <4>. QED  BY <2>1, <3>2, <4>3, <4>4 DEF ItemsAt
    <3>. QED  BY <3>1, <3>2
  <2>3. SubSeq(objects, n - 0 + 1, n) \o end = end
    <3>1. n - 0 + 1 = n + 1  BY <1>0
    <3>2. SubSeq(objects, n + 1, n) = <<>>  BY <1>0 DEF n
    <3>3. SubSeq(objects, n - 0 + 1, n) = <<>>  BY <3>1, <3>2
    <3>4. <<>> \o end = end  BY <1>2
    <3>. QED  BY <3>3, <3>4
  <2>4. n - 0 = n /\ 0 \in 0..n  BY <1>0
  <2>. QED  BY <2>2, <2>3, <2>4 DEF p

<1>9. ASSUME NEW k \in 0 .. n - 1, k \in R
      PROVE  k + 1 \in R
  <2>. DEFINE i == n - k - 1
              m == i + 1
              v == objects[m]
              p == P(i)
              z == e[m]
              a == z - Len(v) + 1
  <2>0. /\ i \in 0..n /\ m \in 1..n /\ m \in 0..n /\ n - k = m /\ n - (k + 1) = i
        /\ m - 1 = i /\ k + 1 \in 0..n /\ i \in 0 .. n - 1 /\ m \in Nat /\ m # 0
    BY <1>0
  <2>1. AnObject(v)  BY <1>0, <2>0
  <2>2. v \in Seq(Symbols) /\ Len(v) \in Nat
    <3>1. m \in 1..Len(objects)
      <4>. HIDE DEF m, i
      <4>. QED  BY <2>0 DEF n
    <3>2. v \in Seq(Symbols)  BY <1>3, <3>1, ElementIs
    <3>. QED  BY <3>2, LenIs
  <2>3. /\ z = e[i] + Len(Sep(m)) + Len(v)
        /\ \A j \in 1 .. Len(Sep(m)) : t[e[i] + j] = "comma"
        /\ \A j \in 1 .. Len(v) : t[z - Len(v) + j] = v[j]
    <3>1. PieceAt(t, objects, e, m)  BY <1>4, <2>0 DEF Pieces
    <3>. QED  BY <2>0, <3>1 DEF PieceAt
  <2>4. /\ z \in Nat /\ e[i] \in Nat /\ z <= Len(t) /\ Len(Sep(m)) \in 0..1
        /\ (i = 0 => Len(Sep(m)) = 0)
    <3>1. z \in 0..Len(t) /\ e[i] \in 0..Len(t)  BY <1>5, <2>0
    <3>2. Len(Sep(m)) = (IF m = 1 THEN 0 ELSE 1)  BY <2>0, SepIs
    <3>3. i = 0 <=> m = 1  BY <2>0
    <3>4. Len(Sep(m)) \in 0..1 /\ (i = 0 => Len(Sep(m)) = 0)
      <4>. HIDE DEF m, i
      <4>. QED  BY ONLY <3>2, <3>3
    <3>5. z \in Nat /\ e[i] \in Nat /\ z <= Len(t)
      <4>. HIDE DEF z, i
      <4>. QED  BY <1>5, <3>1
    <3>. QED  BY <3>4, <3>5
  <2>5. /\ p \in 1 .. Len(t) + 1 /\ e[i] <= p /\ p <= e[i] + 1
        /\ Leads(t, p, e[i] + 1)
    BY <1>7, <2>0
  <2>6. f[z + 1] = SubSeq(objects, m + 1, n) \o end
    <3>1. P(m) = z + 1  BY <2>0
    <3>2. f[P(n - k)] = SubSeq(objects, n - k + 1, n) \o end  BY <1>9
    <3>. HIDE DEF P
    <3>. QED  BY <2>0, <3>1, <3>2
  <2>7. v = objects[m]  OBVIOUS
  <2>. HIDE DEF P, R, i, m, v, p, z
  <2>8. a = e[i] + Len(Sep(m)) + 1 /\ a >= 1 /\ p <= a /\ a \in Nat
    <3>1. z = e[i] + Len(Sep(m)) + Len(v)  BY <2>3
    <3>2. p \in Nat /\ p <= e[i] + 1  BY ONLY <2>5, <1>5
    <3>3. z \in Nat /\ e[i] \in Nat /\ Len(Sep(m)) \in 0..1 /\ Len(v) \in Nat
      BY <2>2, <2>4
    <3>. QED  BY ONLY <3>1, <3>2, <3>3, Begins
  <2>. HIDE DEF a
  <2>9. Leads(t, p, a)
    <3>1. ASSUME NEW j \in p .. a - 1
          PROVE  t[j] \in {"lbracket", "comma"}
      <4>1. CASE j \in p .. e[i]
        <5>1. (e[i] + 1) - 1 = e[i]  BY <2>4
        <5>2. \A x \in p .. (e[i] + 1) - 1 : t[x] \in {"lbracket", "comma"}
          BY <2>5 DEF Leads
        <5>. QED  BY <4>1, <5>1, <5>2
      <4>2. CASE j = e[i] + 1 /\ 1 \in 1..Len(Sep(m))
        <5>1. t[e[i] + 1] = "comma"  BY <2>3, <4>2
        <5>. QED  BY <4>2, <5>1
      <4>. QED
        <5>1. j \in p .. e[i] + Len(Sep(m))  BY <2>4, <2>8
        <5>2. CASE Len(Sep(m)) = 0  BY <2>4, <2>5, <4>1, <5>1, <5>2
        <5>3. CASE Len(Sep(m)) = 1  BY <2>4, <2>5, <4>1, <4>2, <5>1, <5>3
        <5>. QED  BY <2>4, <5>2, <5>3
    <3>. QED  BY <3>1 DEF Leads
  <2>10. /\ \E d : ObjectAt(t, a, z, d)
         /\ SubSeq(t, a, z) = v /\ Len(v) >= 2
    <3>1. Len(v) >= 2
      <4>1. PICK b \in Balanced : v = <<"lbrace">> \o b \o <<"rbrace">>  BY <2>1 DEF AnObject
      <4>2. b \in Seq(Symbols)  BY DEF Balanced
      <4>3. Len(v) = Len(b) + 2 /\ Len(b) \in Nat  BY <4>1, <4>2, Braced
      <4>. QED  BY <4>3
    <3>2. z \in 1..Len(t)
      <4>1. z = e[i] + Len(Sep(m)) + Len(v)  BY <2>3
      <4>. QED  BY ONLY <1>5, <2>2, <2>4, <3>1, <4>1
    <3>3. \A j \in 1 .. Len(v) : t[z - Len(v) + j] = v[j]  BY <2>3
    <3>4. a = z - Len(v) + 1  BY DEF a
    <3>. QED  BY <1>5, <2>1, <2>8, <3>1, <3>2, <3>3, <3>4, ObjectLies
  <2>11. PICK d : ObjectAt(t, a, z, d)  BY <2>10
  <2>12. p \in 1..Len(t) /\ z > a /\ ~ p > Len(t)
    <3>1. a \in 1..Len(t) /\ z \in a + 1 .. Len(t)  BY <2>11 DEF ObjectAt
    <3>. QED  BY <1>5, <2>4, <2>5, <2>8, <3>1
  <2>13. /\ Json!Scan(t, p).opening = a /\ Json!Scan(t, p).closing = z
         /\ Json!Scan(t, p).pos = z + 1 /\ Json!Scan(t, p).last = FALSE
    <3>1. t \in Seq(Symbols) /\ p \in 1..Len(t) /\ p <= a
      BY <1>5, <2>8, <2>12
    <3>. QED  BY ONLY <3>1, <2>9, <2>11, ObjectScanned
  <2>14. ItemsAt(t, p, f) = <<v>> \o f[z + 1]
    BY <2>10, <2>12, <2>13 DEF ItemsAt
  <2>15. f[p] = ItemsAt(t, p, f)  BY <1>6, <2>5
  <2>16. <<v>> \o (SubSeq(objects, m + 1, n) \o end) = SubSeq(objects, m, n) \o end
    <3>. DEFINE T == Seq(Symbols) \union Symbols
    <3>1. objects \in Seq(T) /\ end \in Seq(T)  BY <1>2, <1>3
    <3>2. i \in 0 .. Len(objects) - 1 /\ i + 1 = m /\ i + 2 = m + 1
      BY <2>0 DEF n
    <3>. HIDE DEF T
    <3>3. <<objects[i + 1]>> \o (SubSeq(objects, i + 2, Len(objects)) \o end)
            = SubSeq(objects, i + 1, Len(objects)) \o end
      BY <3>1, <3>2, OneMoreObject
    <3>. QED  BY <2>7, <3>2, <3>3 DEF n
  <2>17. f[P(n - (k + 1))] = SubSeq(objects, n - (k + 1) + 1, n) \o end
    <3>1. P(n - (k + 1)) = p  BY <2>0 DEF p
    <3>2. n - (k + 1) + 1 = m  BY <2>0 DEF m
    <3>. QED  BY <2>6, <2>14, <2>15, <2>16, <3>1, <3>2
  <2>. QED  BY <2>0, <2>17 DEF R
<1>. HIDE DEF R
<1>10. \A k \in 0..n : k \in R  BY <1>0, <1>8, <1>9, UpTo
<1>11. n \in R  BY <1>0, <1>10
<1>12. f[1] = SubSeq(objects, 1, n) \o end
  <2>1. n - n = 0 /\ n - n + 1 = 1  BY <1>0
  <2>2. f[P(n - n)] = SubSeq(objects, n - n + 1, n) \o end  BY <1>11 DEF R
  <2>3. P(0) = 1  OBVIOUS
  <2>. HIDE DEF P
  <2>. QED  BY <2>1, <2>2, <2>3
<1>13. SubSeq(objects, 1, n) = objects
  <2>. DEFINE w == SubSeq(objects, 1, n)
  <2>1. /\ w \in Seq(Seq(Symbols)) /\ Len(w) = n /\ \A j \in 1..n : w[j] = objects[j]
    BY <1>3 DEF n
  <2>. HIDE DEF w
  <2>2. Len(w) = Len(objects) /\ \A j \in 1 .. Len(w) : w[j] = objects[j]  BY <2>1 DEF n
  <2>3. w = objects  BY <1>3, <2>1, <2>2, SameSeq
  <2>. QED  BY <2>3 DEF w
<1>. QED  BY <1>6, <1>12, <1>13 DEF t

\* Whatever objects of values nested to any depth a chunk holds, and however it
\* begins and ends, the loop over it finds them all, whole and in order, and then
\* the end of the array (controller-app.cpp 13-84, 1307-1325).
THEOREM EveryObjectIsFound ==
  ASSUME NEW n \in Nat, NEW objects \in Seq(Json!Objects(n)),
         NEW first \in {<<>>, <<"lbracket">>, <<"comma">>},
         NEW end \in {<<>>, <<"rbracket">>}
  PROVE  Json!Items(Json!Chunk(first, objects, end)) = objects \o end
<1>1. \A v \in Json!Objects(n) : AnObject(v)  BY ObjectsAre
<1>. DEFINE S == Json!Objects(n)
<1>2. objects \in Seq(S)  OBVIOUS
<1>. HIDE DEF S
<1>. QED  BY <1>1, <1>2, ItemsAre DEF S

LEMMA ObjectsOfAre ==
  ASSUME NEW n \in Nat, NEW S, S \subseteq Json!Objects(n)
  PROVE  Json!ObjectsOf(S)
<1>1. ASSUME NEW objects \in Json!Lists(S)
      PROVE  objects \in Seq(S)
  <2>1. CASE objects = <<>>  BY <2>1
  <2>2. CASE \E o \in S : objects = <<o>>  BY <2>2, OneIs
  <2>3. CASE \E o, p \in S : objects = <<o, p>>  BY <2>3
  <2>. QED  BY <2>1, <2>2, <2>3 DEF Json!Lists
<1>2. \A v \in S : AnObject(v)  BY ObjectsAre
<1>3. ASSUME NEW objects \in Json!Lists(S),
             NEW first \in {<<>>, <<"lbracket">>, <<"comma">>},
             NEW end \in {<<>>, <<"rbracket">>}
      PROVE  Json!Items(Json!Chunk(first, objects, end)) =
               objects \o (IF end = <<>> THEN <<>> ELSE <<"rbracket">>)
  <2>1. (IF end = <<>> THEN <<>> ELSE <<"rbracket">>) = end  OBVIOUS
  <2>2. objects \in Seq(S)  BY <1>1
  <2>3. first \in {<<>>, <<"lbracket">>, <<"comma">>} /\ end \in {<<>>, <<"rbracket">>}
    OBVIOUS
  <2>4. Json!Items(Json!Chunk(first, objects, end)) = objects \o end
    BY <1>2, <2>2, <2>3, ItemsAre
  <2>. QED  BY <2>1, <2>4
<1>4. \A objects \in Json!Lists(S), first \in {<<>>, <<"lbracket">>, <<"comma">>},
        end \in {<<>>, <<"rbracket">>} :
        Json!Items(Json!Chunk(first, objects, end)) =
          objects \o (IF end = <<>> THEN <<>> ELSE <<"rbracket">>)
  <2>. HIDE <1>1, <1>2
  <2>. QED  BY ONLY <1>3
<1>. QED  BY <1>4 DEF Json!ObjectsOf

\* ObjectsAreFound, for objects nested to any depth (controller-app.cpp 13-84).
THEOREM ObjectsFound == Spec => []ObjectsAreFound
<1>1. Json!ObjectsOf(Json!Objects(0))
  BY ObjectsOfAre
<1>2. Json!ObjectsOf({o \in Json!Objects(1) : Len(o) < 8})
  <2>. DEFINE S == {o \in Json!Objects(1) : Len(o) < 8}
  <2>1. S \subseteq Json!Objects(1)  OBVIOUS
  <2>. HIDE DEF S
  <2>2. Json!ObjectsOf(S)  BY <2>1, ObjectsOfAre
  <2>. QED  BY <2>2 DEF S
<1>3. ObjectsAreFound
  BY <1>1, <1>2 DEF ObjectsAreFound
<1>. QED  BY <1>3, PTL

-----------------------------------------------------------------------------
(* Numbers of any size (HttpBigNum).                                       *)

\* What the first words of a number mean.
Counted(num, f) ==
  /\ f \in [0..Len(num) -> Nat] /\ f[0] = 0
  /\ \A i \in 1..Len(num) : f[i] = f[i - 1] * Base + num[i]
Partial(num) == CHOOSE f : Counted(num, f)

LEMMA CountedIs ==
  ASSUME NEW num \in Seq(Word)
  PROVE  Counted(num, Partial(num)) /\ Value(num) = Partial(num)[Len(num)]
<1>. DEFINE n == Len(num)
            Is(f, k) == f = [i \in 0..k |-> IF i = 0 THEN 0
                                            ELSE f[i - 1] * (Highest + 1) + num[i]]
            CountedSo(f, k) == Is(f, k) /\ \A i \in 0..k : f[i] \in Nat
            S == {k \in Nat : \E f : CountedSo(f, k)}
<1>0. n \in Nat /\ \A i \in 1..n : num[i] \in Nat
  BY BaseIs
<1>1. 0 \in S
  <2>1. CountedSo([i \in 0..0 |-> 0], 0)  OBVIOUS
  <2>. HIDE DEF CountedSo
  <2>. QED  BY <2>1
<1>2. ASSUME NEW k \in 0 .. n - 1, k \in S
      PROVE  k + 1 \in S
  <2>1. PICK f : CountedSo(f, k)
    <3>. HIDE DEF CountedSo
    <3>. QED  BY <1>2
  <2>. DEFINE x == f[k] * (Highest + 1) + num[k + 1]
              g == [i \in 0 .. k + 1 |-> IF i = k + 1 THEN x ELSE f[i]]
  <2>0. x \in Nat
    <3>1. f[k] \in Nat /\ num[k + 1] \in Nat /\ Highest + 1 \in Nat
      BY <1>0, <1>2, <2>1, BaseIs
    <3>2. \A p \in Nat, b \in Nat, w \in Nat : p * b + w \in Nat
      OBVIOUS
    <3>. QED  BY <3>1, <3>2
  <2>2. ASSUME NEW i \in 0 .. k + 1
        PROVE  /\ g[i] = IF i = 0 THEN 0 ELSE g[i - 1] * (Highest + 1) + num[i]
               /\ g[i] \in Nat
    <3>1. CASE i = 0  BY <2>1, <3>1
    <3>2. CASE i \in 1..k
      <4>1. f[i] = f[i - 1] * (Highest + 1) + num[i] /\ f[i] \in Nat  BY <2>1, <3>2
      <4>. QED  BY <3>2, <4>1
    <3>3. CASE i = k + 1
      <4>1. i - 1 = k /\ k # k + 1 /\ k \in 0 .. k + 1 /\ i # 0 /\ g[i] = x /\ g[k] = f[k]
        BY <3>3
      <4>2. g[i - 1] * (Highest + 1) + num[i] = x
        BY <3>3, <4>1
      <4>. QED  BY <2>0, <4>1, <4>2
    <3>. QED  BY <3>1, <3>2, <3>3
  <2>3. CountedSo(g, k + 1)
    <3>. HIDE DEF x
    <3>. QED  BY <2>2
  <2>. HIDE DEF CountedSo
  <2>. QED  BY <2>3
<1>3. n \in S
  <2>. HIDE DEF S, n
  <2>1. \A i \in 0..n : i \in S
    BY <1>0, <1>1, <1>2, UpTo
  <2>. QED  BY <1>0, <2>1
<1>4. PICK f : CountedSo(f, n)
  <2>. HIDE DEF CountedSo, n
  <2>. QED  BY <1>3
<1>5. \A g : Is(g, n) => g = f
  <2>. SUFFICES ASSUME NEW g, Is(g, n)  PROVE g = f
    OBVIOUS
  <2>. DEFINE T == {i \in 0..n : g[i] = f[i]}
  <2>1. 0 \in T  BY <1>0, <1>4
  <2>2. ASSUME NEW i \in 0 .. n - 1, i \in T  PROVE i + 1 \in T
    <3>1. g[i + 1] = g[i] * (Highest + 1) + num[i + 1]  BY <1>0
    <3>2. f[i + 1] = f[i] * (Highest + 1) + num[i + 1]  BY <1>0, <1>4
    <3>. QED  BY <1>0, <2>2, <3>1, <3>2
  <2>3. \A i \in 0..n : i \in T
    <3>. HIDE DEF T, Is, n
    <3>. QED  BY <1>0, <2>1, <2>2, UpTo
  <2>4. \A i \in 0..n : g[i] = f[i]
    <3>. HIDE DEF n, Is
    <3>. QED  BY <2>3
  <2>5. DOMAIN g = 0..n /\ DOMAIN f = 0..n /\ g = [i \in 0..n |-> g[i]] /\ f = [i \in 0..n |-> f[i]]
    BY <1>4
  <2>. HIDE DEF n, Is, CountedSo, T
  <2>. QED  BY <2>4, <2>5
<1>6. Value(num) = f[n]
  <2>1. (CHOOSE g : Is(g, n)) = f
    <3>1. Is(f, n)  BY <1>4
    <3>. HIDE DEF Is, n, CountedSo
    <3>. QED  BY <1>5, <3>1
  <2>. QED  BY <2>1, Zenon DEF Value
<1>7. Counted(num, f)
  <2>1. f \in [0..n -> Nat] /\ f[0] = 0
    BY <1>0, <1>4
  <2>2. \A i \in 1..n : f[i] = f[i - 1] * (Highest + 1) + num[i]
    <3>. HIDE DEF CountedSo
    <3>1. \A i \in 0..n : f[i] = IF i = 0 THEN 0 ELSE f[i - 1] * (Highest + 1) + num[i]
      BY <1>4 DEF CountedSo
    <3>. HIDE DEF n
    <3>. QED  BY <1>0, <3>1
  <2>. QED  BY <2>1, <2>2 DEF Counted, Base
<1>8. \A g : Counted(num, g) => g = f
  <2>. SUFFICES ASSUME NEW g, Counted(num, g)  PROVE g = f
    OBVIOUS
  <2>1. /\ g = [i \in 0..n |-> g[i]] /\ g[0] = 0
        /\ \A i \in 1..n : g[i] = g[i - 1] * (Highest + 1) + num[i]
    BY DEF Counted, Base
  <2>2. Is(g, n)
    <3>1. \A i \in 0..n : g[i] = IF i = 0 THEN 0 ELSE g[i - 1] * (Highest + 1) + num[i]
      <4>1. g[0] = 0 /\ \A i \in 1..n : g[i] = g[i - 1] * (Highest + 1) + num[i]
        BY <2>1
      <4>. HIDE DEF n
      <4>2. \A i \in 0..n : i # 0 => i \in 1..n
        BY <1>0
      <4>. QED  BY ONLY <4>1, <4>2
    <3>2. [i \in 0..n |-> g[i]] = [i \in 0..n |-> IF i = 0 THEN 0
                                            ELSE g[i - 1] * (Highest + 1) + num[i]]
      BY <3>1, Zenon
    <3>. QED  BY <2>1, <3>2, Zenon
  <2>. QED  BY <1>5, <2>2
<1>9. Partial(num) = f
  BY <1>7, <1>8 DEF Partial
<1>. QED  BY <1>6, <1>7, <1>9

LEMMA PartialIs ==
  ASSUME NEW num \in Seq(Word)
  PROVE  /\ Partial(num) \in [0..Len(num) -> Nat] /\ Partial(num)[0] = 0
         /\ \A i \in 1..Len(num) : Partial(num)[i] = Partial(num)[i - 1] * Base + num[i]
         /\ Value(num) = Partial(num)[Len(num)] /\ Value(num) \in Nat
<1>1. Len(num) \in 0..Len(num)  BY LenIs
<1>. QED  BY <1>1, CountedIs DEF Counted

\* A number is worth what any count of its words comes to.
LEMMA ValueBy ==
  ASSUME NEW num \in Seq(Word), NEW g, g[0] = 0,
         \A i \in 1..Len(num) : g[i] = g[i - 1] * Base + num[i]
  PROVE  \A i \in 0..Len(num) : Partial(num)[i] = g[i]
<1>. DEFINE n == Len(num)
            S == {i \in 0..n : Partial(num)[i] = g[i]}
<1>0. n \in Nat  BY LenIs
<1>1. 0 \in S  BY <1>0, PartialIs
<1>2. ASSUME NEW i \in 0 .. n - 1, i \in S  PROVE i + 1 \in S
  <2>1. i + 1 \in 1..n /\ (i + 1) - 1 = i  BY <1>0
  <2>2. g[i + 1] = g[i] * Base + num[i + 1]  BY <2>1
  <2>3. Partial(num)[i + 1] = Partial(num)[i] * Base + num[i + 1]  BY <2>1, PartialIs
  <2>. QED  BY <1>0, <1>2, <2>2, <2>3
<1>3. \A i \in 0..n : i \in S
  <2>. HIDE DEF S, n
  <2>. QED  BY <1>0, <1>1, <1>2, UpTo
<1>. QED  BY <1>3

LEMMA GreatestIsThere ==
  ASSUME NEW n \in Nat, NEW S \in SUBSET (1..n), S # {}
  PROVE  \E x \in S : \A y \in S : y <= x
<1>. DEFINE T == {n - y : y \in S}
<1>1. T \in SUBSET Nat /\ T # {}
  <2>1. \A y \in S : n - y \in Nat
    OBVIOUS
  <2>. QED  BY <2>1
<1>2. PICK t \in T : \A u \in T : t <= u
  <2>. HIDE DEF T
  <2>. QED  BY <1>1, LeastIsThere
<1>3. PICK x \in S : t = n - x
  OBVIOUS
<1>4. \A y \in S : n - x <= n - y
  BY <1>2, <1>3
<1>. QED  BY <1>4

\* One more, or one less, is carried from word to word.
LEMMA OneCarried ==
  \A p \in Nat, w \in Int, d \in {1, -1} :
    (p + d) * Base + (w - d * Highest) = (p * Base + w) + d
<1>1. ASSUME NEW b \in Nat, NEW p \in Nat, NEW w \in Int
      PROVE  /\ (p + 1) * b + (w - 1 * (b - 1)) = (p * b + w) + 1
             /\ (p + -1) * b + (w - -1 * (b - 1)) = (p * b + w) + -1
  OBVIOUS
<1>2. ASSUME NEW p \in Nat, NEW w \in Int, NEW d \in {1, -1}
      PROVE  (p + d) * Base + (w - d * Highest) = (p * Base + w) + d
  <2>1. CASE d = 1   BY <1>1, <2>1, BaseIs
  <2>2. CASE d = -1  BY <1>1, <2>2, BaseIs
  <2>. QED  BY <2>1, <2>2
<1>. QED  BY <1>2

\* The words up to `last' count as before, those from `last' on by d more.
LEMMA ValueFrom ==
  ASSUME NEW a \in Seq(Word), NEW b \in Seq(Word), Len(b) = Len(a),
         NEW last \in 1..Len(a), NEW d \in {1, -1},
         \A i \in 1..Len(a) :
           b[i] = IF i < last THEN a[i]
                  ELSE IF i = last THEN a[i] + d ELSE a[i] - d * Highest
  PROVE  Value(b) = Value(a) + d
<1>. DEFINE n == Len(a)
            f == Partial(a)
            g == [i \in 0..n |-> IF i < last THEN f[i] ELSE f[i] + d]
<1>0. n \in Nat /\ last \in 1..n /\ Base \in Nat /\ Highest = Base - 1
  BY LenIs, BaseIs
<1>1. /\ f[0] = 0 /\ Value(a) = f[n]
      /\ \A i \in 0..n : f[i] \in Nat
      /\ \A i \in 1..n : f[i] = f[i - 1] * Base + a[i]
  BY PartialIs
<1>2. \A i \in 1..n : a[i] \in Int
  BY BaseIs, ElementIs
<1>. HIDE DEF f, n
<1>3. g[0] = 0
  BY <1>0, <1>1
<1>4. ASSUME NEW i \in 1..n
      PROVE  g[i] = g[i - 1] * Base + b[i]
  <2>0. i - 1 \in 0..n /\ i \in 0..n /\ f[i - 1] \in Nat /\ a[i] \in Int
    BY <1>0, <1>1, <1>2
  <2>1. f[i] = f[i - 1] * Base + a[i]
    BY <1>1
  <2>2. /\ g[i] = IF i < last THEN f[i] ELSE f[i] + d
        /\ g[i - 1] = IF i - 1 < last THEN f[i - 1] ELSE f[i - 1] + d
    BY <2>0
  <2>3. b[i] = IF i < last THEN a[i]
               ELSE IF i = last THEN a[i] + d ELSE a[i] - d * Highest
    BY DEF n
  <2>. HIDE DEF g
  <2>4. CASE i < last
    BY <1>0, <2>0, <2>1, <2>2, <2>3, <2>4
  <2>5. CASE i = last
    <3>1. g[i] = f[i] + d /\ g[i - 1] = f[i - 1] /\ b[i] = a[i] + d
      BY <1>0, <2>0, <2>2, <2>3, <2>5
    <3>2. f[i - 1] * Base \in Nat
      BY <1>0, <2>0
    <3>. QED  BY <2>0, <2>1, <3>1, <3>2
  <2>6. CASE i > last
    <3>1. g[i] = f[i] + d /\ g[i - 1] = f[i - 1] + d /\ b[i] = a[i] - d * Highest
      BY <1>0, <2>0, <2>2, <2>3, <2>6
    <3>3. (f[i - 1] + d) * Base + (a[i] - d * Highest) = (f[i - 1] * Base + a[i]) + d
      BY ONLY <2>0, OneCarried, d \in {1, -1}
    <3>. QED  BY <2>1, <3>1, <3>3
  <2>. QED  BY <1>0, <2>4, <2>5, <2>6
<1>5. Partial(b)[n] = g[n] /\ Value(b) = Partial(b)[n]
  <2>1. \A i \in 1..Len(b) : g[i] = g[i - 1] * Base + b[i]
    BY <1>4 DEF n
  <2>2. \A i \in 0..Len(b) : Partial(b)[i] = g[i]
    <3>. HIDE DEF g
    <3>. QED  BY <1>3, <2>1, ValueBy
  <2>. HIDE DEF g
  <2>. QED  BY <1>0, <2>2, PartialIs DEF n
<1>6. g[n] = f[n] + d
  BY <1>0
<1>. QED  BY <1>1, <1>5, <1>6

\* What has a greatest element has only one.
LEMMA GreatestIs ==
  ASSUME NEW n \in Nat, NEW S \in SUBSET (1..n), S # {},
         NEW x, x = CHOOSE i \in S : \A j \in S : j <= i
  PROVE  x \in S /\ \A j \in S : j <= x
BY GreatestIsThere

LEMMA IncrementIs ==
  ASSUME NEW a \in Seq(Word)
  PROVE  Increment(a) \in Seq(Word) /\ Value(Increment(a)) = Value(a) + 1
<1>. DEFINE n == Len(a)
            kept == {i \in 1..n : a[i] # Highest}
            last == IF kept = {} THEN 0 ELSE CHOOSE i \in kept : \A j \in kept : j <= i
            r == [i \in 1..n |-> IF i > last THEN 0 ELSE IF i = last THEN a[i] + 1 ELSE a[i]]
<1>0. /\ n \in Nat /\ Base \in Nat /\ Base >= 2 /\ Highest = Base - 1 /\ Word = 0 .. Base - 1
      /\ \A i \in 1..n : a[i] \in Word
  BY LenIs, BaseIs
<1>1. Increment(a) = (IF last = 0 THEN <<1>> ELSE <<>>) \o r
  BY DEF Increment
<1>2. CASE kept = {}
  <2>1. last = 0  BY <1>2
  <2>2. \A i \in 1..n : a[i] = Highest  BY <1>2
  <2>3. r \in Seq(Word) /\ Len(r) = n /\ \A i \in 1..n : r[i] = 0
    <3>. HIDE DEF last, kept, n
    <3>. QED  BY <1>0, <2>1
  <2>4. <<1>> \in Seq(Word) /\ Len(<<1>>) = 1 /\ <<1>>[1] = 1
    BY <1>0
  <2>. DEFINE s == <<1>> \o r
              f == Partial(a)
              g == [i \in 0 .. n + 1 |-> IF i = 0 THEN 0 ELSE f[i - 1] + 1]
  <2>5. /\ s \in Seq(Word) /\ Len(s) = n + 1 /\ s[1] = 1
        /\ \A i \in 2 .. n + 1 : s[i] = 0
    <3>. HIDE DEF r, n
    <3>1. /\ s \in Seq(Word) /\ Len(s) = 1 + n
          /\ \A i \in 1..1 : s[i] = <<1>>[i]
          /\ \A i \in 1..n : s[1 + i] = r[i]
      BY <2>3, <2>4, JoinIs
    <3>2. ASSUME NEW i \in 2 .. n + 1  PROVE s[i] = 0
      <4>1. i - 1 \in 1..n /\ 1 + (i - 1) = i  BY <1>0
      <4>. QED  BY <2>3, <3>1, <4>1
    <3>. QED  BY <1>0, <2>4, <3>1, <3>2
  <2>6. /\ f[0] = 0 /\ Value(a) = f[n]
        /\ \A i \in 0..n : f[i] \in Nat
        /\ \A i \in 1..n : f[i] = f[i - 1] * Base + a[i]
    BY PartialIs
  <2>. HIDE DEF f, s, r, n
  <2>7. ASSUME NEW i \in 1 .. n + 1
        PROVE  g[i] = g[i - 1] * Base + s[i]
    <3>1. CASE i = 1
      BY <1>0, <2>5, <2>6, <3>1
    <3>2. CASE i # 1
      <4>1. /\ i - 1 \in 1..n /\ i - 2 \in 0..n /\ i \in 2 .. n + 1 /\ (i - 1) - 1 = i - 2
            /\ g[i] = f[i - 1] + 1 /\ g[i - 1] = f[i - 2] + 1
        BY <1>0, <3>2
      <4>2. f[i - 1] = f[i - 2] * Base + Highest /\ f[i - 2] \in Nat /\ s[i] = 0
        BY <2>2, <2>5, <2>6, <4>1
      <4>3. (f[i - 2] + 1) * Base + (Highest - 1 * Highest) = (f[i - 2] * Base + Highest) + 1
        BY ONLY <1>0, <4>2, OneCarried, Highest \in Int
      <4>4. Highest - 1 * Highest = 0
        BY <1>0
      <4>. QED  BY <4>1, <4>2, <4>3, <4>4
    <3>. QED  BY <3>1, <3>2
  <2>8. g[0] = 0  BY <1>0
  <2>9. Partial(s)[n + 1] = g[n + 1]
    <3>. HIDE DEF g
    <3>1. \A i \in 0 .. n + 1 : Partial(s)[i] = g[i]
      BY <2>5, <2>7, <2>8, ValueBy
    <3>. QED  BY <1>0, <3>1
  <2>10. Value(s) = f[n] + 1
    <3>1. g[n + 1] = f[n] + 1  BY <1>0
    <3>. QED  BY <2>5, <2>9, <3>1, PartialIs
  <2>11. Increment(a) = s
    BY <1>1, <2>1 DEF s
  <2>. QED  BY <2>5, <2>6, <2>10, <2>11
<1>3. CASE kept # {}
  <2>1. last \in kept /\ \A j \in kept : j <= last
    <3>1. kept \in SUBSET (1..n) /\ last = CHOOSE i \in kept : \A j \in kept : j <= i
      BY <1>3
    <3>. HIDE DEF n, kept, last
    <3>. QED  BY <1>0, <1>3, <3>1, GreatestIs
  <2>2. \A i \in 1..n : i > last => a[i] = Highest
    <3>. HIDE DEF last
    <3>. QED  BY <1>0, <2>1
  <2>3. last \in 1..n /\ a[last] # Highest
    BY <2>1
  <2>. HIDE DEF last, kept, n
  <2>4. /\ r \in Seq(Word) /\ Len(r) = n
        /\ \A i \in 1..n : r[i] = IF i > last THEN 0 ELSE IF i = last THEN a[i] + 1 ELSE a[i]
    <3>1. ASSUME NEW i \in 1..n  PROVE r[i] \in Word
      BY <1>0, <2>3
    <3>. QED  BY <1>0, <3>1
  <2>. HIDE DEF r
  <2>5. Value(r) = Value(a) + 1
    <3>1. \A i \in 1..n : r[i] = IF i < last THEN a[i]
                                 ELSE IF i = last THEN a[i] + 1 ELSE a[i] - 1 * Highest
      BY <1>0, <2>2, <2>3, <2>4
    <3>. QED  BY <2>3, <2>4, <3>1, ValueFrom DEF n
  <2>6. Increment(a) = r
    <3>1. <<>> \o r = r  BY <2>4
    <3>2. last # 0  BY <2>3
    <3>. QED  BY <1>1, <3>1, <3>2
  <2>. QED  BY <2>4, <2>5, <2>6
<1>. QED  BY <1>2, <1>3

LEMMA BorrowIs ==
  ASSUME NEW a \in Seq(Word), \E i \in 1..Len(a) : a[i] # 0
  PROVE  /\ Borrow(a) \in Seq(Word) /\ Len(Borrow(a)) = Len(a)
         /\ Value(Borrow(a)) = Value(a) - 1
<1>. DEFINE n == Len(a)
            some == {i \in 1..n : a[i] # 0}
            last == CHOOSE i \in some : \A j \in some : j <= i
            r == [i \in 1..n |-> IF i > last THEN Highest ELSE IF i = last THEN a[i] - 1 ELSE a[i]]
<1>0. /\ n \in Nat /\ Base \in Nat /\ Base >= 2 /\ Highest = Base - 1 /\ Word = 0 .. Base - 1
      /\ \A i \in 1..n : a[i] \in Word
  BY LenIs, BaseIs
<1>1. some # {}
  OBVIOUS
<1>2. Borrow(a) = r
  BY <1>1 DEF Borrow
<1>3. last \in some /\ \A j \in some : j <= last
  <2>1. some \in SUBSET (1..n)
    OBVIOUS
  <2>. HIDE DEF n, some
  <2>. QED  BY <1>0, <1>1, <2>1, GreatestIs
<1>4. \A i \in 1..n : i > last => a[i] = 0
  <2>. HIDE DEF last
  <2>. QED  BY <1>0, <1>3
<1>5. last \in 1..n /\ a[last] # 0
  BY <1>3
<1>. HIDE DEF last, some, n
<1>6. /\ r \in Seq(Word) /\ Len(r) = n
      /\ \A i \in 1..n : r[i] = IF i > last THEN Highest ELSE IF i = last THEN a[i] - 1 ELSE a[i]
  <2>1. ASSUME NEW i \in 1..n  PROVE r[i] \in Word
    BY <1>0, <1>5
  <2>. QED  BY <1>0, <2>1
<1>. HIDE DEF r
<1>7. Value(r) = Value(a) + -1
  <2>. DEFINE d == -1
  <2>1. d \in {1, -1} /\ d = -1 /\ -d * Highest = Highest /\ d * Highest = - Highest
    BY <1>0
  <2>. HIDE DEF d
  <2>2. ASSUME NEW i \in 1..n
        PROVE  r[i] = IF i < last THEN a[i]
                      ELSE IF i = last THEN a[i] + d ELSE a[i] - d * Highest
    <3>1. a[i] \in Int  BY <1>0
    <3>2. CASE i > last
      <4>1. r[i] = Highest /\ a[i] = 0  BY <1>4, <1>6, <3>2
      <4>2. a[i] - d * Highest = Highest  BY <1>0, <2>1, <4>1
      <4>. QED  BY <1>5, <3>2, <4>1, <4>2
    <3>3. CASE i = last
      BY <1>5, <1>6, <2>1, <3>1, <3>3
    <3>4. CASE i < last
      BY <1>5, <1>6, <3>4
    <3>. QED  BY <1>5, <3>2, <3>3, <3>4
  <2>3. Value(r) = Value(a) + d
    BY <1>5, <1>6, <2>1, <2>2, ValueFrom DEF n
  <2>. QED  BY <2>1, <2>3
<1>8. Value(a) \in Nat
  BY PartialIs
<1>. QED  BY <1>2, <1>6, <1>7, <1>8 DEF n

\* Zeros in front do not count.
LEMMA ZerosCount ==
  ASSUME NEW a \in Seq(Word), NEW k \in 0..Len(a), \A i \in 1..k : a[i] = 0
  PROVE  Partial(a)[k] = 0
<1>. DEFINE f == Partial(a)
            S == {i \in 0..k : f[i] = 0}
<1>0. Len(a) \in Nat /\ k \in Nat /\ Base \in Nat
  BY LenIs, BaseIs
<1>1. f[0] = 0 /\ \A i \in 1..Len(a) : f[i] = f[i - 1] * Base + a[i]
  BY PartialIs
<1>. HIDE DEF f
<1>2. 0 \in S  BY <1>0, <1>1
<1>3. ASSUME NEW i \in 0 .. k - 1, i \in S  PROVE i + 1 \in S
  <2>1. i + 1 \in 1..Len(a) /\ i + 1 \in 1..k /\ (i + 1) - 1 = i  BY <1>0
  <2>2. f[i + 1] = f[i] * Base + a[i + 1] /\ f[i] = 0 /\ a[i + 1] = 0  BY <1>1, <1>3, <2>1
  <2>. QED  BY <1>0, <2>1, <2>2
<1>4. \A i \in 0..k : i \in S
  <2>. HIDE DEF S
  <2>. QED  BY <1>0, <1>2, <1>3, UpTo
<1>5. k \in 0..k  BY <1>0
<1>. QED  BY <1>4, <1>5 DEF f

LEMMA NotZero ==
  ASSUME NEW a \in Seq(Word), Value(a) # 0
  PROVE  \E i \in 1..Len(a) : a[i] # 0
<1>. SUFFICES ASSUME \A i \in 1..Len(a) : a[i] = 0
              PROVE  FALSE
  OBVIOUS
<1>1. Len(a) \in 0..Len(a)  BY LenIs
<1>. QED  BY <1>1, ZerosCount, PartialIs

\* What is left without k zeros in front is worth as much.
LEMMA ZerosGo ==
  ASSUME NEW a \in Seq(Word), NEW k \in 0..Len(a), \A i \in 1..k : a[i] = 0,
         NEW b \in Seq(Word), Len(b) = Len(a) - k, \A i \in 1 .. Len(a) - k : b[i] = a[k + i]
  PROVE  Value(b) = Value(a)
<1>. DEFINE n == Len(a) - k
            f == Partial(a)
            g == [i \in 0..n |-> f[k + i]]
<1>0. Len(a) \in Nat /\ n \in Nat /\ k \in Nat /\ k + n = Len(a) /\ Len(b) = n
  BY LenIs
<1>1. f[k] = 0 /\ \A i \in 1..Len(a) : f[i] = f[i - 1] * Base + a[i]
  BY ZerosCount, PartialIs
<1>2. Value(a) = f[k + n]
  BY <1>0, PartialIs
<1>3. \A i \in 1..n : b[i] = a[k + i]
  OBVIOUS
<1>. HIDE DEF f, n
<1>4. ASSUME NEW i \in 1..n  PROVE g[i] = g[i - 1] * Base + b[i]
  <2>1. k + i \in 1..Len(a) /\ (k + i) - 1 = k + (i - 1) /\ i - 1 \in 0..n /\ i \in 0..n
    BY <1>0
  <2>2. f[k + i] = f[k + (i - 1)] * Base + a[k + i]
    BY <1>1, <2>1
  <2>. QED  BY <1>3, <2>1, <2>2
<1>5. g[0] = 0 /\ g[n] = f[k + n]
  BY <1>0, <1>1
<1>. HIDE DEF g
<1>6. \A i \in 0..n : Partial(b)[i] = g[i]
  BY <1>0, <1>4, <1>5, ValueBy
<1>7. Partial(b)[n] = g[n] /\ Value(b) = Partial(b)[n]
  BY <1>0, <1>6, PartialIs
<1>. QED  BY <1>2, <1>5, <1>7

\* What the code takes for a number: no zero in front but in the number zero.
IsNumber(a) == a \in Seq(Word) /\ Len(a) >= 1 /\ Canonical(a)

LEMMA NumbersAre ==
  ASSUME NEW n \in Nat, NEW a \in Numbers(n)
  PROVE  IsNumber(a)
BY DEF Numbers, IsNumber

LEMMA NumberNotZero ==
  ASSUME NEW a, IsNumber(a), a # Zero
  PROVE  a[1] # 0
<1>1. a \in Seq(Word) /\ Len(a) \in Nat /\ Len(a) >= 1
  BY LenIs DEF IsNumber
<1>2. CASE Len(a) = 1
  <2>1. a = <<a[1]>>
    BY <1>1, <1>2
  <2>. QED  BY <2>1
<1>. QED  BY <1>1, <1>2 DEF IsNumber, Canonical

LEMMA DecrementIs ==
  ASSUME NEW a, IsNumber(a), a # Zero
  PROVE  Decrement(a) \in Seq(Word) /\ Value(Decrement(a)) = Value(a) - 1
<1>. DEFINE b == Borrow(a)
<1>1. a \in Seq(Word) /\ Len(a) \in Nat /\ Len(a) >= 1 /\ a[1] # 0
  BY LenIs, NumberNotZero DEF IsNumber
<1>2. b \in Seq(Word) /\ Len(b) = Len(a) /\ Value(b) = Value(a) - 1
  <2>1. \E i \in 1..Len(a) : a[i] # 0  BY <1>1
  <2>. QED  BY <1>1, <2>1, BorrowIs
<1>3. Decrement(a) = IF b[1] = 0 THEN Tail(b) ELSE b
  BY <1>1 DEF Decrement
<1>. HIDE DEF b
<1>4. CASE b[1] = 0
  <2>1. Tail(b) \in Seq(Word) /\ Len(Tail(b)) = Len(b) - 1
        /\ \A i \in 1 .. Len(b) - 1 : Tail(b)[i] = b[1 + i]
    BY <1>1, <1>2
  <2>2. 1 \in 0..Len(b) /\ \A i \in 1..1 : b[i] = 0
    BY <1>1, <1>2, <1>4
  <2>3. Value(Tail(b)) = Value(b)
    BY <1>2, <2>1, <2>2, ZerosGo
  <2>. QED  BY <1>2, <1>3, <1>4, <2>1, <2>3
<1>. QED  BY <1>2, <1>3, <1>4

\* What is behind stays behind, whatever the next words are.
LEMMA StaysBehind ==
  \A x \in Nat, y \in Nat, v \in Word, w \in Word :
    x < y => x * Base + v < y * Base + w
<1>1. ASSUME NEW b \in Nat, NEW x \in Nat, NEW y \in Nat, NEW v \in 0 .. b - 1,
             NEW w \in 0 .. b - 1, x < y
      PROVE  x * b + v < y * b + w
  <2>1. PICK d \in Nat : y = x + 1 + d
    <3>1. y - x - 1 \in Nat /\ y = x + 1 + (y - x - 1)  BY <1>1
    <3>. QED  BY <3>1
  <2>2. (x + 1 + d) * b = x * b + b + d * b
    OBVIOUS
  <2>3. d * b \in Nat /\ x * b \in Nat
    OBVIOUS
  <2>. QED  BY <2>1, <2>2, <2>3
<1>. QED  BY <1>1, BaseIs

LEMMA BehindToTheEnd ==
  ASSUME NEW a \in Seq(Word), NEW b \in Seq(Word), NEW d \in Nat, Len(b) = d + Len(a),
         NEW m \in 0..Len(a), Partial(a)[m] < Partial(b)[d + m]
  PROVE  Value(a) < Value(b)
<1>. DEFINE n == Len(a) - m
            f == Partial(a)
            g == Partial(b)
            S == {i \in 0..n : f[m + i] < g[d + (m + i)]}
<1>0. n \in Nat /\ Len(a) = m + n /\ Len(b) = d + (m + n) /\ m \in Nat
  BY LenIs
<1>1. /\ \A i \in 1..Len(a) : f[i] = f[i - 1] * Base + a[i]
      /\ \A i \in 0..Len(a) : f[i] \in Nat
      /\ \A i \in 1..Len(b) : g[i] = g[i - 1] * Base + b[i]
      /\ \A i \in 0..Len(b) : g[i] \in Nat
      /\ Value(a) = f[m + n] /\ Value(b) = g[d + (m + n)]
  BY <1>0, PartialIs
<1>2. /\ \A i \in 1..Len(a) : a[i] \in Word
      /\ \A i \in 1..Len(b) : b[i] \in Word
  BY ElementIs
<1>3. 0 \in S
  BY <1>0
<1>. HIDE DEF f, g, n
<1>4. ASSUME NEW i \in 0 .. n - 1, i \in S  PROVE i + 1 \in S
  <2>1. /\ m + (i + 1) \in 1..Len(a) /\ (m + (i + 1)) - 1 = m + i /\ m + i \in 0..Len(a)
        /\ d + (m + (i + 1)) \in 1..Len(b) /\ (d + (m + (i + 1))) - 1 = d + (m + i)
        /\ d + (m + i) \in 0..Len(b) /\ i + 1 \in 0..n
    BY <1>0
  <2>2. f[m + (i + 1)] = f[m + i] * Base + a[m + (i + 1)]
    BY <1>1, <2>1
  <2>3. g[d + (m + (i + 1))] = g[d + (m + i)] * Base + b[d + (m + (i + 1))]
    BY <1>1, <2>1
  <2>4. f[m + i] < g[d + (m + i)]
    BY <1>4
  <2>5. f[m + i] \in Nat /\ g[d + (m + i)] \in Nat
    BY <1>1, <2>1
  <2>6. a[m + (i + 1)] \in Word /\ b[d + (m + (i + 1))] \in Word
    BY <1>2, <2>1
  <2>. QED  BY <2>1, <2>2, <2>3, <2>4, <2>5, <2>6, StaysBehind
<1>5. n \in S
  <2>. HIDE DEF S
  <2>1. \A i \in 0..n : i \in S
    BY <1>0, <1>3, <1>4, UpTo
  <2>. QED  BY <1>0, <2>1
<1>. QED  BY <1>1, <1>5

\* The words of a number that begins with none of zero count from the first one.
LEMMA FirstCounts ==
  ASSUME NEW a \in Seq(Word), Len(a) >= 1, a[1] # 0, NEW k \in 1..Len(a)
  PROVE  Partial(a)[k] > 0
<1>. DEFINE f == Partial(a)
            n == Len(a)
            S == {i \in 0 .. n - 1 : f[i + 1] > 0}
<1>0. n \in Nat /\ n >= 1 /\ Base \in Nat /\ Base >= 2 /\ \A i \in 1..n : a[i] \in Nat
  BY LenIs, ElementIs, BaseIs
<1>1. /\ f[0] = 0 /\ \A i \in 1..n : f[i] = f[i - 1] * Base + a[i]
      /\ \A i \in 0..n : f[i] \in Nat
  BY PartialIs
<1>2. 0 \in S
  BY <1>0, <1>1
<1>. HIDE DEF f, n
<1>3. ASSUME NEW i \in 0 .. n - 2, i \in S  PROVE i + 1 \in S
  <2>1. /\ (i + 1) + 1 \in 1..n /\ ((i + 1) + 1) - 1 = i + 1 /\ i + 1 \in 0 .. n - 1
        /\ i + 1 \in 0..n
    BY <1>0
  <2>2. f[(i + 1) + 1] = f[i + 1] * Base + a[(i + 1) + 1] /\ a[(i + 1) + 1] \in Nat
    BY <1>0, <1>1, <2>1
  <2>3. f[i + 1] \in Nat /\ f[i + 1] > 0
    BY <1>1, <1>3, <2>1
  <2>4. \A x \in Nat \ {0}, b \in Nat \ {0} : x * b > 0
    OBVIOUS
  <2>5. f[i + 1] * Base > 0 /\ f[i + 1] * Base \in Nat
    BY <1>0, <2>3, <2>4
  <2>. QED  BY <2>1, <2>2, <2>5
<1>4. k - 1 \in S
  <2>. HIDE DEF S
  <2>1. n - 1 \in Nat /\ (n - 1) - 1 = n - 2
    BY <1>0
  <2>2. \A i \in 0 .. n - 1 : i \in S
    BY <1>2, <1>3, <2>1, UpTo
  <2>. QED  BY <1>0, <2>2 DEF n
<1>5. (k - 1) + 1 = k
  BY <1>0
<1>. QED  BY <1>4, <1>5 DEF f

LEMMA PartialAgree ==
  ASSUME NEW a \in Seq(Word), NEW b \in Seq(Word), Len(a) = Len(b),
         NEW k \in 0..Len(a), \A i \in 1..k : a[i] = b[i]
  PROVE  Partial(a)[k] = Partial(b)[k]
<1>. DEFINE f == Partial(a)
            g == Partial(b)
            S == {i \in 0..k : f[i] = g[i]}
<1>0. Len(a) \in Nat /\ k \in Nat
  BY LenIs
<1>1. /\ f[0] = 0 /\ \A i \in 1..Len(a) : f[i] = f[i - 1] * Base + a[i]
      /\ g[0] = 0 /\ \A i \in 1..Len(a) : g[i] = g[i - 1] * Base + b[i]
  BY PartialIs
<1>. HIDE DEF f, g
<1>2. 0 \in S  BY <1>0, <1>1
<1>3. ASSUME NEW i \in 0 .. k - 1, i \in S  PROVE i + 1 \in S
  <2>1. i + 1 \in 1..Len(a) /\ i + 1 \in 1..k /\ (i + 1) - 1 = i /\ i + 1 \in 0..k  BY <1>0
  <2>2. f[i + 1] = f[i] * Base + a[i + 1] /\ g[i + 1] = g[i] * Base + b[i + 1]
    BY <1>1, <2>1
  <2>. QED  BY <1>3, <2>1, <2>2
<1>4. \A i \in 0..k : i \in S
  <2>. HIDE DEF S
  <2>. QED  BY <1>0, <1>2, <1>3, UpTo
<1>5. k \in 0..k  BY <1>0
<1>. QED  BY <1>4, <1>5 DEF f, g

LEMMA LessIsBelow ==
  ASSUME NEW a, NEW b, IsNumber(a), IsNumber(b), Less(a, b)
  PROVE  Value(a) < Value(b)
<1>0. /\ a \in Seq(Word) /\ Len(a) \in Nat /\ Len(a) >= 1
      /\ b \in Seq(Word) /\ Len(b) \in Nat /\ Len(b) >= 1
  BY LenIs DEF IsNumber
<1>1. CASE Len(a) < Len(b)
  <2>. DEFINE d == Len(b) - Len(a)
  <2>1. b[1] # 0
    BY <1>0, <1>1 DEF IsNumber, Canonical
  <2>2. d \in 1..Len(b) /\ d \in Nat /\ Len(b) = d + Len(a) /\ 0 \in 0..Len(a) /\ d + 0 = d
    BY <1>0, <1>1
  <2>3. Partial(a)[0] = 0 /\ Partial(b)[d + 0] > 0 /\ Partial(b)[d + 0] \in Nat
    <3>. HIDE DEF d
    <3>1. Partial(b)[d] > 0 /\ d \in 0..Len(b)
      BY <1>0, <2>1, <2>2, FirstCounts
    <3>. QED  BY <1>0, <2>2, <3>1, PartialIs
  <2>. HIDE DEF d
  <2>4. Partial(a)[0] < Partial(b)[d + 0]
    BY <2>3
  <2>. QED  BY <1>0, <2>2, <2>4, BehindToTheEnd
<1>2. CASE /\ Len(a) = Len(b)
           /\ \E i \in 1..Len(a) : a[i] < b[i] /\ \A j \in 1 .. i - 1 : a[j] = b[j]
  <2>1. PICK i \in 1..Len(a) : a[i] < b[i] /\ \A j \in 1 .. i - 1 : a[j] = b[j]
    BY <1>2
  <2>2. i - 1 \in 0..Len(a) /\ i \in 0..Len(a) /\ 0 + i = i /\ 0 \in Nat /\ Len(b) = 0 + Len(a)
    BY <1>0, <1>2
  <2>3. Partial(a)[i - 1] = Partial(b)[i - 1] /\ Partial(a)[i - 1] \in Nat
    BY <1>0, <1>2, <2>1, <2>2, PartialAgree, PartialIs
  <2>4. /\ Partial(a)[i] = Partial(a)[i - 1] * Base + a[i]
        /\ Partial(b)[i] = Partial(b)[i - 1] * Base + b[i]
    BY <1>0, <1>2, <2>1, PartialIs
  <2>5. a[i] \in Nat /\ b[i] \in Nat /\ Base \in Nat
    BY <1>0, <1>2, <2>1, BaseIs, ElementIs
  <2>6. Partial(a)[i] < Partial(b)[i]
    <3>1. \A x \in Nat, y \in Nat : x * y \in Nat  OBVIOUS
    <3>. QED  BY <2>1, <2>3, <2>4, <2>5, <3>1
  <2>. QED  BY <1>0, <2>2, <2>6, BehindToTheEnd
<1>. QED  BY <1>1, <1>2 DEF Less

\* Of two numbers one is less, or they are the same.
LEMMA Trichotomy ==
  ASSUME NEW a \in Seq(Word), NEW b \in Seq(Word)
  PROVE  Less(a, b) \/ a = b \/ Less(b, a)
<1>0. Len(a) \in Nat /\ Len(b) \in Nat
  BY LenIs
<1>1. CASE Len(a) # Len(b)
  BY <1>0, <1>1 DEF Less
<1>2. CASE Len(a) = Len(b) /\ a # b
  <2>. DEFINE S == {i \in 1..Len(a) : a[i] # b[i]}
  <2>1. S # {} /\ S \in SUBSET Nat
    BY <1>2, SameSeq
  <2>2. PICK i \in S : \A j \in S : i <= j
    <3>. HIDE DEF S
    <3>. QED  BY <2>1, LeastIsThere
  <2>3. i \in 1..Len(a) /\ i \in 1..Len(b) /\ a[i] # b[i] /\ a[i] \in Nat /\ b[i] \in Nat
    BY <1>2, BaseIs, ElementIs
  <2>4. \A j \in 1 .. i - 1 : a[j] = b[j]
    BY <1>0, <2>2, <2>3
  <2>5. a[i] < b[i] \/ b[i] < a[i]
    BY <2>3
  <2>. QED  BY <1>2, <2>3, <2>4, <2>5 DEF Less
<1>. QED  BY <1>1, <1>2

LEMMA LessIs ==
  ASSUME NEW a, NEW b, IsNumber(a), IsNumber(b)
  PROVE  Less(a, b) <=> Value(a) < Value(b)
<1>1. a \in Seq(Word) /\ b \in Seq(Word)
  BY DEF IsNumber
<1>2. Value(a) \in Nat /\ Value(b) \in Nat
  BY <1>1, PartialIs
<1>3. CASE Less(a, b)  BY <1>3, LessIsBelow
<1>4. CASE a = b       
  <2>1. ~ (Value(a) < Value(b))  BY <1>2, <1>4
  <2>2. ~ Less(a, a)
    <3>1. Len(a) \in Nat /\ \A i \in 1..Len(a) : a[i] \in Nat
      BY <1>1, LenIs, ElementIs, BaseIs
    <3>. QED  BY <3>1 DEF Less
  <2>. QED  BY <1>4, <2>1, <2>2
<1>5. CASE Less(b, a)
  <2>1. Value(b) < Value(a)  BY <1>5, LessIsBelow
  <2>2. ~ (Value(a) < Value(b))  BY <1>2, <2>1
  <2>3. ~ Less(a, b)
    <3>1. SUFFICES ASSUME Less(a, b)  PROVE FALSE  OBVIOUS
    <3>2. Value(a) < Value(b)  BY <3>1, LessIsBelow
    <3>. QED  BY <2>2, <3>2
  <2>. QED  BY <2>2, <2>3
<1>. QED  BY <1>1, <1>3, <1>4, <1>5, Trichotomy

\* What overflows a word once.
LEMMA OverOnce ==
  \A n \in 0 .. 2 * Base - 1 : n % Base = IF n < Base THEN n ELSE n - Base
<1>1. ASSUME NEW b \in Nat, b >= 2, NEW n \in 0 .. 2 * b - 1
      PROVE  n % b = IF n < b THEN n ELSE n - b
  <2>. DEFINE q == n \div b
              r == n % b
  <2>0. b \in Nat \ {0} /\ n \in Nat
    BY <1>1
  <2>1. q \in Nat /\ r \in 0 .. b - 1 /\ q * b + r = n
    BY ONLY <2>0, Division
  <2>. HIDE DEF q, r
  <2>2. CASE q = 0  BY <2>1, <2>2
  <2>3. CASE q = 1  BY <2>1, <2>3
  <2>4. CASE q >= 2
    <3>1. PICK d \in Nat : q = 2 + d
      <4>1. q - 2 \in Nat /\ q = 2 + (q - 2)  BY <2>1, <2>4
      <4>. QED  BY <4>1
    <3>2. (2 + d) * b = 2 * b + d * b /\ d * b \in Nat
      OBVIOUS
    <3>. QED  BY <2>1, <3>1, <3>2
  <2>5. n % b = r  BY DEF r
  <2>. QED  BY <2>1, <2>2, <2>3, <2>4, <2>5
<1>. QED  BY <1>1, BaseIs

\* A word with a carry: what stays and what goes on add up.
AddsUp(x, d, own, w, c) == x \in Word /\ d \in {0, 1} /\ x + d * Base = own + w + c

AddedWord(st, s, c, w, offset) ==
  \E x, d :
    IF offset = Len(s)
    THEN st = [num |-> <<x>> \o s, carry |-> d] /\ AddsUp(x, d, 0, w, c)
    ELSE /\ st = [num |-> [s EXCEPT ![Len(s) - offset] = x], carry |-> d]
         /\ AddsUp(x, d, s[Len(s) - offset], w, c)

LEMMA AddWordIs ==
  ASSUME NEW s \in Seq(Word), NEW c \in {0, 1}, NEW w \in Word,
         NEW offset \in Nat, offset <= Len(s)
  PROVE  AddedWord(AddWord([num |-> s, carry |-> c], w, offset), s, c, w, offset)
<1>. DEFINE at == Len(s) - offset
            tmp == (w + c) % Base
            carried == IF c > Highest - w THEN 1 ELSE 0
            y == (s[at] + tmp) % Base
            e == IF tmp > Highest - s[at] THEN 1 ELSE carried
            st == [num |-> s, carry |-> c]
<1>0. /\ Len(s) \in Nat /\ Base \in Nat /\ Base >= 2 /\ Highest = Base - 1
      /\ Word = 0 .. Base - 1 /\ Highest + 1 = Base /\ w \in Nat /\ c \in Nat
  BY LenIs, BaseIs
<1>1. tmp = IF w + c < Base THEN w + c ELSE w + c - Base
  <2>. DEFINE n == w + c
  <2>1. n \in 0 .. 2 * Base - 1  BY <1>0
  <2>. HIDE DEF n
  <2>2. n % Base = IF n < Base THEN n ELSE n - Base  BY <2>1, OverOnce
  <2>. QED  BY <1>0, <2>2 DEF n
<1>2. /\ tmp \in Word /\ carried \in {0, 1} /\ tmp + carried * Base = w + c
      /\ carried = 1 => tmp = 0
  <2>. HIDE DEF tmp
  <2>1. CASE w + c < Base  BY <1>0, <1>1, <2>1
  <2>2. CASE ~ (w + c < Base)  BY <1>0, <1>1, <2>2
  <2>. QED  BY <2>1, <2>2
<1>3. AddWord(st, w, offset) =
        [num |-> IF at < 1 THEN <<tmp>> \o s ELSE [s EXCEPT ![at] = (s[at] + tmp) % Base],
         carry |-> IF at >= 1 /\ tmp > Highest - s[at] THEN 1 ELSE carried]
  <2>1. st.num = s /\ st.carry = c  OBVIOUS
  <2>. HIDE DEF st
  <2>. QED  BY <1>0, <2>1, Zenon DEF AddWord
<1>. HIDE DEF tmp, carried, st
<1>4. CASE offset = Len(s)
  <2>1. at < 1 /\ ~ (at >= 1)  BY <1>0, <1>4
  <2>. HIDE DEF at
  <2>2. AddWord(st, w, offset) = [num |-> <<tmp>> \o s, carry |-> carried]
    BY <1>3, <2>1, Zenon
  <2>3. AddsUp(tmp, carried, 0, w, c)
    <3>1. carried = 0 \/ carried = 1  BY <1>2
    <3>. QED  BY <1>0, <1>2, <3>1 DEF AddsUp
  <2>. QED  BY <1>4, <2>2, <2>3, Zenon DEF st, AddedWord
<1>5. CASE offset # Len(s)
  <2>1. ~ (at < 1) /\ at >= 1 /\ at \in 1..Len(s)  BY <1>0, <1>5
  <2>2. s[at] \in Word /\ s[at] \in Nat
    <3>. HIDE DEF at
    <3>. QED  BY <1>0, <2>1, ElementIs
  <2>. HIDE DEF at
  <2>3. AddWord(st, w, offset) = [num |-> [s EXCEPT ![at] = y], carry |-> e]
    BY <1>3, <2>1, Zenon
  <2>4. AddsUp(y, e, s[at], w, c)
    <3>. DEFINE own == s[at]
    <3>1. own \in Word /\ own \in Nat  BY <2>2
    <3>. HIDE DEF own
    <3>2. own + tmp \in 0 .. 2 * Base - 1  BY <1>0, <1>2, <3>1
    <3>. DEFINE z == (own + tmp) % Base
    <3>3. z = IF own + tmp < Base THEN own + tmp ELSE own + tmp - Base
      <4>. DEFINE n == own + tmp
      <4>1. n \in 0 .. 2 * Base - 1  BY <3>2
      <4>. HIDE DEF n
      <4>2. n % Base = IF n < Base THEN n ELSE n - Base  BY <4>1, OverOnce
      <4>. QED  BY <1>0, <1>2, <3>1, <4>2 DEF n
    <3>. DEFINE h == IF tmp > Highest - own THEN 1 ELSE carried
    <3>. HIDE DEF z
    <3>4. z \in Word /\ h \in {0, 1} /\ z + h * Base = own + w + c
      <4>1. carried = 0 \/ carried = 1  BY <1>2
      <4>2. CASE own + tmp < Base
        <5>1. h = carried /\ z = own + tmp
          BY <1>0, <1>2, <3>1, <3>3, <4>2
        <5>. HIDE DEF h
        <5>2. CASE carried = 0  BY <1>0, <1>2, <3>1, <4>2, <5>1, <5>2
        <5>3. CASE carried = 1  BY <1>0, <1>2, <3>1, <4>2, <5>1, <5>3
        <5>. QED  BY <4>1, <5>2, <5>3
      <4>3. CASE ~ (own + tmp < Base)
        <5>1. h = 1 /\ z = own + tmp - Base /\ carried = 0 
          BY <1>0, <1>2, <3>1, <3>3, <4>1, <4>3
        <5>. HIDE DEF h
        <5>. QED  BY <1>0, <1>2, <3>1, <4>3, <5>1
      <4>. QED  BY <4>2, <4>3
    <3>. QED  BY <3>4 DEF AddsUp, own, z
  <2>. QED  BY <1>5, <2>3, <2>4, Zenon DEF st, at, AddedWord
<1>. QED  BY <1>4, <1>5


LEMMA PlusRuns ==
  ASSUME NEW a, NEW b, Len(b) \in Nat
  PROVE  \E f : /\ f[0] = [num |-> a, carry |-> 0]
                /\ \A k \in 1..Len(b) : f[k] = AddWord(f[k - 1], b[Len(b) - k + 1], k - 1)
                /\ Plus(a, b) = IF f[Len(b)].carry > 0
                             THEN <<f[Len(b)].carry>> \o f[Len(b)].num
                             ELSE f[Len(b)].num
<1>. DEFINE n == Len(b)
            Is(f, m) == f = [k \in 0..m |-> IF k = 0 THEN [num |-> a, carry |-> 0]
                                            ELSE AddWord(f[k - 1], b[Len(b) - k + 1], k - 1)]
            S == {m \in Nat : \E f : Is(f, m)}
<1>0. n \in Nat  OBVIOUS
<1>1. 0 \in S
  <2>1. Is([k \in 0..0 |-> [num |-> a, carry |-> 0]], 0)  OBVIOUS
  <2>. HIDE DEF Is
  <2>. QED  BY <2>1
<1>2. ASSUME NEW m \in Nat, m \in S
      PROVE  m + 1 \in S
  <2>1. PICK f : Is(f, m)
    <3>. HIDE DEF Is
    <3>. QED  BY <1>2
  <2>. DEFINE i == m + 1
              x == AddWord(f[m], b[Len(b) - i + 1], i - 1)
              g == [k \in 0..i |-> IF k = i THEN x ELSE f[k]]
  <2>0. i \in Nat /\ i - 1 = m /\ i # 0 /\ i = m + 1 /\ m \in 0..i /\ m # i
    OBVIOUS
  <2>. HIDE DEF i
  <2>2. ASSUME NEW k \in 0..i
        PROVE  g[k] = IF k = 0 THEN [num |-> a, carry |-> 0] ELSE AddWord(g[k - 1], b[Len(b) - k + 1], k - 1)
    <3>1. CASE k = 0
      <4>1. g[0] = f[0] /\ f[0] = [num |-> a, carry |-> 0]
        <5>1. 0 # i /\ 0 \in 0..i /\ 0 \in 0..m  BY <2>0
        <5>. QED  BY <2>1, <5>1
      <4>. QED  BY <3>1, <4>1
    <3>2. CASE k # 0 /\ k # i
      <4>1. k \in 0..m /\ k - 1 \in 0..i /\ k - 1 # i
        BY <2>0, <3>2
      <4>2. f[k] = AddWord(f[k - 1], b[Len(b) - k + 1], k - 1)
        BY <2>1, <3>2, <4>1
      <4>3. g[k] = f[k] /\ g[k - 1] = f[k - 1]
        BY <3>2, <4>1
      <4>. HIDE DEF g, x
      <4>. QED  BY <3>2, <4>2, <4>3
    <3>3. CASE k = i
      <4>1. g[k] = x /\ g[m] = f[m] /\ k # 0 /\ k - 1 = m
        BY <2>0, <3>3
      <4>. HIDE DEF g
      <4>2. x = AddWord(g[k - 1], b[Len(b) - k + 1], k - 1)
        BY <3>3, <4>1
      <4>. HIDE DEF x
      <4>. QED  BY <4>1, <4>2
    <3>. QED  BY <3>1, <3>2, <3>3
  <2>3. Is(g, i)
    <3>1. g = [k \in 0..i |-> g[k]]  OBVIOUS
    <3>. HIDE DEF g, x
    <3>2. [k \in 0..i |-> g[k]] = [k \in 0..i |-> IF k = 0 THEN [num |-> a, carry |-> 0] ELSE AddWord(g[k - 1], b[Len(b) - k + 1], k - 1)]
      BY <2>2, Zenon
    <3>. QED  BY <3>1, <3>2, Zenon
  <2>. HIDE DEF Is, g
  <2>. QED  BY <2>0, <2>3
<1>3. n \in S
  <2>. HIDE DEF S, n
  <2>. QED  BY <1>0, <1>1, <1>2, Induction
<1>4. PICK f : Is(f, n) /\ f = CHOOSE g : Is(g, n)
  <2>1. \E f : Is(f, n)
    <3>. HIDE DEF Is, n
    <3>. QED  BY <1>3
  <2>. HIDE DEF Is
  <2>. QED  BY <2>1
<1>5. Plus(a, b) = IF f[Len(b)].carry > 0
                             THEN <<f[Len(b)].carry>> \o f[Len(b)].num
                             ELSE f[Len(b)].num
  <2>1. (CHOOSE g : Is(g, n)) = f
    BY <1>4
  <2>2. LET added == CHOOSE g : Is(g, n)
            sum == added[Len(b)]
        IN  Plus(a, b) = IF sum.carry > 0 THEN <<sum.carry>> \o sum.num ELSE sum.num
    BY Zenon DEF Plus
  <2>. HIDE DEF Is, n
  <2>. QED  BY <2>1, <2>2, Zenon
<1>6. f[0] = [num |-> a, carry |-> 0] /\ \A k \in 1..n : f[k] = AddWord(f[k - 1], b[Len(b) - k + 1], k - 1)
  <2>1. \A k \in 0..n : f[k] = IF k = 0 THEN [num |-> a, carry |-> 0] ELSE AddWord(f[k - 1], b[Len(b) - k + 1], k - 1)
    BY <1>4
  <2>. HIDE DEF n, Is
  <2>2. 0 \in 0..n /\ \A k \in 1..n : k \in 0..n /\ k # 0  BY <1>0
  <2>. QED  BY ONLY <2>1, <2>2
<1>. QED  BY <1>5, <1>6


\* After k words of b, of a and b the last k words were added.
Longer(m, k) == IF k <= m THEN m ELSE k
WordAt(a, q) == IF q < Len(a) THEN a[Len(a) - q] ELSE 0
AddedUpTo(a, b, f, k) ==
  /\ f[k] \in [num : Seq(Word), carry : {0, 1}]
  /\ Len(f[k].num) = Longer(Len(a), k)
  /\ \A q \in 0 .. k - 1 :
       f[k].num[Longer(Len(a), k) - q] + f[q + 1].carry * Base
         = WordAt(a, q) + b[Len(b) - q] + f[q].carry
  /\ \A q \in k .. Len(a) - 1 : f[k].num[Len(a) - q] = a[Len(a) - q]

LEMMA AddsNext ==
  ASSUME NEW a \in Seq(Word), NEW b \in Seq(Word), NEW f, NEW k \in 0 .. Len(b) - 1,
         AddedUpTo(a, b, f, k), f[k + 1] = AddWord(f[k], b[Len(b) - k], k)
  PROVE  AddedUpTo(a, b, f, k + 1)
<1>. DEFINE s == f[k].num
            c == f[k].carry
            m == Len(a)
            w == b[Len(b) - k]
<1>0. /\ m \in Nat /\ k \in Nat /\ Len(b) \in Nat /\ Len(b) - k \in 1..Len(b) /\ w \in Word
  BY LenIs, ElementIs
<1>1. /\ s \in Seq(Word) /\ c \in {0, 1} /\ f[k] = [num |-> s, carry |-> c]
      /\ Len(s) = Longer(m, k)
      /\ \A q \in 0 .. k - 1 : s[Longer(m, k) - q] + f[q + 1].carry * Base
                                 = WordAt(a, q) + b[Len(b) - q] + f[q].carry
      /\ \A q \in k .. m - 1 : s[m - q] = a[m - q]
  BY DEF AddedUpTo
<1>2. f[k + 1] = AddWord([num |-> s, carry |-> c], w, k)
  BY <1>1
<1>3. k <= Len(s)
  BY <1>0, <1>1 DEF Longer
<1>. HIDE DEF s, c
<1>4. PICK x, d :
        IF k = Len(s)
        THEN /\ f[k + 1] = [num |-> <<x>> \o s, carry |-> d]
             /\ AddsUp(x, d, 0, w, c)
        ELSE /\ f[k + 1] = [num |-> [s EXCEPT ![Len(s) - k] = x], carry |-> d]
             /\ AddsUp(x, d, s[Len(s) - k], w, c)
  <2>1. AddedWord(f[k + 1], s, c, w, k)
    BY <1>0, <1>1, <1>2, <1>3, AddWordIs
  <2>. QED  BY <2>1, Zenon DEF AddedWord
<1>5. x \in Word /\ d \in {0, 1} /\ f[k + 1].carry = d
  BY <1>4 DEF AddsUp
<1>6. f[k].carry = c
  BY DEF c
<1>. HIDE DEF w
<1>7. CASE k < m
  <2>0. k # Len(s) /\ Len(s) = m /\ Longer(m, k) = m /\ Longer(m, k + 1) = m /\ m - k \in 1..m
    BY <1>0, <1>1, <1>7 DEF Longer
  <2>. DEFINE t == [s EXCEPT ![m - k] = x]
  <2>1. f[k + 1] = [num |-> t, carry |-> d] /\ AddsUp(x, d, s[m - k], w, c)
    BY <1>4, <2>0
  <2>2. /\ t \in Seq(Word) /\ Len(t) = m /\ t[m - k] = x
        /\ \A i \in 1..m : i # m - k => t[i] = s[i]
    BY <1>0, <1>1, <1>5, <2>0
  <2>. HIDE DEF t
  <2>3. f[k + 1] \in [num : Seq(Word), carry : {0, 1}] /\ f[k + 1].num = t
    BY <1>5, <2>1, <2>2
  <2>4. ASSUME NEW q \in 0 .. (k + 1) - 1
        PROVE  t[m - q] + f[q + 1].carry * Base = WordAt(a, q) + b[Len(b) - q] + f[q].carry
    <3>1. CASE q = k
      <4>1. t[m - q] + f[q + 1].carry * Base = s[m - k] + w + c
        BY <1>5, <2>1, <2>2, <3>1 DEF AddsUp
      <4>2. s[m - k] = WordAt(a, q)
        BY <1>0, <1>1, <1>7, <3>1 DEF WordAt
      <4>3. w = b[Len(b) - q]  BY <3>1 DEF w
      <4>. QED  BY <1>6, <3>1, <4>1, <4>2, <4>3
    <3>2. CASE q # k
      <4>1. q \in 0 .. k - 1 /\ m - q \in 1..m /\ m - q # m - k
        BY <1>0, <1>7, <3>2
      <4>2. t[m - q] = s[m - q]
        BY <2>2, <4>1
      <4>. QED  BY <1>1, <2>0, <4>1, <4>2
    <3>. QED  BY <3>1, <3>2
  <2>5. ASSUME NEW q \in k + 1 .. m - 1  PROVE t[m - q] = a[m - q]
    <3>1. q \in k .. m - 1 /\ m - q \in 1..m /\ m - q # m - k
      BY <1>0
    <3>. QED  BY <1>1, <2>2, <3>1
  <2>. QED  BY <2>0, <2>2, <2>3, <2>4, <2>5 DEF AddedUpTo
<1>8. CASE k >= m
  <2>0. k = Len(s) /\ Longer(m, k) = k /\ Longer(m, k + 1) = k + 1
    BY <1>0, <1>1, <1>8 DEF Longer
  <2>. DEFINE t == <<x>> \o s
  <2>1. f[k + 1] = [num |-> t, carry |-> d] /\ AddsUp(x, d, 0, w, c)
    BY <1>4, <2>0
  <2>2. /\ t \in Seq(Word) /\ Len(t) = k + 1 /\ t[1] = x
        /\ \A i \in 1..k : t[1 + i] = s[i]
    <3>1. <<x>> \in Seq(Word) /\ Len(<<x>>) = 1 /\ <<x>>[1] = x
      BY <1>5, OneIs
    <3>2. /\ t \in Seq(Word) /\ Len(t) = 1 + k
          /\ \A i \in 1..1 : t[i] = <<x>>[i]
          /\ \A i \in 1..k : t[1 + i] = s[i]
      BY <1>1, <2>0, <3>1, JoinIs
    <3>. QED  BY <1>0, <3>1, <3>2
  <2>. HIDE DEF t
  <2>3. f[k + 1] \in [num : Seq(Word), carry : {0, 1}] /\ f[k + 1].num = t
    BY <1>5, <2>1, <2>2
  <2>4. ASSUME NEW q \in 0 .. (k + 1) - 1
        PROVE  t[(k + 1) - q] + f[q + 1].carry * Base
                 = WordAt(a, q) + b[Len(b) - q] + f[q].carry
    <3>1. CASE q = k
      <4>1. t[(k + 1) - q] = x
        <5>1. (k + 1) - q = 1  BY <1>0, <3>1
        <5>. QED  BY <2>2, <5>1
      <4>2. t[(k + 1) - q] + f[q + 1].carry * Base = 0 + w + c
        BY <1>5, <2>1, <3>1, <4>1 DEF AddsUp
      <4>3. WordAt(a, q) = 0
        BY <1>0, <1>8, <3>1 DEF WordAt
      <4>4. w = b[Len(b) - q]  BY <3>1 DEF w
      <4>. QED  BY <1>6, <3>1, <4>2, <4>3, <4>4
    <3>2. CASE q # k
      <4>1. q \in 0 .. k - 1 /\ k - q \in 1..k /\ (k + 1) - q = 1 + (k - q)
        BY <1>0, <3>2
      <4>2. t[(k + 1) - q] = s[k - q]
        BY <2>2, <4>1
      <4>. QED  BY <1>1, <2>0, <4>1, <4>2
    <3>. QED  BY <3>1, <3>2
  <2>5. ASSUME NEW q \in k + 1 .. m - 1  PROVE FALSE
    BY <1>0, <1>8
  <2>. QED  BY <2>0, <2>2, <2>3, <2>4, <2>5 DEF AddedUpTo
<1>. QED  BY <1>0, <1>7, <1>8

\* A number counted with zeros in front, as long as n words.
LEMMA Padded ==
  ASSUME NEW a \in Seq(Word), NEW n \in Nat, Len(a) <= n
  PROVE  \E p : /\ p[0] = 0 /\ p[n] = Value(a) /\ \A j \in 0..n : p[j] \in Nat
                /\ \A j \in 1..n : p[j] = p[j - 1] * Base + WordAt(a, n - j)
<1>. DEFINE m == Len(a)
            d == n - m
            f == Partial(a)
            p == [j \in 0..n |-> IF j <= d THEN 0 ELSE f[j - d]]
<1>0. m \in Nat /\ d \in Nat /\ n = d + m /\ Base \in Nat
  BY LenIs, BaseIs
<1>1. /\ f[0] = 0 /\ Value(a) = f[m] /\ \A i \in 0..m : f[i] \in Nat
      /\ \A i \in 1..m : f[i] = f[i - 1] * Base + a[i]
  BY PartialIs
<1>2. \A q \in Nat : WordAt(a, q) = IF q < m THEN a[m - q] ELSE 0
  BY DEF WordAt
<1>. HIDE DEF f, m, d
<1>3. p[0] = 0
  BY <1>0
<1>4. p[n] = Value(a)
  BY <1>0, <1>1
<1>5. ASSUME NEW j \in 0..n  PROVE p[j] \in Nat
  <2>1. j <= d \/ j - d \in 0..m  BY <1>0
  <2>. QED  BY <1>1, <2>1
<1>6. ASSUME NEW j \in 1..n  PROVE p[j] = p[j - 1] * Base + WordAt(a, n - j)
  <2>1. j \in 0..n /\ j - 1 \in 0..n /\ n - j \in Nat  BY <1>0
  <2>2. /\ p[j] = IF j <= d THEN 0 ELSE f[j - d]
        /\ p[j - 1] = IF j - 1 <= d THEN 0 ELSE f[(j - 1) - d]
    BY <2>1
  <2>. HIDE DEF p
  <2>3. CASE j <= d
    <3>1. ~ (n - j < m) /\ j - 1 <= d  BY <1>0, <2>3
    <3>2. WordAt(a, n - j) = 0  BY <1>2, <2>1, <3>1
    <3>. QED  BY <1>0, <2>2, <2>3, <3>1, <3>2
  <2>4. CASE ~ (j <= d)
    <3>1. n - j < m /\ m - (n - j) = j - d /\ j - d \in 1..m /\ (j - d) - 1 = (j - 1) - d
      BY <1>0, <2>4
    <3>2. WordAt(a, n - j) = a[j - d]  BY <1>2, <2>1, <3>1
    <3>3. f[j - d] = f[(j - 1) - d] * Base + a[j - d]  BY <1>1, <3>1
    <3>4. p[j - 1] = f[(j - 1) - d]
      <4>1. CASE j - 1 <= d
        <5>1. (j - 1) - d = 0  BY <1>0, <2>4, <4>1
        <5>. QED  BY <1>1, <2>2, <4>1, <5>1
      <4>2. CASE ~ (j - 1 <= d)  BY <2>2, <4>2
      <4>. QED  BY <4>1, <4>2
    <3>. QED  BY <2>2, <2>4, <3>2, <3>3, <3>4
  <2>. QED  BY <2>3, <2>4
<1>. HIDE DEF p
<1>. QED  BY <1>3, <1>4, <1>5, <1>6

LEMMA PlusIs ==
  ASSUME NEW a \in Seq(Word), NEW b \in Seq(Word), Len(a) <= Len(b)
  PROVE  Plus(a, b) \in Seq(Word) /\ Value(Plus(a, b)) = Value(a) + Value(b)
<1>. DEFINE n == Len(b)
            m == Len(a)
<1>0. n \in Nat /\ m \in Nat /\ Base \in Nat /\ Base >= 2 /\ Word = 0 .. Base - 1
  BY LenIs, BaseIs
<1>1. PICK f : /\ f[0] = [num |-> a, carry |-> 0]
               /\ \A k \in 1..n : f[k] = AddWord(f[k - 1], b[n - k + 1], k - 1)
               /\ Plus(a, b) = IF f[n].carry > 0 THEN <<f[n].carry>> \o f[n].num ELSE f[n].num
  BY <1>0, PlusRuns
<1>. DEFINE S == {k \in 0..n : AddedUpTo(a, b, f, k)}
<1>2. 0 \in S
  <2>1. Longer(m, 0) = m  BY <1>0 DEF Longer
  <2>2. f[0].num = a /\ f[0].carry = 0 /\ f[0] \in [num : Seq(Word), carry : {0, 1}]
    BY <1>1
  <2>. QED  BY <1>0, <2>1, <2>2 DEF AddedUpTo
<1>3. ASSUME NEW k \in 0 .. n - 1, k \in S  PROVE k + 1 \in S
  <2>1. k + 1 \in 1..n /\ (k + 1) - 1 = k /\ n - (k + 1) + 1 = n - k /\ k + 1 \in 0..n
    BY <1>0
  <2>2. f[k + 1] = AddWord(f[k], b[n - k], k)
    BY <1>1, <2>1
  <2>. QED  BY <1>3, <2>1, <2>2, AddsNext
<1>4. AddedUpTo(a, b, f, n) /\ \A k \in 0..n : f[k].carry \in {0, 1}
  <2>1. \A k \in 0..n : k \in S
    <3>. HIDE DEF S, n
    <3>. QED  BY <1>0, <1>2, <1>3, UpTo
  <2>2. n \in 0..n  BY <1>0
  <2>. QED  BY <2>1, <2>2 DEF AddedUpTo
<1>. DEFINE s == f[n].num
            c == f[n].carry
<1>5. /\ s \in Seq(Word) /\ c \in {0, 1} /\ Len(s) = n
      /\ \A q \in 0 .. n - 1 :
           s[n - q] + f[q + 1].carry * Base = WordAt(a, q) + b[n - q] + f[q].carry
  <2>1. Longer(m, n) = n  BY <1>0 DEF Longer
  <2>. QED  BY <1>4, <2>1 DEF AddedUpTo
<1>6. PICK p : /\ p[0] = 0 /\ p[n] = Value(a) /\ \A j \in 0..n : p[j] \in Nat
               /\ \A j \in 1..n : p[j] = p[j - 1] * Base + WordAt(a, n - j)
  BY <1>0, Padded
<1>. DEFINE u == Partial(b)
            h == [j \in 0..n |-> (p[j] + u[j]) + f[n - j].carry]
<1>7. /\ u[0] = 0 /\ Value(b) = u[n] /\ \A j \in 0..n : u[j] \in Nat
      /\ \A j \in 1..n : u[j] = u[j - 1] * Base + b[j]
  BY PartialIs
<1>8. /\ \A j \in 1..n : b[j] \in Nat /\ s[j] \in Nat
      /\ \A q \in Nat : WordAt(a, q) \in Nat
  BY <1>0, <1>5, ElementIs DEF WordAt
<1>9. Plus(a, b) = IF c > 0 THEN <<c>> \o s ELSE s
  BY <1>1
<1>10. f[0].carry = 0
  BY <1>1
<1>. HIDE DEF n, s, c, u, S, m
<1>11. ASSUME NEW j \in 1..n  PROVE h[j] = h[j - 1] * Base + s[j]
  <2>. DEFINE q == n - j
  <2>1. /\ q \in 0 .. n - 1 /\ n - q = j /\ n - (j - 1) = q + 1 /\ q + 1 \in 0..n /\ q \in 0..n
        /\ j \in 0..n /\ j - 1 \in 0..n /\ q \in Nat
    BY <1>0
  <2>2. s[j] + f[q + 1].carry * Base = WordAt(a, q) + b[j] + f[q].carry
    <3>. HIDE DEF q
    <3>. QED  BY <1>5, <2>1
  <2>3. p[j] = p[j - 1] * Base + WordAt(a, q) /\ u[j] = u[j - 1] * Base + b[j]
    BY <1>6, <1>7
  <2>4. h[j] = (p[j] + u[j]) + f[q].carry /\ h[j - 1] = (p[j - 1] + u[j - 1]) + f[q + 1].carry
    BY <2>1
  <2>. HIDE DEF q, h
  <2>5. /\ p[j - 1] \in Nat /\ u[j - 1] \in Nat /\ f[q + 1].carry \in {0, 1}
        /\ f[q].carry \in {0, 1} /\ s[j] \in Nat /\ WordAt(a, q) \in Nat /\ b[j] \in Nat
    BY <1>4, <1>6, <1>7, <1>8, <2>1
  <2>6. ((p[j - 1] + u[j - 1]) + f[q + 1].carry) * Base + s[j]
          = ((p[j - 1] * Base + WordAt(a, q)) + (u[j - 1] * Base + b[j])) + f[q].carry
    <3>. DEFINE x == p[j - 1]
                y == u[j - 1]
                e == f[q + 1].carry
                d == f[q].carry
                r == s[j]
                v == WordAt(a, q)
                w == b[j]
    <3>1. /\ x \in Nat /\ y \in Nat /\ e \in {0, 1} /\ d \in {0, 1}
          /\ r \in Nat /\ v \in Nat /\ w \in Nat /\ r + e * Base = v + w + d
      BY <2>2, <2>5
    <3>. HIDE DEF x, y, e, d, r, v, w
    <3>2. Base \in Nat
      BY <1>0
    <3>. DEFINE xb == x * Base
                yb == y * Base
                eb == e * Base
    <3>3. ((x + y) + e) * Base = xb + yb + eb /\ xb \in Nat /\ yb \in Nat /\ eb \in Nat
      BY ONLY <3>1, <3>2
    <3>4. r + eb = v + w + d
      BY <3>1
    <3>. HIDE DEF xb, yb, eb
    <3>5. ((x + y) + e) * Base + r = ((xb + v) + (yb + w)) + d
      BY ONLY <3>1, <3>3, <3>4
    <3>. QED  BY <3>5 DEF xb, yb, eb, x, y, e, d, r, v, w
  <2>. QED  BY <2>3, <2>4, <2>6
<1>12. h[0] = c /\ h[n] = Value(a) + Value(b) /\ \A j \in 0..n : h[j] \in Nat
  <2>1. f[n].carry = c  BY DEF c
  <2>2. n - 0 = n /\ n - n = 0 /\ 0 \in 0..n /\ n \in 0..n  BY <1>0
  <2>3. h[0] = (p[0] + u[0]) + f[n].carry /\ h[n] = (p[n] + u[n]) + f[0].carry
    BY <2>2
  <2>4. ASSUME NEW j \in 0..n  PROVE h[j] \in Nat
    <3>1. n - j \in 0..n  BY <1>0
    <3>2. p[j] \in Nat /\ u[j] \in Nat /\ f[n - j].carry \in Nat
      BY <1>4, <1>6, <1>7, <3>1
    <3>. QED  BY <3>2
  <2>5. p[n] \in Nat /\ u[n] \in Nat  BY <1>6, <1>7, <2>2
  <2>. HIDE DEF h
  <2>. QED  BY <1>5, <1>6, <1>7, <1>10, <2>1, <2>3, <2>4, <2>5
<1>. HIDE DEF h
<1>13. CASE c = 0
  <2>1. Plus(a, b) = s  BY <1>9, <1>13
  <2>2. \A j \in 0..n : Partial(s)[j] = h[j]
    <3>1. s \in Seq(Word) /\ h[0] = 0 /\ \A i \in 1..Len(s) : h[i] = h[i - 1] * Base + s[i]
      BY <1>5, <1>11, <1>12, <1>13
    <3>2. \A i \in 0..Len(s) : Partial(s)[i] = h[i]
      BY ONLY <3>1, ValueBy
    <3>. QED  BY <1>5, <3>2
  <2>3. Value(s) = h[n]
    <3>1. s \in Seq(Word) /\ Len(s) = n /\ n \in 0..n  BY <1>0, <1>5
    <3>2. Value(s) = Partial(s)[Len(s)]  BY ONLY <3>1, PartialIs
    <3>. QED  BY ONLY <2>2, <3>1, <3>2
  <2>. QED  BY <1>5, <1>12, <2>1, <2>3
<1>14. CASE c = 1
  <2>. DEFINE t == <<c>> \o s
              g == [i \in 0 .. n + 1 |-> IF i = 0 THEN 0 ELSE h[i - 1]]
  <2>1. Plus(a, b) = t  BY <1>9, <1>14
  <2>2. /\ t \in Seq(Word) /\ Len(t) = n + 1 /\ t[1] = c
        /\ \A i \in 1..n : t[1 + i] = s[i]
    <3>1. <<c>> \in Seq(Word) /\ Len(<<c>>) = 1 /\ <<c>>[1] = c
      BY <1>0, <1>14
    <3>2. /\ t \in Seq(Word) /\ Len(t) = 1 + n
          /\ \A i \in 1..1 : t[i] = <<c>>[i]
          /\ \A i \in 1..n : t[1 + i] = s[i]
      BY <1>5, <3>1, JoinIs
    <3>. QED  BY <1>0, <3>1, <3>2
  <2>. HIDE DEF t
  <2>3. ASSUME NEW i \in 1 .. n + 1  PROVE g[i] = g[i - 1] * Base + t[i]
    <3>1. i \in 0 .. n + 1 /\ i - 1 \in 0 .. n + 1 /\ g[i] = h[i - 1]
      BY <1>0
    <3>2. CASE i = 1
      <4>1. g[0] = 0 /\ i - 1 = 0  BY <1>0, <3>2
      <4>2. h[0] = c /\ t[1] = c /\ c \in Nat  BY <1>12, <1>14, <2>2
      <4>. HIDE DEF g
      <4>. QED  BY <1>0, <3>1, <3>2, <4>1, <4>2
    <3>3. CASE i # 1
      <4>1. i - 1 \in 1..n /\ 1 + (i - 1) = i /\ (i - 1) # 0
        BY <1>0, <3>3
      <4>2. g[i - 1] = h[(i - 1) - 1]
        BY <3>1, <4>1
      <4>. HIDE DEF g
      <4>3. h[i - 1] = h[(i - 1) - 1] * Base + s[i - 1] /\ t[i] = s[i - 1]
        BY <1>11, <2>2, <4>1
      <4>. QED  BY <3>1, <4>2, <4>3
    <3>. QED  BY <3>2, <3>3
  <2>4. g[0] = 0 /\ g[n + 1] = h[n]
    <3>1. 0 \in 0 .. n + 1 /\ n + 1 \in 0 .. n + 1 /\ n + 1 # 0 /\ (n + 1) - 1 = n  BY <1>0
    <3>. QED  BY <3>1
  <2>. HIDE DEF g
  <2>5. \A i \in 0 .. n + 1 : Partial(t)[i] = g[i]
    <3>1. t \in Seq(Word) /\ g[0] = 0 /\ \A i \in 1..Len(t) : g[i] = g[i - 1] * Base + t[i]
      BY <2>2, <2>3, <2>4
    <3>2. \A i \in 0..Len(t) : Partial(t)[i] = g[i]
      BY ONLY <3>1, ValueBy
    <3>. QED  BY <2>2, <3>2
  <2>6. n + 1 \in 0 .. n + 1  BY <1>0
  <2>7. Value(t) = h[n]
    BY <2>2, <2>4, <2>5, <2>6, PartialIs
  <2>. QED  BY <1>12, <2>1, <2>2, <2>7
<1>. QED  BY <1>5, <1>13, <1>14

LEMMA ValueOfOne ==
  ASSUME NEW a \in Seq(Word), Len(a) = 1
  PROVE  Value(a) = a[1]
<1>0. 1 \in 1..Len(a)
  OBVIOUS
<1>1. Partial(a)[0] = 0 /\ Partial(a)[1] = Partial(a)[1 - 1] * Base + a[1] /\ Value(a) = Partial(a)[1]
  BY <1>0, PartialIs
<1>2. a[1] \in Nat /\ Base \in Nat
  BY <1>0, BaseIs, ElementIs
<1>. QED  BY <1>1, <1>2

\* A number of several words is more than a word holds.
LEMMA ManyWords ==
  ASSUME NEW a, IsNumber(a), Value(a) <= Highest
  PROVE  Len(a) = 1
<1>. SUFFICES ASSUME Len(a) # 1  PROVE FALSE
  OBVIOUS
<1>. DEFINE n == Len(a)
            x == Partial(a)[n - 1]
<1>1. a \in Seq(Word) /\ n \in Nat /\ n >= 2 /\ n - 1 \in 1..n /\ n \in 1..n /\ n - 1 \in 0..n
      /\ a[1] # 0
  <2>1. a \in Seq(Word) /\ n >= 1 /\ a[1] # 0
    BY DEF IsNumber, Canonical
  <2>2. n \in Nat /\ n # 1
    BY <2>1, LenIs
  <2>. HIDE DEF n
  <2>. QED  BY <2>1, <2>2
<1>2. x > 0 /\ x \in Nat /\ Value(a) = x * Base + a[n]
  <2>1. x > 0  BY <1>1, FirstCounts
  <2>2. x \in Nat /\ Value(a) = Partial(a)[n]  BY <1>1, PartialIs
  <2>3. Partial(a)[n] = Partial(a)[n - 1] * Base + a[n]  BY <1>1, PartialIs
  <2>. QED  BY <2>1, <2>2, <2>3
<1>3. a[n] \in Nat  BY <1>1, BaseIs, ElementIs
<1>. HIDE DEF x, n
<1>4. \A b \in Nat, w \in Nat : x * b + w >= b
  <2>1. \A b \in Nat : x * b >= b /\ x * b \in Nat
    <3>1. PICK y \in Nat : x = y + 1
      <4>1. x - 1 \in Nat /\ x = (x - 1) + 1  BY <1>2
      <4>. QED  BY <4>1
    <3>2. \A b \in Nat : (y + 1) * b = y * b + b /\ y * b \in Nat
      OBVIOUS
    <3>. QED  BY <3>1, <3>2
  <2>. QED  BY <2>1
<1>5. Value(a) >= Base /\ Value(a) \in Nat
  BY <1>1, <1>2, <1>3, <1>4, BaseIs, PartialIs
<1>6. Value(a) <= Highest
  OBVIOUS
<1>. QED  BY ONLY <1>5, <1>6, BaseIs

LEMMA LastChanges ==
  ASSUME NEW a \in Seq(Word), NEW b \in Seq(Word), Len(a) >= 1, Len(b) = Len(a),
         \A i \in 1 .. Len(a) - 1 : a[i] = b[i]
  PROVE  Value(b) = Value(a) + (b[Len(a)] - a[Len(a)])
<1>. DEFINE n == Len(a)
            x == Partial(a)[n - 1]
<1>0. n \in Nat /\ n \in 1..n /\ n - 1 \in 0..n /\ n \in 1..Len(b) /\ Len(b) = n
  BY LenIs
<1>1. Partial(b)[n - 1] = x /\ x \in Nat
  BY <1>0, PartialAgree, PartialIs
<1>2. Value(a) = x * Base + a[n]
  <2>1. Partial(a)[n] = Partial(a)[n - 1] * Base + a[n] /\ Value(a) = Partial(a)[n]  BY <1>0, PartialIs
  <2>. QED  BY <2>1
<1>3. Value(b) = x * Base + b[n]
  <2>1. Partial(b)[n] = Partial(b)[n - 1] * Base + b[n] /\ Value(b) = Partial(b)[n]  BY <1>0, PartialIs
  <2>. QED  BY <1>1, <2>1
<1>4. a[n] \in Nat /\ b[n] \in Nat /\ Base \in Nat
  BY <1>0, BaseIs, ElementIs
<1>. HIDE DEF x, n
<1>5. \A p \in Nat : p * Base \in Nat
  BY <1>4
<1>6. Value(b) = Value(a) + (b[n] - a[n])
  BY <1>1, <1>2, <1>3, <1>4, <1>5
<1>. QED  BY <1>6 DEF n

\* One word is added to a longer number without a carry.
LEMMA PlusWord ==
  ASSUME NEW a \in Seq(Word), NEW b, IsNumber(b), Len(a) > Len(b),
         Last(a) + Value(b) <= Highest
  PROVE  Plus(a, b) \in Seq(Word) /\ Value(Plus(a, b)) = Value(a) + Value(b)
<1>. DEFINE m == Len(a)
            y == b[1]
<1>0. b \in Seq(Word) /\ m \in Nat /\ a[m] \in Word /\ Last(a) = a[m] /\ m \in 1..m
  <2>1. b \in Seq(Word) /\ m \in Nat /\ Len(b) \in Nat  BY LenIs DEF IsNumber
  <2>. QED  BY <2>1, ElementIs DEF Last
<1>1. Len(b) = 1
  <2>1. Value(b) <= Highest
    BY <1>0, BaseIs, PartialIs
  <2>. QED  BY <2>1, ManyWords
<1>2. Value(b) = y /\ y \in Word /\ a[m] + y <= Highest
  BY <1>0, <1>1, ValueOfOne, ElementIs
<1>3. PICK f : /\ f[0] = [num |-> a, carry |-> 0]
               /\ \A k \in 1..1 : f[k] = AddWord(f[k - 1], b[1 - k + 1], k - 1)
               /\ Plus(a, b) = IF f[1].carry > 0 THEN <<f[1].carry>> \o f[1].num ELSE f[1].num
  <2>1. PICK f : /\ f[0] = [num |-> a, carry |-> 0]
                 /\ \A k \in 1..Len(b) : f[k] = AddWord(f[k - 1], b[Len(b) - k + 1], k - 1)
                 /\ Plus(a, b) = IF f[Len(b)].carry > 0
                                 THEN <<f[Len(b)].carry>> \o f[Len(b)].num
                                 ELSE f[Len(b)].num
    <3>1. Len(b) \in Nat  BY <1>1
    <3>. QED  BY ONLY <3>1, PlusRuns
  <2>. QED  BY <1>1, <2>1
<1>4. f[1] = AddWord([num |-> a, carry |-> 0], y, 0)
  <2>1. 1 - 1 = 0 /\ 1 - 1 + 1 = 1 /\ 1 \in 1..1  OBVIOUS
  <2>. QED  BY <1>3, <2>1
<1>5. AddedWord(f[1], a, 0, y, 0)
  <2>1. 0 \in {0, 1} /\ 0 \in Nat /\ 0 <= Len(a)  BY <1>0
  <2>. QED  BY <1>2, <1>4, <2>1, AddWordIs
<1>6. m - 0 = m /\ 0 # m
  BY <1>0, <1>1
<1>7. PICK x, d : /\ f[1] = [num |-> [a EXCEPT ![m] = x], carry |-> d]
                  /\ AddsUp(x, d, a[m], y, 0)
  BY <1>5, <1>6 DEF AddedWord
<1>. HIDE DEF m, y
<1>8. d = 0 /\ x \in Word /\ x = a[m] + y
  <2>1. x \in Word /\ (d = 0 \/ d = 1) /\ x + d * Base = a[m] + y + 0
    BY <1>7 DEF AddsUp
  <2>2. x \in Nat /\ a[m] \in Nat /\ y \in Nat /\ Base \in Nat /\ a[m] + y < Base
    BY <1>0, <1>2, <2>1, BaseIs
  <2>3. d # 1
    <3>1. SUFFICES ASSUME d = 1  PROVE FALSE  OBVIOUS
    <3>2. x + 1 * Base = a[m] + y + 0  BY <2>1, <3>1
    <3>. QED  BY ONLY <2>2, <3>2
  <2>4. d = 0  BY <2>1, <2>3
  <2>5. x + 0 * Base = a[m] + y + 0  BY <2>1, <2>4
  <2>6. x = a[m] + y  BY ONLY <2>2, <2>5
  <2>. QED  BY <2>1, <2>4, <2>6
<1>. DEFINE t == [a EXCEPT ![m] = x]
<1>9. /\ t \in Seq(Word) /\ Len(t) = m /\ t[m] = x /\ Len(a) = m
      /\ \A i \in 1 .. m - 1 : a[i] = t[i]
  BY <1>0, <1>8 DEF m
<1>10. Plus(a, b) = t
  BY <1>3, <1>7, <1>8
<1>. HIDE DEF t
<1>11. Value(t) = Value(a) + (t[m] - a[m])
  BY <1>0, <1>9, LastChanges
<1>12. a[m] \in Nat /\ y \in Nat /\ Value(a) \in Nat
  BY <1>0, <1>2, BaseIs, PartialIs
<1>. QED  BY <1>2, <1>8, <1>9, <1>10, <1>11, <1>12

\* What is left of a when b was taken away, before the zeros in front go.
TakenFrom(a, b, st) ==
  LET high == SubSeq(st.num, 1, Len(a) - Len(b))
  IN  IF st.carry = 0 \/ high = <<>> THEN st.num
      ELSE Borrow(high) \o SubSeq(st.num, Len(high) + 1, Len(a))

Stripped(num) == SubSeq(num, SelectInSeq(num, LAMBDA w : w # 0), Len(num))


LEMMA MinusRuns ==
  ASSUME NEW a, NEW b, Len(b) \in Nat
  PROVE  \E f : /\ f[0] = [num |-> a, carry |-> 0]
                /\ \A k \in 1..Len(b) : f[k] = TakeWord(f[k - 1], b[Len(b) - k + 1], k - 1)
                /\ Minus(a, b) = IF AtMost(a, b) THEN <<0>>
                              ELSE Stripped(TakenFrom(a, b, f[Len(b)]))
<1>. DEFINE n == Len(b)
            Is(f, m) == f = [k \in 0..m |-> IF k = 0 THEN [num |-> a, carry |-> 0]
                                            ELSE TakeWord(f[k - 1], b[Len(b) - k + 1], k - 1)]
            S == {m \in Nat : \E f : Is(f, m)}
<1>0. n \in Nat  OBVIOUS
<1>1. 0 \in S
  <2>1. Is([k \in 0..0 |-> [num |-> a, carry |-> 0]], 0)  OBVIOUS
  <2>. HIDE DEF Is
  <2>. QED  BY <2>1
<1>2. ASSUME NEW m \in Nat, m \in S
      PROVE  m + 1 \in S
  <2>1. PICK f : Is(f, m)
    <3>. HIDE DEF Is
    <3>. QED  BY <1>2
  <2>. DEFINE i == m + 1
              x == TakeWord(f[m], b[Len(b) - i + 1], i - 1)
              g == [k \in 0..i |-> IF k = i THEN x ELSE f[k]]
  <2>0. i \in Nat /\ i - 1 = m /\ i # 0 /\ i = m + 1 /\ m \in 0..i /\ m # i
    OBVIOUS
  <2>. HIDE DEF i
  <2>2. ASSUME NEW k \in 0..i
        PROVE  g[k] = IF k = 0 THEN [num |-> a, carry |-> 0] ELSE TakeWord(g[k - 1], b[Len(b) - k + 1], k - 1)
    <3>1. CASE k = 0
      <4>1. g[0] = f[0] /\ f[0] = [num |-> a, carry |-> 0]
        <5>1. 0 # i /\ 0 \in 0..i /\ 0 \in 0..m  BY <2>0
        <5>. QED  BY <2>1, <5>1
      <4>. QED  BY <3>1, <4>1
    <3>2. CASE k # 0 /\ k # i
      <4>1. k \in 0..m /\ k - 1 \in 0..i /\ k - 1 # i
        BY <2>0, <3>2
      <4>2. f[k] = TakeWord(f[k - 1], b[Len(b) - k + 1], k - 1)
        BY <2>1, <3>2, <4>1
      <4>3. g[k] = f[k] /\ g[k - 1] = f[k - 1]
        BY <3>2, <4>1
      <4>. HIDE DEF g, x
      <4>. QED  BY <3>2, <4>2, <4>3
    <3>3. CASE k = i
      <4>1. g[k] = x /\ g[m] = f[m] /\ k # 0 /\ k - 1 = m
        BY <2>0, <3>3
      <4>. HIDE DEF g
      <4>2. x = TakeWord(g[k - 1], b[Len(b) - k + 1], k - 1)
        BY <3>3, <4>1
      <4>. HIDE DEF x
      <4>. QED  BY <4>1, <4>2
    <3>. QED  BY <3>1, <3>2, <3>3
  <2>3. Is(g, i)
    <3>1. g = [k \in 0..i |-> g[k]]  OBVIOUS
    <3>. HIDE DEF g, x
    <3>2. [k \in 0..i |-> g[k]] = [k \in 0..i |-> IF k = 0 THEN [num |-> a, carry |-> 0] ELSE TakeWord(g[k - 1], b[Len(b) - k + 1], k - 1)]
      BY <2>2, Zenon
    <3>. QED  BY <3>1, <3>2, Zenon
  <2>. HIDE DEF Is, g
  <2>. QED  BY <2>0, <2>3
<1>3. n \in S
  <2>. HIDE DEF S, n
  <2>. QED  BY <1>0, <1>1, <1>2, Induction
<1>4. PICK f : Is(f, n) /\ f = CHOOSE g : Is(g, n)
  <2>1. \E f : Is(f, n)
    <3>. HIDE DEF Is, n
    <3>. QED  BY <1>3
  <2>. HIDE DEF Is
  <2>. QED  BY <2>1
<1>5. Minus(a, b) = IF AtMost(a, b) THEN <<0>>
                              ELSE Stripped(TakenFrom(a, b, f[Len(b)]))
  <2>1. (CHOOSE g : Is(g, n)) = f
    BY <1>4
  <2>2. LET takes == CHOOSE g : Is(g, n)
        IN  Minus(a, b) = IF AtMost(a, b) THEN <<0>>
                          ELSE Stripped(TakenFrom(a, b, takes[Len(b)]))
    BY Zenon DEF Minus, Stripped, TakenFrom
  <2>. HIDE DEF Is, n
  <2>. QED  BY <2>1, <2>2, Zenon
<1>6. f[0] = [num |-> a, carry |-> 0] /\ \A k \in 1..n : f[k] = TakeWord(f[k - 1], b[Len(b) - k + 1], k - 1)
  <2>1. \A k \in 0..n : f[k] = IF k = 0 THEN [num |-> a, carry |-> 0] ELSE TakeWord(f[k - 1], b[Len(b) - k + 1], k - 1)
    BY <1>4
  <2>. HIDE DEF n, Is
  <2>2. 0 \in 0..n /\ \A k \in 1..n : k \in 0..n /\ k # 0  BY <1>0
  <2>. QED  BY ONLY <2>1, <2>2
<1>. QED  BY <1>5, <1>6


LEMMA StrippedIs ==
  ASSUME NEW a \in Seq(Word), Value(a) # 0
  PROVE  Stripped(a) \in Seq(Word) /\ Value(Stripped(a)) = Value(a)
<1>. DEFINE I == {i \in 1..Len(a) : a[i] # 0}
            k == Min(I)
            r == SubSeq(a, k, Len(a))
<1>0. Len(a) \in Nat
  BY LenIs
<1>1. I # {} /\ I \in SUBSET Nat
  BY NotZero
<1>2. SelectInSeq(a, LAMBDA w : w # 0) = k
  BY <1>1 DEF SelectInSeq
<1>3. k \in I /\ \A i \in I : k <= i
  <2>. HIDE DEF I
  <2>. QED  BY <1>1, MinIsLeast
<1>4. Stripped(a) = r
  BY <1>2 DEF Stripped
<1>5. k \in 1..Len(a) /\ \A i \in 1 .. k - 1 : a[i] = 0
  <2>. HIDE DEF k
  <2>. QED  BY <1>0, <1>3
<1>. HIDE DEF k, I
<1>6. /\ k - 1 \in 0..Len(a) /\ k - 1 \in Nat /\ (k - 1) + 1 = k /\ k - 1 <= Len(a)
  BY <1>0, <1>5
<1>7. /\ r \in Seq(Word) /\ Len(r) = Len(a) - (k - 1)
      /\ \A i \in 1 .. Len(a) - (k - 1) : r[i] = a[(k - 1) + i]
  <2>. DEFINE j == k - 1
  <2>1. j \in Nat /\ j <= Len(a) /\ j + 1 = k  BY <1>6
  <2>. HIDE DEF j
  <2>2. /\ SubSeq(a, j + 1, Len(a)) \in Seq(Word)
        /\ Len(SubSeq(a, j + 1, Len(a))) = Len(a) - j
        /\ \A i \in 1 .. Len(a) - j : SubSeq(a, j + 1, Len(a))[i] = a[j + i]
    BY <1>0, <2>1, SubSeqIs
  <2>. QED  BY <2>1, <2>2 DEF j
<1>. HIDE DEF r
<1>8. Value(r) = Value(a)
  BY <1>5, <1>6, <1>7, ZerosGo
<1>. QED  BY <1>4, <1>7, <1>8

\* Word by word, with nothing borrowed.
TakenUpTo(a, b, f, k) ==
  /\ f[k] \in [num : Seq(Word), carry : {0}]
  /\ Len(f[k].num) = Len(a)
  /\ \A q \in 0 .. k - 1 : f[k].num[Len(a) - q] = a[Len(a) - q] - b[Len(b) - q]
  /\ \A q \in k .. Len(a) - 1 : f[k].num[Len(a) - q] = a[Len(a) - q]

LEMMA TakesNext ==
  ASSUME NEW a \in Seq(Word), NEW b \in Seq(Word), Len(b) <= Len(a), ~ Short(a, b),
         NEW f, NEW k \in 0 .. Len(b) - 1,
         TakenUpTo(a, b, f, k), f[k + 1] = TakeWord(f[k], b[Len(b) - k], k)
  PROVE  TakenUpTo(a, b, f, k + 1)
<1>. DEFINE s == f[k].num
            m == Len(a)
            n == Len(b)
            w == b[n - k]
            own == a[m - k]
            t == [s EXCEPT ![m - k] = own - w]
<1>0. /\ m \in Nat /\ k \in Nat /\ n \in Nat /\ n - k \in 1..n /\ m - k \in 1..m
      /\ w \in Word /\ own \in Word /\ w \in Nat /\ own \in Nat
  <2>1. m \in Nat /\ k \in Nat /\ n \in Nat /\ n - k \in 1..n /\ m - k \in 1..m
    BY LenIs
  <2>2. w \in Word /\ own \in Word
    BY <2>1, ElementIs
  <2>. HIDE DEF w, own
  <2>3. w \in Nat /\ own \in Nat
    BY <2>2, BaseIs
  <2>. QED  BY <2>1, <2>2, <2>3
<1>1. /\ s \in Seq(Word) /\ f[k] = [num |-> s, carry |-> 0] /\ Len(s) = m
      /\ \A q \in 0 .. k - 1 : s[m - q] = a[m - q] - b[n - q]
      /\ \A q \in k .. m - 1 : s[m - q] = a[m - q]
  BY DEF TakenUpTo
<1>2. w <= own
  <2>1. m - n + (n - k) = m - k /\ ~ (b[n - k] > a[m - n + (n - k)])
    <3>1. m - n + (n - k) = m - k  BY <1>0
    <3>. QED  BY <1>0, <3>1 DEF Short
  <2>. QED  BY <1>0, <2>1
<1>3. s[m - k] = own
  <2>1. k \in k .. m - 1  BY <1>0
  <2>. QED  BY <1>1, <2>1
<1>4. f[k + 1] = [num |-> t, carry |-> 0]
  <2>1. ~ (w > own) /\ own - w - 0 = own - w
    BY <1>0, <1>2
  <2>2. f[k + 1] = TakeWord([num |-> s, carry |-> 0], w, k)
    BY <1>1
  <2>. DEFINE st == [num |-> s, carry |-> 0]
  <2>3. st.num = s /\ st.carry = 0 /\ st.carry # 1
    OBVIOUS
  <2>. HIDE DEF st, s, own, w
  <2>4. TakeWord(st, w, k) =
          IF w > s[m - k] \/ (st.carry = 1 /\ w = s[m - k])
          THEN [num |-> [s EXCEPT ![m - k] = Highest - (w - s[m - k])], carry |-> 1]
          ELSE [num |-> [s EXCEPT ![m - k] = s[m - k] - w - 0], carry |-> 0]
    BY <1>1, <2>3, Zenon DEF TakeWord
  <2>5. TakeWord(st, w, k) = [num |-> [s EXCEPT ![m - k] = own - w - 0], carry |-> 0]
    BY <1>3, <2>1, <2>3, <2>4, Zenon
  <2>6. st = [num |-> s, carry |-> 0]  BY DEF st
  <2>. QED  BY <2>1, <2>2, <2>5, <2>6, Zenon
<1>. HIDE DEF s, own, w
<1>5. own - w \in Word
  BY <1>0, <1>2, BaseIs
<1>6. /\ t \in Seq(Word) /\ Len(t) = m /\ t[m - k] = own - w
      /\ \A i \in 1..m : i # m - k => t[i] = s[i]
  <2>. HIDE DEF m
  <2>. QED  BY <1>0, <1>1, <1>5
<1>. HIDE DEF t
<1>7. f[k + 1] \in [num : Seq(Word), carry : {0}] /\ f[k + 1].num = t
  BY <1>4, <1>6
<1>. HIDE DEF m, n
<1>8. ASSUME NEW q \in 0 .. (k + 1) - 1
      PROVE  t[m - q] = a[m - q] - b[n - q]
  <2>1. CASE q = k
    BY <1>6, <2>1 DEF own, w
  <2>2. CASE q # k
    <3>1. q \in 0 .. k - 1 /\ m - q \in 1..m /\ m - q # m - k  BY <1>0, <2>2
    <3>. QED  BY <1>1, <1>6, <3>1
  <2>. QED  BY <2>1, <2>2
<1>9. ASSUME NEW q \in k + 1 .. m - 1
      PROVE  t[m - q] = a[m - q]
  <2>1. q \in k .. m - 1 /\ m - q \in 1..m /\ m - q # m - k  BY <1>0
  <2>. QED  BY <1>1, <1>6, <2>1
<1>. QED  BY <1>6, <1>7, <1>8, <1>9 DEF TakenUpTo, m, n

LEMMA LessIsShorter ==
  ASSUME NEW a \in Seq(Word), NEW b \in Seq(Word), Less(b, a)
  PROVE  Len(b) <= Len(a)
BY LenIs DEF Less

LEMMA NotAtMost ==
  ASSUME NEW a, NEW b, IsNumber(a), IsNumber(b), Less(b, a)
  PROVE  ~ AtMost(a, b) /\ Value(b) < Value(a) /\ Value(a) \in Nat /\ Value(b) \in Nat
<1>1. Value(a) \in Nat /\ Value(b) \in Nat
  BY PartialIs DEF IsNumber
<1>2. Value(b) < Value(a)
  BY LessIs
<1>3. ~ Less(a, b)
  BY <1>1, <1>2, LessIs
<1>4. a # b
  BY <1>1, <1>2
<1>. QED  BY <1>1, <1>2, <1>3, <1>4 DEF AtMost

\* Nothing borrowed: -= subtracts.
LEMMA MinusIs ==
  ASSUME NEW a, NEW b, IsNumber(a), IsNumber(b), Less(b, a), ~ Short(a, b)
  PROVE  Value(Minus(a, b)) = Value(a) - Value(b)
<1>. DEFINE m == Len(a)
            n == Len(b)
<1>0. a \in Seq(Word) /\ b \in Seq(Word) /\ m \in Nat /\ n \in Nat /\ n <= m
  <2>1. a \in Seq(Word) /\ b \in Seq(Word)  BY DEF IsNumber
  <2>. QED  BY <2>1, LenIs, LessIsShorter
<1>1. PICK f : /\ f[0] = [num |-> a, carry |-> 0]
               /\ \A k \in 1..n : f[k] = TakeWord(f[k - 1], b[n - k + 1], k - 1)
               /\ Minus(a, b) = IF AtMost(a, b) THEN <<0>> ELSE Stripped(TakenFrom(a, b, f[n]))
  BY ONLY <1>0, MinusRuns
<1>. DEFINE S == {k \in 0..n : TakenUpTo(a, b, f, k)}
<1>2. 0 \in S
  <2>1. f[0].num = a /\ f[0].carry = 0 /\ f[0] \in [num : Seq(Word), carry : {0}]
    BY <1>0, <1>1
  <2>. QED  BY <1>0, <2>1 DEF TakenUpTo
<1>3. ASSUME NEW k \in 0 .. n - 1, k \in S  PROVE k + 1 \in S
  <2>1. k + 1 \in 1..n /\ (k + 1) - 1 = k /\ n - (k + 1) + 1 = n - k /\ k + 1 \in 0..n
    BY <1>0
  <2>2. f[k + 1] = TakeWord(f[k], b[n - k], k)
    BY <1>1, <2>1
  <2>. QED  BY <1>0, <1>3, <2>1, <2>2, TakesNext
<1>4. TakenUpTo(a, b, f, n)
  <2>1. \A k \in 0..n : k \in S
    <3>. HIDE DEF S, n
    <3>. QED  BY <1>0, <1>2, <1>3, UpTo
  <2>2. n \in 0..n  BY <1>0
  <2>. QED  BY <2>1, <2>2
<1>. DEFINE s == f[n].num
<1>5. /\ s \in Seq(Word) /\ f[n].carry = 0 /\ Len(s) = m
      /\ \A j \in 1..m : s[j] = a[j] - WordAt(b, m - j)
  <2>1. /\ s \in Seq(Word) /\ f[n].carry = 0 /\ Len(s) = m
        /\ \A q \in 0 .. n - 1 : s[m - q] = a[m - q] - b[n - q]
        /\ \A q \in n .. m - 1 : s[m - q] = a[m - q]
    BY <1>4 DEF TakenUpTo
  <2>. HIDE DEF s
  <2>2. ASSUME NEW j \in 1..m  PROVE s[j] = a[j] - WordAt(b, m - j)
    <3>. DEFINE q == m - j
    <3>1. q \in 0 .. m - 1 /\ m - q = j /\ a[j] \in Int
      <4>1. a[j] \in Int  BY <1>0, ElementIs, BaseIs
      <4>. QED  BY <1>0, <4>1
    <3>. HIDE DEF q
    <3>2. WordAt(b, q) = IF q < n THEN b[n - q] ELSE 0
      BY DEF WordAt
    <3>. HIDE DEF m, n
    <3>3. CASE q < n
      <4>1. q \in 0 .. n - 1  BY <1>0, <3>1, <3>3
      <4>. QED  BY <2>1, <3>1, <3>2, <3>3, <4>1 DEF q
    <3>4. CASE ~ (q < n)
      <4>1. q \in n .. m - 1  BY <1>0, <3>1, <3>4
      <4>2. s[j] = a[j] /\ WordAt(b, q) = 0  BY <2>1, <3>1, <3>2, <3>4, <4>1
      <4>3. s[j] = a[j] - WordAt(b, q)  BY <3>1, <4>2
      <4>. QED  BY <4>3 DEF q
    <3>. QED  BY <3>3, <3>4
  <2>. QED  BY <2>1, <2>2
<1>6. TakenFrom(a, b, f[n]) = s
  BY <1>5 DEF TakenFrom
<1>7. PICK p : /\ p[0] = 0 /\ p[m] = Value(b) /\ \A j \in 0..m : p[j] \in Nat
               /\ \A j \in 1..m : p[j] = p[j - 1] * Base + WordAt(b, m - j)
  BY <1>0, Padded
<1>. DEFINE u == Partial(a)
            h == [j \in 0..m |-> u[j] - p[j]]
<1>8. /\ u[0] = 0 /\ Value(a) = u[m] /\ \A j \in 0..m : u[j] \in Nat
      /\ \A j \in 1..m : u[j] = u[j - 1] * Base + a[j]
  BY <1>0, PartialIs
<1>. HIDE DEF s, u, m, S
<1>9. ASSUME NEW j \in 1..m  PROVE h[j] = h[j - 1] * Base + s[j]
  <2>. DEFINE x == u[j - 1]
              y == p[j - 1]
              v == a[j]
              w == WordAt(b, m - j)
  <2>1. j \in 0..m /\ j - 1 \in 0..m  BY <1>0
  <2>2. h[j] = u[j] - p[j] /\ h[j - 1] = x - y  BY <2>1
  <2>3. x \in Nat /\ y \in Nat  BY <1>7, <1>8, <2>1
  <2>4. v \in Nat /\ w \in Nat
    <3>1. v \in Nat  BY <1>0, ElementIs, BaseIs DEF m
    <3>2. m - j \in Nat  BY <1>0
    <3>3. \A q \in Nat : WordAt(b, q) \in Nat
      BY <1>0, ElementIs, BaseIs DEF WordAt
    <3>. QED  BY <3>1, <3>2, <3>3
  <2>5. u[j] = x * Base + v /\ p[j] = y * Base + w /\ s[j] = v - w
    BY <1>5, <1>7, <1>8 DEF m
  <2>6. Base \in Nat  BY BaseIs
  <2>. HIDE DEF x, y, v, w, h
  <2>. DEFINE xb == x * Base
              yb == y * Base
  <2>7. (x - y) * Base = xb - yb /\ xb \in Nat /\ yb \in Nat
    BY ONLY <2>3, <2>6
  <2>8. h[j] = (xb + v) - (yb + w)
    BY <2>2, <2>5
  <2>9. h[j - 1] * Base + s[j] = (xb - yb) + (v - w)
    BY <2>2, <2>5, <2>7
  <2>. HIDE DEF xb, yb
  <2>. QED  BY ONLY <2>4, <2>7, <2>8, <2>9
<1>10. h[0] = 0 /\ h[m] = Value(a) - Value(b)
  BY <1>0, <1>7, <1>8
<1>. HIDE DEF h
<1>11. Partial(s)[m] = h[m]
  <2>1. s \in Seq(Word) /\ h[0] = 0 /\ \A i \in 1..Len(s) : h[i] = h[i - 1] * Base + s[i]
    BY <1>5, <1>9, <1>10 DEF m
  <2>2. \A i \in 0..Len(s) : Partial(s)[i] = h[i]
    BY ONLY <2>1, ValueBy
  <2>3. m \in 0..Len(s)  BY <1>0, <1>5 DEF m
  <2>. QED  BY <2>2, <2>3
<1>12. Value(s) = Value(a) - Value(b)
  BY <1>5, <1>10, <1>11, PartialIs DEF m
<1>13. ~ AtMost(a, b) /\ Value(a) - Value(b) # 0
  BY NotAtMost
<1>14. Minus(a, b) = Stripped(s)
  BY <1>1, <1>6, <1>13
<1>. QED  BY <1>5, <1>12, <1>13, <1>14, StrippedIs

LEMMA ValueOfFront ==
  ASSUME NEW a \in Seq(Word), NEW h \in Seq(Word), Len(a) >= 1, Len(h) = Len(a) - 1,
         \A i \in 1 .. Len(a) - 1 : h[i] = a[i]
  PROVE  Value(a) = Value(h) * Base + a[Len(a)]
<1>. DEFINE n == Len(a)
            g == Partial(a)
<1>0. n \in Nat /\ n - 1 \in Nat /\ n \in 1..n /\ n - 1 \in 0 .. n - 1
  BY LenIs
<1>1. /\ g[0] = 0 /\ Value(a) = g[n] /\ \A i \in 1..n : g[i] = g[i - 1] * Base + a[i]
  BY PartialIs
<1>. HIDE DEF g
<1>2. \A i \in 1..Len(h) : g[i] = g[i - 1] * Base + h[i]
  BY <1>0, <1>1
<1>3. \A i \in 0..Len(h) : Partial(h)[i] = g[i]
  BY ONLY h \in Seq(Word), <1>1, <1>2, ValueBy
<1>4. Value(h) = g[n - 1]
  <2>1. Value(h) = Partial(h)[n - 1]  BY PartialIs
  <2>. QED  BY <1>0, <1>3, <2>1
<1>5. g[n] = g[n - 1] * Base + a[n]
  BY <1>0, <1>1
<1>. QED  BY <1>1, <1>4, <1>5

\* One word is taken, and borrowed once too often.
LEMMA MinusShort ==
  ASSUME NEW a, NEW b, IsNumber(a), IsNumber(b), Len(b) = 1, Short(a, b),
         Value(b) + 1 < Value(a)
  PROVE  Value(Minus(a, b)) = Value(a) - Value(b) - 1
<1>. DEFINE m == Len(a)
            y == b[1]
            own == a[m]
<1>0. /\ a \in Seq(Word) /\ b \in Seq(Word) /\ m \in Nat /\ m >= 1 /\ m \in 1..m
      /\ Value(a) \in Nat /\ Value(b) \in Nat
  <2>1. a \in Seq(Word) /\ b \in Seq(Word) /\ m >= 1  BY DEF IsNumber
  <2>. QED  BY <2>1, LenIs, PartialIs
<1>1. Value(b) = y /\ y \in Word /\ own \in Word /\ y \in Nat /\ own \in Nat
  <2>1. 1 \in 1..Len(b)  OBVIOUS
  <2>2. y \in Word /\ own \in Word  BY <1>0, <2>1, ElementIs
  <2>. HIDE DEF own
  <2>3. y \in Nat /\ own \in Nat  BY <2>2, BaseIs
  <2>. QED  BY <1>0, <2>2, <2>3, ValueOfOne
<1>2. y > own
  <2>1. PICK i \in 1..Len(b) : b[i] > a[Len(a) - Len(b) + i]
    BY DEF Short
  <2>2. i = 1 /\ Len(a) - Len(b) + i = m
    BY <1>0, <2>1
  <2>. QED  BY <2>1, <2>2
<1>3. m >= 2 /\ a[1] # 0
  <2>1. m # 1
    <3>1. SUFFICES ASSUME m = 1  PROVE FALSE  OBVIOUS
    <3>2. Value(a) = own  BY <1>0, <3>1, ValueOfOne
    <3>. QED  BY <1>0, <1>1, <1>2, <3>2
  <2>2. a[1] # 0  BY <2>1 DEF IsNumber, Canonical
  <2>. QED  BY <1>0, <2>1, <2>2
<1>4. ~ AtMost(a, b)
  <2>1. Less(b, a)
    <3>1. Value(b) < Value(a)  BY <1>0
    <3>. QED  BY <3>1, LessIs
  <2>. QED  BY <2>1, NotAtMost
<1>5. PICK f : /\ f[0] = [num |-> a, carry |-> 0]
               /\ \A k \in 1..1 : f[k] = TakeWord(f[k - 1], b[1 - k + 1], k - 1)
               /\ Minus(a, b) = IF AtMost(a, b) THEN <<0>> ELSE Stripped(TakenFrom(a, b, f[1]))
  <2>1. PICK f : /\ f[0] = [num |-> a, carry |-> 0]
                 /\ \A k \in 1..Len(b) : f[k] = TakeWord(f[k - 1], b[Len(b) - k + 1], k - 1)
                 /\ Minus(a, b) = IF AtMost(a, b) THEN <<0>>
                                  ELSE Stripped(TakenFrom(a, b, f[Len(b)]))
    <3>1. Len(b) \in Nat  OBVIOUS
    <3>. QED  BY ONLY <3>1, MinusRuns
  <2>. QED  BY <2>1
<1>. DEFINE x == Highest - (y - own)
            t == [a EXCEPT ![m] = x]
<1>6. f[1] = [num |-> t, carry |-> 1]
  <2>1. f[1] = TakeWord([num |-> a, carry |-> 0], y, 0)
    <3>1. 1 - 1 = 0 /\ 1 - 1 + 1 = 1 /\ 1 \in 1..1  OBVIOUS
    <3>. QED  BY <1>5, <3>1
  <2>. DEFINE st == [num |-> a, carry |-> 0]
  <2>2. st.num = a /\ m - 0 = m  BY <1>0
  <2>. HIDE DEF st, y
  <2>3. TakeWord(st, y, 0) =
          IF y > a[m] \/ (st.carry = 1 /\ y = a[m])
          THEN [num |-> [a EXCEPT ![m] = Highest - (y - a[m])], carry |-> 1]
          ELSE [num |-> [a EXCEPT ![m] = a[m] - y - st.carry], carry |-> 0]
    BY <2>2, Zenon DEF TakeWord
  <2>. QED  BY <1>2, <2>1, <2>3, Zenon DEF st
<1>7. x \in Word /\ x = Base - 1 - y + own
  BY <1>1, <1>2, BaseIs
<1>. HIDE DEF x, y, own
<1>8. /\ t \in Seq(Word) /\ Len(t) = m /\ t[m] = x /\ \A i \in 1 .. m - 1 : t[i] = a[i]
  BY <1>0, <1>7
<1>. HIDE DEF t
<1>. DEFINE high == SubSeq(t, 1, m - 1)
            low == SubSeq(t, m, m)
            r == Borrow(high) \o low
<1>9. /\ high \in Seq(Word) /\ Len(high) = m - 1 /\ \A i \in 1 .. m - 1 : high[i] = a[i]
  <2>1. 0 \in Nat /\ m - 1 \in Nat /\ 0 <= m - 1 /\ m - 1 <= Len(t) /\ 0 + 1 = 1
        /\ (m - 1) - 0 = m - 1 /\ \A i \in 1 .. m - 1 : 0 + i = i
    BY <1>0, <1>3, <1>8
  <2>2. /\ SubSeq(t, 0 + 1, m - 1) \in Seq(Word) /\ Len(SubSeq(t, 0 + 1, m - 1)) = (m - 1) - 0
        /\ \A i \in 1 .. (m - 1) - 0 : SubSeq(t, 0 + 1, m - 1)[i] = t[0 + i]
    BY ONLY <1>8, <2>1, SubSeqIs
  <2>. QED  BY <1>8, <2>1, <2>2
<1>10. low \in Seq(Word) /\ Len(low) = 1 /\ low[1] = x
  <2>. DEFINE j == m - 1
  <2>1. j \in Nat /\ m \in Nat /\ j <= m /\ m <= Len(t) /\ j + 1 = m /\ m - j = 1
    BY <1>0, <1>3, <1>8
  <2>. HIDE DEF j
  <2>2. /\ SubSeq(t, j + 1, m) \in Seq(Word) /\ Len(SubSeq(t, j + 1, m)) = m - j
        /\ \A i \in 1 .. m - j : SubSeq(t, j + 1, m)[i] = t[j + i]
    BY ONLY <1>8, <2>1, SubSeqIs
  <2>3. 1 \in 1 .. m - j  BY <2>1
  <2>. QED  BY <1>8, <2>1, <2>2, <2>3
<1>11. TakenFrom(a, b, f[1]) = r
  <2>1. f[1].num = t /\ f[1].carry = 1 /\ Len(a) - Len(b) = m - 1 /\ Len(a) = m
    BY <1>6
  <2>2. high # <<>> /\ Len(high) + 1 = m
    <3>1. Len(high) = m - 1  BY <1>9
    <3>. HIDE DEF high
    <3>2. Len(high) # 0 /\ Len(high) + 1 = m  BY <1>0, <1>3, <3>1
    <3>. QED  BY <3>2
  <2>3. /\ SubSeq(f[1].num, 1, Len(a) - Len(b)) = high
        /\ SubSeq(f[1].num, Len(high) + 1, Len(a)) = low
    BY <2>1, <2>2
  <2>. HIDE DEF high, low
  <2>4. f[1].carry # 0  BY <2>1
  <2>. QED  BY <2>2, <2>3, <2>4, Zenon DEF TakenFrom
<1>. HIDE DEF high, low
<1>12. /\ Borrow(high) \in Seq(Word) /\ Len(Borrow(high)) = m - 1
       /\ Value(Borrow(high)) = Value(high) - 1
  <2>1. \E i \in 1..Len(high) : high[i] # 0
    <3>1. 1 \in 1..Len(high) /\ high[1] = a[1]  BY <1>0, <1>3, <1>9
    <3>. QED  BY <1>3, <3>1
  <2>. QED  BY <1>9, <2>1, BorrowIs
<1>13. /\ r \in Seq(Word) /\ Len(r) = m /\ r[m] = x
       /\ \A i \in 1 .. m - 1 : Borrow(high)[i] = r[i]
  <2>. DEFINE c == Borrow(high)
  <2>1. c \in Seq(Word) /\ Len(c) = m - 1  BY <1>12
  <2>. HIDE DEF c
  <2>2. /\ c \o low \in Seq(Word) /\ Len(c \o low) = Len(c) + Len(low)
        /\ \A i \in 1..Len(c) : (c \o low)[i] = c[i]
        /\ \A i \in 1..Len(low) : (c \o low)[Len(c) + i] = low[i]
    <3>1. c \in Seq(Word) /\ low \in Seq(Word)  BY <1>10, <2>1
    <3>. QED  BY ONLY <3>1, JoinIs
  <2>3. (m - 1) + 1 = m /\ 1 \in 1..1  BY <1>0
  <2>. QED  BY <1>10, <2>1, <2>2, <2>3 DEF c
<1>. HIDE DEF r
<1>14. Value(a) = Value(high) * Base + own
  <2>1. Len(a) >= 1 /\ Len(high) = Len(a) - 1 /\ \A i \in 1 .. Len(a) - 1 : high[i] = a[i]
    BY <1>0, <1>9
  <2>. QED  BY <1>0, <1>9, <2>1, ValueOfFront DEF own
<1>15. Value(r) = (Value(high) - 1) * Base + x
  <2>. DEFINE c == Borrow(high)
  <2>1. /\ c \in Seq(Word) /\ Len(r) >= 1 /\ Len(c) = Len(r) - 1 /\ Len(r) = m
        /\ \A i \in 1 .. Len(r) - 1 : c[i] = r[i]
    BY <1>0, <1>12, <1>13
  <2>. HIDE DEF c
  <2>2. Value(r) = Value(c) * Base + r[Len(r)]
    BY <1>13, <2>1, ValueOfFront
  <2>. QED  BY <1>12, <1>13, <2>1, <2>2 DEF c
<1>16. Value(r) = Value(a) - Value(b) - 1
  <2>. DEFINE v == Value(high)
              vb == v * Base
  <2>1. v \in Nat /\ Base \in Nat  BY <1>9, PartialIs, BaseIs
  <2>. HIDE DEF v
  <2>2. (v - 1) * Base = vb - Base /\ vb \in Nat
    BY ONLY <2>1
  <2>3. Value(r) = (v - 1) * Base + x /\ Value(a) = vb + own
    BY <1>14, <1>15 DEF v
  <2>. HIDE DEF vb
  <2>. QED  BY <1>1, <1>7, <2>1, <2>2, <2>3
<1>17. Value(r) # 0
  BY <1>0, <1>16
<1>18. Minus(a, b) = Stripped(r)
  BY <1>4, <1>5, <1>11
<1>. QED  BY <1>13, <1>16, <1>17, <1>18, StrippedIs

LEMMA FlattenRuns ==
  ASSUME NEW s, Len(s) \in Nat \ {0}
  PROVE  \E f : /\ f[1] = s[1] /\ FlattenSeq(s) = f[Len(s)]
                /\ \A k \in 2..Len(s) : f[k] = f[k - 1] \o s[k]
<1>. DEFINE n == Len(s)
            J(x, y) == x \o y
            Is(f, m) == f = [k \in 1..m |-> IF k = 1 THEN s[1] ELSE J(f[k - 1], s[k])]
            S == {m \in Nat : \E f : Is(f, m + 1)}
<1>0. n \in Nat \ {0} /\ n - 1 \in Nat /\ (n - 1) + 1 = n
  OBVIOUS
<1>1. FlattenSeq(s) = LET g == CHOOSE f : f = [k \in 1..n |-> IF k = 1 THEN s[k] ELSE J(f[k - 1], s[k])]
                      IN  g[n]
  BY <1>0, Zenon DEF FlattenSeq
<1>. HIDE DEF J
<1>2. \A f : Is(f, n) <=> f = [k \in 1..n |-> IF k = 1 THEN s[k] ELSE J(f[k - 1], s[k])]
  <2>. SUFFICES ASSUME NEW f
                PROVE  Is(f, n) <=> f = [k \in 1..n |-> IF k = 1 THEN s[k] ELSE J(f[k - 1], s[k])]
    OBVIOUS
  <2>1. [k \in 1..n |-> IF k = 1 THEN s[1] ELSE J(f[k - 1], s[k])]
          = [k \in 1..n |-> IF k = 1 THEN s[k] ELSE J(f[k - 1], s[k])]
    <3>. HIDE DEF n
    <3>. QED  OBVIOUS
  <2>. QED  BY <2>1, Zenon
<1>3. 0 \in S
  <2>1. Is([k \in 1..1 |-> s[1]], 1)  OBVIOUS
  <2>2. 0 + 1 = 1  OBVIOUS
  <2>. HIDE DEF Is
  <2>. QED  BY <2>1, <2>2
<1>4. ASSUME NEW m \in Nat, m \in S
      PROVE  m + 1 \in S
  <2>. DEFINE i == m + 1
  <2>1. PICK f : Is(f, i)
    <3>. HIDE DEF Is
    <3>. QED  BY <1>4
  <2>. DEFINE x == J(f[i], s[i + 1])
              h == i + 1
              g == [k \in 1..h |-> IF k = h THEN x ELSE f[k]]
  <2>0. i \in Nat \ {0} /\ h \in Nat /\ h - 1 = i /\ h = i + 1 /\ i # h /\ 1 # h
    OBVIOUS
  <2>00. x = J(f[i], s[h])
    OBVIOUS
  <2>. HIDE DEF i, h, x
  <2>2. ASSUME NEW k \in 1..h
        PROVE  g[k] = IF k = 1 THEN s[1] ELSE J(g[k - 1], s[k])
    <3>1. CASE k = 1
      <4>1. g[1] = f[1] /\ f[1] = s[1]
        <5>1. 1 \in 1..h /\ 1 \in 1..i  BY <2>0
        <5>. QED  BY <2>0, <2>1, <5>1
      <4>. QED  BY <3>1, <4>1
    <3>2. CASE k # 1 /\ k # h
      <4>1. k \in 1..i /\ k - 1 \in 1..h /\ k - 1 # h
        BY <2>0, <3>2
      <4>2. f[k] = J(f[k - 1], s[k])
        BY <2>1, <3>2, <4>1
      <4>3. g[k] = f[k] /\ g[k - 1] = f[k - 1]
        BY <3>2, <4>1
      <4>. HIDE DEF g
      <4>. QED  BY <3>2, <4>2, <4>3
    <3>3. CASE k = h
      <4>1. g[k] = x /\ k # 1 /\ k - 1 = i /\ i \in 1..h
        BY <2>0, <3>3
      <4>2. g[i] = f[i]
        BY <2>0, <4>1
      <4>. HIDE DEF g
      <4>. QED  BY <2>00, <3>3, <4>1, <4>2
    <3>. QED  BY <3>1, <3>2, <3>3
  <2>3. Is(g, h)
    <3>1. g = [k \in 1..h |-> g[k]]  OBVIOUS
    <3>. HIDE DEF g
    <3>2. [k \in 1..h |-> g[k]] = [k \in 1..h |-> IF k = 1 THEN s[1] ELSE J(g[k - 1], s[k])]
      BY <2>2, Zenon
    <3>. QED  BY <3>1, <3>2, Zenon
  <2>4. (m + 1) + 1 = h  BY DEF h, i
  <2>. HIDE DEF Is, g
  <2>. QED  BY <2>3, <2>4
<1>5. n - 1 \in S
  <2>. HIDE DEF S, n
  <2>. QED  BY <1>0, <1>3, <1>4, Induction
<1>6. \E f : Is(f, n)
  <2>. HIDE DEF Is, n
  <2>. QED  BY <1>0, <1>5
<1>7. PICK f : Is(f, n) /\ f = CHOOSE g : Is(g, n)
  <2>. HIDE DEF Is, n
  <2>. QED  BY <1>6
<1>8. f = CHOOSE h : h = [k \in 1..n |-> IF k = 1 THEN s[k] ELSE J(h[k - 1], s[k])]
  <2>. HIDE DEF n
  <2>. QED  BY <1>2, <1>7
<1>9. FlattenSeq(s) = f[n]
  BY <1>1, <1>8, Zenon
<1>10. f[1] = s[1] /\ \A k \in 2..n : f[k] = J(f[k - 1], s[k])
  <2>1. \A k \in 1..n : f[k] = IF k = 1 THEN s[1] ELSE J(f[k - 1], s[k])
    BY <1>7
  <2>. HIDE DEF n, Is
  <2>2. 1 \in 1..n /\ \A k \in 2..n : k \in 1..n /\ k # 1  BY <1>0
  <2>. QED  BY ONLY <2>1, <2>2
<1>. QED  BY <1>9, <1>10 DEF J

LEMMA Multiples ==
  ASSUME NEW w \in Nat, NEW i \in Nat
  PROVE  /\ i * w \in Nat /\ 0 * w = 0 /\ (i + 1) * w = i * w + w
         /\ \A e \in 0 .. i - 1 : e * w \in Nat /\ e * w + w <= i * w
<1>1. i * w \in Nat /\ 0 * w = 0 /\ (i + 1) * w = i * w + w
  OBVIOUS
<1>2. ASSUME NEW e \in 0 .. i - 1
      PROVE  e * w \in Nat /\ e * w + w <= i * w
  <2>1. PICK d \in Nat : i = e + 1 + d
    <3>1. i - e - 1 \in Nat /\ i = e + 1 + (i - e - 1)  OBVIOUS
    <3>. QED  BY <3>1
  <2>2. (e + 1 + d) * w = e * w + w + d * w /\ d * w \in Nat /\ e * w \in Nat
    OBVIOUS
  <2>. QED  BY <2>1, <2>2
<1>. QED  BY <1>1, <1>2

\* Texts of one length after each other.
LaidOut(t, s, w, k) ==
  /\ Len(t) = k * w
  /\ \A e \in 0 .. k - 1, j \in 1..w : t[e * w + j] = s[e + 1][j]

LEMMA LaidNext ==
  ASSUME NEW T, NEW s, NEW w \in Nat, NEW k \in Nat, NEW t \in Seq(T), LaidOut(t, s, w, k),
         s[k + 1] \in Seq(T), Len(s[k + 1]) = w
  PROVE  t \o s[k + 1] \in Seq(T) /\ LaidOut(t \o s[k + 1], s, w, k + 1)
<1>. DEFINE v == s[k + 1]
            r == t \o v
            kw == k * w
<1>0. kw \in Nat /\ (k + 1) * w = kw + w /\ Len(t) = kw
  BY Multiples DEF LaidOut
<1>1. /\ r \in Seq(T) /\ Len(r) = kw + w
      /\ \A i \in 1..kw : r[i] = t[i]
      /\ \A i \in 1..w : r[kw + i] = v[i]
  <2>1. v \in Seq(T) /\ Len(v) = w  OBVIOUS
  <2>. HIDE DEF v, kw
  <2>2. /\ t \o v \in Seq(T) /\ Len(t \o v) = Len(t) + Len(v)
        /\ \A i \in 1..Len(t) : (t \o v)[i] = t[i]
        /\ \A i \in 1..Len(v) : (t \o v)[Len(t) + i] = v[i]
    <3>1. t \in Seq(T) /\ v \in Seq(T)  BY <2>1
    <3>. QED  BY ONLY <3>1, JoinIs
  <2>. QED  BY <1>0, <2>1, <2>2
<1>. HIDE DEF r
<1>2. ASSUME NEW e \in 0 .. (k + 1) - 1, NEW j \in 1..w
      PROVE  r[e * w + j] = s[e + 1][j]
  <2>1. CASE e = k
    BY <1>1, <2>1
  <2>2. CASE e # k
    <3>1. e \in 0 .. k - 1  BY <2>2
    <3>2. e * w \in Nat /\ e * w + w <= kw
      BY <3>1, Multiples
    <3>. DEFINE x == e * w
    <3>3. t[x + j] = s[e + 1][j]
      BY <3>1 DEF LaidOut
    <3>4. x \in Nat /\ x + w <= kw  BY <3>2
    <3>. HIDE DEF x, kw
    <3>5. x + j \in 1..kw
      BY <1>0, <3>4
    <3>6. r[x + j] = s[e + 1][j]
      BY <1>1, <3>3, <3>5
    <3>. QED  BY <3>6 DEF x
  <2>. QED  BY <2>1, <2>2
<1>3. Len(r) = (k + 1) * w
  BY <1>0, <1>1
<1>4. LaidOut(r, s, w, k + 1)
  <2>. HIDE DEF kw
  <2>. QED  BY <1>2, <1>3 DEF LaidOut
<1>. QED  BY <1>1, <1>4 DEF r

LEMMA FlattenIs ==
  ASSUME NEW T, NEW w \in Nat, NEW s, Len(s) \in Nat \ {0},
         \A i \in 1..Len(s) : s[i] \in Seq(T) /\ Len(s[i]) = w
  PROVE  FlattenSeq(s) \in Seq(T) /\ LaidOut(FlattenSeq(s), s, w, Len(s))
<1>. DEFINE n == Len(s)
<1>0. n \in Nat \ {0} /\ n - 1 \in Nat /\ n \in Nat /\ (n - 1) + 1 = n
  OBVIOUS
<1>1. PICK f : /\ f[1] = s[1] /\ FlattenSeq(s) = f[n]
               /\ \A k \in 2..n : f[k] = f[k - 1] \o s[k]
  BY ONLY <1>0, FlattenRuns
<1>2. \A i \in 1..n : s[i] \in Seq(T) /\ Len(s[i]) = w
  OBVIOUS
<1>. HIDE DEF n
<1>. DEFINE S == {i \in 0 .. n - 1 : f[i + 1] \in Seq(T) /\ LaidOut(f[i + 1], s, w, i + 1)}
<1>3. 0 \in S
  <2>1. s[1] \in Seq(T) /\ Len(s[1]) = w
    <3>1. 1 \in 1..n  BY <1>0
    <3>. QED  BY <1>2, <3>1
  <2>2. LaidOut(s[1], s, w, 1)
    <3>1. 1 * w = w /\ 0 * w = 0  OBVIOUS
    <3>2. \A e \in 0 .. 1 - 1, j \in 1..w : e = 0 /\ e * w + j = j /\ e + 1 = 1
      OBVIOUS
    <3>. QED  BY <2>1, <3>1, <3>2 DEF LaidOut
  <2>3. 0 + 1 = 1 /\ 0 \in 0 .. n - 1  BY <1>0
  <2>. QED  BY <1>1, <2>1, <2>2, <2>3
<1>4. ASSUME NEW i \in 0 .. n - 2, i \in S
      PROVE  i + 1 \in S
  <2>. DEFINE k == i + 1
              t == f[k]
  <2>1. k \in Nat /\ k + 1 \in 2..n /\ k + 1 \in 1..n /\ (k + 1) - 1 = k /\ k \in 0 .. n - 1
    BY <1>0
  <2>2. t \in Seq(T) /\ LaidOut(t, s, w, k)
    BY <1>4
  <2>. HIDE DEF k
  <2>3. f[k + 1] = t \o s[k + 1]
    BY <1>1, <2>1
  <2>. HIDE DEF t
  <2>4. s[k + 1] \in Seq(T) /\ Len(s[k + 1]) = w
    BY <1>2, <2>1
  <2>5. t \o s[k + 1] \in Seq(T) /\ LaidOut(t \o s[k + 1], s, w, k + 1)
    BY <2>1, <2>2, <2>4, LaidNext
  <2>6. k \in S
    BY <2>1, <2>3, <2>5
  <2>. QED  BY <2>6 DEF k
<1>5. n - 1 \in S
  <2>. HIDE DEF S
  <2>1. (n - 1) - 1 = n - 2  BY <1>0
  <2>2. \A i \in 0 .. n - 1 : i \in S
    BY <1>0, <1>3, <1>4, <2>1, UpTo
  <2>3. n - 1 \in 0 .. n - 1  BY <1>0
  <2>. QED  BY <2>2, <2>3
<1>6. f[n] \in Seq(T) /\ LaidOut(f[n], s, w, n)
  BY <1>0, <1>5
<1>. QED  BY <1>1, <1>6 DEF n

\* The words of a number as text: the first one short, the others with all digits.
LEMMA TextOf ==
  ASSUME NEW a \in Seq(Word), Len(a) >= 1
  PROVE  /\ Text(a) \in Seq(Byte)
         /\ Len(Text(a)) = Places(a[1]) + (Len(a) - 1) * Width
         /\ \A j \in 1 .. Places(a[1]) : Text(a)[j] = WordText(a[1], Places(a[1]))[j]
         /\ \A e \in 0 .. Len(a) - 2, j \in 1..Width :
              Text(a)[Places(a[1]) + (e * Width + j)] = WordText(a[e + 2], Width)[j]
<1>. DEFINE p == Places(a[1])
            k == Len(a) - 1
            first == WordText(a[1], p)
            s == [i \in 1 .. Len(a) - 1 |-> WordText(a[i + 1], Width)]
            rest == FlattenSeq(s)
            kw == k * Width
<1>0. /\ Len(a) \in Nat /\ k \in Nat /\ Width \in Nat \ {0} /\ Width \in Nat /\ Width \in 1..Width
      /\ k + 1 = Len(a) /\ kw \in Nat
  <2>1. Len(a) \in Nat /\ k \in Nat /\ Width \in Nat \ {0} /\ Width \in Nat /\ Width \in 1..Width
        /\ k + 1 = Len(a)
    BY LenIs, RadixAssumption
  <2>. HIDE DEF k
  <2>. QED  BY <2>1, Multiples
<1>1. \A i \in 1..Len(a) : a[i] \in Word /\ a[i] \in Nat
  BY ElementIs, BaseIs
<1>2. p \in 1..Width /\ first \in Seq(Byte) /\ Len(first) = p
  <2>1. 1 \in 1..Len(a)  BY <1>0
  <2>2. a[1] \in Word /\ a[1] \in Nat  BY <1>1, <2>1
  <2>3. p \in 1..Width  BY <2>2, PlacesOf
  <2>. HIDE DEF p
  <2>. QED  BY <2>2, <2>3, WordTextIs
<1>3. /\ Len(s) = k
      /\ \A i \in 1..k : s[i] = WordText(a[i + 1], Width) /\ s[i] \in Seq(Byte) /\ Len(s[i]) = Width
  <2>1. Len(s) = k /\ \A i \in 1..k : s[i] = WordText(a[i + 1], Width)
    BY <1>0
  <2>. HIDE DEF s, k
  <2>2. ASSUME NEW i \in 1..k
        PROVE  s[i] \in Seq(Byte) /\ Len(s[i]) = Width
    <3>1. i + 1 \in 1..Len(a)  BY <1>0
    <3>2. a[i + 1] \in Nat  BY <1>1, <3>1
    <3>. DEFINE x == a[i + 1]
    <3>3. x \in Nat  BY <3>2
    <3>4. s[i] = WordText(x, Width)  BY <2>1
    <3>. HIDE DEF x
    <3>5. WordText(x, Width) \in Seq(Byte) /\ Len(WordText(x, Width)) = Width
      BY <1>0, <3>3, WordTextIs
    <3>. QED  BY <3>4, <3>5
  <2>. QED  BY <2>1, <2>2
<1>4. Text(a) = first \o rest
  BY DEF Text
<1>5. rest \in Seq(Byte) /\ LaidOut(rest, s, Width, k)
  <2>1. CASE k = 0
    <3>1. s = <<>>
      <4>1. Len(a) - 1 = 0  BY <1>0, <2>1
      <4>2. s = [i \in 1..0 |-> WordText(a[i + 1], Width)]
        BY <4>1
      <4>3. [i \in 1..0 |-> WordText(a[i + 1], Width)] = <<>>
        <5>1. 1..0 = {}  OBVIOUS
        <5>. QED  BY <5>1
      <4>. QED  BY <4>2, <4>3
    <3>2. rest = <<>>  BY <3>1 DEF FlattenSeq
    <3>3. Len(<<>>) = 0 * Width  BY <1>0
    <3>. QED  BY <2>1, <3>2, <3>3 DEF LaidOut
  <2>2. CASE k # 0
    <3>. HIDE DEF s, k
    <3>1. Len(s) \in Nat \ {0} /\ \A i \in 1..Len(s) : s[i] \in Seq(Byte) /\ Len(s[i]) = Width
      BY <1>0, <1>3, <2>2
    <3>. QED  BY <1>0, <1>3, <3>1, FlattenIs
  <2>. QED  BY <2>1, <2>2
<1>. HIDE DEF rest, s
<1>6. /\ Len(rest) = kw
      /\ \A e \in 0 .. k - 1, j \in 1..Width : rest[e * Width + j] = s[e + 1][j]
  BY <1>5 DEF LaidOut
<1>. HIDE DEF first
<1>. DEFINE t == first \o rest
<1>7. /\ t \in Seq(Byte) /\ Len(t) = p + kw
      /\ \A i \in 1..p : t[i] = first[i]
      /\ \A i \in 1..kw : t[p + i] = rest[i]
  <2>1. /\ t \in Seq(Byte) /\ Len(t) = Len(first) + Len(rest)
        /\ \A i \in 1..Len(first) : t[i] = first[i]
        /\ \A i \in 1..Len(rest) : t[Len(first) + i] = rest[i]
    <3>1. first \in Seq(Byte) /\ rest \in Seq(Byte)  BY <1>2, <1>5
    <3>. QED  BY ONLY <3>1, JoinIs
  <2>. QED  BY <1>2, <1>6, <2>1
<1>. HIDE DEF t
<1>8. ASSUME NEW e \in 0 .. k - 1, NEW j \in 1..Width
      PROVE  t[p + (e * Width + j)] = WordText(a[e + 2], Width)[j]
  <2>. DEFINE x == e * Width
  <2>1. x \in Nat /\ x + Width <= kw
    BY <1>0, Multiples
  <2>2. rest[x + j] = s[e + 1][j]
    BY <1>6
  <2>. HIDE DEF x, kw
  <2>3. x + j \in 1..kw
    BY <1>0, <2>1
  <2>4. e + 1 \in 1..k /\ (e + 1) + 1 = e + 2
    BY <1>0
  <2>5. s[e + 1] = WordText(a[e + 2], Width)
    BY <1>3, <2>4
  <2>6. t[p + (x + j)] = WordText(a[e + 2], Width)[j]
    BY <1>7, <2>2, <2>3, <2>5
  <2>. QED  BY <2>6 DEF x
<1>9. Text(a) = t /\ Len(a) - 2 = k - 1
  BY <1>0, <1>4 DEF t
<1>. QED  BY <1>7, <1>8, <1>9 DEF first

LEMMA PieceOf ==
  ASSUME NEW T, NEW t \in Seq(T), NEW v \in Seq(T), NEW n \in Nat, NEW m \in Nat,
         m = n + Len(v), m <= Len(t), \A j \in 1..Len(v) : t[n + j] = v[j]
  PROVE  SubSeq(t, n + 1, m) = v
<1>1. Len(v) \in Nat  BY LenIs
<1>2. n <= m /\ m - n = Len(v)  BY <1>1
<1>3. /\ SubSeq(t, n + 1, m) \in Seq(T) /\ Len(SubSeq(t, n + 1, m)) = m - n
      /\ \A i \in 1 .. m - n : SubSeq(t, n + 1, m)[i] = t[n + i]
  BY <1>2, SubSeqIs
<1>. DEFINE r == SubSeq(t, n + 1, m)
<1>4. r \in Seq(T) /\ Len(r) = Len(v) /\ \A i \in 1..Len(r) : r[i] = v[i]
  BY <1>2, <1>3
<1>. HIDE DEF r
<1>5. r = v  BY <1>4, SameSeq
<1>. QED  BY <1>5 DEF r

\* A short number in front of whole words.
LEMMA RestOfWords ==
  ASSUME NEW w \in Nat \ {0}, NEW k \in Nat, NEW p \in 0 .. w - 1
  PROVE  (p + k * w) % w = p /\ (p + k * w) \div w = k
<1>. DEFINE n == p + k * w
            q == n \div w
            r == n % w
<1>1. k * w \in Nat /\ n \in Nat
  BY Multiples
<1>2. q \in Nat /\ r \in 0 .. w - 1 /\ q * w + r = n
  BY ONLY w \in Nat \ {0}, <1>1, Division
<1>. HIDE DEF q, r
<1>3. ~ (q < k)
  <2>1. SUFFICES ASSUME q < k  PROVE FALSE  OBVIOUS
  <2>2. q \in 0 .. k - 1  BY <1>2, <2>1
  <2>3. q * w + w <= k * w /\ q * w \in Nat  BY <2>2, Multiples
  <2>. DEFINE x == q * w
              y == k * w
  <2>4. x \in Nat /\ y \in Nat /\ x + w <= y /\ x + r = p + y
    BY <1>1, <1>2, <2>3
  <2>. HIDE DEF x, y
  <2>. QED  BY <1>2, <2>4
<1>4. ~ (k < q)
  <2>1. SUFFICES ASSUME k < q  PROVE FALSE  OBVIOUS
  <2>2. k \in 0 .. q - 1  BY <1>2, <2>1
  <2>3. k * w + w <= q * w /\ q * w \in Nat  BY <1>2, <2>2, Multiples
  <2>. DEFINE x == q * w
              y == k * w
  <2>4. x \in Nat /\ y \in Nat /\ y + w <= x /\ x + r = p + y
    BY <1>1, <1>2, <2>3
  <2>. HIDE DEF x, y
  <2>. QED  BY <1>2, <2>4
<1>5. q = k
  BY <1>2, <1>3, <1>4
<1>6. r = p
  <2>. DEFINE y == k * w
  <2>1. y \in Nat /\ y + r = p + y
    BY <1>1, <1>2, <1>5
  <2>. HIDE DEF y
  <2>. QED  BY <1>2, <2>1
<1>. QED  BY <1>5, <1>6 DEF q, r

\* What is written is read back, unless a full word begins the text.
LEMMA HexReadsNumber ==
  ASSUME NEW a \in Seq(Word), Len(a) >= 1
  PROVE  IF Len(Text(a)) % Width = 0 THEN HexFails(Text(a))
         ELSE ~ HexFails(Text(a)) /\ Hex(Text(a)) = a
<1>. DEFINE p == Places(a[1])
            k == Len(a) - 1
            t == Text(a)
            w == Width
            kw == k * w
<1>0. /\ Len(a) \in Nat /\ k \in Nat /\ w \in Nat \ {0} /\ w \in Nat /\ w \in 1..w
      /\ k + 1 = Len(a) /\ Len(a) - 2 = k - 1 /\ p \in 1..w /\ a[1] < Power[p]
      /\ \A i \in 1..Len(a) : a[i] \in Nat /\ a[i] < Power[w]
  <2>1. Len(a) \in Nat /\ k \in Nat /\ w \in Nat \ {0} /\ w \in Nat /\ w \in 1..w
        /\ k + 1 = Len(a) /\ Len(a) - 2 = k - 1
    BY LenIs, RadixAssumption
  <2>2. \A i \in 1..Len(a) : a[i] \in Word
    BY ElementIs
  <2>3. \A x \in Word : x \in Nat /\ x < Power[w]
    <3>1. Power[w] \in Nat  BY <2>1, PowerIsPositive
    <3>. QED  BY <3>1 DEF Word
  <2>4. 1 \in 1..Len(a)  BY <2>1
  <2>5. p \in 1..w /\ a[1] < Power[p]  BY <2>2, <2>4, PlacesOf
  <2>. QED  BY <2>1, <2>2, <2>3, <2>5
<1>1. /\ t \in Seq(Byte) /\ Len(t) = p + kw
      /\ \A j \in 1..p : t[j] = WordText(a[1], p)[j]
      /\ \A e \in 0 .. k - 1, j \in 1..w : t[p + (e * w + j)] = WordText(a[e + 2], w)[j]
  <2>1. /\ t \in Seq(Byte) /\ Len(t) = p + kw
        /\ \A j \in 1..p : t[j] = WordText(a[1], p)[j]
        /\ \A e \in 0 .. Len(a) - 2, j \in 1..w :
             t[p + (e * w + j)] = WordText(a[e + 2], w)[j]
    BY TextOf
  <2>2. Len(a) - 2 = k - 1  BY <1>0
  <2>. HIDE DEF k
  <2>. QED  BY <2>1, <2>2
<1>. HIDE DEF t, k, p, w
<1>2. CASE p = w
  <2>1. Len(t) % w = 0
    <3>1. (k + 1) * w = kw + w /\ kw \in Nat /\ k + 1 \in Nat
      BY <1>0, Multiples
    <3>2. (0 + (k + 1) * w) % w = 0
      <4>1. 0 \in 0 .. w - 1  BY <1>0
      <4>. QED  BY ONLY <1>0, <3>1, <4>1, RestOfWords
    <3>3. 0 + (k + 1) * w = Len(t)
      <4>. HIDE DEF kw
      <4>. QED  BY <1>0, <1>1, <1>2, <3>1
    <3>. QED  BY <3>2, <3>3
  <2>2. HexFails(t)
    <3>1. DOMAIN Partition(t) = 1 .. Len(t) \div w + 1
      BY DEF Partition, w
    <3>2. Len(t) \div w \in Nat
      <4>1. Len(t) \in Nat  BY <1>1, LenIs
      <4>. QED  BY <1>0, <4>1, Division
    <3>3. 1 \in DOMAIN Partition(t)
      BY <3>1, <3>2
    <3>4. Partition(t)[1] = SubSeq(t, 1, Len(t) % w)
      BY <3>1, <3>3 DEF Partition, w
    <3>5. Partition(t)[1] = <<>>
      BY <1>1, <2>1, <3>4
    <3>. QED  BY <3>3, <3>5 DEF HexFails, Readable
  <2>. QED  BY <2>1, <2>2 DEF t, w
<1>3. CASE p # w
  <2>1. Len(t) % w = p /\ Len(t) \div w = k /\ p # 0
    <3>1. p \in 0 .. w - 1 /\ p # 0  BY <1>0, <1>3
    <3>2. (p + k * w) % w = p /\ (p + k * w) \div w = k
      BY ONLY <1>0, <3>1, RestOfWords
    <3>. QED  BY <1>1, <3>1, <3>2
  <2>2. Partition(t) = [i \in 1 .. k + 1 |->
                          IF i = 1 THEN SubSeq(t, 1, p)
                          ELSE SubSeq(t, p + (i - 2) * w + 1, p + (i - 1) * w)]
    BY <2>1, Zenon DEF Partition, w
  <2>. DEFINE part(i) == WordText(a[i], IF i = 1 THEN p ELSE w)
  <2>3. ASSUME NEW i \in 1 .. k + 1
        PROVE  Partition(t)[i] = part(i)
    <3>1. CASE i = 1
      <4>. DEFINE v == WordText(a[1], p)
      <4>1. v \in Seq(Byte) /\ Len(v) = p
        <5>1. 1 \in 1..Len(a) /\ p \in 1..Width  BY <1>0 DEF w
        <5>2. a[1] \in Nat  BY <1>0, <5>1
        <5>. QED  BY <5>1, <5>2, WordTextIs
      <4>2. p \in Nat /\ kw \in Nat /\ p <= Len(t)
        <5>1. p \in Nat /\ kw \in Nat  BY <1>0, Multiples
        <5>. HIDE DEF kw
        <5>. QED  BY <1>1, <5>1
      <4>3. \A j \in 1..p : t[0 + j] = v[j]
        <5>1. \A j \in 1..p : 0 + j = j  BY <4>2
        <5>. QED  BY <1>1, <5>1
      <4>. HIDE DEF v
      <4>4. SubSeq(t, 0 + 1, p) = v
        <5>1. 0 \in Nat /\ p = 0 + Len(v) /\ \A j \in 1..Len(v) : t[0 + j] = v[j]
          BY <4>1, <4>2, <4>3
        <5>2. t \in Seq(Byte)  BY <1>1
        <5>. QED  BY <4>1, <4>2, <5>1, <5>2, PieceOf
      <4>. QED  BY <2>2, <3>1, <4>4 DEF v
    <3>2. CASE i # 1
      <4>. DEFINE e == i - 2
                  v == WordText(a[i], w)
                  ew == e * w
                  n == p + ew
                  m == p + (i - 1) * w
      <4>1. e \in 0 .. k - 1 /\ e \in Nat /\ e + 1 = i - 1 /\ e + 2 = i /\ i \in 1..Len(a)
        BY <1>0, <3>2
      <4>2. ew \in Nat /\ (e + 1) * w = ew + w /\ ew + w <= kw /\ kw \in Nat
        <5>. HIDE DEF e
        <5>. QED  BY <1>0, <4>1, Multiples
      <4>3. v \in Seq(Byte) /\ Len(v) = w
        BY <1>0, <4>1, WordTextIs DEF w
      <4>4. \A j \in 1..w : t[p + (ew + j)] = v[j]
        BY <1>1, <4>1
      <4>5. Partition(t)[i] = SubSeq(t, n + 1, m)
        BY <2>2, <3>2, Zenon
      <4>6. m = p + (ew + w)
        BY <4>1, <4>2
      <4>. HIDE DEF e, v, ew, kw, m
      <4>7. n \in Nat /\ m \in Nat /\ m = n + Len(v) /\ m <= Len(t)
        BY <1>0, <1>1, <4>2, <4>3, <4>6
      <4>8. \A j \in 1..Len(v) : t[n + j] = v[j]
        <5>1. \A j \in 1..w : n + j = p + (ew + j)  BY <1>0, <4>2
        <5>. QED  BY <4>3, <4>4, <5>1
      <4>9. t \in Seq(Byte)  BY <1>1
      <4>. HIDE DEF n
      <4>10. SubSeq(t, n + 1, m) = v
        BY ONLY <4>3, <4>7, <4>8, <4>9, PieceOf
      <4>. QED  BY <3>2, <4>5, <4>10 DEF v
    <3>. QED  BY <3>1, <3>2
  <2>4. DOMAIN Partition(t) = 1 .. k + 1
    BY <2>2
  <2>5. ASSUME NEW i \in 1 .. k + 1
        PROVE  Scanned(Partition(t)[i]) = a[i] /\ Readable(Partition(t)[i])
    <3>. DEFINE l == IF i = 1 THEN p ELSE w
    <3>1. i \in 1..Len(a)  BY <1>0
    <3>2. l \in 1..Width /\ a[i] < Power[l] /\ a[i] \in Nat
      BY <1>0, <3>1 DEF w
    <3>3. Partition(t)[i] = WordText(a[i], l)  BY <2>3
    <3>. HIDE DEF l
    <3>. QED  BY <3>2, <3>3, WordIsRead
  <2>6. ~ HexFails(t)
    BY <2>4, <2>5 DEF HexFails
  <2>7. Hex(t) = a
    <3>1. Hex(t) = [i \in 1 .. k + 1 |-> Scanned(Partition(t)[i])]
      BY <2>4 DEF Hex
    <3>2. Hex(t) = [i \in 1..Len(a) |-> a[i]]
      BY <1>0, <2>5, <3>1
    <3>. QED  BY <3>2
  <2>. QED  BY <2>1, <2>6, <2>7 DEF t, w
<1>. QED  BY <1>2, <1>3

LEMMA TimesIs ==
  ASSUME NEW x \in Nat, Decimal * x <= Highest
  PROVE  Times(<<x>>) = <<Decimal * x>>
<1>. DEFINE Is(f, k) == f = [i \in 1..k |-> IF i = 1 THEN <<x>> ELSE Plus(f[i - 1], <<x>>)]
            g == [i \in 1..Decimal |-> <<i * x>>]
<1>0. Decimal \in 2..10 /\ Highest \in Nat
  BY RadixAssumption, BaseIs
<1>1. ASSUME NEW i \in 2..Decimal
      PROVE  Plus(<<(i - 1) * x>>, <<x>>) = <<i * x>>
  <2>. DEFINE y == (i - 1) * x
  <2>1. y \in Nat /\ y + x = i * x
    <3>1. PICK j \in Nat : i = j + 1
      <4>1. i - 1 \in Nat /\ i = (i - 1) + 1  BY <1>0
      <4>. QED  BY <4>1
    <3>2. i - 1 = j /\ i * x = j * x + x /\ j * x \in Nat
      BY <3>1, Multiples
    <3>. QED  BY <3>2
  <2>2. i * x <= Decimal * x
    <3>1. CASE i = Decimal
      <4>1. Decimal * x \in Nat  BY <1>0, Multiples
      <4>. QED  BY <3>1, <4>1
    <3>2. CASE i # Decimal
      <4>1. i \in 0 .. Decimal - 1 /\ Decimal \in Nat  BY <1>0, <3>2
      <4>2. i * x + x <= Decimal * x /\ i * x \in Nat /\ Decimal * x \in Nat
        BY <4>1, Multiples
      <4>. DEFINE p == i * x
                  q == Decimal * x
      <4>3. p + x <= q /\ p \in Nat /\ q \in Nat  BY <4>2
      <4>. HIDE DEF p, q
      <4>4. p <= q  BY <4>3
      <4>. QED  BY <4>4 DEF p, q
    <3>. QED  BY <3>1, <3>2
  <2>. DEFINE ix == i * x
              dx == Decimal * x
  <2>3. ix \in Nat /\ dx \in Nat /\ ix <= dx /\ dx <= Highest /\ y + x = ix
    <3>1. i \in Nat /\ Decimal \in Nat  BY <1>0
    <3>2. ix \in Nat /\ dx \in Nat  BY <3>1, Multiples
    <3>. QED  BY <2>1, <2>2, <3>2
  <2>. HIDE DEF y, ix, dx
  <2>4. y + x <= Highest  BY <1>0, <2>3
  <2>5. Plus(<<y>>, <<x>>) = <<y + x>>
    BY <1>0, <2>1, <2>4, PlusOfWords
  <2>6. Plus(<<y>>, <<x>>) = <<ix>>
    BY <2>3, <2>5
  <2>. QED  BY <2>6 DEF y, ix
<1>2. Is(g, Decimal)
  <2>1. ASSUME NEW i \in 1..Decimal
        PROVE  g[i] = IF i = 1 THEN <<x>> ELSE Plus(g[i - 1], <<x>>)
    <3>1. CASE i = 1
      <4>1. 1 * x = x  OBVIOUS
      <4>. QED  BY <3>1, <4>1
    <3>2. CASE i # 1
      <4>1. i \in 2..Decimal /\ i - 1 \in 1..Decimal  BY <1>0, <3>2
      <4>2. g[i] = <<i * x>> /\ g[i - 1] = <<(i - 1) * x>>  BY <4>1
      <4>. HIDE DEF g
      <4>. QED  BY <1>1, <3>2, <4>1, <4>2
    <3>. QED  BY <3>1, <3>2
  <2>2. g = [i \in 1..Decimal |-> g[i]]  OBVIOUS
  <2>. HIDE DEF g
  <2>3. [i \in 1..Decimal |-> g[i]] = [i \in 1..Decimal |-> IF i = 1 THEN <<x>> ELSE Plus(g[i - 1], <<x>>)]
    BY <2>1, Zenon
  <2>. QED  BY <2>2, <2>3, Zenon
<1>3. PICK f : Is(f, Decimal) /\ f = CHOOSE h : Is(h, Decimal)
  <2>. HIDE DEF Is, g
  <2>. QED  BY <1>2
<1>4. Times(<<x>>) = f[Decimal]
  BY <1>3 DEF Times
<1>. DEFINE S == {i \in 0 .. Decimal - 1 : f[i + 1] = <<(i + 1) * x>>}
<1>5. 0 \in S
  <2>1. f[1] = <<x>>  BY <1>0, <1>3
  <2>2. (0 + 1) * x = x /\ 0 + 1 = 1  OBVIOUS
  <2>. HIDE DEF Is
  <2>. QED  BY <1>0, <2>1, <2>2
<1>6. ASSUME NEW i \in 0 .. Decimal - 2, i \in S  PROVE i + 1 \in S
  <2>. DEFINE j == (i + 1) + 1
  <2>1. j \in 2..Decimal /\ j - 1 = i + 1 /\ i + 1 \in 0 .. Decimal - 1
    BY <1>0
  <2>2. f[j] = Plus(f[j - 1], <<x>>)
    <3>1. \A k \in 2..Decimal : f[k] = Plus(f[k - 1], <<x>>)
      BY <1>0, <1>3
    <3>. HIDE DEF j, Is
    <3>. QED  BY <2>1, <3>1
  <2>3. f[j - 1] = <<(j - 1) * x>>
    BY <1>6, <2>1
  <2>. HIDE DEF j, Is
  <2>4. f[j] = <<j * x>>
    BY <1>1, <2>1, <2>2, <2>3
  <2>. QED  BY <2>1, <2>4 DEF j
<1>7. Decimal - 1 \in S
  <2>. HIDE DEF S, Is
  <2>1. \A i \in 0 .. Decimal - 1 : i \in S
    <3>1. Decimal - 1 \in Nat /\ (Decimal - 1) - 1 = Decimal - 2  BY <1>0
    <3>. QED  BY <1>5, <1>6, <3>1, UpTo
  <2>. QED  BY <1>0, <2>1
<1>8. (Decimal - 1) + 1 = Decimal
  BY <1>0
<1>. QED  BY <1>4, <1>7, <1>8

\* A numeral that fits into a word is read as it is.
LEMMA DecIs ==
  ASSUME NEW n \in Nat, NEW d \in [1..n -> {Numeral[i] : i \in 1..Decimal}],
         NumberOf(d, Decimal) <= Highest
  PROVE  Dec(d) = <<NumberOf(d, Decimal)>>
<1>0. Decimal \in 2..10 /\ Highest \in Nat
  BY RadixAssumption, BaseIs
<1>1. d \in Seq(Byte) /\ Len(d) = n /\ \A i \in 1..n : DigitOf(d[i]) \in Nat
  <2>1. ASSUME NEW c \in {Numeral[i] : i \in 1..Decimal}
        PROVE  c \in Byte /\ DigitOf(c) \in Nat
    <3>1. PICK i \in 1..Decimal : c = Numeral[i]  OBVIOUS
    <3>2. i - 1 \in 0..9 /\ (i - 1) + 1 = i  BY ONLY <1>0, <3>1
    <3>3. DigitOf(Numeral[(i - 1) + 1]) = i - 1 /\ Numeral[(i - 1) + 1] \in Byte
      BY <3>2, DigitsAre
    <3>. QED  BY <3>1, <3>2, <3>3
  <2>2. \A i \in 1..n : d[i] \in Byte /\ DigitOf(d[i]) \in Nat
    BY <2>1
  <2>3. d = [i \in 1..n |-> d[i]]  OBVIOUS
  <2>. QED  BY <2>2, <2>3
<1>2. PICK f : /\ f[0] = 0
               /\ \A i \in 1..n : f[i] = f[i - 1] * Decimal + DigitOf(d[i])
               /\ NumberOf(d, Decimal) = f[n]
  BY <1>1, NumberRuns
<1>3. \A i \in 0..n : f[i] \in Nat
  <2>. DEFINE S == {i \in 0..n : f[i] \in Nat}
  <2>1. 0 \in S  BY <1>2
  <2>2. ASSUME NEW i \in 0 .. n - 1, i \in S  PROVE i + 1 \in S
    <3>1. i + 1 \in 1..n /\ (i + 1) - 1 = i  OBVIOUS
    <3>2. f[i + 1] = f[i] * Decimal + DigitOf(d[i + 1]) /\ DigitOf(d[i + 1]) \in Nat
      BY <1>1, <1>2, <3>1
    <3>3. f[i] * Decimal \in Nat
      <4>1. f[i] \in Nat /\ Decimal \in Nat  BY <1>0, <2>2
      <4>. QED  BY <4>1
    <3>. QED  BY <3>1, <3>2, <3>3
  <2>. HIDE DEF S
  <2>3. \A i \in 0..n : i \in S  BY <2>1, <2>2, UpTo
  <2>. QED  BY <2>3 DEF S
<1>4. ASSUME NEW i \in 1..n
      PROVE  f[i - 1] <= f[i] /\ Decimal * f[i - 1] <= f[i]
             /\ Decimal * f[i - 1] + DigitOf(d[i]) = f[i]
  <2>. DEFINE x == f[i - 1]
              c == DigitOf(d[i])
  <2>1. x \in Nat /\ c \in Nat /\ f[i] = x * Decimal + c
    <3>1. i - 1 \in 0..n  OBVIOUS
    <3>. QED  BY <1>1, <1>2, <1>3, <3>1
  <2>. HIDE DEF x, c
  <2>2. \A k \in 2..10 : x <= x * k + c /\ k * x <= x * k + c /\ k * x + c = x * k + c
    BY <2>1
  <2>. QED  BY <1>0, <2>1, <2>2 DEF x, c
<1>5. \A i \in 0..n : f[i] <= Highest
  <2>. DEFINE S == {i \in 0..n : f[n - i] <= Highest}
  <2>1. 0 \in S
    <3>1. n - 0 = n  OBVIOUS
    <3>. QED  BY <1>2, <3>1
  <2>2. ASSUME NEW i \in 0 .. n - 1, i \in S  PROVE i + 1 \in S
    <3>1. n - i \in 1..n /\ n - i \in 0..n /\ (n - i) - 1 = n - (i + 1) /\ n - (i + 1) \in 0..n
      OBVIOUS
    <3>2. f[n - (i + 1)] <= f[n - i]  BY <1>4, <3>1
    <3>3. f[n - i] <= Highest  BY <2>2
    <3>. QED  BY <1>0, <1>3, <3>1, <3>2, <3>3
  <2>. HIDE DEF S
  <2>3. \A i \in 0..n : i \in S  BY <2>1, <2>2, UpTo
  <2>4. ASSUME NEW i \in 0..n  PROVE f[i] <= Highest
    <3>1. n - i \in 0..n /\ n - (n - i) = i  OBVIOUS
    <3>. QED  BY <2>3, <3>1 DEF S
  <2>. QED  BY <2>4
<1>6. ASSUME NEW i \in 1..n
      PROVE  Plus(Times(<<f[i - 1]>>), <<DigitOf(d[i])>>) = <<f[i]>>
  <2>. DEFINE x == f[i - 1]
              c == DigitOf(d[i])
              dx == Decimal * x
  <2>1. x \in Nat /\ c \in Nat /\ f[i] \in Nat /\ f[i] <= Highest
    <3>1. i - 1 \in 0..n /\ i \in 0..n  OBVIOUS
    <3>. QED  BY <1>1, <1>3, <1>5, <3>1
  <2>2. dx <= f[i] /\ dx + c = f[i]
    BY <1>4
  <2>3. dx \in Nat
    <3>1. Decimal \in Nat /\ x \in Nat  BY <1>0, <2>1
    <3>. HIDE DEF x
    <3>. QED  BY <3>1
  <2>4. Times(<<x>>) = <<dx>>
    <3>1. Decimal * x <= Highest
      <4>. HIDE DEF x
      <4>1. dx <= Highest
        <5>. HIDE DEF dx
        <5>. QED  BY <1>0, <2>1, <2>2, <2>3
      <4>. QED  BY <4>1
    <3>. QED  BY <2>1, <3>1, TimesIs
  <2>. HIDE DEF x, c, dx
  <2>5. Plus(<<dx>>, <<c>>) = <<dx + c>>
    BY <1>0, <2>1, <2>2, <2>3, PlusOfWords
  <2>6. Plus(Times(<<x>>), <<c>>) = <<f[i]>>
    BY <2>2, <2>4, <2>5
  <2>. QED  BY <2>6 DEF x, c
<1>. DEFINE Is(r) == r = [i \in 0..n |-> IF i = 0 THEN <<0>>
                                        ELSE Plus(Times(r[i - 1]), <<DigitOf(d[i])>>)]
            g == [i \in 0..n |-> <<f[i]>>]
<1>7. Is(g)
  <2>1. ASSUME NEW i \in 0..n
        PROVE  g[i] = IF i = 0 THEN <<0>> ELSE Plus(Times(g[i - 1]), <<DigitOf(d[i])>>)
    <3>1. CASE i = 0  BY <1>2, <3>1
    <3>2. CASE i # 0
      <4>1. i \in 1..n /\ i - 1 \in 0..n  BY <3>2
      <4>2. g[i] = <<f[i]>> /\ g[i - 1] = <<f[i - 1]>>  BY <4>1
      <4>. HIDE DEF g
      <4>. QED  BY <1>6, <3>2, <4>1, <4>2
    <3>. QED  BY <3>1, <3>2
  <2>2. g = [i \in 0..n |-> g[i]]  OBVIOUS
  <2>. HIDE DEF g
  <2>3. [i \in 0..n |-> g[i]]
          = [i \in 0..n |-> IF i = 0 THEN <<0>> ELSE Plus(Times(g[i - 1]), <<DigitOf(d[i])>>)]
    BY <2>1, Zenon
  <2>. QED  BY <2>2, <2>3, Zenon
<1>8. PICK r : Is(r) /\ r = CHOOSE h : Is(h)
  <2>. HIDE DEF Is, g
  <2>. QED  BY <1>7
<1>9. Dec(d) = r[n]
  <2>1. Dec(d) = (CHOOSE h : Is(h))[n]
    BY <1>1 DEF Dec
  <2>. HIDE DEF Is
  <2>. QED  BY <1>8, <2>1
<1>. DEFINE S == {i \in 0..n : r[i] = <<f[i]>>}
<1>10. 0 \in S
  BY <1>2, <1>8
<1>11. ASSUME NEW i \in 0 .. n - 1, i \in S  PROVE i + 1 \in S
  <2>1. \A j \in 1..n : r[j] = Plus(Times(r[j - 1]), <<DigitOf(d[j])>>)
    BY <1>8
  <2>. DEFINE j == i + 1
  <2>2. j \in 1..n /\ j - 1 = i /\ j \in 0..n  OBVIOUS
  <2>3. r[i] = <<f[i]>>  BY <1>11
  <2>. HIDE DEF j, Is
  <2>4. r[j] = <<f[j]>>
    BY <1>6, <2>1, <2>2, <2>3
  <2>5. j \in S  BY <2>2, <2>4
  <2>. QED  BY <2>5 DEF j
<1>12. n \in S
  <2>. HIDE DEF S
  <2>1. \A i \in 0..n : i \in S  BY <1>10, <1>11, UpTo
  <2>. QED  BY <2>1
<1>. QED  BY <1>2, <1>9, <1>12

LEMMA NumbersGood ==
  ASSUME NEW len \in Nat, NEW a \in Numbers(len)
  PROVE  IsNumber(a) /\ a \in Seq(Word) /\ Len(a) >= 1
BY NumbersAre DEF IsNumber

\* One number.
LEMMA CountsOne ==
  ASSUME NEW len \in Nat, NEW a \in Numbers(len)
  PROVE  /\ Value(Increment(a)) = Value(a) + 1
         /\ a # <<0>> => Value(Decrement(a)) = Value(a) - 1
         /\ IF Len(Text(a)) % Width = 0 THEN HexFails(Text(a))
            ELSE ~ HexFails(Text(a)) /\ Hex(Text(a)) = a
<1>1. IsNumber(a) /\ a \in Seq(Word) /\ Len(a) >= 1
  BY NumbersGood
<1>2. Value(Increment(a)) = Value(a) + 1
  BY <1>1, IncrementIs
<1>3. a # <<0>> => Value(Decrement(a)) = Value(a) - 1
  BY <1>1, DecrementIs
<1>4. IF Len(Text(a)) % Width = 0 THEN HexFails(Text(a))
      ELSE ~ HexFails(Text(a)) /\ Hex(Text(a)) = a
  BY <1>1, HexReadsNumber
<1>. QED  BY <1>2, <1>3, <1>4

\* Two numbers.
LEMMA CountsTwo ==
  ASSUME NEW len \in Nat, NEW a \in Numbers(len), NEW b \in Numbers(len)
  PROVE  /\ Less(a, b) <=> Value(a) < Value(b)
         /\ Len(a) <= Len(b) \/ Last(a) + Value(b) <= Highest
              => Value(Plus(a, b)) = Value(a) + Value(b)
         /\ AtMost(a, b) => Minus(a, b) = <<0>>
         /\ Less(b, a) /\ ~ Short(a, b) =>
              Value(Minus(a, b)) = Value(a) - Value(b)
         /\ Value(b) + 1 < Value(a) /\ Len(b) = 1 /\ Short(a, b) =>
              Value(Minus(a, b)) = Value(a) - Value(b) - 1
<1>1. IsNumber(a) /\ a \in Seq(Word) /\ IsNumber(b) /\ b \in Seq(Word)
  BY NumbersGood
<1>2. Less(a, b) <=> Value(a) < Value(b)
  BY <1>1, LessIs
<1>3. ASSUME Len(a) <= Len(b) \/ Last(a) + Value(b) <= Highest
      PROVE  Value(Plus(a, b)) = Value(a) + Value(b)
  <2>1. CASE Len(a) <= Len(b)
    BY <1>1, <2>1, PlusIs
  <2>2. CASE ~ (Len(a) <= Len(b))
    <3>1. Len(a) > Len(b)
      <4>1. Len(a) \in Nat /\ Len(b) \in Nat  BY <1>1, LenIs
      <4>. QED  BY <2>2, <4>1
    <3>. QED  BY <1>1, <1>3, <2>2, <3>1, PlusWord
  <2>. QED  BY <2>1, <2>2
<1>4. AtMost(a, b) => Minus(a, b) = <<0>>
  BY Zenon DEF Minus
<1>5. Less(b, a) /\ ~ Short(a, b) => Value(Minus(a, b)) = Value(a) - Value(b)
  BY <1>1, MinusIs
<1>6. Value(b) + 1 < Value(a) /\ Len(b) = 1 /\ Short(a, b)
        => Value(Minus(a, b)) = Value(a) - Value(b) - 1
  BY <1>1, MinusShort
<1>. QED  BY <1>2, <1>3, <1>4, <1>5, <1>6

\* Numbers of any length, in any base and with words of any width: ++ and -- count,
\* < orders, += and -= give the sum and the difference up to the carries and
\* borrows Counts names, a number is read back from its hexadecimal text, and a
\* numeral of one word from its decimal text (http-requests.cpp 13-420).
THEOREM NumbersAreRight == \A len \in Nat : Counts(len)
<1>. SUFFICES ASSUME NEW len \in Nat
              PROVE  Counts(len)
  OBVIOUS
<1>1. ASSUME NEW d \in Decimals(Width + 1), NumberOf(d, Decimal) <= Highest
      PROVE  Dec(d) = <<NumberOf(d, Decimal)>>
  <2>1. PICK n \in 1 .. Width + 1 : d \in [1..n -> {Numeral[i] : i \in 1..Decimal}]
    BY DEF Decimals
  <2>2. n \in Nat
    BY RadixAssumption
  <2>. QED  BY <1>1, <2>1, <2>2, DecIs
<1>. QED  BY <1>1, CountsOne, CountsTwo DEF Counts

\* NumbersCount: what the run compares, the numbers of up to two words, are some of
\* them (http-requests.cpp 13-420).
THEOREM NumbersCounted == Spec => []NumbersCount
<1>1. Counts(2)
  BY NumbersAreRight
<1>2. NumbersCount
  BY <1>1 DEF NumbersCount
<1>. QED  BY <1>2, PTL

=============================================================================
