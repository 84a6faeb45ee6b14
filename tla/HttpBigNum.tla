---------------------------- MODULE HttpBigNum ----------------------------
(***************************************************************************)
(* Numbers of any size as sequences of machine words, the highest first:   *)
(* the sizes of HTTP chunks (http-requests.cpp 13-420).  A word has Width  *)
(* digits of base Radix, in the code 16 hexadecimal digits; the numbers of *)
(* Content-Length are read in base Decimal.                                *)
(***************************************************************************)
EXTENDS Integers, Sequences, SequencesExt

CONSTANTS Radix, Width, Decimal

ASSUME RadixAssumption ==
  Radix \in 2..10 /\ Decimal \in 2..10 /\ Width \in Nat \ {0}

Power[n \in 0..Width] == IF n = 0 THEN 1 ELSE Radix * Power[n - 1]

Word == 0 .. Power[Width] - 1
Highest == Power[Width] - 1
Numeral == <<"0", "1", "2", "3", "4", "5", "6", "7", "8", "9">>
Digits == {Numeral[i] : i \in 1..Radix}
DigitOf(d) == CHOOSE i \in 0..9 : Numeral[i + 1] = d

\* What a number means; not part of the code.
Value(num) ==
  LET value[i \in 0..Len(num)] ==
        IF i = 0 THEN 0 ELSE value[i - 1] * (Highest + 1) + num[i]
  IN  value[Len(num)]

(***************************************************************************)
(* Comparison: the longer number is the greater one, numbers of one length *)
(* compare as their words do.                                              *)
(***************************************************************************)
Less(a, b) ==
  \/ Len(a) < Len(b)
  \/ /\ Len(a) = Len(b)
     /\ \E i \in 1..Len(a) : a[i] < b[i] /\ \A j \in 1 .. i - 1 : a[j] = b[j]

AtMost(a, b) == Less(a, b) \/ a = b

\* Mutant: the carry stays in the last word.
NoCarry(num) == [num EXCEPT ![Len(num)] = (@ + 1) % (Highest + 1)]

\* ++: the words from the end that are the highest become zero.
Increment(num) ==
  LET kept == {i \in 1..Len(num) : num[i] # Highest}
      last == IF kept = {} THEN 0 ELSE CHOOSE i \in kept : \A j \in kept : j <= i
  IN  (IF last = 0 THEN <<1>> ELSE <<>>)
        \o [i \in 1..Len(num) |->
              IF i > last THEN 0 ELSE IF i = last THEN num[i] + 1 ELSE num[i]]

\* One less: the zeros at the end become the highest word.
Borrow(num) ==
  LET some == {i \in 1..Len(num) : num[i] # 0}
      last == IF some = {} THEN 0 ELSE CHOOSE i \in some : \A j \in some : j <= i
  IN  [i \in 1..Len(num) |->
         IF i > last THEN Highest ELSE IF i = last THEN num[i] - 1 ELSE num[i]]

\* --: a first word that became zero goes, even the only one.
Decrement(num) ==
  IF Borrow(num)[1] = 0 /\ num[1] # 0 THEN Tail(Borrow(num)) ELSE Borrow(num)

\* One word of the right operand is added `offset' words from the end.
AddWord(st, word, offset) ==
  LET tmp == (word + st.carry) % (Highest + 1)
      over == IF st.carry > Highest - word THEN 1 ELSE 0
      at == Len(st.num) - offset
  IN  [num |-> IF at < 1 THEN <<tmp>> \o st.num
               ELSE [st.num EXCEPT ![at] = (@ + tmp) % (Highest + 1)],
       carry |-> IF at >= 1 /\ tmp > Highest - st.num[at] THEN 1 ELSE over]

\* +=: word by word from the end of the right operand; a carry beyond its
\* length goes in front of the number, however long that is.
Plus(lhs, rhs) ==
  LET added[k \in 0..Len(rhs)] ==
        IF k = 0 THEN [num |-> lhs, carry |-> 0]
        ELSE AddWord(added[k - 1], rhs[Len(rhs) - k + 1], k - 1)
      sum == added[Len(rhs)]
  IN  IF sum.carry > 0 THEN <<sum.carry>> \o sum.num ELSE sum.num

\* One word is taken away; the first word to borrow gets one too few.
TakeWord(st, word, offset) ==
  LET at == Len(st.num) - offset
      own == st.num[at]
  IN  IF word > own \/ (st.carry = 1 /\ word = own)
      THEN [num |-> [st.num EXCEPT ![at] = Highest - (word - own)], carry |-> 1]
      ELSE [num |-> [st.num EXCEPT ![at] = own - word - st.carry], carry |-> 0]

\* -=: nothing below zero; word by word from the end of the right operand, then
\* the carry, then the leading zeros.  If nothing is left, the search for the
\* leading zeros has no end.
Minus(lhs, rhs) ==
  LET takes[k \in 0..Len(rhs)] ==
        IF k = 0 THEN [num |-> lhs, carry |-> 0]
        ELSE TakeWord(takes[k - 1], rhs[Len(rhs) - k + 1], k - 1)
      taken == takes[Len(rhs)]
      high == SubSeq(taken.num, 1, Len(lhs) - Len(rhs))
      all == IF taken.carry = 0 \/ high = <<>> THEN taken.num
             ELSE Borrow(high) \o SubSeq(taken.num, Len(high) + 1, Len(lhs))
  IN  IF AtMost(lhs, rhs) THEN <<0>>
      ELSE SubSeq(all, SelectInSeq(all, LAMBDA w : w # 0), Len(all))

(***************************************************************************)
(* Reading and writing.  Text is read as full words from the end and one   *)
(* shorter word in front; when nothing is left for that one, and when it   *)
(* has no digit to begin with, the code throws.                            *)
(***************************************************************************)
NumberOf(text, radix) ==
  LET read[i \in 0..Len(text)] ==
        IF i = 0 THEN 0 ELSE read[i - 1] * radix + DigitOf(text[i])
  IN  read[Len(text)]

\* from_chars reads the digits a word begins with.
Readable(text) == text # <<>> /\ text[1] \in Digits
Leading(text) == SelectInSeq(text, LAMBDA d : d \notin Digits)
Scanned(text) ==
  NumberOf(IF Leading(text) = 0 THEN text ELSE SubSeq(text, 1, Leading(text) - 1), Radix)

Partition(text) ==
  LET short == Len(text) % Width
  IN  [i \in 1 .. Len(text) \div Width + 1 |->
         IF i = 1 THEN SubSeq(text, 1, short)
         ELSE SubSeq(text, short + (i - 2) * Width + 1, short + (i - 1) * Width)]

HexFails(text) == \E i \in DOMAIN Partition(text) : ~ Readable(Partition(text)[i])
Hex(text) == [i \in DOMAIN Partition(text) |-> Scanned(Partition(text)[i])]

\* Digit by digit: nine (Decimal - 1) additions of the number to itself.
Times(num) ==
  LET sum[k \in 1..Decimal] == IF k = 1 THEN num ELSE Plus(sum[k - 1], num)
  IN  sum[Decimal]
Dec(text) ==
  LET read[i \in 0..Len(text)] ==
        IF i = 0 THEN <<0>> ELSE Plus(Times(read[i - 1]), <<DigitOf(text[i])>>)
  IN  read[Len(text)]

\* The first word without leading zeros, the others with all their digits.
WordText(word, len) ==
  [i \in 1..len |-> Numeral[((word \div Power[len - i]) % Radix) + 1]]
Places(word) ==
  CHOOSE n \in 1..Width : word < Power[n] /\ (n = 1 \/ word >= Power[n - 1])
Text(num) ==
  WordText(num[1], Places(num[1]))
    \o FlattenSeq([i \in 1 .. Len(num) - 1 |-> WordText(num[i + 1], Width)])

(***************************************************************************)
(* What is right about it, for numbers without leading zeros.              *)
(***************************************************************************)
Canonical(num) == Len(num) = 1 \/ num[1] # 0
Numbers(len) == {num \in UNION {[1..n -> Word] : n \in 1..len} : Canonical(num)}
Decimals(len) ==
  UNION {[1..n -> {Numeral[i] : i \in 1..Decimal}] : n \in 1..len}

\* A word of b is greater than the one of a it is taken from.
Short(a, b) == \E i \in 1..Len(b) : b[i] > a[Len(a) - Len(b) + i]

\* ++ and -- count, < orders, and what is written is read back, unless a full
\* word begins the text.  += adds when no carry leaves the right operand's words
\* inside a longer number, so numerals are right up to one word.  -= subtracts,
\* one too many when its word borrows, as http-requests-tests.cpp:219 expects.
Counts(len) ==
  /\ \A a \in Numbers(len) :
       /\ Value(Increment(a)) = Value(a) + 1
       /\ a # <<0>> => Value(Decrement(a)) = Value(a) - 1
       /\ IF Len(Text(a)) % Width = 0 THEN HexFails(Text(a))
          ELSE ~ HexFails(Text(a)) /\ Hex(Text(a)) = a
  /\ \A a, b \in Numbers(len) :
       /\ Less(a, b) <=> Value(a) < Value(b)
       /\ Len(a) <= Len(b) \/ Last(a) + Value(b) <= Highest
            => Value(Plus(a, b)) = Value(a) + Value(b)
       /\ AtMost(a, b) => Minus(a, b) = <<0>>
       /\ Less(b, a) /\ ~ Short(a, b) =>
            Value(Minus(a, b)) = Value(a) - Value(b)
       /\ Value(b) + 1 < Value(a) /\ Len(b) = 1 /\ Short(a, b) =>
            Value(Minus(a, b)) = Value(a) - Value(b) - 1
  /\ \A d \in Decimals(Width + 1) :
       NumberOf(d, Decimal) <= Highest => Dec(d) = <<NumberOf(d, Decimal)>>

=============================================================================
