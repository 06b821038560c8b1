----------------------- MODULE SkipWindowBitmapProofs -----------------------
(***************************************************************************)
(* The bitmap of the skip-window, for every word size, number of words and *)
(* counter range: through any number of shifts it records exactly which    *)
(* counters were accepted, it computes the operators of SkipWindow, and it *)
(* implements AcceptOnce.                                                  *)
(***************************************************************************)
EXTENDS SkipWindowBitmap, WellFoundedInduction, TLAPS

-----------------------------------------------------------------------------
(* The place of an offset: a word, and a bit in it.                         *)

LEMMA Sizes ==
    /\ WordBits \in Nat \ {0} /\ Words \in Nat \ {0}
    /\ SkipWindowSize \in Nat \ {0}
    /\ SkipWindowSize = WordBits * Words
    /\ MaxCounter \in Nat /\ SkipWindowSize <= MaxCounter
BY SkipWindowAssumption, BitmapAssumption

LEMMA DivisionFacts ==
    ASSUME NEW a \in Nat, NEW k \in Nat \ {0}
    PROVE  a \div k \in Nat /\ a % k \in 0 .. k - 1 /\ a = k * (a \div k) + (a % k)
OBVIOUS

LEMMA PlaceOfPair ==
    ASSUME NEW i \in Nat, NEW b \in 0 .. WordBits - 1
    PROVE  /\ (WordBits * i + b) \div WordBits = i
           /\ (WordBits * i + b) % WordBits = b
           /\ WordBits * i + b < SkipWindowSize <=> i < Words
<1>1. (WordBits * i + b) \div WordBits = i /\ (WordBits * i + b) % WordBits = b
    BY Sizes
<1>2. WordBits * i + b < WordBits * Words <=> i < Words
    BY Sizes
<1>. QED BY <1>1, <1>2, Sizes

LEMMA Place ==
    ASSUME NEW o \in Nat
    PROVE  /\ o \div WordBits \in Nat
           /\ o % WordBits \in 0 .. WordBits - 1
           /\ o = WordBits * (o \div WordBits) + (o % WordBits)
           /\ o < SkipWindowSize <=> o \div WordBits < Words
<1>. DEFINE q == o \div WordBits
            r == o % WordBits
<1>1. WordBits \in Nat \ {0}
    BY Sizes
<1>2. q \in Nat /\ r \in 0 .. WordBits - 1 /\ o = WordBits * q + r
    BY <1>1, DivisionFacts
<1>. HIDE DEF q, r
<1>3. WordBits * q + r < SkipWindowSize <=> q < Words
    BY <1>2, PlaceOfPair
<1>. QED BY <1>2, <1>3, Zenon DEF q, r

Bitmap == [0 .. Words - 1 -> Word]

\* A bit of a word is the bit of the offset it stands for.
LEMMA BitOfPair ==
    ASSUME NEW bm, NEW i \in 0 .. Words - 1, NEW b \in 0 .. WordBits - 1
    PROVE  BitSet(bm, WordBits * i + b) <=> b \in bm[i]
BY PlaceOfPair, Sizes DEF BitSet

LEMMA SetBitFacts ==
    ASSUME NEW bm \in Bitmap, NEW o \in 0 .. SkipWindowSize - 1
    PROVE  /\ SetBit(bm, o) \in Bitmap
           /\ \A x \in 0 .. SkipWindowSize - 1 :
                  BitSet(SetBit(bm, o), x) <=> x = o \/ BitSet(bm, x)
<1>1. o \in Nat /\ o < SkipWindowSize
    BY Sizes
<1>2. o \div WordBits \in 0 .. Words - 1 /\ o % WordBits \in 0 .. WordBits - 1
    BY <1>1, Place, Sizes
<1>3. SetBit(bm, o) \in Bitmap
    BY <1>2 DEF SetBit, Bitmap, Word
<1>4. ASSUME NEW x \in 0 .. SkipWindowSize - 1
      PROVE  BitSet(SetBit(bm, o), x) <=> x = o \/ BitSet(bm, x)
  <2>1. x \in Nat /\ x < SkipWindowSize
      BY Sizes
  <2>2. x \div WordBits \in 0 .. Words - 1 /\ x % WordBits \in 0 .. WordBits - 1
      BY <2>1, Place, Sizes
  <2>3. x \div WordBits = o \div WordBits /\ x % WordBits = o % WordBits => x = o
    <3>1. /\ x = WordBits * (x \div WordBits) + (x % WordBits)
          /\ o = WordBits * (o \div WordBits) + (o % WordBits)
        BY <1>1, <2>1, Place
    <3>. QED BY <3>1, Zenon
  <2>. QED BY <1>2, <2>2, <2>3 DEF SetBit, BitSet, Bitmap
<1>. QED BY <1>3, <1>4

-----------------------------------------------------------------------------
(* Shifts *)

\* The two halves of a shift that crosses words.
LEMMA ShiftFacts ==
    ASSUME NEW v \in Word, NEW n \in 1 .. WordBits - 1, NEW b \in 0 .. WordBits - 1
    PROVE  /\ ShiftRight(v, n) \in Word /\ ShiftLeft(v, WordBits - n) \in Word
           /\ b \in ShiftRight(v, n) <=> b + n \in v
           /\ b \in ShiftLeft(v, WordBits - n) <=> b + n - WordBits \in v
<1>1. \A x \in v : x \in 0 .. WordBits - 1
    BY DEF Word
<1>2. (WordBits - n) % WordBits = WordBits - n
    BY Sizes
<1>3. ShiftRight(v, n) \in Word
    BY <1>1, Sizes DEF ShiftRight, Word
<1>4. ShiftLeft(v, WordBits - n) = {x + (WordBits - n) : x \in {y \in v : y < n}}
    BY <1>1, <1>2, Sizes DEF ShiftLeft
<1>5. ShiftLeft(v, WordBits - n) \in Word
    BY <1>1, <1>4, Sizes DEF Word
<1>6. b \in ShiftRight(v, n) <=> b + n \in v
  <2>1. ASSUME b \in ShiftRight(v, n) PROVE b + n \in v
    <3>1. PICK x \in v : x >= n /\ b = x - n
        BY <2>1 DEF ShiftRight
    <3>2. b + n = x
        BY <1>1, <3>1, Sizes
    <3>. QED BY <3>2
  <2>2. ASSUME b + n \in v PROVE b \in ShiftRight(v, n)
    <3>1. b = (b + n) - n /\ b + n >= n
        BY Sizes
    <3>. QED BY <2>2, <3>1 DEF ShiftRight
  <2>. QED BY <2>1, <2>2
<1>7. b \in ShiftLeft(v, WordBits - n) <=> b + n - WordBits \in v
  <2>1. ASSUME b \in ShiftLeft(v, WordBits - n) PROVE b + n - WordBits \in v
    <3>1. PICK x \in v : x < n /\ b = x + (WordBits - n)
        BY <1>4, <2>1
    <3>2. b + n - WordBits = x
        BY <1>1, <3>1, Sizes
    <3>. QED BY <3>2
  <2>2. ASSUME b + n - WordBits \in v PROVE b \in ShiftLeft(v, WordBits - n)
    <3>1. b = (b + n - WordBits) + (WordBits - n) /\ b + n - WordBits < n
        BY Sizes
    <3>. QED BY <1>4, <2>2, <3>1
  <2>. QED BY <2>1, <2>2
<1>. QED BY <1>3, <1>5, <1>6, <1>7

\* A word of the bitmap, or none beyond its end.
WordAt(bm, i) == IF i < Words THEN bm[i] ELSE {}

LEMMA WordAtType ==
    ASSUME NEW bm \in Bitmap, NEW i \in Nat
    PROVE  WordAt(bm, i) \in Word
BY Sizes DEF WordAt, Bitmap, Word

\* The bit at the offset of word i and bit b, or none beyond the window.
LEMMA WordAtBit ==
    ASSUME NEW bm \in Bitmap, NEW i \in Nat, NEW b \in 0 .. WordBits - 1
    PROVE  b \in WordAt(bm, i) <=>
              WordBits * i + b < SkipWindowSize /\ BitSet(bm, WordBits * i + b)
<1>1. WordBits * i + b < SkipWindowSize <=> i < Words
    BY PlaceOfPair
<1>2. CASE i < Words
  <2>1. i \in 0 .. Words - 1
      BY <1>2, Sizes
  <2>. QED BY <1>1, <1>2, <2>1, BitOfPair DEF WordAt
<1>3. CASE ~(i < Words)
    BY <1>1, <1>3 DEF WordAt
<1>. QED BY <1>2, <1>3

\* What slide_bitmap leaves in one word.
LEMMA SlidWord ==
    ASSUME NEW bm \in Bitmap, NEW shift \in 0 .. SkipWindowSize - 1, NEW i \in 0 .. Words - 1
    PROVE  LET skip == shift \div WordBits
               n    == shift % WordBits
           IN  SlideBitmap(bm, shift)[i] =
                 IF n = 0 THEN WordAt(bm, i + skip)
                 ELSE ShiftRight(WordAt(bm, i + skip), n)
                          \cup ShiftLeft(WordAt(bm, i + skip + 1), WordBits - n)
<1>. DEFINE n == shift % WordBits
<1>1. shift < SkipWindowSize /\ ~(shift >= SkipWindowSize)
    BY Sizes
<1>2. CASE n = 0
    BY <1>1, <1>2 DEF SlideBitmap, WordAt
<1>3. CASE n # 0
    BY <1>1, <1>3 DEF SlideBitmap, WordAt
<1>. QED BY <1>2, <1>3

LEMMA SlideType ==
    ASSUME NEW bm \in Bitmap, NEW shift \in 0 .. SkipWindowSize
    PROVE  SlideBitmap(bm, shift) \in Bitmap
<1>1. CASE shift = SkipWindowSize
  <2>1. SlideBitmap(bm, shift) = NoBits
      BY <1>1, Sizes DEF SlideBitmap
  <2>. QED BY <2>1 DEF NoBits, Bitmap, Word
<1>2. CASE shift \in 0 .. SkipWindowSize - 1
  <2>. DEFINE skip == shift \div WordBits
              n    == shift % WordBits
  <2>1. skip \in Nat /\ n \in 0 .. WordBits - 1
    <3>1. shift \in Nat
        BY <1>2, Sizes
    <3>. QED BY <3>1, Place
  <2>2. ASSUME NEW i \in 0 .. Words - 1 PROVE SlideBitmap(bm, shift)[i] \in Word
    <3>1. /\ i + skip \in Nat /\ i + skip + 1 \in Nat
          /\ WordAt(bm, i + skip) \in Word /\ WordAt(bm, i + skip + 1) \in Word
        BY <2>1, WordAtType, Sizes
    <3>2. CASE n = 0
        BY <1>2, <3>1, <3>2, SlidWord
    <3>3. CASE n # 0
      <4>1. n \in 1 .. WordBits - 1 /\ 0 \in 0 .. WordBits - 1
          BY <2>1, <3>3, Sizes
      <4>2. /\ ShiftRight(WordAt(bm, i + skip), n) \in Word
            /\ ShiftLeft(WordAt(bm, i + skip + 1), WordBits - n) \in Word
          BY <3>1, <4>1, ShiftFacts
      <4>3. SlideBitmap(bm, shift)[i] =
                ShiftRight(WordAt(bm, i + skip), n)
                    \cup ShiftLeft(WordAt(bm, i + skip + 1), WordBits - n)
          BY <1>2, <3>3, SlidWord
      <4>. HIDE DEF n, skip
      <4>. QED BY <4>2, <4>3 DEF Word
    <3>. QED BY <3>2, <3>3
  <2>. HIDE DEF skip, n
  <2>3. SlideBitmap(bm, shift) = [i \in 0 .. Words - 1 |-> SlideBitmap(bm, shift)[i]]
    <3>1. shift < SkipWindowSize /\ ~(shift >= SkipWindowSize)
        BY <1>2, Sizes
    <3>2. CASE shift % WordBits = 0
        BY <3>1, <3>2 DEF SlideBitmap
    <3>3. CASE shift % WordBits # 0
        BY <3>1, <3>3 DEF SlideBitmap
    <3>. QED BY <3>2, <3>3
  <2>. QED BY <2>2, <2>3 DEF Bitmap
<1>. QED BY <1>1, <1>2, Sizes

\* slide_bitmap moves every mark down by the shift, across words as within
\* them, and brings none in.
LEMMA SlideFacts ==
    ASSUME NEW bm \in Bitmap, NEW shift \in 0 .. SkipWindowSize,
           NEW o \in 0 .. SkipWindowSize - 1
    PROVE  BitSet(SlideBitmap(bm, shift), o) <=>
              o + shift < SkipWindowSize /\ BitSet(bm, o + shift)
<1>. DEFINE i == o \div WordBits
            b == o % WordBits
            skip == shift \div WordBits
            n == shift % WordBits
            new == SlideBitmap(bm, shift)
<1>1. o \in Nat /\ shift \in Nat /\ o < SkipWindowSize
    BY Sizes
<1>2. /\ i \in 0 .. Words - 1 /\ b \in 0 .. WordBits - 1
      /\ o = WordBits * i + b
    BY <1>1, Place, Sizes
<1>3. /\ skip \in Nat /\ n \in 0 .. WordBits - 1
      /\ shift = WordBits * skip + n
    BY <1>1, Place
<1>4. BitSet(new, o) <=> b \in new[i]
    BY DEF BitSet
<1>5. CASE shift = SkipWindowSize
  <2>1. new = NoBits
      BY <1>5, Sizes DEF SlideBitmap
  <2>2. new[i] = {}
      BY <1>2, <2>1 DEF NoBits
  <2>. QED BY <1>1, <1>4, <1>5, <2>2, Sizes
<1>6. CASE shift \in 0 .. SkipWindowSize - 1
  <2>1. new[i] = IF n = 0 THEN WordAt(bm, i + skip)
                 ELSE ShiftRight(WordAt(bm, i + skip), n)
                          \cup ShiftLeft(WordAt(bm, i + skip + 1), WordBits - n)
      BY <1>2, <1>6, SlidWord
  <2>. HIDE DEF i, b, skip, n, new
  <2>2. i + skip \in Nat /\ i + skip + 1 \in Nat
      BY <1>2, <1>3, Sizes
  <2>3. /\ o + shift = WordBits * (i + skip) + (b + n)
        /\ o + shift = WordBits * (i + skip + 1) + (b + n - WordBits)
    <3>1. WordBits \in Nat /\ i \in Nat /\ skip \in Nat /\ b \in Nat /\ n \in Nat
        BY <1>2, <1>3, Sizes
    <3>2. /\ WordBits * (i + skip) = WordBits * i + WordBits * skip
          /\ WordBits * (i + skip + 1) = WordBits * i + WordBits * skip + WordBits
        BY <3>1
    <3>. QED BY <1>2, <1>3, <3>1, <3>2
  <2>4. CASE b + n < WordBits
    <3>1. b + n \in 0 .. WordBits - 1 /\ b + n - WordBits \notin 0 .. WordBits - 1
        BY <1>2, <1>3, <2>4, Sizes
    <3>2. b + n \in WordAt(bm, i + skip) <=>
              o + shift < SkipWindowSize /\ BitSet(bm, o + shift)
        BY <2>2, <2>3, <3>1, WordAtBit
    <3>3. b \in new[i] <=> b + n \in WordAt(bm, i + skip)
      <4>1. CASE n = 0
          BY <1>2, <2>1, <4>1, Sizes
      <4>2. CASE n # 0
        <5>1. n \in 1 .. WordBits - 1
            BY <1>3, <4>2, Sizes
        <5>2. /\ b \in ShiftRight(WordAt(bm, i + skip), n) <=> b + n \in WordAt(bm, i + skip)
              /\ b \in ShiftLeft(WordAt(bm, i + skip + 1), WordBits - n) <=>
                    b + n - WordBits \in WordAt(bm, i + skip + 1)
            BY <1>2, <2>2, <5>1, WordAtType, ShiftFacts
        <5>3. b + n - WordBits \notin WordAt(bm, i + skip + 1)
            BY <2>2, <3>1, WordAtType DEF Word
        <5>. QED BY <2>1, <4>2, <5>2, <5>3
      <4>. QED BY <4>1, <4>2
    <3>. QED BY <1>4, <3>2, <3>3 DEF new
  <2>5. CASE b + n >= WordBits
    <3>1. /\ b + n \notin 0 .. WordBits - 1 /\ b + n - WordBits \in 0 .. WordBits - 1
          /\ n \in 1 .. WordBits - 1
        BY <1>2, <1>3, <2>5, Sizes
    <3>2. b + n - WordBits \in WordAt(bm, i + skip + 1) <=>
              o + shift < SkipWindowSize /\ BitSet(bm, o + shift)
        BY <2>2, <2>3, <3>1, WordAtBit
    <3>3. /\ b \in ShiftRight(WordAt(bm, i + skip), n) <=> b + n \in WordAt(bm, i + skip)
          /\ b \in ShiftLeft(WordAt(bm, i + skip + 1), WordBits - n) <=>
                b + n - WordBits \in WordAt(bm, i + skip + 1)
        BY <1>2, <2>2, <3>1, WordAtType, ShiftFacts
    <3>4. b + n \notin WordAt(bm, i + skip)
        BY <2>2, <3>1, WordAtType DEF Word
    <3>5. n # 0
        BY <3>1
    <3>6. b \in new[i] <=> b + n - WordBits \in WordAt(bm, i + skip + 1)
        BY <2>1, <3>3, <3>4, <3>5
    <3>. QED BY <1>4, <3>2, <3>6 DEF new
  <2>. QED BY <1>2, <1>3, <2>4, <2>5, Sizes
<1>. QED BY <1>5, <1>6, Sizes

-----------------------------------------------------------------------------
(* The run of marks at the front of the window *)

\* A set of naturals that is not empty has a least element.
LEMMA LeastElement ==
    ASSUME NEW T \in SUBSET Nat, T # {}
    PROVE  \E x \in T : \A y \in T : x <= y
<1>1. PICK x \in T : \A y \in T : ~ (<<y, x>> \in OpToRel(<, Nat))
    BY NatLessThanWellFounded, WFMin, Zenon
<1>2. ASSUME NEW y \in T PROVE x <= y
  <2>1. ~ (y < x)
      BY <1>1, y \in Nat, x \in Nat, Zenon DEF OpToRel
  <2>. QED BY <2>1
<1>. QED BY <1>2

LEMMA AdvanceCountFacts ==
    ASSUME NEW bm
    PROVE  LET n == AdvanceCount(bm)
           IN  /\ n \in 0 .. SkipWindowSize
               /\ n = SkipWindowSize \/ ~BitSet(bm, n)
               /\ \A o \in 0 .. n - 1 : BitSet(bm, o)
<1>. DEFINE Stop == {n \in 0 .. SkipWindowSize : n = SkipWindowSize \/ ~BitSet(bm, n)}
<1>1. Stop \in SUBSET Nat /\ SkipWindowSize \in Stop
    BY Sizes
<1>2. PICK x \in Stop : \A y \in Stop : x <= y
    BY <1>1, LeastElement, Zenon
<1>3. ASSUME NEW o \in 0 .. x - 1 PROVE BitSet(bm, o)
  <2>1. o \in 0 .. SkipWindowSize /\ o < x /\ o # SkipWindowSize
      BY <1>1, <1>2, Sizes
  <2>. QED BY <1>2, <2>1, Sizes
<1>4. \E n \in 0 .. SkipWindowSize :
          /\ n = SkipWindowSize \/ ~BitSet(bm, n)
          /\ \A o \in 0 .. n - 1 : BitSet(bm, o)
    BY <1>2, <1>3
<1>. QED BY <1>4 DEF AdvanceCount

-----------------------------------------------------------------------------
(* The invariant *)

\* Nothing was accepted a whole window ahead or further.
NothingBeyond == \A c \in Accepted : c < recvExpected + SkipWindowSize

\* The window never moves back beyond its start.
StartBehind == start <= recvExpected

IInv == TypeOK /\ BitmapIsHistory /\ NothingBeyond /\ StartBehind

LEMMA CounterFacts ==
    /\ MaxCounter \in Nat
    /\ \A c \in Counter : c \in Nat /\ c <= MaxCounter
    /\ \A c \in Nat : c <= MaxCounter => c \in Counter
BY Sizes DEF Counter

\* A counter passes exactly inside a window that does not wrap, unmarked.
LEMMA VerdictFacts ==
    ASSUME TypeOK, NEW c \in Counter
    PROVE  Verdict(c) = "Ok" <=>
              /\ recvExpected + SkipWindowSize <= MaxCounter
              /\ recvExpected <= c /\ c < recvExpected + SkipWindowSize
              /\ ~BitSet(bits, c - recvExpected)
<1>1. recvExpected \in Nat /\ recvExpected <= MaxCounter /\ c \in Nat /\ c <= MaxCounter
    BY CounterFacts DEF TypeOK
<1>2. Edge \in Int
      /\ (recvExpected <= c => (c < Edge <=>
            /\ recvExpected + SkipWindowSize <= MaxCounter
            /\ c < recvExpected + SkipWindowSize))
    BY <1>1, Sizes DEF Edge, Wrap64
<1>3. CASE c < recvExpected
  <2>1. Verdict(c) = "ReplayDetected"
      BY <1>1, <1>2, <1>3 DEF Verdict
  <2>. QED BY <1>1, <1>3, <2>1
<1>4. CASE c >= recvExpected /\ c < Edge
  <2>1. Verdict(c) = IF BitSet(bits, c - recvExpected) THEN "ReplayDetected" ELSE "Ok"
      BY <1>1, <1>2, <1>4 DEF Verdict
  <2>. QED BY <1>1, <1>2, <1>4, <2>1
<1>5. CASE c >= recvExpected /\ c >= Edge
  <2>1. Verdict(c) = "SkipWindowOverflow"
      BY <1>1, <1>2, <1>5 DEF Verdict
  <2>. QED BY <1>1, <1>2, <1>5, <2>1
<1>. QED BY <1>1, <1>2, <1>3, <1>4, <1>5

\* What Consume does, with the bitmap before the slide named.
LEMMA ConsumeFacts ==
    ASSUME IInv, NEW c \in Counter, Consume(c)
    PROVE  LET marked == SetBit(bits, c - recvExpected)
               count  == IF c = recvExpected THEN AdvanceCount(marked) ELSE 0
           IN  /\ recvExpected + SkipWindowSize <= MaxCounter
               /\ c - recvExpected \in 0 .. SkipWindowSize - 1
               /\ marked \in Bitmap
               /\ count \in 0 .. SkipWindowSize
               /\ recvExpected' = recvExpected + count
               /\ bits' \in Bitmap
               /\ start' = start
               /\ \A o \in 0 .. SkipWindowSize - 1 :
                     /\ BitSet(marked, o) <=> o = c - recvExpected \/ BitSet(bits, o)
                     /\ BitSet(bits', o) <=>
                           o + count < SkipWindowSize /\ BitSet(marked, o + count)
               /\ count = SkipWindowSize \/ ~BitSet(marked, count) \/ c # recvExpected
               /\ \A o \in 0 .. count - 1 : BitSet(marked, o)
               /\ accepted' \in [Counter -> Nat]
               /\ Accepted' = Accepted \cup {c}
               /\ c \notin Accepted
<1>. DEFINE marked == SetBit(bits, c - recvExpected)
            count  == IF c = recvExpected THEN AdvanceCount(marked) ELSE 0
<1>1. TypeOK /\ BitmapIsHistory /\ Verdict(c) = "Ok"
    BY DEF IInv, Consume
<1>2. recvExpected \in Nat /\ c \in Nat
    BY <1>1, CounterFacts DEF TypeOK
<1>3. /\ recvExpected + SkipWindowSize <= MaxCounter
      /\ recvExpected <= c /\ c < recvExpected + SkipWindowSize
      /\ ~BitSet(bits, c - recvExpected)
    BY <1>1, VerdictFacts
<1>4. c - recvExpected \in 0 .. SkipWindowSize - 1
    BY <1>2, <1>3, Sizes
<1>5. bits \in Bitmap
    BY <1>1 DEF TypeOK, Bitmap
<1>6. /\ marked \in Bitmap
      /\ \A o \in 0 .. SkipWindowSize - 1 :
            BitSet(marked, o) <=> o = c - recvExpected \/ BitSet(bits, o)
    BY <1>4, <1>5, SetBitFacts
<1>7. c \notin Accepted
  <2>1. recvExpected + (c - recvExpected) = c
      BY <1>2
  <2>. QED BY <1>1, <1>3, <1>4, <2>1 DEF BitmapIsHistory
<1>8. /\ start' = start
      /\ accepted' = [accepted EXCEPT ![c] = @ + 1]
    BY DEF Consume
<1>9. accepted' \in [Counter -> Nat] /\ Accepted' = Accepted \cup {c}
  <2>1. /\ accepted \in [Counter -> Nat]
        /\ accepted' \in [Counter -> Nat]
        /\ accepted'[c] > 0
        /\ \A x \in Counter : x # c => accepted'[x] = accepted[x]
      BY <1>1, <1>8 DEF TypeOK
  <2>. QED BY <2>1 DEF Accepted
<1>10. CASE c = recvExpected
  <2>. DEFINE k == AdvanceCount(marked)
  <2>1. recvExpected' = recvExpected + k /\ bits' = SlideBitmap(marked, k)
      BY <1>10 DEF Consume
  <2>2. /\ k \in 0 .. SkipWindowSize
        /\ k = SkipWindowSize \/ ~BitSet(marked, k)
        /\ \A o \in 0 .. k - 1 : BitSet(marked, o)
      BY AdvanceCountFacts
  <2>3. count = k
      BY <1>10
  <2>. HIDE DEF marked, count, k
  <2>4. /\ bits' \in Bitmap
        /\ \A o \in 0 .. SkipWindowSize - 1 :
              BitSet(bits', o) <=> o + k < SkipWindowSize /\ BitSet(marked, o + k)
      BY <1>6, <2>1, <2>2, SlideType, SlideFacts
  <2>5. /\ recvExpected' = recvExpected + count /\ bits' \in Bitmap
        /\ count \in 0 .. SkipWindowSize
        /\ count = SkipWindowSize \/ ~BitSet(marked, count) \/ c # recvExpected
        /\ \A o \in 0 .. count - 1 : BitSet(marked, o)
        /\ \A o \in 0 .. SkipWindowSize - 1 :
              BitSet(bits', o) <=> o + count < SkipWindowSize /\ BitSet(marked, o + count)
      BY <2>1, <2>2, <2>3, <2>4
  <2>. QED BY <1>3, <1>4, <1>6, <1>7, <1>8, <1>9, <2>5 DEF marked, count
<1>11. CASE c # recvExpected
  <2>1. recvExpected' = recvExpected /\ bits' = marked /\ count = 0
      BY <1>11 DEF Consume
  <2>. HIDE DEF marked, count
  <2>2. /\ recvExpected' = recvExpected + count /\ bits' \in Bitmap
        /\ count \in 0 .. SkipWindowSize
        /\ \A o \in 0 .. count - 1 : BitSet(marked, o)
        /\ \A o \in 0 .. SkipWindowSize - 1 :
              BitSet(bits', o) <=> o + count < SkipWindowSize /\ BitSet(marked, o + count)
    <3>1. \A o \in 0 .. SkipWindowSize - 1 : o + 0 = o /\ o < SkipWindowSize
        BY Sizes
    <3>2. 0 \in 0 .. SkipWindowSize /\ recvExpected + 0 = recvExpected /\ 0 .. 0 - 1 = {}
        BY <1>2, Sizes
    <3>. QED BY <1>6, <2>1, <3>1, <3>2
  <2>. QED BY <1>3, <1>4, <1>6, <1>7, <1>8, <1>9, <1>11, <2>2 DEF marked, count
<1>. QED BY <1>10, <1>11

LEMMA ConsumeStep == ASSUME IInv, NEW c \in Counter, Consume(c) PROVE IInv'
<1>. DEFINE marked == SetBit(bits, c - recvExpected)
            count  == IF c = recvExpected THEN AdvanceCount(marked) ELSE 0
            r      == recvExpected
            W      == SkipWindowSize
<1>1. /\ r + W <= MaxCounter
      /\ c - r \in 0 .. W - 1
      /\ count \in 0 .. W
      /\ recvExpected' = r + count
      /\ bits' \in Bitmap
      /\ start' = start
      /\ \A o \in 0 .. W - 1 :
            /\ BitSet(marked, o) <=> o = c - r \/ BitSet(bits, o)
            /\ BitSet(bits', o) <=> o + count < W /\ BitSet(marked, o + count)
      /\ count = W \/ ~BitSet(marked, count) \/ c # r
      /\ \A o \in 0 .. count - 1 : BitSet(marked, o)
      /\ accepted' \in [Counter -> Nat]
      /\ Accepted' = Accepted \cup {c}
    BY ConsumeFacts
<1>2. /\ TypeOK /\ BitmapIsHistory /\ NothingBeyond
      /\ r \in Nat /\ c \in Nat /\ W \in Nat \ {0}
      /\ start \in Nat /\ start <= r
    BY CounterFacts, Sizes, BitmapAssumption DEF IInv, TypeOK, StartBehind
<1>3. c # r => count = 0
    OBVIOUS
<1>. HIDE DEF marked, count
<1>4. count \in Nat /\ count <= W /\ r + count \in Nat
    BY <1>1, <1>2
<1>5. Accepted \subseteq Nat
    BY <1>2, CounterFacts DEF Accepted
\* The bits before the slide are the history with c in it.
<1>6. ASSUME NEW o \in 0 .. W - 1
      PROVE  BitSet(marked, o) <=> r + o \in Accepted'
  <2>1. o = c - r <=> r + o = c
      BY <1>2
  <2>. QED BY <1>1, <1>2, <2>1 DEF BitmapIsHistory
<1>7. ASSUME NEW x \in Accepted' PROVE x \in Nat /\ x < r + W
    BY <1>1, <1>2, <1>5 DEF NothingBeyond
<1>8. TypeOK'
  <2>1. r + count <= MaxCounter
      BY <1>1, <1>2, <1>4, Sizes
  <2>2. r + count \in Counter
      BY <1>4, <2>1, CounterFacts
  <2>. QED BY <1>1, <1>2, <2>2 DEF TypeOK, Bitmap
<1>9. NothingBeyond'
  <2>1. ASSUME NEW x \in Accepted' PROVE x < recvExpected' + W
      BY <1>1, <1>2, <1>4, <1>7
  <2>. QED BY <2>1 DEF NothingBeyond
<1>10. ASSUME NEW o \in 0 .. W - 1
       PROVE  BitSet(bits', o) <=> recvExpected' + o \in Accepted'
  <2>1. recvExpected' + o = r + (o + count)
      BY <1>1, <1>2, <1>4
  <2>2. CASE o + count < W
    <3>1. o + count \in 0 .. W - 1
        BY <1>2, <1>4, <2>2
    <3>. QED BY <1>1, <1>6, <2>1, <2>2, <3>1
  <2>3. CASE ~(o + count < W)
    <3>1. r + (o + count) \notin Accepted'
        BY <1>2, <1>4, <1>7, <2>3
    <3>. QED BY <1>1, <2>1, <2>3, <3>1
  <2>. QED BY <2>2, <2>3
<1>11. ASSUME NEW x \in start' .. recvExpected' - 1 PROVE x \in Accepted'
  <2>1. CASE x < r
    <3>1. x \in start .. r - 1
        BY <1>1, <1>2, <1>4, <2>1
    <3>. QED BY <1>1, <1>2, <3>1 DEF BitmapIsHistory
  <2>2. CASE ~(x < r)
    <3>1. x - r \in 0 .. count - 1 /\ x - r \in 0 .. W - 1 /\ r + (x - r) = x
        BY <1>1, <1>2, <1>4, <2>2
    <3>. QED BY <1>1, <1>6, <3>1
  <2>. QED BY <2>1, <2>2
<1>12. recvExpected' \notin Accepted'
  <2>1. CASE c # r
    <3>1. recvExpected' = r
        BY <1>1, <1>2, <1>3, <2>1
    <3>. QED BY <1>1, <1>2, <2>1, <3>1 DEF BitmapIsHistory
  <2>2. CASE c = r /\ count = W
      BY <1>1, <1>2, <1>7, <2>2
  <2>3. CASE c = r /\ count # W
    <3>1. count \in 0 .. W - 1 /\ ~BitSet(marked, count)
        BY <1>1, <1>2, <1>4, <2>3
    <3>. QED BY <1>1, <1>6, <3>1
  <2>. QED BY <2>1, <2>2, <2>3
<1>13. BitmapIsHistory'
    BY <1>10, <1>11, <1>12 DEF BitmapIsHistory
<1>14. StartBehind'
    BY <1>1, <1>2, <1>4 DEF StartBehind
<1>. QED BY <1>8, <1>9, <1>13, <1>14 DEF IInv

LEMMA InitIInv == Init => IInv
<1>. SUFFICES ASSUME Init PROVE IInv
    OBVIOUS
<1>1. TypeOK
  <2>1. NoBits \in [0 .. Words - 1 -> Word]
      BY DEF NoBits, Word
  <2>. QED BY <2>1, BitmapAssumption DEF Init, TypeOK
<1>2. Accepted = {}
    BY DEF Init, Accepted
<1>3. ASSUME NEW o \in 0 .. SkipWindowSize - 1 PROVE ~BitSet(bits, o)
  <2>1. o \in Nat /\ o < SkipWindowSize
      BY Sizes
  <2>2. o \div WordBits \in 0 .. Words - 1
      BY <2>1, Place, Sizes
  <2>. QED BY <2>2 DEF Init, NoBits, BitSet
<1>4. start \in Nat /\ recvExpected = start
    BY BitmapAssumption, CounterFacts DEF Init
<1>5. BitmapIsHistory
    BY <1>2, <1>3, <1>4 DEF BitmapIsHistory
<1>6. NothingBeyond
    BY <1>2 DEF NothingBeyond
<1>7. StartBehind
    BY <1>4 DEF StartBehind
<1>. QED BY <1>1, <1>5, <1>6, <1>7 DEF IInv

LEMMA NextIInv == IInv /\ [Next]_vars => IInv'
<1>. SUFFICES ASSUME IInv, [Next]_vars PROVE IInv'
    OBVIOUS
<1>1. CASE \E c \in Counter : Consume(c)
    BY <1>1, ConsumeStep
<1>2. CASE UNCHANGED vars
    BY <1>2 DEF vars, IInv, TypeOK, BitmapIsHistory, NothingBeyond, StartBehind, Accepted
<1>. QED BY <1>1, <1>2 DEF Next, Refuse

LEMMA Invariance == Spec => []IInv
<1>. QED BY InitIInv, NextIInv, PTL DEF Spec

\* recv_expected never leaves the u64 range and no shift produces a bit outside
\* its word, for every size of the words and of the window.
THEOREM BitmapTypes == Spec => []TypeOK
<1>1. IInv => TypeOK
    BY DEF IInv
<1>. QED BY <1>1, Invariance, PTL

\* Through any number of shifts by any distance a bit is set exactly for the
\* counters that were accepted, and the window stands on the first gap.
THEOREM BitmapRecordsHistory == Spec => []BitmapIsHistory
<1>1. IInv => BitmapIsHistory
    BY DEF IInv
<1>. QED BY <1>1, Invariance, PTL

\* The bitmap accepts the fresh counters of the window and no others.
THEOREM WindowIsExact == Spec => []AcceptsExactlyTheWindow
<1>1. IInv => AcceptsExactlyTheWindow
  <2>. SUFFICES ASSUME IInv, NEW c \in Counter
                PROVE  Verdict(c) = "Ok" <=>
                          /\ recvExpected + SkipWindowSize <= MaxCounter
                          /\ recvExpected <= c
                          /\ c < recvExpected + SkipWindowSize
                          /\ c \notin Accepted
      BY DEF AcceptsExactlyTheWindow
  <2>1. TypeOK /\ BitmapIsHistory
      BY DEF IInv
  <2>2. recvExpected \in Nat /\ c \in Nat
      BY <2>1, CounterFacts DEF TypeOK
  <2>3. ASSUME recvExpected <= c, c < recvExpected + SkipWindowSize
        PROVE  BitSet(bits, c - recvExpected) <=> c \in Accepted
    <3>1. c - recvExpected \in 0 .. SkipWindowSize - 1 /\ recvExpected + (c - recvExpected) = c
        BY <2>2, <2>3, Sizes
    <3>. QED BY <2>1, <3>1 DEF BitmapIsHistory
  <2>. QED BY <2>1, <2>3, VerdictFacts
<1>. QED BY <1>1, Invariance, PTL

-----------------------------------------------------------------------------
(* The operators of SkipWindow *)

\* The window the bitmap stands for holds what was accepted from recv_expected on.
Ahead == {x \in Accepted : recvExpected <= x}

LEMMA AsWindowFacts ==
    IInv => AsWindow = [recvExpected |-> recvExpected, consumed |-> Ahead]
<1>. SUFFICES ASSUME IInv
              PROVE  AsWindow = [recvExpected |-> recvExpected, consumed |-> Ahead]
    OBVIOUS
<1>. DEFINE Marks == {recvExpected + o : o \in {x \in 0 .. SkipWindowSize - 1 : BitSet(bits, x)}}
<1>1. TypeOK /\ BitmapIsHistory /\ NothingBeyond
    BY DEF IInv
<1>2. recvExpected \in Nat /\ Accepted \subseteq Nat
    BY <1>1, CounterFacts DEF TypeOK, Accepted
<1>3. ASSUME NEW x \in Marks PROVE x \in Ahead
  <2>1. PICK o \in 0 .. SkipWindowSize - 1 : BitSet(bits, o) /\ x = recvExpected + o
      OBVIOUS
  <2>2. recvExpected <= x
      BY <1>2, <2>1, Sizes
  <2>. QED BY <1>1, <2>1, <2>2 DEF BitmapIsHistory, Ahead
<1>4. ASSUME NEW x \in Ahead PROVE x \in Marks
  <2>1. x \in Accepted /\ recvExpected <= x /\ x < recvExpected + SkipWindowSize
      BY <1>1 DEF Ahead, NothingBeyond
  <2>2. x - recvExpected \in 0 .. SkipWindowSize - 1 /\ x = recvExpected + (x - recvExpected)
      BY <1>2, <2>1, Sizes
  <2>3. BitSet(bits, x - recvExpected)
      BY <1>1, <2>1, <2>2 DEF BitmapIsHistory
  <2>. QED BY <2>2, <2>3
<1>5. Marks = Ahead
    BY <1>3, <1>4
<1>. QED BY <1>5 DEF AsWindow

LEMMA AsWindowFactsNext ==
    IInv' => AsWindow' = [recvExpected |-> recvExpected', consumed |-> Ahead']
<1>1. IInv => AsWindow = [recvExpected |-> recvExpected, consumed |-> Ahead]
    BY AsWindowFacts
<1>2. (IInv => AsWindow = [recvExpected |-> recvExpected, consumed |-> Ahead])'
    BY <1>1, PTL
<1>. QED BY <1>2

LEMMA OneEnd ==
    ASSUME NEW a \in Int, NEW n \in Int, NEW S,
           NEW e \in a .. a + n, e \notin S, \A x \in a .. e - 1 : x \in S,
           NEW f \in a .. a + n, f = a + n \/ f \notin S, \A x \in a .. f - 1 : x \in S
    PROVE  f = e
<1>1. f < e => f \in a .. e - 1 /\ f # a + n
    OBVIOUS
<1>2. e < f => e \in a .. f - 1
    OBVIOUS
<1>3. ~(f < e) /\ ~(e < f)
    BY <1>1, <1>2
<1>. QED BY <1>3

LEMMA StretchFacts ==
    ASSUME NEW a \in Int, NEW b \in Int, NEW e \in Int, a <= b
    PROVE  \A x \in b .. e - 1 : x \in a .. e - 1 /\ b <= x
OBVIOUS

\* The loop of advance_window ends at the first gap of the history.
LEMMA ConsumeEndsOnGap ==
    ASSUME IInv, NEW c \in Counter, Consume(c)
    PROVE  /\ IInv'
           /\ Accepted' = Accepted \cup {c} /\ c \notin Accepted
           /\ recvExpected + SkipWindowSize <= MaxCounter
           /\ recvExpected <= c /\ c < recvExpected + SkipWindowSize
           /\ recvExpected' \in recvExpected .. recvExpected + SkipWindowSize
           /\ c # recvExpected => recvExpected' = recvExpected
           /\ recvExpected' \notin Accepted'
           /\ \A x \in recvExpected .. recvExpected' - 1 : x \in Accepted'
<1>1. /\ recvExpected \in Nat /\ start \in Nat /\ start <= recvExpected /\ c \in Nat
      /\ TypeOK
    BY BitmapAssumption, CounterFacts DEF IInv, TypeOK, StartBehind
<1>2. IInv'
    BY ConsumeStep
<1>3. /\ recvExpected + SkipWindowSize <= MaxCounter
      /\ recvExpected <= c /\ c < recvExpected + SkipWindowSize
    BY <1>1, VerdictFacts DEF Consume
<1>4. /\ Accepted' = Accepted \cup {c} /\ c \notin Accepted /\ start' = start
    BY ConsumeFacts
<1>5. /\ recvExpected' \in recvExpected .. recvExpected + SkipWindowSize
      /\ c # recvExpected => recvExpected' = recvExpected
  <2>1. CASE c # recvExpected
      BY <1>1, <2>1, Sizes DEF Consume
  <2>2. CASE c = recvExpected
    <3>. DEFINE k == AdvanceCount(SetBit(bits, c - recvExpected))
    <3>1. k \in 0 .. SkipWindowSize
        BY AdvanceCountFacts
    <3>2. recvExpected' = recvExpected + k
        BY <2>2 DEF Consume
    <3>. HIDE DEF k
    <3>. QED BY <1>1, <2>2, <3>1, <3>2, Sizes
  <2>. QED BY <2>1, <2>2
<1>6. /\ recvExpected' \notin Accepted'
      /\ \A x \in start .. recvExpected' - 1 : x \in Accepted'
    BY <1>2, <1>4 DEF IInv, BitmapIsHistory
<1>7. \A x \in recvExpected .. recvExpected' - 1 : x \in start .. recvExpected' - 1
  <2>1. recvExpected' \in Int /\ start \in Int /\ recvExpected \in Int
      BY <1>1, <1>2 DEF IInv, TypeOK, Counter
  <2>. QED BY <1>1, <2>1, StretchFacts
<1>. QED BY <1>2, <1>3, <1>4, <1>5, <1>6, <1>7

LEMMA ConsumeComputes ==
    ASSUME IInv, NEW c \in Counter, Consume(c)
    PROVE  AsWindow' = MarkConsumed(AsWindow, c)
<1>. DEFINE r == recvExpected
            W == SkipWindowSize
            w == [recvExpected |-> r, consumed |-> Ahead]
            marked == [recvExpected |-> r, consumed |-> Ahead \cup {c}]
<1>1. /\ IInv'
      /\ Accepted' = Accepted \cup {c} /\ c \notin Accepted
      /\ r + W <= MaxCounter /\ r <= c /\ c < r + W
      /\ recvExpected' \in r .. r + W
      /\ c # r => recvExpected' = r
      /\ recvExpected' \notin Accepted'
      /\ \A x \in r .. recvExpected' - 1 : x \in Accepted'
    BY ConsumeEndsOnGap
<1>2. /\ r \in Nat /\ c \in Nat /\ Accepted \subseteq Nat
      /\ W \in Nat \ {0} /\ MaxCounter \in Nat /\ recvExpected' \in Nat
    BY <1>1, CounterFacts, Sizes DEF IInv, TypeOK, Accepted
<1>3. AsWindow = w /\ AsWindow' = [recvExpected |-> recvExpected', consumed |-> Ahead']
    BY <1>1, AsWindowFacts, AsWindowFactsNext
<1>4. UpperEdge(w) = r + W
    BY <1>1, <1>2 DEF UpperEdge, Wrap64
<1>5. CanAccept(w, c) = "Ok"
  <2>1. c \notin w.consumed
      BY <1>1 DEF Ahead
  <2>2. ~IsConsumed(w, c)
      BY <2>1 DEF IsConsumed
  <2>3. ~(c < w.recvExpected) /\ c >= w.recvExpected /\ c < UpperEdge(w) /\ ~(c >= UpperEdge(w))
      BY <1>1, <1>2, <1>4
  <2>. QED BY <2>2, <2>3 DEF CanAccept
<1>6. [w EXCEPT !.consumed = @ \cup {c}] = marked
    OBVIOUS
<1>7. MarkConsumed(w, c) = IF c = r THEN AdvanceWindow(marked) ELSE marked
    BY <1>5, <1>6 DEF MarkConsumed
<1>8. \A x : x \in Ahead \cup {c} <=> x \in Accepted' /\ r <= x
    BY <1>1 DEF Ahead
<1>9. CASE c # r
  <2>1. Ahead' = Ahead \cup {c}
      BY <1>1, <1>8, <1>9 DEF Ahead
  <2>. QED BY <1>1, <1>3, <1>7, <1>9, <2>1
<1>10. CASE c = r
  <2>. DEFINE S == Ahead \cup {c}
              Stops(g) == /\ g = r + W \/ g \notin S
                          /\ \A x \in r .. g - 1 : x \in S
              end == recvExpected'
  <2>1. end \in r .. r + W /\ end \notin S /\ \A x \in r .. end - 1 : x \in S
    <3>1. \A x \in r .. end - 1 : x \in Accepted' /\ r <= x
      <4>1. r \in Int /\ end \in Int /\ r <= r
          BY <1>2
      <4>2. \A x \in r .. end - 1 : x \in r .. end - 1 /\ r <= x
          BY <4>1, StretchFacts
      <4>. QED BY <1>1, <4>2
    <3>. QED BY <1>1, <1>8, <3>1
  <2>2. Stops(end)
      BY <2>1
  <2>3. ASSUME NEW f \in r .. r + W, Stops(f) PROVE f = end
    <3>1. r \in Int /\ W \in Int
        BY <1>2
    <3>2. (f = r + W \/ f \notin S) /\ \A x \in r .. f - 1 : x \in S
        BY <2>3
    <3>. HIDE DEF S, W, r, end
    <3>. QED BY <2>1, <3>1, <3>2, OneEnd
  <2>4. FirstUnconsumed(S, r) = CHOOSE g \in r .. r + W : Stops(g)
      BY DEF FirstUnconsumed
  <2>. HIDE DEF Stops
  <2>5. FirstUnconsumed(S, r) = end
      BY <2>1, <2>2, <2>3, <2>4
  <2>6. AdvanceWindow(marked) = [recvExpected |-> end, consumed |-> {x \in S : x >= end}]
      BY <2>5 DEF AdvanceWindow
  <2>7. {x \in S : x >= end} = Ahead'
    <3>1. \A x \in Accepted' : x \in Nat
        BY <1>1, <1>2
    <3>2. \A x \in Nat : x >= end <=> end <= x
        BY <1>2
    <3>3. \A x \in Nat : end <= x => r <= x
        BY <1>1, <1>2
    <3>. QED BY <1>8, <3>1, <3>2, <3>3 DEF Ahead
  <2>. QED BY <1>3, <1>7, <1>10, <2>6, <2>7
<1>. QED BY <1>9, <1>10

\* The words and shifts of the code compute the set of counters the other
\* modules embed, so what is proved of SkipWindow is proved of this code.
THEOREM BitmapComputesWindow == Spec => ComputesMarkConsumed
<1>1. IInv /\ [Next]_vars =>
          (\E c \in Counter : AsWindow' = MarkConsumed(AsWindow, c)) \/ UNCHANGED vars
    BY ConsumeComputes DEF Next, Refuse
<1>2. (\E c \in Counter : AsWindow' = MarkConsumed(AsWindow, c)) \/ UNCHANGED vars
          <=> [\E c \in Counter : AsWindow' = MarkConsumed(AsWindow, c)]_vars
    OBVIOUS
<1>. QED BY <1>1, <1>2, Invariance, PTL DEF Spec, ComputesMarkConsumed

-----------------------------------------------------------------------------
(* The promise of replay protection *)

Starting == [s \in TheStream |-> start]
Accepting == [s \in TheStream |-> accepted]

\* The first gap of the history is recv_expected.
LEMMA FirstGapIsRecvExpected ==
    ASSUME IInv, NEW s \in TheStream
    PROVE  Promise!FirstGap(s) = recvExpected
<1>. DEFINE r == recvExpected
            IsGap(g) == /\ g >= Starting[s] /\ Accepting[s][g] = 0
                        /\ \A c \in Counter :
                              (Starting[s] <= c /\ c < g) => Accepting[s][c] > 0
<1>1. /\ r \in Counter /\ r \in Nat /\ start \in Nat /\ start <= r
      /\ accepted \in [Counter -> Nat]
    BY BitmapAssumption, CounterFacts DEF IInv, TypeOK, StartBehind
<1>2. /\ r \notin Accepted
      /\ \A c \in start .. r - 1 : c \in Accepted
    BY DEF IInv, BitmapIsHistory
<1>3. Starting[s] = start /\ Accepting[s] = accepted
    BY DEF Starting, Accepting
<1>4. \A c \in Counter : c \in Nat
    BY CounterFacts
<1>5. accepted[r] = 0
    BY <1>1, <1>2 DEF Accepted
<1>6. \A c \in Counter : (start <= c /\ c < r) => accepted[c] > 0
  <2>1. \A c \in Counter : (start <= c /\ c < r) => c \in start .. r - 1
      BY <1>1, <1>4
  <2>. QED BY <1>2, <2>1 DEF Accepted
<1>7. IsGap(r)
    BY <1>1, <1>3, <1>5, <1>6
<1>8. ASSUME NEW g \in Counter, IsGap(g) PROVE g = r
  <2>1. ~(g < r)
    <3>1. g \in Nat /\ start <= g /\ accepted[g] = 0
        BY <1>1, <1>3, <1>4, <1>8
    <3>. QED BY <1>1, <1>6, <3>1
  <2>2. ~(r < g)
      BY <1>1, <1>3, <1>5, <1>8
  <2>. QED BY <1>1, <1>4, <2>1, <2>2
<1>9. Promise!FirstGap(s) = CHOOSE g \in Counter : IsGap(g)
    BY DEF Promise!FirstGap, Starting, Accepting
<1>. HIDE DEF IsGap
<1>. QED BY <1>1, <1>7, <1>8, <1>9

LEMMA InitRefines == Init => Promise!Init
BY BitmapAssumption DEF Init, Promise!Init

\* A counter that is consumed is accepted, once and inside the window.
LEMMA ConsumeAccepts ==
    ASSUME IInv, NEW c \in Counter, Consume(c)
    PROVE  Promise!Accept("stream", c)
<1>1. /\ c \notin Accepted
      /\ recvExpected <= c /\ c < recvExpected + SkipWindowSize
    BY ConsumeEndsOnGap
<1>2. /\ accepted \in [Counter -> Nat]
      /\ accepted' = [accepted EXCEPT ![c] = @ + 1]
      /\ start' = start
    BY DEF IInv, TypeOK, Consume
<1>3. accepted[c] = 0
    BY <1>1, <1>2 DEF Accepted
<1>4. accepted' = [accepted EXCEPT ![c] = 1]
    BY <1>2, <1>3
<1>5. "stream" \in TheStream
    BY DEF TheStream
<1>6. Accepting' = [Accepting EXCEPT !["stream"][c] = 1]
    BY <1>4 DEF Accepting, TheStream
<1>7. Starting' = Starting /\ Accepting["stream"][c] = 0
    BY <1>2, <1>3, <1>5 DEF Starting, Accepting
<1>8. Promise!FirstGap("stream") = recvExpected
    BY <1>5, FirstGapIsRecvExpected
<1>. QED BY <1>1, <1>6, <1>7, <1>8 DEF Promise!Accept, Starting, Accepting

LEMMA StepRefines == IInv /\ [Next]_vars => [Promise!Next]_<<Starting, Accepting>>
<1>. SUFFICES ASSUME IInv, [Next]_vars
              PROVE  [Promise!Next]_<<Starting, Accepting>>
    OBVIOUS
<1>1. ASSUME NEW c \in Counter, Consume(c) PROVE Promise!Next
  <2>1. Promise!Accept("stream", c) /\ "stream" \in TheStream
      BY <1>1, ConsumeAccepts DEF TheStream
  <2>. QED BY <2>1 DEF Promise!Next
<1>2. CASE UNCHANGED vars
    BY <1>2 DEF vars, Starting, Accepting
<1>. QED BY <1>1, <1>2 DEF Next, Refuse

\* The bitmap keeps the promise: no counter twice, none below the first gap, none
\* a window or more beyond it.
THEOREM BitmapImplementsAcceptOnce == Spec => KeepsPromise
<1>1. Spec => Promise!Init /\ [][Promise!Next]_<<Starting, Accepting>>
    BY InitRefines, StepRefines, Invariance, PTL DEF Spec
<1>. QED BY <1>1, PTL DEF KeepsPromise, Promise!Spec, Starting, Accepting
=============================================================================
