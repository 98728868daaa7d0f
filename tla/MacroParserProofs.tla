-------------------------- MODULE MacroParserProofs --------------------------
(***************************************************************************)
(* Proofs about the macro compiler, for every source, every spelling of    *)
(* the names and every limit that MacroParser assumes:                     *)
(*                                                                         *)
(*   TypesStayCorrect  no token reader leaves the source;                  *)
(*   LimitsAlwaysHold  the estimate is the time the actions take, and the  *)
(*                     limits hold;                                        *)
(*   PlansAreReadings  a plan is a reading of its source (soundness);      *)
(*   RefusalsAreRight  what is refused as wrong has no reading, but for    *)
(*                     the two exceptions (completeness).                  *)
(*                                                                         *)
(* The loops of the C code are recursive functions over 0 .. n.  That such *)
(* a function exists is proved once (Iterates), by the least element of a  *)
(* set of numbers; what a loop keeps, by Induction and PassedOn.           *)
(***************************************************************************)
EXTENDS MacroParser, FiniteSetTheorems, SequenceTheorems, WellFoundedInduction, TLAPS

-----------------------------------------------------------------------------
(* Induction and recursion. *)

\* A set of numbers has a smallest one.
LEMMA Smallest ==
  ASSUME NEW T \in SUBSET Nat, T # {}
  PROVE  \E x \in T : \A y \in T : x <= y
  <1> DEFINE R == OpToRel(<, Nat)
  <1>1. PICK x \in T : \A y \in T : <<y, x>> \notin R
    BY NatLessThanWellFounded, WFMin
  <1>2. \A y \in T : ~(y < x)
    BY <1>1 DEF OpToRel
  <1> QED  BY <1>2

\* Induction up to n, with the set of the numbers that the claim holds of.
LEMMA Induction ==
  ASSUME NEW n \in Nat, NEW T, 0 \in T, \A k \in 0 .. n - 1 : k \in T => k + 1 \in T
  PROVE  0 .. n \subseteq T
  <1> SUFFICES ASSUME ~(0 .. n \subseteq T) PROVE FALSE
    OBVIOUS
  <1> DEFINE U == (0 .. n) \ T
  <1>0. U \in SUBSET Nat /\ U # {}
    OBVIOUS
  <1>1. PICK x \in U : \A y \in U : x <= y
    BY <1>0, Smallest
  <1>2. x # 0 /\ x - 1 \in 0 .. n - 1 /\ x - 1 \notin U
    BY <1>1
  <1> QED  BY <1>2

\* What holds of the first value of a function and is passed on holds of all.
LEMMA PassedOn ==
  ASSUME NEW N \in Nat, NEW V, NEW f, f[0] \in V,
         \A n \in 1 .. N : f[n - 1] \in V => f[n] \in V
  PROVE  \A n \in 0 .. N : f[n] \in V
  <1> DEFINE T == {n \in 0 .. N : f[n] \in V}
  <1>1. 0 \in T
    OBVIOUS
  <1>2. ASSUME NEW k \in 0 .. N - 1, k \in T
        PROVE  k + 1 \in T
    <2>1. k + 1 \in 1 .. N /\ (k + 1) - 1 = k
      OBVIOUS
    <2> QED  BY <1>2, <2>1
  <1> HIDE DEF T
  <1>3. 0 .. N \subseteq T
    BY <1>1, <1>2, Induction
  <1> QED  BY <1>3 DEF T

\* h takes N steps from b, all in V, and step n is the function g[n].
Steps(N, V, b, g, h) ==
  h \in [0 .. N -> V] /\ h[0] = b /\ \A n \in 1 .. N : h[n] = g[n][h[n - 1]]

\* What is computed step by step exists.
LEMMA Iterates ==
  ASSUME NEW N \in Nat, NEW V, NEW b \in V, NEW g \in [1 .. N -> [V -> V]]
  PROVE  \E h : Steps(N, V, b, g, h)
  <1> DEFINE Upto(k, h) == h[0] = b /\ \A n \in 1 .. k : h[n] = g[n][h[n - 1]]
             T == {k \in 0 .. N : \E h \in [0 .. k -> V] : Upto(k, h)}
  <1>1. 0 \in T
    <2> DEFINE h == [x \in 0 .. 0 |-> b]
    <2>1. h \in [0 .. 0 -> V] /\ Upto(0, h)
      OBVIOUS
    <2> HIDE DEF h, Upto
    <2> QED  BY <2>1
  <1>2. ASSUME NEW k \in 0 .. N - 1, k \in T
        PROVE  k + 1 \in T
    <2>1. PICK h \in [0 .. k -> V] : Upto(k, h)
      BY <1>2
    <2> DEFINE f == [x \in 0 .. k + 1 |-> IF x = k + 1 THEN g[k + 1][h[k]] ELSE h[x]]
    <2>2. k + 1 \in 1 .. N /\ g[k + 1][h[k]] \in V
      OBVIOUS
    <2>3. f \in [0 .. k + 1 -> V]
      BY <2>2
    <2>4. f[0] = b
      BY <2>1
    <2>5. ASSUME NEW n \in 1 .. k + 1
          PROVE  f[n] = g[n][f[n - 1]]
      <3>1. CASE n = k + 1
        BY <3>1
      <3>2. CASE n # k + 1
        <4>1. n \in 1 .. k /\ n - 1 \in 0 .. k
          BY <3>2
        <4>2. f[n] = h[n] /\ f[n - 1] = h[n - 1]
          BY <4>1
        <4> QED  BY <2>1, <4>1, <4>2
      <3> QED  BY <3>1, <3>2
    <2>6. Upto(k + 1, f)
      BY <2>4, <2>5
    <2> HIDE DEF f, Upto
    <2> QED  BY <2>2, <2>3, <2>6
  <1> HIDE DEF T
  <1>3. 0 .. N \subseteq T
    BY <1>1, <1>2, Induction
  <1>4. N \in T
    BY <1>3
  <1> QED  BY <1>4 DEF T, Steps

-----------------------------------------------------------------------------
(* The keyboard. *)

\* The characters that have a key.
LEMMA PrintableDomain ==
  DOMAIN Printable = Characters(PlainKeys) \cup Characters(ShiftedKeys)
                     \cup Characters(PlainMarks) \cup Characters(ShiftedMarks)
  BY DEF Printable, Rows

\* How many characters each row of the keyboard has.
LEMMA RowDomains ==
  /\ DOMAIN PlainKeys = 1 .. 36 /\ DOMAIN ShiftedKeys = 1 .. 36
  /\ DOMAIN PlainMarks = 1 .. 13 /\ DOMAIN ShiftedMarks = 1 .. 13
  /\ DOMAIN TenDigits = 1 .. 10
  BY DEF PlainKeys, ShiftedKeys, PlainMarks, ShiftedMarks, TenDigits

\* The place of a character is one where it is.
LEMMA PlaceIn ==
  ASSUME NEW row, NEW c \in Characters(row)
  PROVE  Place(row, c) \in DOMAIN row /\ row[Place(row, c)] = c
  BY DEF Characters, Place

\* The usages and modifiers of a row.
LEMMA RowFacts ==
  ASSUME NEW row \in Rows
  PROVE  /\ row.first \in {4, 44} /\ row.modifiers \in SUBSET {"SHIFT"}
         /\ DOMAIN row.keys \subseteq Nat \ {0}
  <1>1. /\ row.first \in {4, 44} /\ row.modifiers \in {{}, {"SHIFT"}}
        /\ row.keys \in {PlainKeys, ShiftedKeys, PlainMarks, ShiftedMarks}
    BY DEF Rows
  <1> QED  BY <1>1, RowDomains

\* A character that is typed has a usage.
LEMMA PrintableUsage ==
  ASSUME NEW c \in DOMAIN Printable
  PROVE  Printable[c].usage \in Nat \ {0} /\ Printable[c].modifiers \in SUBSET {"SHIFT"}
  <1> DEFINE row == CHOOSE row \in Rows : c \in Characters(row.keys)
  <1>1. row \in Rows /\ c \in Characters(row.keys)
    BY DEF Printable
  <1>2. Printable[c] = Key(row.modifiers, row.first - 1 + Place(row.keys, c))
    BY DEF Printable
  <1> HIDE DEF row
  <1>3. Place(row.keys, c) \in DOMAIN row.keys
    BY <1>1, PlaceIn
  <1> QED  BY <1>1, <1>2, <1>3, RowFacts DEF Key

Marks == {"lbrace", "rbrace", "[", "]"}

\* Braces and brackets have a key.
LEMMA MarksPrintable == Marks \subseteq DOMAIN Printable
  <1>1. /\ PlainMarks[4] = "[" /\ PlainMarks[5] = "]"
        /\ ShiftedMarks[4] = "lbrace" /\ ShiftedMarks[5] = "rbrace"
    BY DEF PlainMarks, ShiftedMarks
  <1> QED  BY <1>1, RowDomains, PrintableDomain DEF Characters, Marks

\* Line ends and tabs have none of their own (macro_keymap_us_printable()).
LEMMA ControlsNotPrintable == {"\r", "\n", "\t"} \cap DOMAIN Printable = {}
  <1>1. \A c \in {"\r", "\n", "\t"} : c \notin Characters(PlainKeys) /\ c \notin Characters(ShiftedKeys)
    BY DEF PlainKeys, ShiftedKeys, Characters
  <1>2. \A c \in {"\r", "\n", "\t"} : c \notin Characters(PlainMarks)
    BY DEF PlainMarks, Characters
  <1>3. \A c \in {"\r", "\n", "\t"} : c \notin Characters(ShiftedMarks)
    BY DEF ShiftedMarks, Characters
  <1> QED  BY <1>1, <1>2, <1>3, PrintableDomain

\* A digit character stands for a number below ten.
LEMMA DigitFacts ==
  ASSUME NEW d \in DOMAIN Digits
  PROVE  Digits[d] \in 0 .. 9 /\ ~InvalidInDirective(d)
  <1>1. d \in Characters(TenDigits) /\ Digits[d] = Place(TenDigits, d) - 1
    BY DEF Digits
  <1>2. Digits[d] \in 0 .. 9
    BY <1>1, PlaceIn, RowDomains
  <1>3. d \in {"0", "1", "2", "3", "4", "5", "6", "7", "8", "9"}
    BY <1>1 DEF Characters, TenDigits
  <1>4. PlainKeys[27] = "1" /\ PlainKeys[28] = "2" /\ PlainKeys[29] = "3"
        /\ PlainKeys[30] = "4" /\ PlainKeys[31] = "5" /\ PlainKeys[32] = "6"
        /\ PlainKeys[33] = "7" /\ PlainKeys[34] = "8" /\ PlainKeys[35] = "9"
        /\ PlainKeys[36] = "0"
    BY DEF PlainKeys
  <1>5. {"0", "1", "2", "3", "4", "5", "6", "7", "8", "9"} \subseteq Characters(PlainKeys)
    BY <1>4, RowDomains DEF Characters
  <1> QED  BY <1>2, <1>3, <1>5, PrintableDomain DEF InvalidInDirective

\* No named key has the usage 0, which says that there is no key.
LEMMA NamedUsages ==
  ASSUME NEW name \in DOMAIN NamedKeys
  PROVE  NamedKeys[name] \in Nat \ {0}
  BY DEF NamedKeys

-----------------------------------------------------------------------------
(* The delay. *)

\* A turn of the loop of v2_parse_delay() gives a number again.
LEMMA NextValueType ==
  ASSUME NEW v \in Nat, NEW d
  PROVE  NextValue(v, d) \in Nat
  BY LimitAssumption, DigitFacts DEF NextValue, NoNumber, TooLarge

\* The loop of v2_parse_delay(), turn by turn.
LEMMA DelayValuesDef ==
  ASSUME NEW digits \in Seq(STRING)
  PROVE  /\ DelayValues(digits) \in [0 .. Len(digits) -> Nat]
         /\ DelayValues(digits)[0] = 0
         /\ \A n \in 1 .. Len(digits) :
               DelayValues(digits)[n] = NextValue(DelayValues(digits)[n - 1], digits[n])
  <1> DEFINE N == Len(digits)
             g == [n \in 1 .. N |-> [v \in Nat |-> NextValue(v, digits[n])]]
             D == DelayValues(digits)
  <1>1. N \in Nat
    OBVIOUS
  <1>2. g \in [1 .. N -> [Nat -> Nat]]
    BY NextValueType
  <1>3. PICK h : Steps(N, Nat, 0, g, h)
    <2>1. 0 \in Nat
      OBVIOUS
    <2> HIDE DEF g, N
    <2> QED  BY <1>1, <1>2, <2>1, Iterates, Zenon
  <1>4. h = [n \in 0 .. N |-> IF n = 0 THEN 0 ELSE NextValue(h[n - 1], digits[n])]
    <2>1. ASSUME NEW n \in 1 .. N
          PROVE  h[n] = NextValue(h[n - 1], digits[n])
      <3>1. n - 1 \in 0 .. N /\ h[n - 1] \in Nat
        BY <1>1, <1>3 DEF Steps
      <3> QED  BY <1>3, <3>1 DEF Steps
    <2> HIDE DEF N
    <2> QED  BY <1>1, <1>3, <2>1 DEF Steps
  <1>5. D = [n \in 0 .. N |-> IF n = 0 THEN 0 ELSE NextValue(D[n - 1], digits[n])]
    BY <1>4, Zenon DEF DelayValues
  <1> HIDE DEF D, N
  <1>6. D[0] = 0 /\ \A n \in 1 .. N : D[n] = NextValue(D[n - 1], digits[n])
    BY <1>1, <1>5
  <1>7. ASSUME NEW n \in 1 .. N, D[n - 1] \in Nat
        PROVE  D[n] \in Nat
    BY <1>6, <1>7, NextValueType
  <1>8. \A n \in 0 .. N : D[n] \in Nat
    <2> DEFINE V == Nat
    <2>1. D[0] \in V /\ \A n \in 1 .. N : D[n - 1] \in V => D[n] \in V
      BY <1>6, <1>7
    <2> HIDE DEF V
    <2>2. \A n \in 0 .. N : D[n] \in V
      BY <1>1, <2>1, PassedOn
    <2> QED  BY <2>2 DEF V
  <1>9. D \in [0 .. N -> Nat]
    BY <1>5, <1>8
  <1> QED  BY <1>6, <1>9 DEF D, N

AllDigits(digits) == \A n \in DOMAIN digits : digits[n] \in DOMAIN Digits

\* The value of digits, one by one.
LEMMA ValuesDef ==
  ASSUME NEW digits \in Seq(STRING), AllDigits(digits)
  PROVE  /\ Values(digits) \in [0 .. Len(digits) -> Nat]
         /\ Values(digits)[0] = 0
         /\ \A n \in 1 .. Len(digits) :
               Values(digits)[n] = Values(digits)[n - 1] * 10 + Digits[digits[n]]
  <1> DEFINE N == Len(digits)
             g == [n \in 1 .. N |-> [v \in Nat |-> v * 10 + Digits[digits[n]]]]
             D == Values(digits)
  <1>1. N \in Nat
    OBVIOUS
  <1>0. \A n \in 1 .. N : Digits[digits[n]] \in Nat
    BY DigitFacts DEF AllDigits
  <1>2. g \in [1 .. N -> [Nat -> Nat]]
    <2> HIDE DEF N
    <2>1. \A n \in 1 .. N : \A v \in Nat : v * 10 + Digits[digits[n]] \in Nat
      BY <1>0
    <2> QED  BY <2>1
  <1>3. PICK h : Steps(N, Nat, 0, g, h)
    <2>1. 0 \in Nat
      OBVIOUS
    <2> HIDE DEF g, N
    <2> QED  BY <1>1, <1>2, <2>1, Iterates, Zenon
  <1>4. h = [n \in 0 .. N |-> IF n = 0 THEN 0 ELSE h[n - 1] * 10 + Digits[digits[n]]]
    <2>1. ASSUME NEW n \in 1 .. N
          PROVE  h[n] = h[n - 1] * 10 + Digits[digits[n]]
      <3>1. n - 1 \in 0 .. N /\ h[n - 1] \in Nat
        BY <1>1, <1>3 DEF Steps
      <3> QED  BY <1>3, <3>1 DEF Steps
    <2> HIDE DEF N
    <2> QED  BY <1>1, <1>3, <2>1 DEF Steps
  <1>5. D = [n \in 0 .. N |-> IF n = 0 THEN 0 ELSE D[n - 1] * 10 + Digits[digits[n]]]
    BY <1>4, Zenon DEF Values
  <1> HIDE DEF D, N
  <1>6. D[0] = 0 /\ \A n \in 1 .. N : D[n] = D[n - 1] * 10 + Digits[digits[n]]
    <2>1. 0 \in 0 .. N /\ \A n \in 1 .. N : n \in 0 .. N /\ n # 0
      BY <1>1
    <2> QED  BY <1>5, <2>1, Zenon
  <1>7. ASSUME NEW n \in 1 .. N, D[n - 1] \in Nat
        PROVE  D[n] \in Nat
    BY <1>0, <1>6, <1>7
  <1>8. \A n \in 0 .. N : D[n] \in Nat
    <2> DEFINE V == Nat
    <2>1. D[0] \in V /\ \A n \in 1 .. N : D[n - 1] \in V => D[n] \in V
      BY <1>6, <1>7
    <2> HIDE DEF V
    <2>2. \A n \in 0 .. N : D[n] \in V
      BY <1>1, <2>1, PassedOn
    <2> QED  BY <2>2 DEF V
  <1>9. D \in [0 .. N -> Nat]
    BY <1>5, <1>8
  <1> QED  BY <1>6, <1>9 DEF D, N

\* The guard of v2_parse_delay() is exact: it stops what would pass UINT32_MAX.
LEMMA WouldOverflow ==
  ASSUME NEW u \in Nat, NEW w \in Nat, NEW d \in 0 .. 9
  PROVE  w > (u - d) \div 10 <=> w * 10 + d > u
  OBVIOUS

\* The loop computes the value of the digits, or notices that it does not fit.
LEMMA DelayIsValue ==
  ASSUME NEW digits \in Seq(STRING), AllDigits(digits)
  PROVE  DelayValue(digits) = IF Value(digits) <= UintMax THEN Value(digits) ELSE TooLarge
  <1> DEFINE N == Len(digits)
             D == DelayValues(digits)
             W == Values(digits)
             Right(n) == D[n] = IF W[n] <= UintMax THEN W[n] ELSE TooLarge
             T == {n \in 0 .. N : Right(n)}
  <1>1. N \in Nat /\ UintMax \in Nat
    BY LimitAssumption
  <1>2. D[0] = 0 /\ \A n \in 1 .. N : D[n] = NextValue(D[n - 1], digits[n])
    BY DelayValuesDef
  <1>7. W[0] = 0 /\ \A n \in 1 .. N : W[n] = W[n - 1] * 10 + Digits[digits[n]]
    BY ValuesDef
  <1>8. \A n \in 0 .. N : W[n] \in Nat
    BY ValuesDef
  <1>9. \A n \in 1 .. N : digits[n] \in DOMAIN Digits /\ Digits[digits[n]] \in 0 .. 9
    BY DigitFacts DEF AllDigits
  <1> HIDE DEF D, W, N
  <1>3. 0 \in T
    BY <1>1, <1>2, <1>7
  <1>4. ASSUME NEW k \in 0 .. N - 1, k \in T
        PROVE  k + 1 \in T
    <2>1. /\ k + 1 \in 1 .. N /\ W[k] \in Nat
          /\ digits[k + 1] \in DOMAIN Digits /\ Digits[digits[k + 1]] \in 0 .. 9
          /\ D[k + 1] = NextValue(D[k], digits[k + 1])
          /\ W[k + 1] = W[k] * 10 + Digits[digits[k + 1]]
      <3>1. k + 1 \in 1 .. N /\ (k + 1) - 1 = k /\ k \in 0 .. N
        BY <1>1
      <3>2. D[k + 1] = NextValue(D[k], digits[k + 1])
        BY <1>2, <3>1
      <3>3. W[k + 1] = W[k] * 10 + Digits[digits[k + 1]]
        BY <1>7, <3>1
      <3> QED  BY <1>8, <1>9, <3>1, <3>2, <3>3
    <2>2. D[k] = IF W[k] <= UintMax THEN W[k] ELSE TooLarge
      BY <1>4
    <2> DEFINE d == digits[k + 1]
               e == Digits[d]
               w == W[k]
    <2>3. w \in Nat /\ d \in DOMAIN Digits /\ e \in 0 .. 9
      BY <2>1
    <2> HIDE DEF d, e, w
    <2>4. CASE w > UintMax
      <3>1. NextValue(TooLarge, d) = TooLarge
        BY <1>1 DEF NextValue, TooLarge
      <3>2. w * 10 + e > UintMax
        BY <1>1, <2>3, <2>4
      <3>3. D[k] = TooLarge
        BY <1>1, <2>2, <2>3, <2>4 DEF w
      <3>4. D[k + 1] = TooLarge
        BY <2>1, <3>1, <3>3 DEF d
      <3>5. W[k + 1] = w * 10 + e
        BY <2>1 DEF d, e, w
      <3>6. w * 10 + e \in Nat
        BY <2>3
      <3> QED  BY <1>1, <3>2, <3>4, <3>5, <3>6
    <2>5. CASE w <= UintMax
      <3>1. w > (UintMax - e) \div 10 <=> w * 10 + e > UintMax
        BY <1>1, <2>3, WouldOverflow
      <3>2. NextValue(w, d) = IF w > (UintMax - e) \div 10 THEN TooLarge ELSE w * 10 + e
        BY <1>1, <2>3, <2>5 DEF NextValue, e
      <3>3. NextValue(w, d) = IF w * 10 + e <= UintMax THEN w * 10 + e ELSE TooLarge
        BY <1>1, <2>3, <3>1, <3>2
      <3> QED  BY <1>1, <2>1, <2>2, <2>5, <3>3 DEF d, e, w
    <2>6. Right(k + 1)
      BY <1>1, <2>3, <2>4, <2>5
    <2> QED  BY <2>1, <2>6
  <1>5. 0 .. N \subseteq T
    <2> HIDE DEF T
    <2> QED  BY <1>1, <1>3, <1>4, Induction
  <1>6. Right(N)
    BY <1>1, <1>5
  <1> QED  BY <1>6 DEF DelayValue, Value, D, W, N

\* What is left with a value in range has read digits only.
LEMMA DelayReadsDigits ==
  ASSUME NEW digits \in Seq(STRING), DelayValue(digits) <= UintMax
  PROVE  AllDigits(digits)
  <1> DEFINE N == Len(digits)
             D == DelayValues(digits)
             T == {n \in 0 .. N : D[n] <= UintMax => \A i \in 1 .. n : digits[i] \in DOMAIN Digits}
  <1>1. N \in Nat /\ UintMax \in Nat /\ DOMAIN digits = 1 .. N
    BY LimitAssumption
  <1>2. \A n \in 1 .. N : D[n] = NextValue(D[n - 1], digits[n])
    BY DelayValuesDef
  <1>3. \A n \in 0 .. N : D[n] \in Nat
    BY DelayValuesDef
  <1> HIDE DEF D, N
  <1>4. 0 \in T
    BY <1>1
  <1>5. ASSUME NEW k \in 0 .. N - 1, k \in T
        PROVE  k + 1 \in T
    <2>1. /\ k + 1 \in 1 .. N /\ D[k] \in Nat /\ D[k + 1] = NextValue(D[k], digits[k + 1])
      BY <1>1, <1>2, <1>3
    <2>2. D[k + 1] <= UintMax => D[k] <= UintMax /\ digits[k + 1] \in DOMAIN Digits
      BY <1>1, <2>1 DEF NextValue, NoNumber
    <2> QED  BY <1>5, <2>1, <2>2
  <1>6. 0 .. N \subseteq T
    <2> HIDE DEF T
    <2> QED  BY <1>1, <1>4, <1>5, Induction
  <1> QED  BY <1>1, <1>6 DEF DelayValue, AllDigits, D, N

\* v2_parse_delay() takes the delays of the language and no other.
LEMMA DelayParsed ==
  ASSUME NEW digits \in Seq(STRING), NEW consumed
  PROVE  LET token == ParseDelay(digits, consumed)
             good  == digits # <<>> /\ AllDigits(digits) /\ Value(digits) \in 1 .. DelayMax
         IN  /\ good => token = Ok([NoAction EXCEPT !.type = "delay", !.delay = Value(digits)],
                                   consumed)
             /\ ~good => token.error \in {"MACRO_SYNTAX", "MACRO_LIMIT"}
  <1>1. DelayMax \in Nat /\ UintMax \in Nat /\ DelayMax <= UintMax
    BY LimitAssumption
  <1>2. DelayValue(digits) \in Nat
    BY DelayValuesDef DEF DelayValue
  <1>3. CASE digits # <<>> /\ AllDigits(digits) /\ Value(digits) \in 1 .. DelayMax
    <2>1. DelayValue(digits) = Value(digits)
      BY <1>1, <1>3, DelayIsValue
    <2> QED  BY <1>1, <1>3, <2>1 DEF ParseDelay, NoNumber
  <1>4. CASE ~(digits # <<>> /\ AllDigits(digits) /\ Value(digits) \in 1 .. DelayMax)
    <2>1. DelayValue(digits) \in 1 .. DelayMax => digits = <<>>
      <3>1. SUFFICES ASSUME DelayValue(digits) \in 1 .. DelayMax PROVE digits = <<>>
        OBVIOUS
      <3>2. AllDigits(digits)
        BY <1>1, <3>1, DelayReadsDigits
      <3>3. AllDigits(digits) => Value(digits) \in Nat
        BY ValuesDef DEF Value
      <3> QED  BY <1>1, <1>4, <3>1, <3>2, <3>3, DelayIsValue DEF TooLarge
    <2> QED  BY <1>2, <1>4, <2>1 DEF ParseDelay, Fail
  <1> QED  BY <1>3, <1>4

-----------------------------------------------------------------------------
(* Time. *)

Action == [type : {"key", "chord", "delay"}, modifiers : SUBSET Modifiers,
           usages : Seq(Nat), delay : Nat]
Timing == [keyPress : Nat, interKey : Nat]

\* The time that actions take, one by one.
LEMMA TotalsDef ==
  ASSUME NEW timing \in Timing, NEW actions \in Seq(Action)
  PROVE  /\ Totals(timing, actions)[0] = 0
         /\ \A n \in 1 .. Len(actions) :
               Totals(timing, actions)[n]
                 = Totals(timing, actions)[n - 1] + Duration(timing, actions[n])
         /\ \A n \in 1 .. Len(actions) : Duration(timing, actions[n]) \in Nat
  <1> DEFINE N == Len(actions)
             d == [n \in 1 .. N |-> Duration(timing, actions[n])]
             g == [n \in 1 .. N |-> [v \in Nat |-> v + d[n]]]
             D == Totals(timing, actions)
  <1>1. N \in Nat
    OBVIOUS
  <1>2. ASSUME NEW n \in 1 .. N
        PROVE  Duration(timing, actions[n]) \in Nat
    <2>1. actions[n] \in Action
      BY <1>2
    <2> QED  BY <2>1 DEF Action, Timing, Duration
  <1>3. g \in [1 .. N -> [Nat -> Nat]]
    <2>1. \A n \in 1 .. N : d[n] \in Nat
      BY <1>2
    <2> HIDE DEF N, d
    <2>2. \A n \in 1 .. N : \A v \in Nat : v + d[n] \in Nat
      BY <2>1
    <2> QED  BY <2>2
  <1>4. PICK h : Steps(N, Nat, 0, g, h)
    <2>1. 0 \in Nat
      OBVIOUS
    <2> HIDE DEF g, N
    <2> QED  BY <1>1, <1>3, <2>1, Iterates, Zenon
  <1>5. h = [n \in 0 .. N |-> IF n = 0 THEN 0 ELSE h[n - 1] + Duration(timing, actions[n])]
    <2>1. ASSUME NEW n \in 1 .. N
          PROVE  h[n] = h[n - 1] + Duration(timing, actions[n])
      <3>1. n - 1 \in 0 .. N /\ h[n - 1] \in Nat
        BY <1>1, <1>4 DEF Steps
      <3> QED  BY <1>4, <3>1 DEF Steps
    <2> HIDE DEF N
    <2> QED  BY <1>1, <1>4, <2>1 DEF Steps
  <1>6. D = [n \in 0 .. N |-> IF n = 0 THEN 0 ELSE D[n - 1] + Duration(timing, actions[n])]
    BY <1>5, Zenon DEF Totals
  <1> HIDE DEF D, N
  <1>7. D[0] = 0 /\ \A n \in 1 .. N : D[n] = D[n - 1] + Duration(timing, actions[n])
    <2>1. 0 \in 0 .. N /\ \A n \in 1 .. N : n \in 0 .. N /\ n # 0
      BY <1>1
    <2> QED  BY <1>6, <2>1, Zenon
  <1> QED  BY <1>2, <1>7 DEF D, N

\* One more action adds its duration.
LEMMA TotalsAppend ==
  ASSUME NEW timing \in Timing, NEW actions \in Seq(Action), NEW a \in Action
  PROVE  Totals(timing, Append(actions, a))[Len(actions) + 1]
         = Totals(timing, actions)[Len(actions)] + Duration(timing, a)
  <1> DEFINE N == Len(actions)
             more == Append(actions, a)
             D == Totals(timing, actions)
             E == Totals(timing, more)
             T == {n \in 0 .. N : E[n] = D[n]}
  <1>1. N \in Nat /\ more \in Seq(Action) /\ Len(more) = N + 1
    OBVIOUS
  <1>2. /\ \A n \in 1 .. N : more[n] = actions[n]
        /\ more[N + 1] = a
    OBVIOUS
  <1>3. D[0] = 0 /\ \A n \in 1 .. N : D[n] = D[n - 1] + Duration(timing, actions[n])
    BY TotalsDef
  <1>4. E[0] = 0 /\ \A n \in 1 .. N + 1 : E[n] = E[n - 1] + Duration(timing, more[n])
    BY <1>1, TotalsDef
  <1> HIDE DEF D, E, N, more
  <1>5. 0 \in T
    BY <1>1, <1>3, <1>4
  <1>6. ASSUME NEW k \in 0 .. N - 1, k \in T
        PROVE  k + 1 \in T
    <2>1. k + 1 \in 1 .. N /\ k + 1 \in 1 .. N + 1 /\ (k + 1) - 1 = k
      BY <1>1
    <2> QED  BY <1>2, <1>3, <1>4, <1>6, <2>1
  <1>7. 0 .. N \subseteq T
    <2> HIDE DEF T
    <2> QED  BY <1>1, <1>5, <1>6, Induction
  <1>8. N \in 0 .. N /\ N + 1 \in 1 .. N + 1 /\ (N + 1) - 1 = N
    BY <1>1
  <1>9. E[N + 1] = E[N] + Duration(timing, a)
    BY <1>2, <1>4, <1>8
  <1> QED  BY <1>7, <1>8, <1>9 DEF D, E, N, more

-----------------------------------------------------------------------------
(* Cuts. *)

\* The cuts that begin at k, from those that begin later.
Joins(means, j, f, k) ==
  UNION {UNION {{<<action>> \o rest : rest \in f[m + 1]} : action \in means[k][m]} : m \in k .. j}

\* r is an action for the characters k .. m, and what f[m + 1] has after it.
Cut(means, j, f, k, r, m, action, rest) ==
  m \in k .. j /\ action \in means[k][m] /\ rest \in f[m + 1] /\ r = <<action>> \o rest

\* A joined cut has an action, and a cut after it.
LEMMA JoinsHas ==
  ASSUME NEW means, NEW j, NEW f, NEW k, NEW r \in Joins(means, j, f, k)
  PROVE  \E m, action, rest : Cut(means, j, f, k, r, m, action, rest)
  <1>1. PICK m \in k .. j :
           r \in UNION {{<<action>> \o rest : rest \in f[m + 1]} : action \in means[k][m]}
    BY DEF Joins
  <1>2. PICK action \in means[k][m] : r \in {<<action>> \o rest : rest \in f[m + 1]}
    BY <1>1
  <1>3. PICK rest \in f[m + 1] : r = <<action>> \o rest
    BY <1>2
  <1>4. Cut(means, j, f, k, r, m, action, rest)
    BY <1>3 DEF Cut
  <1> QED  BY <1>4

\* An action, and a cut after it, make a cut.
LEMMA JoinsMade ==
  ASSUME NEW means, NEW j, NEW f, NEW k, NEW r, NEW m, NEW action, NEW rest,
         Cut(means, j, f, k, r, m, action, rest)
  PROVE  r \in Joins(means, j, f, k)
  BY DEF Joins, Cut

\* Cuts that are the same later on are joined to the same.
LEMMA JoinsSubset ==
  ASSUME NEW means, NEW j, NEW k, NEW f, NEW h, \A m \in k .. j : f[m + 1] = h[m + 1]
  PROVE  Joins(means, j, f, k) \subseteq Joins(means, j, h, k)
  <1>1. ASSUME NEW r \in Joins(means, j, f, k)
        PROVE  r \in Joins(means, j, h, k)
    <2>1. PICK m, action, rest : Cut(means, j, f, k, r, m, action, rest)
      BY JoinsHas
    <2>2. Cut(means, j, h, k, r, m, action, rest)
      BY <2>1 DEF Cut
    <2> QED  BY <2>2, JoinsMade
  <1> QED  BY <1>1

\* Joins only looks at later cuts.
LEMMA JoinsSame ==
  ASSUME NEW means, NEW j, NEW k, NEW f, NEW h, \A m \in k .. j : f[m + 1] = h[m + 1]
  PROVE  Joins(means, j, f, k) = Joins(means, j, h, k)
  <1>1. Joins(means, j, f, k) \subseteq Joins(means, j, h, k)
    BY JoinsSubset
  <1>2. \A m \in k .. j : h[m + 1] = f[m + 1]
    OBVIOUS
  <1>3. Joins(means, j, h, k) \subseteq Joins(means, j, f, k)
    BY <1>2, JoinsSubset
  <1> QED  BY <1>1, <1>3

\* Cuts is what its recursion says: from the end of the text back to its start.
LEMMA CutsDef ==
  ASSUME NEW means, NEW i \in Nat, NEW j \in Nat, i <= j + 1
  PROVE  /\ Cuts(means, i, j)[j + 1] = {<<>>}
         /\ \A k \in i .. j : Cuts(means, i, j)[k] = Joins(means, j, Cuts(means, i, j), k)
  <1> DEFINE N == j + 1 - i
             Good(d, f) ==
               f = [k \in j + 1 - d .. j + 1 |-> IF k = j + 1 THEN {<<>>} ELSE Joins(means, j, f, k)]
             T == {d \in 0 .. N : \E f : Good(d, f)}
             C == Cuts(means, i, j)
  <1>1. N \in Nat
    OBVIOUS
  <1>2. 0 \in T
    <2> DEFINE f == [k \in j + 1 - 0 .. j + 1 |-> {<<>>}]
    <2>1. f = [k \in j + 1 - 0 .. j + 1 |-> IF k = j + 1 THEN {<<>>} ELSE Joins(means, j, f, k)]
      OBVIOUS
    <2>2. Good(0, f)
      BY <2>1
    <2> HIDE DEF f, Good
    <2> QED  BY <1>1, <2>2
  <1>3. ASSUME NEW d \in 0 .. N - 1, d \in T
        PROVE  d + 1 \in T
    <2>1. PICK f : Good(d, f)
      BY <1>3
    <2> DEFINE first == j + 1 - (d + 1)
               h == [k \in first .. j + 1 |-> IF k = first THEN Joins(means, j, f, k) ELSE f[k]]
    <2>2. /\ first \in Nat /\ first < j + 1
          /\ \A k \in first .. j + 1 : k # first => k \in j + 1 - d .. j + 1
      BY <1>1
    <2>3. \A k \in j + 1 - d .. j + 1 : f[k] = IF k = j + 1 THEN {<<>>} ELSE Joins(means, j, f, k)
      BY <2>1
    <2> HIDE DEF first, Good
    <2>4. ASSUME NEW k \in first .. j, NEW m \in k .. j
          PROVE  h[m + 1] = f[m + 1]
      BY <2>2
    <2>5. \A k \in first .. j : Joins(means, j, h, k) = Joins(means, j, f, k)
      <3> HIDE DEF h
      <3> QED  BY <2>4, JoinsSame
    <2>6. \A k \in first .. j + 1 : h[k] = IF k = j + 1 THEN {<<>>} ELSE Joins(means, j, h, k)
      <3>1. ASSUME NEW k \in first .. j + 1
            PROVE  h[k] = IF k = j + 1 THEN {<<>>} ELSE Joins(means, j, f, k)
        BY <2>2, <2>3
      <3>2. \A k \in first .. j + 1 : k # j + 1 => k \in first .. j
        BY <2>2
      <3> HIDE DEF h
      <3> QED  BY <2>5, <3>1, <3>2
    <2>7. DOMAIN h = first .. j + 1 /\ h = [k \in DOMAIN h |-> h[k]]
      OBVIOUS
    <2> HIDE DEF h
    <2>8. h = [k \in first .. j + 1 |-> IF k = j + 1 THEN {<<>>} ELSE Joins(means, j, h, k)]
      BY <2>6, <2>7
    <2>9. Good(d + 1, h)
      BY <2>8 DEF Good, first
    <2> QED  BY <1>1, <2>9
  <1>4. N \in T
    <2>1. 0 .. N \subseteq T
      <3> HIDE DEF T, N
      <3> QED  BY <1>1, <1>2, <1>3, Induction
    <2> HIDE DEF T, N
    <2> QED  BY <1>1, <2>1
  <1>5. PICK f : Good(N, f)
    BY <1>4
  <1>6. j + 1 - N = i
    OBVIOUS
  <1>7. f = [k \in i .. j + 1 |-> IF k = j + 1 THEN {<<>>} ELSE Joins(means, j, f, k)]
    BY <1>5, <1>6
  <1>8. C = [k \in i .. j + 1 |-> IF k = j + 1 THEN {<<>>} ELSE Joins(means, j, C, k)]
    BY <1>7, Zenon DEF Cuts, Joins
  <1> HIDE DEF C
  <1>9. j + 1 \in i .. j + 1 /\ \A k \in i .. j : k \in i .. j + 1 /\ k # j + 1
    OBVIOUS
  <1>10. C[j + 1] = {<<>>} /\ \A k \in i .. j : C[k] = Joins(means, j, C, k)
    BY <1>8, <1>9, Zenon
  <1> QED  BY <1>10 DEF C

\* A cut is an action for the characters up to some m, and a cut of the rest.
LEMMA CutsHas ==
  ASSUME NEW means, NEW i \in Nat, NEW j \in Nat, i <= j + 1, NEW k \in i .. j,
         NEW r \in Cuts(means, i, j)[k]
  PROVE  \E m, action, rest : Cut(means, j, Cuts(means, i, j), k, r, m, action, rest)
  <1>1. r \in Joins(means, j, Cuts(means, i, j), k)
    BY CutsDef
  <1> QED  BY <1>1, JoinsHas

\* A cut is made of an action and a cut of what follows it.
LEMMA CutsMade ==
  ASSUME NEW means, NEW i \in Nat, NEW j \in Nat, i <= j + 1, NEW k \in i .. j,
         NEW m \in k .. j, NEW action \in means[k][m], NEW rest \in Cuts(means, i, j)[m + 1]
  PROVE  <<action>> \o rest \in Cuts(means, i, j)[k]
  <1>1. Cut(means, j, Cuts(means, i, j), k, <<action>> \o rest, m, action, rest)
    BY DEF Cut
  <1>2. <<action>> \o rest \in Joins(means, j, Cuts(means, i, j), k)
    BY <1>1, JoinsMade
  <1>3. \A x \in i .. j : Cuts(means, i, j)[x] = Joins(means, j, Cuts(means, i, j), x)
    BY CutsDef
  <1> QED  BY <1>2, <1>3

-----------------------------------------------------------------------------
(* Texts and what they denote. *)

\* The characters of a piece of a source.
LEMMA Piece ==
  ASSUME NEW s \in Seq(STRING), NEW i \in Nat \ {0}, NEW j \in Nat, j <= Len(s), i <= j + 1
  PROVE  /\ SubSeq(s, i, j) \in Seq(STRING) /\ Len(SubSeq(s, i, j)) = j - i + 1
         /\ \A k \in 1 .. j - i + 1 : SubSeq(s, i, j)[k] = s[i + k - 1]
  OBVIOUS

\* The six clauses of Single.
LetterText(text, a) == /\ Len(text) = 1 /\ text[1] \in DOMAIN Printable \ Marks
                       /\ a = KeyAction(Printable[text[1]])
PairText(text, a) == \E c \in Marks : text = <<c, c>> /\ a = KeyAction(Printable[c])
EnterText(text, a) == /\ text \in {<<"\n">>, <<"\r", "\n">>}
                      /\ a = KeyAction(Key({}, NamedKeys.ENTER))
TabText(text, a) == text = <<"\t">> /\ a = KeyAction(Key({}, NamedKeys.TAB))

Inner(text)  == SubSeq(text, 2, Len(text) - 1)
Number(text) == SubSeq(Inner(text), Len(DelayPrefix) + 1, Len(Inner(text)))
Braced(text) == Len(text) > 2 /\ text[1] = "lbrace" /\ text[Len(text)] = "rbrace"

NamedText(text, a) == /\ Braced(text) /\ Inner(text) \in DOMAIN NameOf
                      /\ a = KeyAction(NamedDirective(NameOf[Inner(text)]))
DelayText(text, a) == /\ Braced(text) /\ StartsWith(Inner(text), DelayPrefix)
                      /\ Number(text) # <<>> /\ AllDigits(Number(text))
                      /\ Value(Number(text)) \in 1 .. DelayMax
                      /\ a = [NoAction EXCEPT !.type = "delay", !.delay = Value(Number(text))]

\* Single has the six clauses.
LEMMA SingleIs ==
  ASSUME NEW text, NEW a
  PROVE  a \in Single(text) <=> \/ LetterText(text, a) \/ PairText(text, a)
                                \/ EnterText(text, a) \/ TabText(text, a)
                                \/ NamedText(text, a) \/ DelayText(text, a)
  <1> DEFINE A == IF Len(text) = 1 /\ text[1] \in DOMAIN Printable \ Marks
                  THEN {KeyAction(Printable[text[1]])} ELSE {}
             B == {KeyAction(Printable[c]) : c \in {d \in Marks : text = <<d, d>>}}
             C == IF text \in {<<"\n">>, <<"\r", "\n">>}
                  THEN {KeyAction(Key({}, NamedKeys.ENTER))} ELSE {}
             D == IF text = <<"\t">> THEN {KeyAction(Key({}, NamedKeys.TAB))} ELSE {}
             E == IF Braced(text) /\ Inner(text) \in DOMAIN NameOf
                  THEN {KeyAction(NamedDirective(NameOf[Inner(text)]))} ELSE {}
             F == IF /\ Braced(text) /\ StartsWith(Inner(text), DelayPrefix)
                     /\ Number(text) # <<>> /\ AllDigits(Number(text))
                     /\ Value(Number(text)) \in 1 .. DelayMax
                  THEN {[NoAction EXCEPT !.type = "delay", !.delay = Value(Number(text))]}
                  ELSE {}
  <1>1. Single(text) = A \cup B \cup C \cup D \cup E \cup F
    BY Zenon DEF Single, Marks, Braced, Inner, Number, AllDigits
  <1>2. a \in A <=> LetterText(text, a)
    BY DEF LetterText
  <1>3. a \in B <=> PairText(text, a)
    BY DEF PairText
  <1>4. (a \in C <=> EnterText(text, a)) /\ (a \in D <=> TabText(text, a))
    BY DEF EnterText, TabText
  <1>5. a \in E <=> NamedText(text, a)
    BY DEF NamedText
  <1>6. a \in F <=> DelayText(text, a)
    BY DEF DelayText
  <1> HIDE DEF A, B, C, D, E, F
  <1> QED  BY <1>1, <1>2, <1>3, <1>4, <1>5, <1>6

\* What one key press or one delay looks like.
SingleAction(a) ==
  /\ a \in Action /\ a.type \in {"key", "delay"}
  /\ a.usages = <<>> \/ a.usages = <<a.usages[1]>>
  /\ a.type = "key" => a.delay = 0 /\ (a.usages # <<>> \/ a.modifiers # {})

\* What v2_key_action() makes.
LEMMA KeyActionType ==
  ASSUME NEW modifiers \in SUBSET Modifiers, NEW usage \in Nat, usage # 0 \/ modifiers # {}
  PROVE  SingleAction(KeyAction(Key(modifiers, usage)))
  <1> DEFINE a == KeyAction(Key(modifiers, usage))
  <1>1. /\ a.type = "key" /\ a.modifiers = modifiers /\ a.delay = 0
        /\ a.usages = IF usage = 0 THEN <<>> ELSE <<usage>>
    BY DEF KeyAction, Key
  <1>2. a = [type |-> "key", modifiers |-> modifiers,
             usages |-> IF usage = 0 THEN <<>> ELSE <<usage>>, delay |-> 0]
    BY DEF KeyAction, Key
  <1>3. (IF usage = 0 THEN <<>> ELSE <<usage>>) \in Seq(Nat)
    OBVIOUS
  <1>4. a \in Action
    BY <1>2, <1>3 DEF Action
  <1> HIDE DEF a
  <1>5. SingleAction(a)
    BY <1>1, <1>4 DEF SingleAction
  <1> QED  BY <1>5 DEF a

\* The action of a character that is typed as it is.
LEMMA PrintableAction ==
  ASSUME NEW c \in DOMAIN Printable
  PROVE  SingleAction(KeyAction(Printable[c]))
  <1> DEFINE row == CHOOSE row \in Rows : c \in Characters(row.keys)
  <1>1. Printable[c] = Key(row.modifiers, row.first - 1 + Place(row.keys, c))
    BY DEF Printable
  <1>2. PICK m, u : Printable[c] = Key(m, u)
    BY <1>1
  <1>3. m = Printable[c].modifiers /\ u = Printable[c].usage
    BY <1>2 DEF Key
  <1>4. u \in Nat /\ u # 0 /\ m \in SUBSET Modifiers
    BY <1>3, PrintableUsage DEF Modifiers
  <1> QED  BY <1>2, <1>4, KeyActionType

\* The action of a named directive.
LEMMA NamedAction ==
  ASSUME NEW text \in DOMAIN NameOf
  PROVE  SingleAction(KeyAction(NamedDirective(NameOf[text])))
  <1>1. NameOf[text] \in Modifiers \cup DOMAIN NamedKeys
    BY NameAssumption
  <1>2. CASE NameOf[text] \in Modifiers
    <2>1. {NameOf[text]} \in SUBSET Modifiers /\ 0 \in Nat /\ {NameOf[text]} # {}
      BY <1>2
    <2> QED  BY <1>2, <2>1, KeyActionType DEF NamedDirective
  <1>3. CASE NameOf[text] \notin Modifiers
    <2>1. /\ NamedKeys[NameOf[text]] \in Nat /\ NamedKeys[NameOf[text]] # 0
          /\ {} \in SUBSET Modifiers
      BY <1>1, <1>3, NamedUsages
    <2> QED  BY <1>3, <2>1, KeyActionType DEF NamedDirective
  <1> QED  BY <1>2, <1>3

\* The action of a line end or a tab.
LEMMA ControlAction ==
  /\ SingleAction(KeyAction(Key({}, NamedKeys.ENTER)))
  /\ SingleAction(KeyAction(Key({}, NamedKeys.TAB)))
  <1>1. {} \in SUBSET Modifiers /\ NamedKeys.ENTER = 40 /\ NamedKeys.TAB = 43
    BY DEF NamedKeys
  <1>2. /\ NamedKeys.ENTER \in Nat /\ NamedKeys.ENTER # 0
        /\ NamedKeys.TAB \in Nat /\ NamedKeys.TAB # 0
    BY <1>1
  <1> QED  BY <1>1, <1>2, KeyActionType

DelayOf(value) == [NoAction EXCEPT !.type = "delay", !.delay = value]

\* The action of a delay.
LEMMA DelayAction ==
  ASSUME NEW value \in Nat
  PROVE  /\ SingleAction(DelayOf(value)) /\ DelayOf(value).type = "delay"
         /\ DelayOf(value).usages = <<>> /\ DelayOf(value).modifiers = {}
  <1>0. DelayOf(value) \in [type : {"delay"}, modifiers : {{}}, usages : {<<>>}, delay : {value}]
    BY DEF DelayOf, NoAction
  <1>1. DelayOf(value) = [type |-> "delay", modifiers |-> {}, usages |-> <<>>, delay |-> value]
    BY <1>0
  <1>2. DelayOf(value) \in Action
    BY <1>1 DEF Action
  <1> QED  BY <1>1, <1>2 DEF SingleAction

\* All that Single gives is one key press or one delay.
LEMMA SingleType ==
  ASSUME NEW text, NEW a \in Single(text)
  PROVE  SingleAction(a)
  <1>1. \/ LetterText(text, a) \/ PairText(text, a) \/ EnterText(text, a) \/ TabText(text, a)
        \/ NamedText(text, a) \/ DelayText(text, a)
    BY SingleIs
  <1>2. CASE LetterText(text, a)
    BY <1>2, PrintableAction DEF LetterText
  <1>3. CASE PairText(text, a)
    BY <1>3, PrintableAction, MarksPrintable DEF PairText
  <1>4. CASE EnterText(text, a) \/ TabText(text, a)
    BY <1>4, ControlAction DEF EnterText, TabText
  <1>5. CASE NamedText(text, a)
    BY <1>5, NamedAction DEF NamedText
  <1>6. CASE DelayText(text, a)
    <2>1. a = DelayOf(Value(Number(text))) /\ Value(Number(text)) \in 1 .. DelayMax
      BY <1>6 DEF DelayText, DelayOf
    <2>2. Value(Number(text)) \in Nat
      BY <2>1, LimitAssumption
    <2> QED  BY <2>1, <2>2, DelayAction
  <1> QED  BY <1>1, <1>2, <1>3, <1>4, <1>5, <1>6

-----------------------------------------------------------------------------
(* Directives. *)

Errors == {"NONE", "MACRO_SYNTAX", "MACRO_LIMIT"}

\* The text between the braces of a directive.
LEMMA BracedPiece ==
  ASSUME NEW s \in Seq(STRING), NEW i \in 1 .. Len(s), NEW j \in i .. Len(s)
  PROVE  /\ Braced(SubSeq(s, i, j)) <=> j > i + 1 /\ s[i] = "lbrace" /\ s[j] = "rbrace"
         /\ j > i => Inner(SubSeq(s, i, j)) = SubSeq(s, i + 1, j - 1)
  <1> DEFINE text == SubSeq(s, i, j)
  <1>0. Len(s) \in Nat
    OBVIOUS
  <1>1. /\ text \in Seq(STRING) /\ Len(text) = j - i + 1
        /\ \A k \in 1 .. j - i + 1 : text[k] = s[i + k - 1]
    BY <1>0, Piece
  <1>2. text[1] = s[i] /\ text[j - i + 1] = s[j]
    BY <1>0, <1>1
  <1>3. Braced(text) <=> j > i + 1 /\ s[i] = "lbrace" /\ s[j] = "rbrace"
    <2> HIDE DEF text
    <2> QED  BY <1>0, <1>1, <1>2 DEF Braced
  <1>4. j > i => Inner(text) = SubSeq(s, i + 1, j - 1)
    <2>1. SUFFICES ASSUME j > i PROVE Inner(text) = SubSeq(s, i + 1, j - 1)
      OBVIOUS
    <2>2. 2 \in 1 .. j - i + 1 /\ j - i \in 1 .. j - i + 1 /\ i \in 1 .. Len(s) /\ j \in 1 .. Len(s)
      BY <1>0, <2>1
    <2>3. SubSeq(text, 2, j - i) = SubSeq(s, i + 2 - 1, i + (j - i) - 1)
      BY <2>2, SubSeqOfSubSeq
    <2>4. Len(text) - 1 = j - i /\ i + 2 - 1 = i + 1 /\ i + (j - i) - 1 = j - 1
      BY <1>0, <1>1
    <2> HIDE DEF text
    <2> QED  BY <2>3, <2>4 DEF Inner
  <1> QED  BY <1>3, <1>4

NumberIn(inner) == SubSeq(inner, Len(DelayPrefix) + 1, Len(inner))

NamedMeant(inner, a) == inner \in DOMAIN NameOf /\ a = KeyAction(NamedDirective(NameOf[inner]))
DelayMeant(inner, a) == /\ StartsWith(inner, DelayPrefix)
                        /\ NumberIn(inner) # <<>> /\ AllDigits(NumberIn(inner))
                        /\ Value(NumberIn(inner)) \in 1 .. DelayMax
                        /\ a = DelayOf(Value(NumberIn(inner)))

\* A text that begins like a delay, character by character.
LEMMA NumberFacts ==
  ASSUME NEW inner \in Seq(STRING), StartsWith(inner, DelayPrefix)
  PROVE  /\ Len(DelayPrefix) \in Nat /\ Len(DelayPrefix) <= Len(inner)
         /\ NumberIn(inner) \in Seq(STRING) /\ Len(NumberIn(inner)) = Len(inner) - Len(DelayPrefix)
         /\ \A k \in 1 .. Len(DelayPrefix) : inner[k] = DelayPrefix[k]
         /\ \A k \in Len(DelayPrefix) + 1 .. Len(inner) :
               inner[k] = NumberIn(inner)[k - Len(DelayPrefix)]
  <1> DEFINE p == Len(DelayPrefix)
  <1>1. p \in Nat /\ Len(inner) \in Nat /\ p <= Len(inner) /\ SubSeq(inner, 1, p) = DelayPrefix
    BY NameAssumption DEF StartsWith
  <1>2. \A k \in 1 .. p : SubSeq(inner, 1, p)[k] = inner[k]
    <2> HIDE DEF p
    <2>1. \A k \in 1 .. p - 1 + 1 : SubSeq(inner, 1, p)[k] = inner[1 + k - 1]
      BY <1>1, Piece
    <2> QED  BY <1>1, <2>1
  <1>3. /\ NumberIn(inner) \in Seq(STRING) /\ Len(NumberIn(inner)) = Len(inner) - p
        /\ \A k \in 1 .. Len(inner) - p : NumberIn(inner)[k] = inner[p + k]
    <2> HIDE DEF p
    <2>1. p + 1 \in Nat \ {0} /\ p + 1 <= Len(inner) + 1
      BY <1>1
    <2>2. /\ SubSeq(inner, p + 1, Len(inner)) \in Seq(STRING)
          /\ Len(SubSeq(inner, p + 1, Len(inner))) = Len(inner) - (p + 1) + 1
          /\ \A k \in 1 .. Len(inner) - (p + 1) + 1 :
                SubSeq(inner, p + 1, Len(inner))[k] = inner[(p + 1) + k - 1]
      BY <1>1, <2>1, Piece
    <2>3. NumberIn(inner) = SubSeq(inner, p + 1, Len(inner))
      BY DEF NumberIn, p
    <2>4. Len(inner) - (p + 1) + 1 = Len(inner) - p
      BY <1>1
    <2> HIDE DEF NumberIn
    <2>5. \A k \in 1 .. Len(inner) - p : NumberIn(inner)[k] = inner[(p + 1) + k - 1]
      BY <2>2, <2>3, <2>4
    <2>6. NumberIn(inner) \in Seq(STRING) /\ Len(NumberIn(inner)) = Len(inner) - p
      BY <2>2, <2>3, <2>4
    <2>7. \A k \in Nat : (p + 1) + k - 1 = p + k
      BY <1>1
    <2>8. \A k \in 1 .. Len(inner) - p : NumberIn(inner)[k] = inner[p + k]
      BY <2>5, <2>7
    <2> QED  BY <2>6, <2>8
  <1> HIDE DEF p, NumberIn
  <1>4. \A k \in p + 1 .. Len(inner) : inner[k] = NumberIn(inner)[k - p]
    <2>1. ASSUME NEW k \in p + 1 .. Len(inner)
          PROVE  inner[k] = NumberIn(inner)[k - p]
      <3>1. k - p \in 1 .. Len(inner) - p /\ p + (k - p) = k
        BY <1>1
      <3> QED  BY <1>3, <3>1
    <2> QED  BY <2>1
  <1> QED  BY <1>1, <1>2, <1>3, <1>4 DEF p

\* What a directive says is spelled with characters that it may have.
LEMMA MeantIsSpelled ==
  ASSUME NEW inner \in Seq(STRING), NEW a, NamedMeant(inner, a) \/ DelayMeant(inner, a)
  PROVE  inner # <<>> /\ \A k \in DOMAIN inner : ~InvalidInDirective(inner[k])
  <1>1. CASE NamedMeant(inner, a)
    <2>1. Len(inner) \in 1 .. DirectiveBytes - 1 /\ \A k \in DOMAIN inner : ~InvalidInDirective(inner[k])
      BY <1>1, NameAssumption DEF NamedMeant
    <2> QED  BY <2>1
  <1>2. CASE DelayMeant(inner, a)
    <2> DEFINE p == Len(DelayPrefix)
               number == NumberIn(inner)
    <2>1. /\ p \in Nat /\ p <= Len(inner) /\ Len(inner) \in Nat
          /\ number \in Seq(STRING) /\ Len(number) = Len(inner) - p
          /\ \A k \in 1 .. p : inner[k] = DelayPrefix[k]
          /\ \A k \in p + 1 .. Len(inner) : inner[k] = number[k - p]
      BY <1>2, NumberFacts DEF DelayMeant
    <2>2. number # <<>> /\ AllDigits(number)
      BY <1>2 DEF DelayMeant
    <2>3. DOMAIN inner = 1 .. Len(inner) /\ DOMAIN DelayPrefix = 1 .. p
      BY NameAssumption
    <2> HIDE DEF p, number
    <2>4. DOMAIN number = 1 .. Len(inner) - p /\ Len(number) # 0
      BY <2>1, <2>2
    <2>5. ASSUME NEW k \in 1 .. Len(inner)
          PROVE  ~InvalidInDirective(inner[k])
      <3>1. CASE k <= p
        <4>1. k \in 1 .. p
          BY <2>1, <3>1
        <4>2. ~InvalidInDirective(DelayPrefix[k])
          BY <2>3, <4>1, NameAssumption
        <4> QED  BY <2>1, <4>1, <4>2
      <3>2. CASE k > p
        <4>1. k \in p + 1 .. Len(inner) /\ k - p \in DOMAIN number
          BY <2>1, <2>4, <3>2
        <4>2. ~InvalidInDirective(number[k - p])
          BY <2>2, <4>1, DigitFacts DEF AllDigits
        <4> QED  BY <2>1, <4>1, <4>2
      <3> QED  BY <2>1, <3>1, <3>2
    <2>6. Len(inner) # 0
      BY <2>1, <2>4
    <2> QED  BY <2>3, <2>5, <2>6
  <1> QED  BY <1>1, <1>2

\* v2_parse_directive() takes what means something and fits the buffer, no more.
LEMMA DirectiveRead ==
  ASSUME NEW inner \in Seq(STRING), NEW consumed
  PROVE  LET token == ParseDirective(inner, consumed)
         IN  /\ token.error \in Errors
             /\ token.error = "NONE" =>
                  /\ token.consumed = consumed /\ inner # <<>>
                  /\ NamedMeant(inner, token.action) \/ DelayMeant(inner, token.action)
             /\ \A a : /\ NamedMeant(inner, a) \/ DelayMeant(inner, a)
                       /\ Len(inner) < DirectiveBytes
                       => token = Ok(a, consumed)
  <1> DEFINE token == ParseDirective(inner, consumed)
             number == NumberIn(inner)
             spelled == /\ inner # <<>> /\ Len(inner) < DirectiveBytes
                        /\ \A k \in DOMAIN inner : ~InvalidInDirective(inner[k])
  <1>0. Len(inner) \in Nat /\ DirectiveBytes \in Nat
    BY LimitAssumption
  <1>1. token = IF ~spelled THEN Fail("MACRO_SYNTAX")
                ELSE IF StartsWith(inner, DelayPrefix) THEN ParseDelay(number, consumed)
                ELSE IF inner \in DOMAIN NameOf
                THEN Ok(KeyAction(NamedDirective(NameOf[inner])), consumed)
                ELSE Fail("MACRO_SYNTAX")
    <2>1. spelled <=> ~(\/ inner = <<>> \/ Len(inner) >= DirectiveBytes
                        \/ \E k \in DOMAIN inner : InvalidInDirective(inner[k]))
      BY <1>0
    <2> HIDE DEF spelled
    <2> QED  BY <2>1 DEF ParseDirective, NumberIn
  <1>2. ASSUME NEW a, NamedMeant(inner, a) \/ DelayMeant(inner, a), Len(inner) < DirectiveBytes
        PROVE  spelled
    BY <1>2, MeantIsSpelled
  <1>3. CASE ~spelled
    <2> HIDE DEF spelled
    <2> QED  BY <1>1, <1>2, <1>3 DEF Fail, Errors
  <1>4. CASE spelled /\ StartsWith(inner, DelayPrefix)
    <2>1. number \in Seq(STRING)
      BY <1>4, NumberFacts
    <2> DEFINE good == number # <<>> /\ AllDigits(number) /\ Value(number) \in 1 .. DelayMax
    <2>2. token = ParseDelay(number, consumed)
      BY <1>1, <1>4
    <2>3. /\ good => token = Ok(DelayOf(Value(number)), consumed)
          /\ ~good => token.error \in {"MACRO_SYNTAX", "MACRO_LIMIT"}
      BY <2>1, <2>2, DelayParsed DEF DelayOf
    <2>4. \A a : ~NamedMeant(inner, a)
      BY <1>4, NameAssumption DEF NamedMeant
    <2>5. \A a : DelayMeant(inner, a) <=> good /\ a = DelayOf(Value(number))
      BY <1>4 DEF DelayMeant
    <2>6. inner # <<>>
      BY <1>4
    <2> HIDE DEF good, token, number, spelled
    <2>7. CASE good
      BY <2>3, <2>4, <2>5, <2>6, <2>7 DEF Ok, Errors, token
    <2>8. CASE ~good
      BY <2>3, <2>4, <2>5, <2>8 DEF Errors, token
    <2> QED  BY <2>7, <2>8
  <1>5. CASE spelled /\ ~StartsWith(inner, DelayPrefix)
    <2>1. token = IF inner \in DOMAIN NameOf
                  THEN Ok(KeyAction(NamedDirective(NameOf[inner])), consumed)
                  ELSE Fail("MACRO_SYNTAX")
      BY <1>1, <1>5
    <2>2. \A a : ~DelayMeant(inner, a)
      BY <1>5 DEF DelayMeant
    <2>3. inner # <<>>
      BY <1>5
    <2> HIDE DEF token, spelled
    <2>4. CASE inner \in DOMAIN NameOf
      BY <2>1, <2>2, <2>3, <2>4 DEF NamedMeant, Ok, Errors, token
    <2>5. CASE inner \notin DOMAIN NameOf
      BY <2>1, <2>2, <2>5 DEF NamedMeant, Fail, Errors, token
    <2> QED  BY <2>4, <2>5
  <1> QED  BY <1>3, <1>4, <1>5

-----------------------------------------------------------------------------
(* One token that is not a bracket. *)

\* The token at i: no other text from there on means anything, when directives fit.
Reads(s, i, token) ==
  /\ token.error \in Errors
  /\ token.error = "NONE" =>
       /\ token.consumed \in 1 .. Len(s) + 1 - i
       /\ token.action \in Single(SubSeq(s, i, i + token.consumed - 1))
  /\ ~LongDirective(s) =>
       \A j \in i .. Len(s) : \A a \in Single(SubSeq(s, i, j)) : token = Ok(a, j - i + 1)

\* What the texts from i to j may be, seen from the characters.
LEMMA SingleFrom ==
  ASSUME NEW s \in Seq(STRING), NEW i \in 1 .. Len(s), NEW j \in i .. Len(s), NEW a
  PROVE  /\ LetterText(SubSeq(s, i, j), a) <=>
              j = i /\ s[i] \in DOMAIN Printable \ Marks /\ a = KeyAction(Printable[s[i]])
         /\ PairText(SubSeq(s, i, j), a) <=>
              /\ j = i + 1 /\ s[i] \in Marks /\ s[j] = s[i] /\ a = KeyAction(Printable[s[i]])
         /\ EnterText(SubSeq(s, i, j), a) <=>
              /\ a = KeyAction(Key({}, NamedKeys.ENTER))
              /\ \/ j = i /\ s[i] = "\n"
                 \/ j = i + 1 /\ s[i] = "\r" /\ s[j] = "\n"
         /\ TabText(SubSeq(s, i, j), a) <=>
              j = i /\ s[i] = "\t" /\ a = KeyAction(Key({}, NamedKeys.TAB))
         /\ NamedText(SubSeq(s, i, j), a) <=>
              /\ j > i + 1 /\ s[i] = "lbrace" /\ s[j] = "rbrace"
              /\ NamedMeant(SubSeq(s, i + 1, j - 1), a)
         /\ DelayText(SubSeq(s, i, j), a) <=>
              /\ j > i + 1 /\ s[i] = "lbrace" /\ s[j] = "rbrace"
              /\ DelayMeant(SubSeq(s, i + 1, j - 1), a)
  <1> DEFINE text == SubSeq(s, i, j)
  <1>0. Len(s) \in Nat
    OBVIOUS
  <1>1. /\ text \in Seq(STRING) /\ Len(text) = j - i + 1
        /\ \A k \in 1 .. j - i + 1 : text[k] = s[i + k - 1]
    BY <1>0, Piece
  <1>2. /\ Braced(text) <=> j > i + 1 /\ s[i] = "lbrace" /\ s[j] = "rbrace"
        /\ j > i => Inner(text) = SubSeq(s, i + 1, j - 1)
    BY BracedPiece
  <1>3. text[1] = s[i]
    BY <1>0, <1>1
  <1>4. j = i + 1 => text[2] = s[j]
    BY <1>0, <1>1
  <1> HIDE DEF text
  <1>5. ASSUME NEW c
        PROVE  text = <<c>> <=> j = i /\ s[i] = c
    <2>1. text = <<c>> => j = i /\ s[i] = c
      BY <1>0, <1>1, <1>3
    <2>2. ASSUME j = i, s[i] = c
          PROVE  text = <<c>>
      <3>1. <<c>> \in Seq(STRING) /\ Len(<<c>>) = 1 /\ Len(text) = 1
        BY <1>0, <1>1, <2>2
      <3>2. \A k \in 1 .. Len(text) : text[k] = <<c>>[k]
        BY <1>3, <2>2, <3>1
      <3> QED  BY <1>1, <3>1, <3>2, SeqEqual
    <2> QED  BY <2>1, <2>2
  <1>6. ASSUME NEW c, NEW d
        PROVE  text = <<c, d>> <=> j = i + 1 /\ s[i] = c /\ s[j] = d
    <2>1. text = <<c, d>> => j = i + 1 /\ s[i] = c /\ s[j] = d
      BY <1>0, <1>1, <1>3, <1>4
    <2>2. ASSUME j = i + 1, s[i] = c, s[j] = d
          PROVE  text = <<c, d>>
      <3>1. <<c, d>> \in Seq(STRING) /\ Len(<<c, d>>) = 2 /\ Len(text) = 2
        BY <1>0, <1>1, <2>2
      <3>2. \A k \in 1 .. Len(text) : text[k] = <<c, d>>[k]
        BY <1>3, <1>4, <2>2, <3>1
      <3> QED  BY <1>1, <3>1, <3>2, SeqEqual
    <2> QED  BY <2>1, <2>2
  <1>7. LetterText(text, a) <=>
          j = i /\ s[i] \in DOMAIN Printable \ Marks /\ a = KeyAction(Printable[s[i]])
    BY <1>0, <1>1, <1>3 DEF LetterText
  <1>8. PairText(text, a) <=>
          /\ j = i + 1 /\ s[i] \in Marks /\ s[j] = s[i] /\ a = KeyAction(Printable[s[i]])
    BY <1>6, Zenon DEF PairText
  <1>9. EnterText(text, a) <=> /\ a = KeyAction(Key({}, NamedKeys.ENTER))
                               /\ \/ j = i /\ s[i] = "\n"
                                  \/ j = i + 1 /\ s[i] = "\r" /\ s[j] = "\n"
    BY <1>5, <1>6, Zenon DEF EnterText
  <1>10. TabText(text, a) <=> j = i /\ s[i] = "\t" /\ a = KeyAction(Key({}, NamedKeys.TAB))
    BY <1>5, Zenon DEF TabText
  <1>11. Braced(text) => Inner(text) = SubSeq(s, i + 1, j - 1)
    BY <1>0, <1>2
  <1>12. NamedText(text, a) <=> /\ j > i + 1 /\ s[i] = "lbrace" /\ s[j] = "rbrace"
                                /\ NamedMeant(SubSeq(s, i + 1, j - 1), a)
    BY <1>2, <1>11, Zenon DEF NamedText, NamedMeant
  <1>13. DelayText(text, a) <=> /\ j > i + 1 /\ s[i] = "lbrace" /\ s[j] = "rbrace"
                                /\ DelayMeant(SubSeq(s, i + 1, j - 1), a)
    BY <1>2, <1>11, Zenon DEF DelayText, DelayMeant, Number, NumberIn, DelayOf
  <1> QED  BY <1>7, <1>8, <1>9, <1>10, <1>12, <1>13 DEF text

\* v2_parse_open_brace()
LEMMA OpenBraceRead ==
  ASSUME NEW s \in Seq(STRING), NEW i \in 1 .. Len(s), s[i] = "lbrace"
  PROVE  Reads(s, i, OpenBrace(s, i))
  <1> DEFINE closings == {j \in i + 1 .. Len(s) : s[j] = "rbrace"}
             closing == CHOOSE j \in closings : \A k \in closings : j <= k
             text == SubSeq(s, i + 1, closing - 1)
             token == OpenBrace(s, i)
  <1>0. Len(s) \in Nat /\ i \in Nat /\ i <= Len(s) /\ DOMAIN s = 1 .. Len(s)
    OBVIOUS
  <1>1. token = IF Doubled(s, i) THEN Ok(KeyAction(Printable["lbrace"]), 2)
                ELSE IF closings = {} THEN Fail("MACRO_SYNTAX")
                ELSE ParseDirective(text, closing - i + 1)
    BY DEF OpenBrace
  <1>2. closings # {} => closing \in closings /\ \A k \in closings : closing <= k
    <2>1. closings \in SUBSET Nat
      BY <1>0
    <2> HIDE DEF closings
    <2>2. closings # {} => \E j \in closings : \A k \in closings : j <= k
      BY <2>1, Smallest
    <2> QED  BY <2>2
  \* A directive ends at the first closing brace.
  <1>3. ASSUME NEW j \in i .. Len(s), NEW a \in Single(SubSeq(s, i, j))
        PROVE  \/ Doubled(s, i) /\ j = i + 1 /\ a = KeyAction(Printable["lbrace"])
               \/ /\ ~Doubled(s, i) /\ closings # {} /\ j = closing
                  /\ NamedMeant(text, a) \/ DelayMeant(text, a)
    <2>1. \/ LetterText(SubSeq(s, i, j), a) \/ PairText(SubSeq(s, i, j), a)
          \/ EnterText(SubSeq(s, i, j), a) \/ TabText(SubSeq(s, i, j), a)
          \/ NamedText(SubSeq(s, i, j), a) \/ DelayText(SubSeq(s, i, j), a)
      BY <1>3, SingleIs
    <2> DEFINE inner == SubSeq(s, i + 1, j - 1)
    <2>2. \/ j = i + 1 /\ s[j] = s[i] /\ a = KeyAction(Printable["lbrace"])
          \/ /\ j > i + 1 /\ s[j] = "rbrace"
             /\ NamedMeant(inner, a) \/ DelayMeant(inner, a)
      <3>1. ~LetterText(SubSeq(s, i, j), a)
        BY SingleFrom DEF Marks
      <3>2. ~EnterText(SubSeq(s, i, j), a) /\ ~TabText(SubSeq(s, i, j), a)
        BY SingleFrom
      <3>3. PairText(SubSeq(s, i, j), a) => j = i + 1 /\ s[j] = s[i] /\ a = KeyAction(Printable["lbrace"])
        BY SingleFrom
      <3>4. /\ NamedText(SubSeq(s, i, j), a) => j > i + 1 /\ s[j] = "rbrace" /\ NamedMeant(inner, a)
            /\ DelayText(SubSeq(s, i, j), a) => j > i + 1 /\ s[j] = "rbrace" /\ DelayMeant(inner, a)
        BY SingleFrom
      <3> QED  BY <2>1, <3>1, <3>2, <3>3, <3>4
    <2>3. CASE j = i + 1 /\ s[j] = s[i] /\ a = KeyAction(Printable["lbrace"])
      BY <1>0, <2>3 DEF Doubled
    <2>4. CASE /\ j > i + 1 /\ s[j] = "rbrace"
               /\ NamedMeant(inner, a) \/ DelayMeant(inner, a)
      <3>1. /\ inner \in Seq(STRING) /\ Len(inner) = j - 1 - (i + 1) + 1
            /\ \A k \in 1 .. j - 1 - (i + 1) + 1 : inner[k] = s[(i + 1) + k - 1]
        BY <1>0, <2>4, Piece
      <3> HIDE DEF inner
      <3>2. inner # <<>> /\ \A k \in DOMAIN inner : ~InvalidInDirective(inner[k])
        BY <2>4, <3>1, MeantIsSpelled
      <3>3. \A k \in i + 1 .. j - 1 : ~InvalidInDirective(s[k])
        <4>1. ASSUME NEW k \in i + 1 .. j - 1
              PROVE  ~InvalidInDirective(s[k])
          <5>1. k - i \in 1 .. j - 1 - (i + 1) + 1 /\ (i + 1) + (k - i) - 1 = k
            BY <1>0
          <5>2. inner[k - i] = s[k] /\ k - i \in DOMAIN inner
            BY <3>1, <5>1
          <5> QED  BY <3>2, <5>2
        <4> QED  BY <4>1
      <3>4. InvalidInDirective("lbrace") /\ InvalidInDirective("rbrace")
        BY DEF InvalidInDirective
      <3>5. i + 1 \in i + 1 .. j - 1 /\ s[i + 1] # "lbrace"
        BY <1>0, <2>4, <3>3, <3>4
      <3>6. j \in closings /\ \A k \in i + 1 .. j - 1 : s[k] # "rbrace"
        BY <1>0, <2>4, <3>3, <3>4
      <3>7. closing = j
        <4>1. closing \in i + 1 .. Len(s) /\ s[closing] = "rbrace" /\ closing <= j
          BY <1>2, <3>6
        <4> HIDE DEF closing, closings
        <4> QED  BY <1>0, <3>6, <4>1
      <3>8. inner = text
        BY <3>7 DEF inner
      <3> HIDE DEF closing, closings, text
      <3> QED  BY <2>4, <3>5, <3>6, <3>7, <3>8 DEF Doubled
    <2> QED  BY <2>2, <2>3, <2>4
  <1>4. CASE Doubled(s, i)
    <2>1. token = Ok(KeyAction(Printable["lbrace"]), 2)
      BY <1>1, <1>4
    <2>2. i + 1 \in i .. Len(s) /\ s[i + 1] = "lbrace"
      BY <1>0, <1>4 DEF Doubled
    <2>3. PairText(SubSeq(s, i, i + 1), KeyAction(Printable["lbrace"]))
      BY <2>2, SingleFrom DEF Marks
    <2>4. KeyAction(Printable["lbrace"]) \in Single(SubSeq(s, i, i + 1))
      BY <2>3, SingleIs
    <2>5. \A j \in i .. Len(s) : \A a \in Single(SubSeq(s, i, j)) : token = Ok(a, j - i + 1)
      <3>1. ASSUME NEW j \in i .. Len(s), NEW a \in Single(SubSeq(s, i, j))
            PROVE  token = Ok(a, j - i + 1)
        <4>1. j = i + 1 /\ a = KeyAction(Printable["lbrace"])
          BY <1>3, <1>4, <3>1
        <4>2. j - i + 1 = 2
          BY <1>0, <4>1
        <4> QED  BY <2>1, <4>1, <4>2
      <3> QED  BY <3>1
    <2>6. 2 \in 1 .. Len(s) + 1 - i /\ i + 2 - 1 = i + 1
      BY <1>0, <2>2
    <2> HIDE DEF token
    <2>7. token.error = "NONE" /\ token.consumed = 2 /\ token.action = KeyAction(Printable["lbrace"])
      BY <2>1 DEF Ok
    <2> QED  BY <2>4, <2>5, <2>6, <2>7 DEF Reads, Errors, token
  <1>5. CASE ~Doubled(s, i) /\ closings = {}
    <2>1. token = Fail("MACRO_SYNTAX")
      BY <1>1, <1>5
    <2>2. \A j \in i .. Len(s) : \A a \in Single(SubSeq(s, i, j)) : FALSE
      BY <1>3, <1>5
    <2> HIDE DEF token
    <2> QED  BY <2>1, <2>2 DEF Reads, Errors, Fail, token
  <1>6. CASE ~Doubled(s, i) /\ closings # {}
    <2>1. token = ParseDirective(text, closing - i + 1)
      BY <1>1, <1>6
    <2>2. closing \in i + 1 .. Len(s) /\ s[closing] = "rbrace" /\ \A k \in i + 1 .. closing - 1 : s[k] # "rbrace"
      BY <1>0, <1>2, <1>6
    <2>3. \A j \in i .. Len(s) : \A a \in Single(SubSeq(s, i, j)) :
             j = closing /\ (NamedMeant(text, a) \/ DelayMeant(text, a))
      BY <1>3, <1>6
    <2> HIDE DEF closing, closings
    <2>4. /\ text \in Seq(STRING) /\ Len(text) = closing - 1 - (i + 1) + 1
      BY <1>0, <2>2, Piece
    <2>5. Len(text) = closing - 1 - i
      BY <1>0, <2>2, <2>4
    <2> HIDE DEF text, token
    <2>6. /\ token.error \in Errors
          /\ token.error = "NONE" =>
               /\ token.consumed = closing - i + 1 /\ text # <<>>
               /\ NamedMeant(text, token.action) \/ DelayMeant(text, token.action)
          /\ \A a : /\ NamedMeant(text, a) \/ DelayMeant(text, a)
                    /\ Len(text) < DirectiveBytes
                    => token = Ok(a, closing - i + 1)
      BY <2>1, <2>4, DirectiveRead
    <2>7. ASSUME token.error = "NONE"
          PROVE  /\ token.consumed \in 1 .. Len(s) + 1 - i
                 /\ token.action \in Single(SubSeq(s, i, i + token.consumed - 1))
      <3>1. closing > i + 1 /\ closing \in i .. Len(s)
        <4>1. Len(text) # 0
          BY <2>4, <2>6, <2>7
        <4> QED  BY <1>0, <2>2, <2>5, <4>1
      <3>2. token.consumed = closing - i + 1 /\ i + token.consumed - 1 = closing
        BY <1>0, <2>2, <2>6, <2>7
      <3>3. NamedMeant(text, token.action) \/ DelayMeant(text, token.action)
        BY <2>6, <2>7
      <3>4. NamedText(SubSeq(s, i, closing), token.action) \/ DelayText(SubSeq(s, i, closing), token.action)
        BY <2>2, <3>1, <3>3, SingleFrom DEF text
      <3>5. token.action \in Single(SubSeq(s, i, closing))
        BY <3>4, SingleIs
      <3> QED  BY <1>0, <3>1, <3>2, <3>5
    <2>8. ASSUME ~LongDirective(s), NEW j \in i .. Len(s), NEW a \in Single(SubSeq(s, i, j))
          PROVE  token = Ok(a, j - i + 1)
      <3>1. ~(closing > i + DirectiveBytes)
        <4>1. i \in DOMAIN s /\ closing \in DOMAIN s
          BY <1>0, <2>2
        <4> QED  BY <2>2, <2>8, <4>1 DEF LongDirective
      <3>2. Len(text) < DirectiveBytes
        BY <1>0, <2>2, <2>5, <3>1, LimitAssumption
      <3>3. j = closing /\ (NamedMeant(text, a) \/ DelayMeant(text, a))
        BY <2>3, <2>8
      <3> QED  BY <2>6, <3>2, <3>3
    <2>9. Reads(s, i, token)
      BY <2>6, <2>7, <2>8 DEF Reads
    <2> QED  BY <2>9 DEF token
  <1> QED  BY <1>4, <1>5, <1>6

\* A doubled mark is the mark.
LEMMA PairRead ==
  ASSUME NEW s \in Seq(STRING), NEW i \in 1 .. Len(s), s[i] \in Marks, Doubled(s, i)
  PROVE  i + 1 \in i .. Len(s) /\ KeyAction(Printable[s[i]]) \in Single(SubSeq(s, i, i + 1))
  <1>1. i + 1 \in i .. Len(s) /\ s[i + 1] = s[i]
    BY DEF Doubled
  <1>2. PairText(SubSeq(s, i, i + 1), KeyAction(Printable[s[i]]))
    BY <1>1, SingleFrom
  <1> QED  BY <1>1, <1>2, SingleIs

\* A single character.
LEMMA OneCharacter ==
  ASSUME NEW s \in Seq(STRING), NEW i \in 1 .. Len(s), NEW a,
         a \in Single(SubSeq(s, i, i)),
         \A j \in i .. Len(s) : \A b \in Single(SubSeq(s, i, j)) : j = i /\ b = a
  PROVE  Reads(s, i, Ok(a, 1))
  <1>1. 1 \in 1 .. Len(s) + 1 - i /\ i + 1 - 1 = i
    OBVIOUS
  <1>2. Ok(a, 1).error = "NONE" /\ Ok(a, 1).consumed = 1 /\ Ok(a, 1).action = a
    BY DEF Ok
  <1>3. \A j \in i .. Len(s) : \A b \in Single(SubSeq(s, i, j)) : Ok(a, 1) = Ok(b, j - i + 1)
    <2>1. ASSUME NEW j \in i .. Len(s), NEW b \in Single(SubSeq(s, i, j))
          PROVE  Ok(a, 1) = Ok(b, j - i + 1)
      <3>1. j = i /\ b = a /\ j - i + 1 = 1
        BY <2>1
      <3> QED  BY <3>1
    <2> QED  BY <2>1
  <1> QED  BY <1>1, <1>2, <1>3 DEF Reads, Errors

\* Two characters.
LEMMA TwoCharacters ==
  ASSUME NEW s \in Seq(STRING), NEW i \in 1 .. Len(s), NEW a, i + 1 <= Len(s),
         a \in Single(SubSeq(s, i, i + 1)),
         \A j \in i .. Len(s) : \A b \in Single(SubSeq(s, i, j)) : j = i + 1 /\ b = a
  PROVE  Reads(s, i, Ok(a, 2))
  <1>1. 2 \in 1 .. Len(s) + 1 - i /\ i + 2 - 1 = i + 1
    OBVIOUS
  <1>2. Ok(a, 2).error = "NONE" /\ Ok(a, 2).consumed = 2 /\ Ok(a, 2).action = a
    BY DEF Ok
  <1>3. \A j \in i .. Len(s) : \A b \in Single(SubSeq(s, i, j)) : Ok(a, 2) = Ok(b, j - i + 1)
    <2>1. ASSUME NEW j \in i .. Len(s), NEW b \in Single(SubSeq(s, i, j))
          PROVE  Ok(a, 2) = Ok(b, j - i + 1)
      <3>1. j = i + 1 /\ b = a /\ j - i + 1 = 2
        BY <2>1
      <3> QED  BY <3>1
    <2> QED  BY <2>1
  <1> QED  BY <1>1, <1>2, <1>3 DEF Reads, Errors

\* No text means anything.
LEMMA NoCharacters ==
  ASSUME NEW s, NEW i, \A j \in i .. Len(s) : \A b \in Single(SubSeq(s, i, j)) : FALSE
  PROVE  Reads(s, i, Fail("MACRO_SYNTAX"))
  BY DEF Reads, Fail, Errors

\* v2_parse_non_bracket_token()
LEMMA NonBracketRead ==
  ASSUME NEW s \in Seq(STRING), NEW i \in 1 .. Len(s), s[i] \notin {"[", "]"}
  PROVE  Reads(s, i, NonBracketToken(s, i))
  <1> DEFINE c == s[i]
             token == NonBracketToken(s, i)
  <1>0. Len(s) \in Nat /\ i \in Nat /\ i <= Len(s) /\ i \in i .. Len(s)
    OBVIOUS
  <1>1. ASSUME NEW j \in i .. Len(s), NEW a
        PROVE  a \in Single(SubSeq(s, i, j)) <=>
                 \/ LetterText(SubSeq(s, i, j), a) \/ PairText(SubSeq(s, i, j), a)
                 \/ EnterText(SubSeq(s, i, j), a) \/ TabText(SubSeq(s, i, j), a)
                 \/ NamedText(SubSeq(s, i, j), a) \/ DelayText(SubSeq(s, i, j), a)
    BY SingleIs
  <1>2. ASSUME NEW j \in i .. Len(s), NEW a, c # "lbrace"
        PROVE  a \in Single(SubSeq(s, i, j)) <=>
          \/ j = i /\ c \in DOMAIN Printable \ Marks /\ a = KeyAction(Printable[c])
          \/ j = i + 1 /\ c \in Marks /\ s[j] = c /\ a = KeyAction(Printable[c])
          \/ /\ a = KeyAction(Key({}, NamedKeys.ENTER))
             /\ \/ j = i /\ c = "\n"
                \/ j = i + 1 /\ c = "\r" /\ s[j] = "\n"
          \/ j = i /\ c = "\t" /\ a = KeyAction(Key({}, NamedKeys.TAB))
    <2>1. ~NamedText(SubSeq(s, i, j), a) /\ ~DelayText(SubSeq(s, i, j), a)
      BY <1>2, SingleFrom
    <2>2. LetterText(SubSeq(s, i, j), a) <=>
            j = i /\ c \in DOMAIN Printable \ Marks /\ a = KeyAction(Printable[c])
      BY SingleFrom
    <2>3. PairText(SubSeq(s, i, j), a) <=>
            j = i + 1 /\ c \in Marks /\ s[j] = c /\ a = KeyAction(Printable[c])
      BY SingleFrom
    <2>4. EnterText(SubSeq(s, i, j), a) <=> /\ a = KeyAction(Key({}, NamedKeys.ENTER))
             /\ \/ j = i /\ c = "\n"
                \/ j = i + 1 /\ c = "\r" /\ s[j] = "\n"
      BY SingleFrom
    <2>5. TabText(SubSeq(s, i, j), a) <=> j = i /\ c = "\t" /\ a = KeyAction(Key({}, NamedKeys.TAB))
      BY SingleFrom
    <2> HIDE DEF c
    <2> QED  BY <1>1, <2>1, <2>2, <2>3, <2>4, <2>5
  <1>3. CASE c = "lbrace"
    <2>1. token = OpenBrace(s, i)
      BY <1>3, MarksPrintable, ControlsNotPrintable DEF NonBracketToken, Marks
    <2> QED  BY <1>3, <2>1, OpenBraceRead
  <1>4. CASE c = "rbrace"
    <2>1. token = IF Doubled(s, i) THEN Ok(KeyAction(Printable["rbrace"]), 2)
                  ELSE Fail("MACRO_SYNTAX")
      BY <1>4, MarksPrintable, ControlsNotPrintable DEF NonBracketToken, Marks
    <2>2. \A j \in i .. Len(s) : \A a \in Single(SubSeq(s, i, j)) :
             j = i + 1 /\ s[j] = c /\ a = KeyAction(Printable["rbrace"])
      <3>1. "rbrace" \in Marks
        BY DEF Marks
      <3> HIDE DEF c
      <3> QED  BY <1>2, <1>4, <3>1
    <2>3. CASE Doubled(s, i)
      <3>1. i + 1 <= Len(s) /\ KeyAction(Printable["rbrace"]) \in Single(SubSeq(s, i, i + 1))
        BY <1>0, <1>4, <2>3, PairRead DEF Marks
      <3>2. \A j \in i .. Len(s) : \A a \in Single(SubSeq(s, i, j)) :
               j = i + 1 /\ a = KeyAction(Printable["rbrace"])
        BY <2>2
      <3> QED  BY <2>1, <2>3, <3>1, <3>2, TwoCharacters
    <2>4. CASE ~Doubled(s, i)
      <3>1. \A j \in i .. Len(s) : \A a \in Single(SubSeq(s, i, j)) : FALSE
        BY <1>0, <2>2, <2>4 DEF Doubled
      <3> QED  BY <2>1, <2>4, <3>1, NoCharacters
    <2> QED  BY <2>3, <2>4
  <1>5. CASE c = "\r"
    <2> DEFINE a == KeyAction(Key({}, NamedKeys.ENTER))
    <2>1. token = IF i < Len(s) /\ s[i + 1] = "\n" THEN Ok(a, 2) ELSE Fail("MACRO_SYNTAX")
      BY <1>5, MarksPrintable, ControlsNotPrintable DEF NonBracketToken, Marks
    <2>2. c \notin DOMAIN Printable /\ c \notin Marks
      BY <1>5, ControlsNotPrintable, MarksPrintable
    <2>3. \A j \in i .. Len(s) : \A b :
             b \in Single(SubSeq(s, i, j)) <=> j = i + 1 /\ s[j] = "\n" /\ b = a
      <3> HIDE DEF c, a
      <3> QED  BY <1>2, <1>5, <2>2 DEF a
    <2> HIDE DEF a, c
    <2>4. CASE i < Len(s) /\ s[i + 1] = "\n"
      <3>1. i + 1 \in i .. Len(s) /\ a \in Single(SubSeq(s, i, i + 1))
        BY <1>0, <2>3, <2>4
      <3> QED  BY <2>1, <2>3, <2>4, <3>1, TwoCharacters
    <2>5. CASE ~(i < Len(s) /\ s[i + 1] = "\n")
      <3>1. \A j \in i .. Len(s) : \A b \in Single(SubSeq(s, i, j)) : FALSE
        BY <1>0, <2>3, <2>5
      <3> QED  BY <2>1, <2>5, <3>1, NoCharacters
    <2> QED  BY <2>4, <2>5
  <1>6. CASE c = "\n"
    <2> DEFINE a == KeyAction(Key({}, NamedKeys.ENTER))
    <2>1. token = Ok(a, 1)
      BY <1>6, MarksPrintable, ControlsNotPrintable DEF NonBracketToken, Marks
    <2>2. c \notin DOMAIN Printable /\ c \notin Marks
      BY <1>6, ControlsNotPrintable, MarksPrintable
    <2>3. \A j \in i .. Len(s) : \A b : b \in Single(SubSeq(s, i, j)) <=> j = i /\ b = a
      <3> HIDE DEF c, a
      <3> QED  BY <1>2, <1>6, <2>2 DEF a
    <2> HIDE DEF a, c
    <2>4. a \in Single(SubSeq(s, i, i))
      BY <1>0, <2>3
    <2> QED  BY <2>1, <2>3, <2>4, OneCharacter
  <1>7. CASE c = "\t"
    <2> DEFINE a == KeyAction(Key({}, NamedKeys.TAB))
    <2>1. token = Ok(a, 1)
      BY <1>7, MarksPrintable, ControlsNotPrintable DEF NonBracketToken, Marks
    <2>2. c \notin DOMAIN Printable /\ c \notin Marks
      BY <1>7, ControlsNotPrintable, MarksPrintable
    <2>3. \A j \in i .. Len(s) : \A b : b \in Single(SubSeq(s, i, j)) <=> j = i /\ b = a
      <3> HIDE DEF c, a
      <3> QED  BY <1>2, <1>7, <2>2 DEF a
    <2> HIDE DEF a, c
    <2>4. a \in Single(SubSeq(s, i, i))
      BY <1>0, <2>3
    <2> QED  BY <2>1, <2>3, <2>4, OneCharacter
  <1>8. CASE c \in DOMAIN Printable \ Marks
    <2> DEFINE a == KeyAction(Printable[c])
    <2>1. c \notin {"\r", "\n", "\t"}
      BY <1>8, ControlsNotPrintable
    <2>2. token = Ok(a, 1)
      BY <1>8, <2>1 DEF NonBracketToken, Marks
    <2>3. \A j \in i .. Len(s) : \A b : b \in Single(SubSeq(s, i, j)) <=> j = i /\ b = a
      <3>1. c # "lbrace" /\ c \notin Marks
        BY <1>8 DEF Marks
      <3> HIDE DEF c, a
      <3> QED  BY <1>2, <1>8, <2>1, <3>1 DEF a
    <2> HIDE DEF a, c
    <2>4. a \in Single(SubSeq(s, i, i))
      BY <1>0, <2>3
    <2> QED  BY <2>2, <2>3, <2>4, OneCharacter
  <1>9. CASE c \notin DOMAIN Printable \cup {"\r", "\n", "\t"}
    <2>1. token = Fail("MACRO_SYNTAX")
      <3>1. c \notin Marks
        BY <1>9, MarksPrintable
      <3> QED  BY <1>9, <3>1 DEF NonBracketToken, Marks
    <2>2. \A j \in i .. Len(s) : \A b \in Single(SubSeq(s, i, j)) : FALSE
      <3>1. c # "lbrace" /\ c \notin Marks
        BY <1>9, MarksPrintable DEF Marks
      <3> HIDE DEF c
      <3> QED  BY <1>2, <1>9, <3>1
    <2> QED  BY <2>1, <2>2, NoCharacters
  <1>10. c \in Marks => c \in {"lbrace", "rbrace"}
    BY DEF Marks
  <1> HIDE DEF c
  <1> QED  BY <1>3, <1>4, <1>5, <1>6, <1>7, <1>8, <1>9, <1>10

-----------------------------------------------------------------------------
(* Groups. *)

\* What the member at i is read as: brackets are doubled in a group.
MemberToken(s, i) ==
  IF s[i] \notin {"[", "]"} THEN NonBracketToken(s, i)
  ELSE IF Doubled(s, i) THEN Ok(KeyAction(Printable[s[i]]), 2) ELSE Fail("MACRO_SYNTAX")

\* A member is read as what its text says, brackets included.
LEMMA MemberRead ==
  ASSUME NEW s \in Seq(STRING), NEW i \in 1 .. Len(s)
  PROVE  Reads(s, i, MemberToken(s, i))
  <1> DEFINE a == KeyAction(Printable[s[i]])
  <1>0. Len(s) \in Nat /\ i \in Nat /\ i <= Len(s)
    OBVIOUS
  <1>1. CASE s[i] \notin {"[", "]"}
    BY <1>1, NonBracketRead DEF MemberToken
  <1>2. CASE s[i] \in {"[", "]"}
    <2>1. ASSUME NEW j \in i .. Len(s), NEW b \in Single(SubSeq(s, i, j))
          PROVE  j = i + 1 /\ s[j] = s[i] /\ b = a
      <3>1. \/ LetterText(SubSeq(s, i, j), b) \/ PairText(SubSeq(s, i, j), b)
            \/ EnterText(SubSeq(s, i, j), b) \/ TabText(SubSeq(s, i, j), b)
            \/ NamedText(SubSeq(s, i, j), b) \/ DelayText(SubSeq(s, i, j), b)
        BY <2>1, SingleIs
      <3>2. ~LetterText(SubSeq(s, i, j), b)
        BY <1>2, SingleFrom DEF Marks
      <3>3. ~EnterText(SubSeq(s, i, j), b) /\ ~TabText(SubSeq(s, i, j), b)
        BY <1>2, SingleFrom
      <3>4. ~NamedText(SubSeq(s, i, j), b) /\ ~DelayText(SubSeq(s, i, j), b)
        BY <1>2, SingleFrom
      <3>5. PairText(SubSeq(s, i, j), b) => j = i + 1 /\ s[j] = s[i] /\ b = a
        BY SingleFrom
      <3> QED  BY <3>1, <3>2, <3>3, <3>4, <3>5
    <2>2. CASE Doubled(s, i)
      <3>1. i + 1 <= Len(s) /\ a \in Single(SubSeq(s, i, i + 1))
        BY <1>0, <1>2, <2>2, PairRead DEF Marks
      <3>2. MemberToken(s, i) = Ok(a, 2)
        BY <1>2, <2>2 DEF MemberToken
      <3>3. \A j \in i .. Len(s) : \A b \in Single(SubSeq(s, i, j)) : j = i + 1 /\ b = a
        BY <2>1
      <3> HIDE DEF a
      <3> QED  BY <3>1, <3>2, <3>3, TwoCharacters
    <2>3. CASE ~Doubled(s, i)
      <3>1. MemberToken(s, i) = Fail("MACRO_SYNTAX")
        BY <1>2, <2>3 DEF MemberToken
      <3>2. \A j \in i .. Len(s) : \A b \in Single(SubSeq(s, i, j)) : FALSE
        BY <1>0, <2>1, <2>3 DEF Doubled
      <3> QED  BY <3>1, <3>2, NoCharacters
    <2> QED  BY <2>2, <2>3
  <1> QED  BY <1>1, <1>2

Group == [at : Nat \ {0}, modifiers : SUBSET Modifiers, usages : Seq(Nat), done : BOOLEAN,
          error : Errors]

Clash(g, a) == \/ g.modifiers \cap a.modifiers # {}
               \/ Elements(g.usages) \cap Elements(a.usages) # {}

\* The group g with the member a, which consumed some characters.
Joined(g, a, consumed) ==
  [at |-> g.at + consumed, modifiers |-> g.modifiers \cup a.modifiers,
   usages |-> g.usages \o a.usages, done |-> g.done,
   error |-> IF Clash(g, a) THEN "MACRO_SYNTAX"
             ELSE IF Len(g.usages \o a.usages) > UsagesMax THEN "MACRO_LIMIT" ELSE "NONE"]

\* What v2_merge_group_member() leaves, and where it goes on.
LEMMA MergeIs ==
  ASSUME NEW g \in Group, NEW a, NEW consumed
  PROVE  [MergeMember(g, a) EXCEPT !.at = g.at + consumed] = Joined(g, a, consumed)
  <1> DEFINE h == [MergeMember(g, a) EXCEPT !.at = g.at + consumed]
             e == IF Clash(g, a) THEN "MACRO_SYNTAX"
                  ELSE IF Len(g.usages \o a.usages) > UsagesMax THEN "MACRO_LIMIT" ELSE "NONE"
             m == MergeMember(g, a)
  <1>1. m \in [at : {g.at}, modifiers : {g.modifiers \cup a.modifiers},
               usages : {g.usages \o a.usages}, done : {g.done}, error : {e}]
    <2> DEFINE k == g.modifiers \cup a.modifiers
               u == g.usages \o a.usages
    <2>1. m = [g EXCEPT !.modifiers = k, !.usages = u, !.error = e]
      BY Zenon DEF MergeMember, Clash
    <2> HIDE DEF k, u, e, m
    <2>2. m \in [at : {g.at}, modifiers : {k}, usages : {u}, done : {g.done}, error : {e}]
      BY <2>1 DEF Group
    <2> QED  BY <2>2 DEF k, u
  <1> HIDE DEF m, e
  <1>2. h \in [at : {g.at + consumed}, modifiers : {g.modifiers \cup a.modifiers},
               usages : {g.usages \o a.usages}, done : {g.done}, error : {e}]
    BY <1>1 DEF m
  <1> HIDE DEF h
  <1>3. h = [at |-> g.at + consumed, modifiers |-> g.modifiers \cup a.modifiers,
             usages |-> g.usages \o a.usages, done |-> g.done, error |-> e]
    BY <1>2
  <1> QED  BY <1>3 DEF h, e, Joined, m

Refusal(g, code) == [g EXCEPT !.error = code]
Ended(g)         == [g EXCEPT !.done = TRUE]

\* A group that is refused or ends is a group still.
LEMMA OutcomeTypes ==
  ASSUME NEW g \in Group, NEW code \in Errors
  PROVE  /\ Refusal(g, code) \in Group /\ Refusal(g, code).error = code
         /\ Ended(g) \in Group /\ Ended(g).done /\ Ended(g).error = g.error /\ Ended(g).at = g.at
         /\ Ended(g).modifiers = g.modifiers /\ Ended(g).usages = g.usages
  BY DEF Refusal, Ended, Group

\* At a member's first character.
AtMember(s, i) == i <= Len(s) /\ ~(s[i] = "]" /\ ~Doubled(s, i))

\* The three things that v2_scan_group_step() does.
LEMMA GroupStepIs ==
  ASSUME NEW s \in Seq(STRING), NEW g \in Group
  PROVE  LET t == MemberToken(s, g.at)
         IN  /\ g.at > Len(s) => GroupStep(s, g) = Refusal(g, "MACRO_SYNTAX")
             /\ g.at <= Len(s) /\ ~AtMember(s, g.at) =>
                  GroupStep(s, g) = IF g.usages = <<>> /\ g.modifiers = {}
                                    THEN Refusal(g, "MACRO_SYNTAX") ELSE Ended(g)
             /\ AtMember(s, g.at) /\ t.error # "NONE" => GroupStep(s, g) = Refusal(g, t.error)
             /\ AtMember(s, g.at) /\ t.error = "NONE" /\ t.action.type = "delay" =>
                  GroupStep(s, g) = Refusal(g, "MACRO_SYNTAX")
             /\ AtMember(s, g.at) /\ t.error = "NONE" /\ t.action.type # "delay" =>
                  GroupStep(s, g) = Joined(g, t.action, t.consumed)
  <1> DEFINE i == g.at
             t == MemberToken(s, i)
             h == GroupStep(s, g)
  <1>0. Len(s) \in Nat /\ i \in Nat \ {0}
    BY DEF Group
  <1>1. CASE i > Len(s)
    <2>1. ~(i <= Len(s))
      BY <1>0, <1>1
    <2>2. h = Refusal(g, "MACRO_SYNTAX")
      <3> HIDE DEF i
      <3> QED  BY <1>1, <2>1 DEF GroupStep, Refusal, i
    <2> HIDE DEF h
    <2> QED  BY <2>1, <2>2 DEF AtMember, h
  <1>2. CASE i <= Len(s) /\ s[i] \in {"[", "]"} /\ Doubled(s, i)
    <2> DEFINE a == KeyAction(Printable[s[i]])
    <2>0. ~(i > Len(s))
      BY <1>0, <1>2
    <2>1. h = [MergeMember(g, a) EXCEPT !.at = i + 2]
      <3> HIDE DEF i
      <3> QED  BY <1>2, <2>0 DEF GroupStep, i
    <2>2. h = Joined(g, a, 2)
      BY <2>1, MergeIs
    <2>3. t = Ok(a, 2)
      BY <1>2 DEF MemberToken
    <2>4. t.error = "NONE" /\ t.action = a /\ t.consumed = 2 /\ t.action.type = "key"
      BY <2>3 DEF Ok, KeyAction
    <2>5. AtMember(s, i)
      BY <1>2 DEF AtMember
    <2> HIDE DEF h, t, a
    <2> QED  BY <2>0, <2>2, <2>4, <2>5 DEF h, t
  <1>3. CASE i <= Len(s) /\ s[i] = "[" /\ ~Doubled(s, i)
    <2>0. ~(i > Len(s))
      BY <1>0, <1>3
    <2>1. h = Refusal(g, "MACRO_SYNTAX")
      <3> HIDE DEF i
      <3> QED  BY <1>3, <2>0 DEF GroupStep, Refusal, i
    <2>3. t = Fail("MACRO_SYNTAX")
      BY <1>3 DEF MemberToken
    <2>4. t.error = "MACRO_SYNTAX"
      BY <2>3 DEF Fail
    <2>5. AtMember(s, i)
      BY <1>3 DEF AtMember
    <2> HIDE DEF h, t
    <2> QED  BY <2>0, <2>1, <2>4, <2>5 DEF h, t
  <1>4. CASE i <= Len(s) /\ s[i] = "]" /\ ~Doubled(s, i)
    <2>0. ~(i > Len(s))
      BY <1>0, <1>4
    <2>1. h = IF g.usages = <<>> /\ g.modifiers = {} THEN Refusal(g, "MACRO_SYNTAX") ELSE Ended(g)
      <3> HIDE DEF i
      <3> QED  BY <1>4, <2>0 DEF GroupStep, Refusal, Ended, i
    <2>5. ~AtMember(s, i)
      BY <1>4 DEF AtMember
    <2> HIDE DEF h, t
    <2> QED  BY <2>0, <2>1, <2>5 DEF h, t
  <1>5. CASE i <= Len(s) /\ s[i] \notin {"[", "]"}
    <2>0. ~(i > Len(s))
      BY <1>0, <1>5
    <2>1. t = NonBracketToken(s, i)
      BY <1>5 DEF MemberToken
    <2>5. AtMember(s, i)
      BY <1>5 DEF AtMember
    <2>6. h = IF t.error # "NONE" THEN Refusal(g, t.error)
              ELSE IF t.action.type = "delay" THEN Refusal(g, "MACRO_SYNTAX")
              ELSE [MergeMember(g, t.action) EXCEPT !.at = i + t.consumed]
      <3> DEFINE u == NonBracketToken(s, i)
      <3>1. h = CASE u.error # "NONE" -> Refusal(g, u.error)
                  [] u.error = "NONE" /\ u.action.type = "delay" -> Refusal(g, "MACRO_SYNTAX")
                  [] OTHER -> [MergeMember(g, u.action) EXCEPT !.at = i + u.consumed]
        <4> HIDE DEF i
        <4> QED  BY <1>5, <2>0 DEF GroupStep, Refusal, i
      <3> HIDE DEF u, t, h
      <3> QED  BY <2>1, <3>1 DEF u
    <2>7. [MergeMember(g, t.action) EXCEPT !.at = i + t.consumed] = Joined(g, t.action, t.consumed)
      BY MergeIs
    <2> HIDE DEF h, t
    <2> QED  BY <2>0, <2>5, <2>6, <2>7 DEF h, t
  <1> HIDE DEF i, h, t
  <1>6. i <= Len(s) \/ i > Len(s)
    BY <1>0
  <1>7. \/ i > Len(s)
        \/ i <= Len(s) /\ s[i] \in {"[", "]"} /\ Doubled(s, i)
        \/ i <= Len(s) /\ s[i] = "[" /\ ~Doubled(s, i)
        \/ i <= Len(s) /\ s[i] = "]" /\ ~Doubled(s, i)
        \/ i <= Len(s) /\ s[i] \notin {"[", "]"}
    BY <1>6
  <1> USE DEF i, h, t
  <1> QED  BY <1>1, <1>2, <1>3, <1>4, <1>5, <1>7

\* What a read token is, apart from its meaning.
LEMMA ReadType ==
  ASSUME NEW s \in Seq(STRING), NEW i \in 1 .. Len(s), NEW token, Reads(s, i, token),
         token.error = "NONE"
  PROVE  /\ token.consumed \in Nat \ {0} /\ i + token.consumed <= Len(s) + 1
         /\ SingleAction(token.action) /\ token.action \in Action
         /\ token.action \in Single(SubSeq(s, i, i + token.consumed - 1))
  <1>1. /\ token.consumed \in 1 .. Len(s) + 1 - i
        /\ token.action \in Single(SubSeq(s, i, i + token.consumed - 1))
    BY DEF Reads
  <1>2. SingleAction(token.action)
    BY <1>1, SingleType
  <1> QED  BY <1>1, <1>2 DEF SingleAction

\* A group with one more member.
LEMMA JoinedType ==
  ASSUME NEW g \in Group, NEW a \in Action, NEW consumed \in Nat
  PROVE  Joined(g, a, consumed) \in Group
  <1> DEFINE e == IF Clash(g, a) THEN "MACRO_SYNTAX"
                  ELSE IF Len(g.usages \o a.usages) > UsagesMax THEN "MACRO_LIMIT" ELSE "NONE"
  <1>1. e \in Errors
    BY DEF Errors
  <1> HIDE DEF e
  <1>2. g.usages \o a.usages \in Seq(Nat)
    BY DEF Group, Action
  <1>3. g.at + consumed \in Nat \ {0} /\ g.modifiers \cup a.modifiers \in SUBSET Modifiers
    BY DEF Group, Action
  <1>4. g.done \in BOOLEAN
    BY DEF Group
  <1> QED  BY <1>1, <1>2, <1>3, <1>4 DEF Group, Joined, e

\* A group is over when it has ended or failed.
Over(g) == g.done \/ g.error # "NONE"

\* The scan is inside the source, and has ended only at a "]".
Scanning(s, i, g) ==
  /\ g \in Group /\ g.at > i /\ g.at <= Len(s) + 1
  /\ g.error = "NONE" => Len(g.usages) <= UsagesMax
  /\ g.done => g.error = "NONE" /\ g.at <= Len(s) /\ s[g.at] = "]" /\ ~Doubled(s, g.at)

\* A step of the scan stays in the source and goes on, or is the last.
LEMMA ScanStep ==
  ASSUME NEW s \in Seq(STRING), NEW i \in Nat, NEW g, Scanning(s, i, g), ~Over(g)
  PROVE  /\ Scanning(s, i, GroupStep(s, g))
         /\ Over(GroupStep(s, g)) \/ GroupStep(s, g).at > g.at
  <1> DEFINE h == GroupStep(s, g)
             t == MemberToken(s, g.at)
  <1>0. /\ g \in Group /\ g.at \in Nat \ {0} /\ Len(s) \in Nat /\ g.at > i /\ g.at <= Len(s) + 1
        /\ ~g.done /\ g.error = "NONE" /\ Len(g.usages) <= UsagesMax
    BY DEF Group, Scanning, Over
  <1>1. ASSUME NEW code \in Errors \ {"NONE"}, h = Refusal(g, code)
        PROVE  Scanning(s, i, h) /\ Over(h)
    <2>0. code \in Errors /\ code # "NONE"
      OBVIOUS
    <2>1. h \in Group /\ h.error = code /\ code # "NONE"
      BY <1>0, <1>1, <2>0, OutcomeTypes
    <2>2. h.at = g.at /\ h.done = g.done
      BY <1>0, <1>1 DEF Refusal, Group
    <2> HIDE DEF h
    <2> QED  BY <1>0, <2>1, <2>2 DEF Scanning, Over
  <1>2. CASE g.at > Len(s)
    <2>1. h = Refusal(g, "MACRO_SYNTAX") /\ "MACRO_SYNTAX" \in Errors \ {"NONE"}
      BY <1>0, <1>2, GroupStepIs DEF Errors
    <2> QED  BY <1>1, <2>1
  <1>3. CASE g.at <= Len(s) /\ ~AtMember(s, g.at)
    <2>1. h = IF g.usages = <<>> /\ g.modifiers = {} THEN Refusal(g, "MACRO_SYNTAX") ELSE Ended(g)
      BY <1>0, <1>3, GroupStepIs
    <2>2. "MACRO_SYNTAX" \in Errors \ {"NONE"}
      BY DEF Errors
    <2>3. CASE h = Refusal(g, "MACRO_SYNTAX")
      BY <1>1, <2>2, <2>3
    <2>4. CASE h = Ended(g)
      <3>1. /\ h \in Group /\ h.done /\ h.error = g.error /\ h.at = g.at /\ h.usages = g.usages
        BY <1>0, <2>2, <2>4, OutcomeTypes
      <3>2. s[g.at] = "]" /\ ~Doubled(s, g.at)
        BY <1>3 DEF AtMember
      <3> HIDE DEF h
      <3>3. Scanning(s, i, h) /\ Over(h)
        BY <1>0, <1>3, <3>1, <3>2 DEF Scanning, Over
      <3> QED  BY <3>3 DEF h
    <2> QED  BY <2>1, <2>3, <2>4
  <1>4. CASE AtMember(s, g.at)
    <2>1. g.at \in 1 .. Len(s)
      BY <1>0, <1>4 DEF AtMember
    <2>2. Reads(s, g.at, t)
      BY <2>1, MemberRead
    <2>3. CASE t.error # "NONE"
      <3>1. h = Refusal(g, t.error) /\ t.error \in Errors \ {"NONE"}
        BY <1>0, <1>4, <2>2, <2>3, GroupStepIs DEF Reads
      <3> QED  BY <1>1, <3>1
    <2>4. CASE t.error = "NONE" /\ t.action.type = "delay"
      <3>1. h = Refusal(g, "MACRO_SYNTAX") /\ "MACRO_SYNTAX" \in Errors \ {"NONE"}
        BY <1>0, <1>4, <2>4, GroupStepIs DEF Errors
      <3> QED  BY <1>1, <3>1
    <2>5. CASE t.error = "NONE" /\ t.action.type # "delay"
      <3>1. h = Joined(g, t.action, t.consumed)
        BY <1>0, <1>4, <2>5, GroupStepIs
      <3>2. /\ t.consumed \in Nat \ {0} /\ g.at + t.consumed <= Len(s) + 1 /\ t.action \in Action
        BY <2>1, <2>2, <2>5, ReadType
      <3>3. h \in Group
        BY <1>0, <3>1, <3>2, JoinedType
      <3>4. h.error = "NONE" => ~(Len(h.usages) > UsagesMax)
        <4> HIDE DEF h, t
        <4>1. /\ h.usages = g.usages \o t.action.usages
              /\ h.error = IF Clash(g, t.action) THEN "MACRO_SYNTAX"
                           ELSE IF Len(g.usages \o t.action.usages) > UsagesMax
                           THEN "MACRO_LIMIT" ELSE "NONE"
          BY <3>1 DEF Joined
        <4> QED  BY <4>1
      <3>6. h.at = g.at + t.consumed /\ ~h.done
        BY <1>0, <3>1 DEF Joined
      <3>5. h.error = "NONE" => Len(h.usages) <= UsagesMax
        <4>1. Len(h.usages) \in Nat
          BY <3>3 DEF Group
        <4> QED  BY <3>4, <4>1, LimitAssumption
      <3> HIDE DEF h, t
      <3>7. Scanning(s, i, h) /\ h.at > g.at
        BY <1>0, <3>2, <3>3, <3>5, <3>6 DEF Scanning
      <3> QED  BY <3>7 DEF h
    <2> QED  BY <2>3, <2>4, <2>5
  <1>5. AtMember(s, g.at) => g.at <= Len(s)
    BY DEF AtMember
  <1>6. g.at > Len(s) \/ g.at <= Len(s)
    BY <1>0
  <1> QED  BY <1>2, <1>3, <1>4, <1>6

GroupStart(i) == [at |-> i + 1, modifiers |-> {}, usages |-> <<>>, done |-> FALSE,
                  error |-> "NONE"]

\* The group before its first member.
LEMMA StartType ==
  ASSUME NEW s \in Seq(STRING), NEW i \in 1 .. Len(s)
  PROVE  GroupStart(i) \in Group /\ Scanning(s, i, GroupStart(i))
  <1>1. i + 1 \in Nat \ {0} /\ <<>> \in Seq(Nat) /\ i + 1 <= Len(s) + 1 /\ Len(<<>>) = 0
    OBVIOUS
  <1>2. GroupStart(i) \in Group
    BY <1>1 DEF GroupStart, Group, Errors
  <1> QED  BY <1>1, <1>2, LimitAssumption DEF Scanning, GroupStart

\* A turn of the loop of v2_scan_group_content() gives a group again.
LEMMA NextGroupType ==
  ASSUME NEW s \in Seq(STRING), NEW g \in Group
  PROVE  NextGroup(s, g) \in Group
  <1>1. CASE Over(g)
    BY <1>1 DEF NextGroup, Over
  <1>2. CASE ~Over(g)
    <2> DEFINE t == MemberToken(s, g.at)
    <2>0. g.at \in Nat \ {0} /\ Len(s) \in Nat /\ {"MACRO_SYNTAX", "MACRO_LIMIT"} \subseteq Errors
      BY DEF Group, Errors
    <2>1. NextGroup(s, g) = GroupStep(s, g)
      BY <1>2 DEF NextGroup, Over
    <2>2. \A code \in Errors : Refusal(g, code) \in Group /\ Ended(g) \in Group
      BY OutcomeTypes
    <2>3. CASE g.at > Len(s)
      BY <2>0, <2>1, <2>2, <2>3, GroupStepIs
    <2>4. CASE g.at <= Len(s) /\ ~AtMember(s, g.at)
      BY <2>0, <2>1, <2>2, <2>4, GroupStepIs
    <2>5. CASE AtMember(s, g.at)
      <3>1. g.at \in 1 .. Len(s)
        BY <2>0, <2>5 DEF AtMember
      <3>2. Reads(s, g.at, t) /\ t.error \in Errors
        BY <3>1, MemberRead DEF Reads
      <3>3. CASE t.error # "NONE"
        BY <2>1, <2>2, <2>5, <3>2, <3>3, GroupStepIs
      <3>4. CASE t.error = "NONE" /\ t.action.type = "delay"
        BY <2>0, <2>1, <2>2, <2>5, <3>4, GroupStepIs
      <3>5. CASE t.error = "NONE" /\ t.action.type # "delay"
        <4>1. t.consumed \in Nat /\ t.action \in Action
          BY <3>1, <3>2, <3>5, ReadType
        <4>2. GroupStep(s, g) = Joined(g, t.action, t.consumed)
          BY <2>5, <3>5, GroupStepIs
        <4> QED  BY <2>1, <4>1, <4>2, JoinedType
      <3> QED  BY <3>3, <3>4, <3>5
    <2>6. g.at > Len(s) \/ g.at <= Len(s)
      BY <2>0
    <2> QED  BY <2>3, <2>4, <2>5, <2>6
  <1> QED  BY <1>1, <1>2

\* The loop of v2_scan_group_content(), turn by turn.
LEMMA GroupScanDef ==
  ASSUME NEW s \in Seq(STRING), NEW i \in 1 .. Len(s)
  PROVE  /\ GroupScan(s, i)[0] = GroupStart(i)
         /\ \A n \in 1 .. Len(s) : GroupScan(s, i)[n] = NextGroup(s, GroupScan(s, i)[n - 1])
  <1> DEFINE N == Len(s)
             g == [n \in 1 .. N |-> [v \in Group |-> NextGroup(s, v)]]
             b == GroupStart(i)
             D == GroupScan(s, i)
  <1>1. N \in Nat /\ b \in Group
    BY StartType
  <1>2. g \in [1 .. N -> [Group -> Group]]
    BY NextGroupType
  <1>3. PICK h : Steps(N, Group, b, g, h)
    <2> HIDE DEF g, N, b
    <2> QED  BY <1>1, <1>2, Iterates, Zenon
  <1> HIDE DEF N
  <1>4. h = [n \in 0 .. N |-> IF n = 0 THEN b ELSE NextGroup(s, h[n - 1])]
    <2>1. ASSUME NEW n \in 1 .. N
          PROVE  h[n] = NextGroup(s, h[n - 1])
      <3>1. n - 1 \in 0 .. N /\ h[n - 1] \in Group
        BY <1>1, <1>3 DEF Steps
      <3> QED  BY <1>3, <3>1 DEF Steps
    <2> HIDE DEF b
    <2> QED  BY <1>1, <1>3, <2>1 DEF Steps
  <1>5. D = [n \in 0 .. N |-> IF n = 0 THEN b ELSE NextGroup(s, D[n - 1])]
    BY <1>4, Zenon DEF GroupScan, GroupStart, N
  <1> HIDE DEF D, b
  <1>6. 0 \in 0 .. N /\ \A n \in 1 .. N : n \in 0 .. N /\ n # 0
    BY <1>1
  <1>7. D[0] = b /\ \A n \in 1 .. N : D[n] = NextGroup(s, D[n - 1])
    BY <1>5, <1>6, Zenon
  <1> QED  BY <1>7 DEF D, N, b

\* The scan of v2_scan_group_content() is over within as many steps as there are
\* characters.
LEMMA GroupEnds ==
  ASSUME NEW s \in Seq(STRING), NEW i \in 1 .. Len(s)
  PROVE  /\ \A n \in 0 .. Len(s) : Scanning(s, i, GroupScan(s, i)[n])
         /\ Scanning(s, i, GroupContent(s, i)) /\ Over(GroupContent(s, i))
  <1> DEFINE N == Len(s)
             G == GroupScan(s, i)
             Far(n) == Scanning(s, i, G[n]) /\ (Over(G[n]) \/ G[n].at >= i + 1 + n)
             T == {n \in 0 .. N : Far(n)}
  <1>0. N \in Nat /\ i \in Nat /\ i >= 1
    OBVIOUS
  <1>1. G[0] = GroupStart(i) /\ \A n \in 1 .. N : G[n] = NextGroup(s, G[n - 1])
    BY GroupScanDef
  <1>2. GroupContent(s, i) = G[N]
    BY DEF GroupContent
  <1> HIDE DEF G, N
  <1>3. 0 \in T
    <2>1. Scanning(s, i, G[0])
      BY <1>1, StartType
    <2>2. G[0].at = i + 1
      BY <1>1 DEF GroupStart
    <2> QED  BY <1>0, <2>1, <2>2
  <1>4. ASSUME NEW k \in 0 .. N - 1, k \in T
        PROVE  k + 1 \in T
    <2>1. k + 1 \in 1 .. N /\ k + 1 \in 0 .. N /\ (k + 1) - 1 = k
      BY <1>0
    <2>2. G[k + 1] = NextGroup(s, G[k])
      BY <1>1, <2>1
    <2>3. Scanning(s, i, G[k]) /\ (Over(G[k]) \/ G[k].at >= i + 1 + k)
      BY <1>4
    <2> DEFINE g == G[k]
               h == G[k + 1]
    <2> HIDE DEF g, h
    <2>4. CASE Over(g)
      <3>1. h = g
        BY <2>2, <2>4 DEF NextGroup, Over, g, h
      <3>2. Far(k + 1)
        BY <2>3, <2>4, <3>1 DEF g, h
      <3> QED  BY <2>1, <3>2
    <2>5. CASE ~Over(g)
      <3>1. h = GroupStep(s, g)
        BY <2>2, <2>5 DEF NextGroup, Over, g, h
      <3>2. Scanning(s, i, h) /\ (Over(h) \/ h.at > g.at)
        BY <1>0, <2>3, <2>5, <3>1, ScanStep DEF g
      <3>3. g.at \in Nat /\ h.at \in Nat /\ g.at >= i + 1 + k
        BY <2>3, <2>5, <3>2 DEF Scanning, Group, g
      <3>4. Over(h) \/ h.at >= i + 1 + (k + 1)
        BY <1>0, <3>2, <3>3
      <3>5. Far(k + 1)
        BY <3>2, <3>4 DEF h
      <3> QED  BY <2>1, <3>5
    <2> QED  BY <2>4, <2>5
  <1>5. 0 .. N \subseteq T
    <2> HIDE DEF T
    <2> QED  BY <1>0, <1>3, <1>4, Induction
  <1>6. \A n \in 0 .. N : Far(n)
    BY <1>5
  <1>7. N \in 0 .. N
    BY <1>0
  <1>8. Scanning(s, i, G[N]) /\ Over(G[N])
    <2>1. G[N].at \in Nat /\ G[N].at <= N + 1
      BY <1>6, <1>7 DEF Scanning, Group, N
    <2> QED  BY <1>0, <1>6, <1>7, <2>1
  <1> QED  BY <1>2, <1>6, <1>8 DEF G, N

-----------------------------------------------------------------------------
(* Tokens. *)

OpensGroup(s, i) == s[i] = "[" /\ ~Doubled(s, i)

ChordOf(group) == [type |-> "chord", modifiers |-> group.modifiers, usages |-> group.usages,
                   delay |-> 0]

\* v2_parse_next_token(): a group, or what a member would be.
LEMMA NextTokenIs ==
  ASSUME NEW s, NEW i
  PROVE  NextToken(s, i) =
           IF OpensGroup(s, i)
           THEN IF GroupContent(s, i).error # "NONE" THEN Fail(GroupContent(s, i).error)
                ELSE Ok(ChordOf(GroupContent(s, i)), GroupContent(s, i).at + 1 - i)
           ELSE MemberToken(s, i)
  <1>1. CASE s[i] \in {"[", "]"} /\ Doubled(s, i)
    BY <1>1 DEF NextToken, MemberToken, OpensGroup
  <1>2. CASE s[i] = "]" /\ ~Doubled(s, i)
    BY <1>2 DEF NextToken, MemberToken, OpensGroup
  <1>3. CASE OpensGroup(s, i)
    BY <1>3 DEF NextToken, OpensGroup, ChordOf
  <1>4. CASE s[i] \notin {"[", "]"}
    BY <1>4 DEF NextToken, MemberToken, OpensGroup
  <1> QED  BY <1>1, <1>2, <1>3, <1>4 DEF OpensGroup

\* A token that is taken is inside the source, and has room in a report.
LEMMA NextTokenType ==
  ASSUME NEW s \in Seq(STRING), NEW i \in 1 .. Len(s)
  PROVE  LET t == NextToken(s, i)
         IN  /\ t.error \in Errors
             /\ t.error = "NONE" =>
                  /\ t.action \in Action /\ Len(t.action.usages) <= UsagesMax
                  /\ t.consumed \in Nat \ {0} /\ i + t.consumed <= Len(s) + 1
  <1> DEFINE t == NextToken(s, i)
             group == GroupContent(s, i)
  <1>0. Len(s) \in Nat /\ i \in Nat
    OBVIOUS
  <1>1. CASE OpensGroup(s, i)
    <2>1. Scanning(s, i, group) /\ Over(group)
      BY GroupEnds
    <2>2. t = IF group.error # "NONE" THEN Fail(group.error)
              ELSE Ok(ChordOf(group), group.at + 1 - i)
      BY <1>1, NextTokenIs
    <2>3. group.error \in Errors
      BY <2>1 DEF Scanning, Group
    <2> HIDE DEF group, t
    <2>4. CASE group.error # "NONE"
      <3>1. t.error = group.error
        BY <2>2, <2>4 DEF Fail
      <3> QED  BY <2>3, <2>4, <3>1 DEF t
    <2>5. CASE group.error = "NONE"
      <3>1. t.error = "NONE" /\ t.action = ChordOf(group) /\ t.consumed = group.at + 1 - i
        BY <2>2, <2>5 DEF Ok
      <3>2. /\ group \in Group /\ Len(group.usages) <= UsagesMax
            /\ group.at > i /\ group.at <= Len(s) /\ group.at \in Nat
        BY <2>1, <2>5 DEF Scanning, Over, Group
      <3>3. /\ ChordOf(group) \in Action /\ ChordOf(group).usages = group.usages
        BY <3>2 DEF ChordOf, Action, Group
      <3>4. t.consumed \in Nat \ {0} /\ i + t.consumed <= Len(s) + 1
        BY <1>0, <3>1, <3>2
      <3> QED  BY <3>1, <3>2, <3>3, <3>4 DEF Errors, t
    <2> QED  BY <2>4, <2>5
  <1>2. CASE ~OpensGroup(s, i)
    <2>1. t = MemberToken(s, i)
      BY <1>2, NextTokenIs
    <2>2. Reads(s, i, t)
      BY <2>1, MemberRead
    <2> HIDE DEF t
    <2>3. t.error \in Errors
      BY <2>2 DEF Reads
    <2>4. ASSUME t.error = "NONE"
          PROVE  /\ t.action \in Action /\ Len(t.action.usages) <= UsagesMax
                 /\ t.consumed \in Nat \ {0} /\ i + t.consumed <= Len(s) + 1
      <3>1. /\ t.consumed \in Nat \ {0} /\ i + t.consumed <= Len(s) + 1
            /\ SingleAction(t.action) /\ t.action \in Action
        BY <2>2, <2>4, ReadType
      <3>2. t.action.usages = <<>> \/ t.action.usages = <<t.action.usages[1]>>
        BY <3>1 DEF SingleAction
      <3>3. PICK u : t.action.usages = <<>> \/ t.action.usages = <<u>>
        BY <3>2
      <3>4. Len(<<>>) = 0 /\ Len(<<u>>) = 1
        OBVIOUS
      <3>5. Len(t.action.usages) = 0 \/ Len(t.action.usages) = 1
        BY <3>3, <3>4
      <3>6. 0 <= UsagesMax /\ 1 <= UsagesMax
        BY LimitAssumption
      <3> QED  BY <3>1, <3>5, <3>6
    <2> QED  BY <2>3, <2>4 DEF t
  <1> QED  BY <1>1, <1>2

-----------------------------------------------------------------------------
(* The compiler: what its variables are, and its limits. *)

TypeCorrect ==
  /\ source \in Seq(STRING) /\ options \in Timing
  /\ offset \in 1 .. Len(source) + 1
  /\ working \in [actions : Seq(Action), duration : Nat]
  /\ result \in Errors \cup {"none", "INVALID_ARGUMENT", "INTERNAL"}

\* A compilation starts with its variables of their kinds.
LEMMA InitType == Init => TypeCorrect
  <1> SUFFICES ASSUME Init PROVE TypeCorrect
    OBVIOUS
  <1>1. source \in Seq(STRING) /\ options \in Timing
    BY InputAssumption DEF Init, Timing
  <1>2. offset \in 1 .. Len(source) + 1
    BY <1>1 DEF Init
  <1>3. <<>> \in Seq(Action)
    OBVIOUS
  <1> QED  BY <1>1, <1>2, <1>3 DEF Init, TypeCorrect

\* A turn of the loop that goes on: the token, and what it adds.
Goes(token) ==
  /\ result = "none" /\ ~Refused /\ offset <= Len(source)
  /\ token = NextToken(source, offset) /\ token.error = "NONE" /\ Fits(working, token.action)
  /\ working' = [actions  |-> Append(working.actions, token.action),
                 duration |-> working.duration + Duration(options, token.action)]
  /\ offset' = offset + token.consumed
  /\ UNCHANGED <<source, options, result>>

\* A step either only returns, or takes a token.
LEMMA StepKinds ==
  ASSUME TypeCorrect, [Next]_vars
  PROVE  \/ /\ UNCHANGED <<source, options, offset, working>>
            /\ \/ result' \in {"INVALID_ARGUMENT", "MACRO_LIMIT", "INTERNAL"}
               \/ /\ result = "none" /\ result' = NextToken(source, offset).error
                  /\ offset <= Len(source) /\ result' \in Errors \ {"NONE"}
               \/ result = "none" /\ offset > Len(source) /\ result' = "NONE"
               \/ UNCHANGED result
         \/ \E token : Goes(token)
  <1>1. CASE UNCHANGED vars
    BY <1>1 DEF vars
  <1>2. CASE Refuse
    BY <1>2 DEF Refuse, Return
  <1>3. CASE NoMemory
    BY <1>3 DEF NoMemory, Return
  <1>4. CASE Publish
    BY <1>4 DEF Publish, Return
  <1>5. CASE Token
    <2> DEFINE token == NextToken(source, offset)
    <2>1. offset \in 1 .. Len(source) /\ offset <= Len(source) /\ source \in Seq(STRING)
      BY <1>5 DEF Token, TypeCorrect
    <2>2. token.error \in Errors
      BY <2>1, NextTokenType
    <2>3. CASE token.error # "NONE" /\ Return(token.error)
      <3>1. result = "none"
        BY <1>5 DEF Token
      <3> HIDE DEF token
      <3> QED  BY <2>1, <2>2, <2>3, <3>1 DEF Return, token
    <2>4. CASE Return("MACRO_LIMIT")
      BY <2>4 DEF Return
    <2>5. CASE /\ token.error = "NONE" /\ Fits(working, token.action)
               /\ working' = [actions  |-> Append(working.actions, token.action),
                              duration |-> working.duration + Duration(options, token.action)]
               /\ offset' = offset + token.consumed
               /\ UNCHANGED <<source, options, result>>
      <3>1. result = "none" /\ ~Refused
        BY <1>5 DEF Token
      <3> HIDE DEF token
      <3>2. Goes(token)
        BY <2>1, <2>5, <3>1 DEF Goes, token
      <3> QED  BY <3>2
    <2> QED  BY <1>5, <2>3, <2>4, <2>5 DEF Token
  <1> QED  BY <1>1, <1>2, <1>3, <1>4, <1>5 DEF Next

\* A token that is taken keeps the kinds and advances the offset within the source.
LEMMA GoesType ==
  ASSUME TypeCorrect, NEW token, Goes(token)
  PROVE  /\ TypeCorrect' /\ token.action \in Action /\ Len(token.action.usages) <= UsagesMax
         /\ token.consumed \in Nat \ {0} /\ offset + token.consumed <= Len(source) + 1
         /\ offset \in 1 .. Len(source) /\ Duration(options, token.action) \in Nat
  <1>1. offset \in 1 .. Len(source) /\ source \in Seq(STRING)
    BY DEF Goes, TypeCorrect
  <1>2. /\ token.action \in Action /\ Len(token.action.usages) <= UsagesMax
        /\ token.consumed \in Nat \ {0} /\ offset + token.consumed <= Len(source) + 1
    BY <1>1, NextTokenType DEF Goes
  <1>3. Duration(options, token.action) \in Nat
    BY <1>2 DEF TypeCorrect, Timing, Action, Duration
  <1>4. working' \in [actions : Seq(Action), duration : Nat]
    <2>1. Append(working.actions, token.action) \in Seq(Action)
      BY <1>2 DEF TypeCorrect
    <2>2. working.duration + Duration(options, token.action) \in Nat
      BY <1>3 DEF TypeCorrect
    <2> QED  BY <2>1, <2>2 DEF Goes
  <1>5. offset' \in 1 .. Len(source) + 1
    <2>1. offset' = offset + token.consumed
      BY DEF Goes
    <2> QED  BY <1>1, <1>2, <2>1
  <1> QED  BY <1>1, <1>2, <1>3, <1>4, <1>5 DEF TypeCorrect, Goes

\* Every step keeps the kinds of the variables.
LEMMA NextType == TypeCorrect /\ [Next]_vars => TypeCorrect'
  <1> SUFFICES ASSUME TypeCorrect, [Next]_vars PROVE TypeCorrect'
    OBVIOUS
  <1>1. CASE \E token : Goes(token)
    BY <1>1, GoesType
  <1>2. CASE /\ UNCHANGED <<source, options, offset, working>>
             /\ result' \in Errors \cup {"INVALID_ARGUMENT", "INTERNAL", result}
    BY <1>2 DEF TypeCorrect, Errors
  <1> QED  BY <1>1, <1>2, StepKinds DEF Errors

\* Each variable keeps its kind, and the offset stays within the source: the
\* token readers never read, and never count, past its end (macro_compile_v2(),
\* v2_parse_next_token(), v2_scan_group_content()).
THEOREM TypesStayCorrect == Spec => []TypeCorrect
  BY InitType, NextType, PTL DEF Spec

\* An empty plan is within the limits.
LEMMA InitLimits == Init => LimitsHold
  <1> SUFFICES ASSUME Init PROVE LimitsHold
    OBVIOUS
  <1>1. options \in Timing /\ <<>> \in Seq(Action) /\ Len(<<>>) = 0 /\ working.actions = <<>>
    BY InitType DEF Init, TypeCorrect
  <1>2. Totals(options, <<>>)[0] = 0
    BY <1>1, TotalsDef
  <1> QED  BY <1>1, <1>2, LimitAssumption DEF Init, LimitsHold

\* v2_append_action() keeps the limits and the sum.
LEMMA NextLimits == TypeCorrect /\ LimitsHold /\ [Next]_vars => LimitsHold'
  <1> SUFFICES ASSUME TypeCorrect, LimitsHold, [Next]_vars PROVE LimitsHold'
    OBVIOUS
  <1>1. CASE UNCHANGED <<source, options, offset, working>>
    BY <1>1 DEF LimitsHold
  <1>2. ASSUME NEW token, Goes(token)
        PROVE  LimitsHold'
    <2> DEFINE a == token.action
               n == Len(working.actions)
    <2>1. /\ a \in Action /\ Len(a.usages) <= UsagesMax /\ Duration(options, a) \in Nat
      BY <1>2, GoesType
    <2>2. working.actions \in Seq(Action) /\ options \in Timing /\ working.duration \in Nat /\ n \in Nat
      BY DEF TypeCorrect
    <2>3. /\ working'.actions = Append(working.actions, a)
          /\ working'.duration = working.duration + Duration(options, a)
          /\ options' = options
      BY <1>2 DEF Goes
    <2>4. n < ActionsMax /\ working.duration + Duration(options, a) <= DurationMax
      BY <1>2 DEF Goes, Fits
    <2>5. Len(working'.actions) = n + 1 /\ n + 1 <= ActionsMax
      BY <2>1, <2>2, <2>3, <2>4, LimitAssumption
    <2>6. Totals(options, working'.actions)[n + 1] = Totals(options, working.actions)[n] + Duration(options, a)
      BY <2>1, <2>2, <2>3, TotalsAppend
    <2>7. working'.duration = Totals(options, working'.actions)[n + 1] /\ working'.duration <= DurationMax
      BY <2>3, <2>4, <2>6 DEF LimitsHold
    <2>8. \A k \in DOMAIN working'.actions : Len(working'.actions[k].usages) <= UsagesMax
      <3>1. ASSUME NEW k \in 1 .. n + 1
            PROVE  Len(Append(working.actions, a)[k].usages) <= UsagesMax
        <4>1. CASE k = n + 1
          <5>1. Append(working.actions, a)[k] = a
            BY <2>1, <2>2, <4>1
          <5> QED  BY <2>1, <5>1
        <4>2. CASE k # n + 1
          <5>1. k \in DOMAIN working.actions /\ Append(working.actions, a)[k] = working.actions[k]
            BY <2>1, <2>2, <4>2
          <5> QED  BY <5>1 DEF LimitsHold
        <4> QED  BY <4>1, <4>2
      <3>2. DOMAIN Append(working.actions, a) = 1 .. n + 1
        BY <2>1, <2>2
      <3> QED  BY <2>3, <3>1, <3>2
    <2> QED  BY <2>3, <2>5, <2>7, <2>8 DEF LimitsHold
  <1> QED  BY <1>1, <1>2, StepKinds

\* The estimate is the time that the actions take, and it, the number of actions
\* and the keys of a report stay within their limits (v2_append_action(),
\* v2_merge_group_member()).
THEOREM LimitsAlwaysHold == Spec => []LimitsHold
  BY InitType, NextType, InitLimits, NextLimits, PTL DEF Spec

-----------------------------------------------------------------------------
(* Cuts of a group and of a source. *)

\* A cut is a sequence of meanings.
LEMMA CutsType ==
  ASSUME NEW means, NEW i \in Nat, NEW j \in Nat, i <= j + 1, NEW A,
         \A k \in i .. j : \A m \in k .. j : means[k][m] \subseteq A
  PROVE  \A k \in i .. j + 1 : Cuts(means, i, j)[k] \subseteq Seq(A)
  <1> DEFINE N == j + 1 - i
             C == Cuts(means, i, j)
             Typed(k) == C[k] \subseteq Seq(A)
             T == {d \in 0 .. N : \A k \in j + 1 - d .. j + 1 : Typed(k)}
  <1>1. N \in Nat
    OBVIOUS
  <1>2. 0 \in T
    <2>1. C[j + 1] = {<<>>}
      BY CutsDef
    <2>2. Typed(j + 1)
      BY <2>1
    <2>3. \A k \in j + 1 - 0 .. j + 1 : k = j + 1
      OBVIOUS
    <2> HIDE DEF Typed
    <2> QED  BY <1>1, <2>2, <2>3
  <1>3. ASSUME NEW d \in 0 .. N - 1, d \in T
        PROVE  d + 1 \in T
    <2> DEFINE first == j + 1 - (d + 1)
    <2>1. first \in i .. j /\ first \in Nat /\ \A m \in first .. j : m + 1 \in j + 1 - d .. j + 1
      BY <1>1
    <2>2. \A k \in j + 1 - d .. j + 1 : Typed(k)
      BY <1>3
    <2>3. Typed(first)
      <3>1. ASSUME NEW r \in C[first]
            PROVE  r \in Seq(A)
        <4> HIDE DEF first
        <4>1. PICK m, action, rest : Cut(means, j, C, first, r, m, action, rest)
          BY <2>1, <3>1, CutsHas
        <4> HIDE DEF C
        <4>2. m \in first .. j /\ action \in means[first][m] /\ rest \in C[m + 1] /\ r = <<action>> \o rest
          BY <4>1 DEF Cut
        <4>3. action \in A
          BY <2>1, <4>2
        <4>4. rest \in Seq(A)
          BY <2>1, <2>2, <4>2
        <4>5. <<action>> \in Seq(A)
          BY <4>3
        <4> QED  BY <4>2, <4>4, <4>5
      <3> QED  BY <3>1
    <2>4. \A k \in first .. j + 1 : k = first \/ k \in j + 1 - d .. j + 1
      BY <1>1
    <2> HIDE DEF Typed
    <2>5. \A k \in first .. j + 1 : Typed(k)
      BY <2>2, <2>3, <2>4
    <2> QED  BY <1>1, <2>5
  <1>4. 0 .. N \subseteq T
    <2> HIDE DEF T, N
    <2> QED  BY <1>1, <1>2, <1>3, Induction
  <1>5. N \in T
    <2> HIDE DEF T, N
    <2> QED  BY <1>1, <1>4
  <1>6. j + 1 - N = i
    OBVIOUS
  <1> HIDE DEF Typed, N
  <1>7. \A k \in i .. j + 1 : Typed(k)
    BY <1>5, <1>6
  <1> QED  BY <1>7 DEF Typed, C

GroupCuts(s, i, j) == Cuts(Singles(s), i + 1, j - 1)

\* r is the member that the characters k .. m are, and then rest.
Begins(s, i, j, k, r, m, a, rest) ==
  /\ m \in k .. j - 1 /\ a \in Single(SubSeq(s, k, m)) /\ rest \in GroupCuts(s, i, j)[m + 1]
  /\ r = <<a>> \o rest

\* How the members of a group follow each other, up to its "]".
LEMMA GroupCutsFacts ==
  ASSUME NEW s \in Seq(STRING), NEW i \in 1 .. Len(s), NEW j \in i + 1 .. Len(s)
  PROVE  /\ GroupCuts(s, i, j)[j] = {<<>>}
         /\ \A k \in i + 1 .. j : GroupCuts(s, i, j)[k] \subseteq Seq(Action)
         /\ \A k \in i + 1 .. j - 1 : \A r \in GroupCuts(s, i, j)[k] :
               \E m, a, rest : Begins(s, i, j, k, r, m, a, rest)
  <1> DEFINE C == GroupCuts(s, i, j)
             means == Singles(s)
  <1>0. /\ Len(s) \in Nat /\ i + 1 \in Nat /\ j - 1 \in Nat /\ i + 1 <= (j - 1) + 1 /\ (j - 1) + 1 = j
        /\ \A k \in i + 1 .. j - 1 : \A m \in k .. j - 1 : k \in 1 .. Len(s) /\ m \in 1 .. Len(s)
    OBVIOUS
  <1>1. \A k, m \in 1 .. Len(s) : means[k][m] = Single(SubSeq(s, k, m))
    BY DEF Singles
  <1>2. C = Cuts(means, i + 1, j - 1)
    BY DEF GroupCuts
  <1> HIDE DEF C, means
  <1>3. C[(j - 1) + 1] = {<<>>}
    BY <1>0, <1>2, CutsDef
  <1>4. \A k \in i + 1 .. (j - 1) + 1 : C[k] \subseteq Seq(Action)
    <2>1. \A k \in i + 1 .. j - 1 : \A m \in k .. j - 1 : means[k][m] \subseteq Action
      <3>1. ASSUME NEW k \in i + 1 .. j - 1, NEW m \in k .. j - 1
            PROVE  means[k][m] \subseteq Action
        <4>1. means[k][m] = Single(SubSeq(s, k, m))
          BY <1>0, <1>1
        <4>2. \A a \in Single(SubSeq(s, k, m)) : SingleAction(a)
          BY SingleType
        <4> QED  BY <4>1, <4>2 DEF SingleAction
      <3> QED  BY <3>1
    <2> QED  BY <1>0, <1>2, <2>1, CutsType
  <1>5. ASSUME NEW k \in i + 1 .. j - 1, NEW r \in C[k]
        PROVE  \E m, a, rest : Begins(s, i, j, k, r, m, a, rest)
    <2>1. PICK m, a, rest : Cut(means, j - 1, C, k, r, m, a, rest)
      BY <1>0, <1>2, CutsHas
    <2>2. m \in k .. j - 1 /\ a \in means[k][m] /\ rest \in C[m + 1] /\ r = <<a>> \o rest
      BY <2>1 DEF Cut
    <2>3. means[k][m] = Single(SubSeq(s, k, m))
      BY <1>0, <1>1, <2>2
    <2>4. Begins(s, i, j, k, r, m, a, rest)
      BY <2>2, <2>3 DEF Begins, C
    <2> QED  BY <2>4
  <1>6. \A k \in i + 1 .. j : C[k] \subseteq Seq(Action)
    BY <1>0, <1>4
  <1>7. C[j] = {<<>>}
    BY <1>0, <1>3
  <1> QED  BY <1>5, <1>6, <1>7 DEF C

\* A member, and the members after it, are members of the group.
LEMMA GroupCutsMade ==
  ASSUME NEW s \in Seq(STRING), NEW i \in 1 .. Len(s), NEW j \in i + 1 .. Len(s),
         NEW k \in i + 1 .. j - 1, NEW m \in k .. j - 1, NEW a \in Single(SubSeq(s, k, m)),
         NEW rest \in GroupCuts(s, i, j)[m + 1]
  PROVE  <<a>> \o rest \in GroupCuts(s, i, j)[k]
  <1>0. /\ Len(s) \in Nat /\ i + 1 \in Nat /\ j - 1 \in Nat /\ i + 1 <= (j - 1) + 1
        /\ k \in 1 .. Len(s) /\ m \in 1 .. Len(s)
    OBVIOUS
  <1>1. Singles(s)[k][m] = Single(SubSeq(s, k, m))
    BY <1>0 DEF Singles
  <1>2. a \in Singles(s)[k][m] /\ rest \in Cuts(Singles(s), i + 1, j - 1)[m + 1]
    BY <1>1 DEF GroupCuts
  <1>3. <<a>> \o rest \in Cuts(Singles(s), i + 1, j - 1)[k]
    BY <1>0, <1>2, CutsMade
  <1> QED  BY <1>3 DEF GroupCuts

\* A sequence that is longer by one, and what follows it.
LEMMA AppendThen ==
  ASSUME NEW S, NEW T, NEW m \in Seq(S), NEW a \in S, NEW rest \in Seq(T)
  PROVE  Append(m, a) \o rest = m \o (<<a>> \o rest)
  <1> DEFINE V == S \cup T
  <1>1. m \in Seq(V) /\ <<a>> \in Seq(V) /\ rest \in Seq(V)
    <2>1. m \in Seq(V) /\ rest \in Seq(V)
      BY SeqMonotonic
    <2> QED  BY <2>1
  <1>2. Append(m, a) = m \o <<a>>
    BY AppendIsConcat
  <1> HIDE DEF V
  <1>3. (m \o <<a>>) \o rest = m \o (<<a>> \o rest)
    BY <1>1, ConcatAssociative
  <1> QED  BY <1>2, <1>3

-----------------------------------------------------------------------------
(* What a group gathers. *)

\* Nothing twice, and no delay.
Apart(m) ==
  /\ \A x \in DOMAIN m : m[x].type # "delay"
  /\ \A x, y \in DOMAIN m : x # y =>
        /\ m[x].modifiers \cap m[y].modifiers = {}
        /\ m[x].usages = <<>> \/ m[x].usages # m[y].usages

\* g has the modifiers and the keys of the members m, which can be held together.
Gathers(m, g) ==
  /\ m \in Seq(Action) /\ (\A x \in 1 .. Len(m) : SingleAction(m[x])) /\ Apart(m)
  /\ g.modifiers = UNION {m[x].modifiers : x \in DOMAIN m}
  /\ Elements(g.usages) = {m[x].usages[1] : x \in Keys(m)}
  /\ Cardinality(Keys(m)) = Len(g.usages)

\* The elements of a sequence of none or of one.
LEMMA ElementsOfFew == Elements(<<>>) = {} /\ \A x : Elements(<<x>>) = {x}
  <1>1. Elements(<<>>) = {}
    BY DEF Elements
  <1>2. \A x : Elements(<<x>>) = {x}
    BY DEF Elements
  <1> QED  BY <1>1, <1>2

\* The elements of two sequences together.
LEMMA ElementsOf ==
  ASSUME NEW S, NEW u \in Seq(S), NEW v \in Seq(S)
  PROVE  Elements(u \o v) = Elements(u) \cup Elements(v)
  <1> DEFINE w == u \o v
  <1>1. /\ DOMAIN u = 1 .. Len(u) /\ DOMAIN v = 1 .. Len(v) /\ DOMAIN w = 1 .. Len(u) + Len(v)
        /\ Len(u) \in Nat /\ Len(v) \in Nat
        /\ \A k \in 1 .. Len(u) + Len(v) : w[k] = IF k <= Len(u) THEN u[k] ELSE v[k - Len(u)]
    BY ConcatProperties, LenProperties
  <1> HIDE DEF w
  <1>2. \A k \in 1 .. Len(u) : k \in DOMAIN w /\ w[k] = u[k]
    BY <1>1
  <1>3. \A k \in 1 .. Len(v) : k + Len(u) \in DOMAIN w /\ w[k + Len(u)] = v[k]
    BY <1>1
  <1>4. \A k \in DOMAIN w : \/ k \in 1 .. Len(u) /\ w[k] = u[k]
                            \/ k - Len(u) \in 1 .. Len(v) /\ w[k] = v[k - Len(u)]
    BY <1>1
  <1>5. Elements(w) \subseteq Elements(u) \cup Elements(v)
    BY <1>1, <1>4 DEF Elements
  <1>6. Elements(u) \subseteq Elements(w)
    BY <1>1, <1>2 DEF Elements
  <1>7. Elements(v) \subseteq Elements(w)
    BY <1>1, <1>3 DEF Elements
  <1> QED  BY <1>5, <1>6, <1>7 DEF w

\* The members with a key are finitely many.
LEMMA KeysFinite ==
  ASSUME NEW m \in Seq(Action)
  PROVE  IsFiniteSet(Keys(m)) /\ Keys(m) \subseteq 1 .. Len(m) /\ DOMAIN m = 1 .. Len(m)
  <1>1. DOMAIN m = 1 .. Len(m) /\ Len(m) \in Nat
    OBVIOUS
  <1>2. IsFiniteSet(1 .. Len(m))
    BY <1>1, FS_Interval
  <1>3. Keys(m) \subseteq 1 .. Len(m)
    BY <1>1 DEF Keys
  <1> QED  BY <1>1, <1>2, <1>3, FS_Subset

\* No members make the group before its first member.
LEMMA GathersNothing ==
  ASSUME NEW i
  PROVE  Gathers(<<>>, GroupStart(i))
  <1>1. <<>> \in Seq(Action) /\ Len(<<>>) = 0 /\ DOMAIN <<>> = {}
    OBVIOUS
  <1>2. Keys(<<>>) = {} /\ Elements(<<>>) = {}
    BY DEF Keys, Elements
  <1>3. Cardinality({}) = 0
    BY FS_EmptySet
  <1>4. GroupStart(i).modifiers = {} /\ GroupStart(i).usages = <<>>
    BY DEF GroupStart
  <1>5. UNION {<<>>[x].modifiers : x \in DOMAIN <<>>} = {}
    BY <1>1
  <1>6. {<<>>[x].usages[1] : x \in Keys(<<>>)} = {}
    BY <1>2
  <1>7. Apart(<<>>) /\ \A x \in 1 .. Len(<<>>) : SingleAction(<<>>[x])
    BY <1>1 DEF Apart
  <1> QED  BY <1>1, <1>2, <1>3, <1>4, <1>5, <1>6, <1>7 DEF Gathers

\* A member that does not clash is gathered (v2_merge_group_member()).
LEMMA GathersMore ==
  ASSUME NEW g \in Group, NEW m, Gathers(m, g), NEW a \in Action, SingleAction(a),
         a.type # "delay", ~Clash(g, a), NEW consumed
  PROVE  Gathers(Append(m, a), Joined(g, a, consumed))
  <1> DEFINE n == Len(m)
             more == Append(m, a)
             h == Joined(g, a, consumed)
  <1>1. /\ n \in Nat /\ m \in Seq(Action) /\ more \in Seq(Action) /\ Len(more) = n + 1
        /\ DOMAIN m = 1 .. n /\ DOMAIN more = 1 .. n + 1
    BY DEF Gathers
  <1>2. more[n + 1] = a /\ \A x \in 1 .. n : more[x] = m[x]
    BY DEF Gathers
  <1>3. h.modifiers = g.modifiers \cup a.modifiers /\ h.usages = g.usages \o a.usages
    BY DEF Joined
  <1>4. /\ \A x \in 1 .. n : SingleAction(m[x])
        /\ Apart(m)
        /\ g.modifiers = UNION {m[x].modifiers : x \in 1 .. n}
        /\ Elements(g.usages) = {m[x].usages[1] : x \in Keys(m)}
        /\ Cardinality(Keys(m)) = Len(g.usages)
    BY <1>1 DEF Gathers
  <1>5. \A x \in 1 .. n + 1 : x = n + 1 \/ x \in 1 .. n
    BY <1>1
  <1>0. n + 1 \in 1 .. n + 1 /\ \A x \in 1 .. n : x \in 1 .. n + 1 /\ x # n + 1
    BY <1>1
  <1>6. /\ g.usages \in Seq(Nat) /\ a.usages \in Seq(Nat)
        /\ a.usages = <<>> \/ a.usages = <<a.usages[1]>>
    BY DEF Group, Action, SingleAction
  <1> HIDE DEF more, h, n
  <1>7. \A x \in 1 .. n + 1 : SingleAction(more[x])
    BY <1>2, <1>4, <1>5
  <1>8. h.modifiers = UNION {more[x].modifiers : x \in 1 .. n + 1}
    <2>1. UNION {more[x].modifiers : x \in 1 .. n + 1}
            = (UNION {m[x].modifiers : x \in 1 .. n}) \cup a.modifiers
      <3>1. ASSUME NEW e \in UNION {more[x].modifiers : x \in 1 .. n + 1}
            PROVE  e \in (UNION {m[x].modifiers : x \in 1 .. n}) \cup a.modifiers
        <4>1. PICK x \in 1 .. n + 1 : e \in more[x].modifiers
          BY <3>1
        <4> QED  BY <1>2, <1>5, <4>1
      <3>2. ASSUME NEW e \in (UNION {m[x].modifiers : x \in 1 .. n}) \cup a.modifiers
            PROVE  e \in UNION {more[x].modifiers : x \in 1 .. n + 1}
        <4>1. CASE e \in a.modifiers
          BY <1>0, <1>2, <4>1
        <4>2. CASE e \in UNION {m[x].modifiers : x \in 1 .. n}
          <5>1. PICK x \in 1 .. n : e \in m[x].modifiers
            BY <4>2
          <5>2. x \in 1 .. n + 1 /\ e \in more[x].modifiers
            BY <1>0, <1>2, <5>1
          <5> QED  BY <5>2
        <4> QED  BY <3>2, <4>1, <4>2
      <3> QED  BY <3>1, <3>2
    <2> QED  BY <1>3, <1>4, <2>1
  <1>9. Keys(more) = IF a.usages = <<>> THEN Keys(m) ELSE Keys(m) \cup {n + 1}
    <2>1. /\ Keys(more) = {x \in 1 .. n + 1 : more[x].usages # <<>>}
          /\ Keys(m) = {x \in 1 .. n : m[x].usages # <<>>}
      BY <1>1 DEF Keys
    <2>2. \A x \in 1 .. n + 1 : more[x].usages = IF x = n + 1 THEN a.usages ELSE m[x].usages
      BY <1>2, <1>5
    <2> QED  BY <1>0, <1>5, <2>1, <2>2
  <1>10. Cardinality(Keys(more)) = Len(h.usages)
    <2>1. IsFiniteSet(Keys(m)) /\ n + 1 \notin Keys(m)
      BY <1>0, <1>1, KeysFinite DEF n
    <2>2. Cardinality(Keys(m)) \in Nat
      BY <2>1, FS_CardinalityType
    <2>3. CASE a.usages = <<>>
      <3>1. h.usages = g.usages
        BY <1>3, <1>6, <2>3, ConcatEmptySeq
      <3> QED  BY <1>4, <1>9, <2>3, <3>1
    <2>4. CASE a.usages # <<>>
      <3>1. Len(a.usages) = 1
        <4>1. PICK u : a.usages = <<u>>
          BY <1>6, <2>4
        <4>2. Len(<<u>>) = 1
          OBVIOUS
        <4> QED  BY <4>1, <4>2
      <3>2. Len(h.usages) = Len(g.usages) + 1
        <4>1. Len(g.usages \o a.usages) = Len(g.usages) + Len(a.usages)
          BY <1>6, ConcatProperties
        <4> QED  BY <1>3, <3>1, <4>1
      <3>3. Cardinality(Keys(m) \cup {n + 1}) = Cardinality(Keys(m)) + 1
        BY <2>1, FS_AddElement
      <3> QED  BY <1>4, <1>9, <2>4, <3>2, <3>3
    <2> QED  BY <2>3, <2>4
  <1>11. Elements(h.usages) = {more[x].usages[1] : x \in Keys(more)}
    <2>1. Elements(h.usages) = Elements(g.usages) \cup Elements(a.usages)
      BY <1>3, <1>6, ElementsOf
    <2>2. \A x \in Keys(m) : x \in 1 .. n /\ more[x] = m[x]
      BY <1>1, <1>2 DEF Keys
    <2>3. {more[x].usages[1] : x \in Keys(m)} = {m[x].usages[1] : x \in Keys(m)}
      BY <2>2
    <2>4. CASE a.usages = <<>>
      <3>1. Elements(a.usages) = {}
        BY <2>4, ElementsOfFew
      <3> QED  BY <1>4, <1>9, <2>1, <2>3, <2>4, <3>1
    <2>5. CASE a.usages # <<>>
      <3>1. Elements(a.usages) = {a.usages[1]}
        <4>1. PICK u : a.usages = <<u>>
          BY <1>6, <2>5
        <4>2. <<u>>[1] = u /\ Elements(<<u>>) = {u}
          BY ElementsOfFew
        <4> QED  BY <4>1, <4>2
      <3>2. {more[x].usages[1] : x \in Keys(m) \cup {n + 1}}
              = {more[x].usages[1] : x \in Keys(m)} \cup {a.usages[1]}
        BY <1>2
      <3> QED  BY <1>4, <1>9, <2>1, <2>3, <2>5, <3>1, <3>2
    <2> QED  BY <2>4, <2>5
  <1>12. Apart(more)
    <2>1. \A x \in 1 .. n + 1 : more[x].type # "delay"
      BY <1>1, <1>2, <1>4, <1>5 DEF Apart
    <2>2. ASSUME NEW x \in 1 .. n
          PROVE  /\ m[x].modifiers \cap a.modifiers = {}
                 /\ m[x].usages = <<>> \/ m[x].usages # a.usages
      <3>1. g.modifiers \cap a.modifiers = {} /\ Elements(g.usages) \cap Elements(a.usages) = {}
        BY DEF Clash
      <3>2. m[x].modifiers \cap a.modifiers = {}
        BY <1>4, <3>1
      <3>3. ASSUME m[x].usages # <<>>, m[x].usages = a.usages
            PROVE  FALSE
        <4>1. x \in Keys(m)
          BY <1>1, <3>3 DEF Keys
        <4>2. m[x].usages[1] \in Elements(g.usages)
          BY <1>4, <4>1
        <4>3. PICK u : a.usages = <<u>>
          BY <1>6, <3>3
        <4>4. <<u>>[1] = u /\ Elements(<<u>>) = {u}
          BY ElementsOfFew
        <4> QED  BY <3>1, <3>3, <4>2, <4>3, <4>4
      <3> QED  BY <3>2, <3>3
    <2>3. ASSUME NEW x \in 1 .. n + 1, NEW y \in 1 .. n + 1, x # y
          PROVE  /\ more[x].modifiers \cap more[y].modifiers = {}
                 /\ more[x].usages = <<>> \/ more[x].usages # more[y].usages
      <3>1. CASE x = n + 1
        <4>1. y \in 1 .. n /\ more[x] = a /\ more[y] = m[y]
          BY <1>2, <1>5, <2>3, <3>1
        <4> QED  BY <2>2, <4>1
      <3>2. CASE y = n + 1
        <4>1. x \in 1 .. n /\ more[y] = a /\ more[x] = m[x]
          BY <1>2, <1>5, <2>3, <3>2
        <4> QED  BY <2>2, <4>1
      <3>3. CASE x # n + 1 /\ y # n + 1
        <4>1. x \in DOMAIN m /\ y \in DOMAIN m /\ more[x] = m[x] /\ more[y] = m[y]
          BY <1>1, <1>2, <1>5, <3>3
        <4> QED  BY <1>4, <2>3, <4>1 DEF Apart
      <3> QED  BY <3>1, <3>2, <3>3
    <2> QED  BY <1>1, <2>1, <2>3 DEF Apart
  <1>13. Gathers(more, h)
    BY <1>1, <1>7, <1>8, <1>10, <1>11, <1>12 DEF Gathers
  <1> QED  BY <1>13 DEF more, h

\* With the members read so far, whatever the rest is cut into makes a cut of the group.
Scanned(s, i, g, m) ==
  /\ Gathers(m, g)
  /\ g.done => g.usages # <<>> \/ g.modifiers # {}
  /\ \A j \in g.at .. Len(s) : \A rest \in GroupCuts(s, i, j)[g.at] :
        m \o rest \in GroupCuts(s, i, j)[i + 1]

\* One more step of the scan has read one more member, or has ended.
LEMMA ScannedStep ==
  ASSUME NEW s \in Seq(STRING), NEW i \in 1 .. Len(s), NEW g, NEW m,
         Scanning(s, i, g), ~Over(g), Scanned(s, i, g, m), GroupStep(s, g).error = "NONE"
  PROVE  \E more : Scanned(s, i, GroupStep(s, g), more)
  <1> DEFINE h == GroupStep(s, g)
             t == MemberToken(s, g.at)
             a == t.action
             c == t.consumed
  <1>0. /\ g \in Group /\ g.at \in Nat \ {0} /\ Len(s) \in Nat /\ g.at > i /\ g.at <= Len(s) + 1
        /\ ~g.done /\ g.error = "NONE" /\ i \in Nat /\ i \in 1 .. Len(s)
    BY DEF Group, Scanning, Over
  <1>1. \A code \in Errors : h = Refusal(g, code) => code = "NONE"
    <2>1. \A code \in Errors : Refusal(g, code).error = code
      BY <1>0, OutcomeTypes
    <2>2. h.error = "NONE"
      OBVIOUS
    <2> HIDE DEF h
    <2> QED  BY <2>1, <2>2
  <1>2. {"MACRO_SYNTAX", "MACRO_LIMIT"} \subseteq Errors \ {"NONE"}
    BY DEF Errors
  <1>3. g.at <= Len(s)
    <2>1. g.at > Len(s) => h = Refusal(g, "MACRO_SYNTAX")
      BY <1>0, GroupStepIs
    <2> QED  BY <1>0, <1>1, <1>2, <2>1
  <1>4. CASE ~AtMember(s, g.at)
    <2>1. h = IF g.usages = <<>> /\ g.modifiers = {} THEN Refusal(g, "MACRO_SYNTAX") ELSE Ended(g)
      BY <1>0, <1>3, <1>4, GroupStepIs
    <2>2. h = Ended(g) /\ (g.usages # <<>> \/ g.modifiers # {})
      BY <1>1, <1>2, <2>1
    <2>3. /\ h.at = g.at /\ h.modifiers = g.modifiers /\ h.usages = g.usages
      BY <1>0, <1>2, <2>2, OutcomeTypes
    <2> HIDE DEF h
    <2>4. Gathers(m, h)
      BY <2>3 DEF Scanned, Gathers
    <2>5. Scanned(s, i, h, m)
      BY <2>2, <2>3, <2>4 DEF Scanned
    <2> QED  BY <2>5 DEF h
  <1>5. CASE AtMember(s, g.at)
    <2>1. g.at \in 1 .. Len(s)
      BY <1>0, <1>3
    <2>2. Reads(s, g.at, t)
      BY <2>1, MemberRead
    <2>3. t.error = "NONE" /\ a.type # "delay"
      <3>1. t.error # "NONE" => h = Refusal(g, t.error)
        BY <1>0, <1>5, GroupStepIs
      <3>2. t.error = "NONE" /\ a.type = "delay" => h = Refusal(g, "MACRO_SYNTAX")
        BY <1>0, <1>5, GroupStepIs
      <3>3. t.error \in Errors
        BY <2>2 DEF Reads
      <3> QED  BY <1>1, <1>2, <3>1, <3>2, <3>3
    <2>4. h = Joined(g, a, c)
      BY <1>0, <1>5, <2>3, GroupStepIs
    <2>5. /\ c \in Nat \ {0} /\ g.at + c <= Len(s) + 1 /\ SingleAction(a) /\ a \in Action
          /\ a \in Single(SubSeq(s, g.at, g.at + c - 1))
      BY <2>1, <2>2, <2>3, ReadType
    <2>6. ~Clash(g, a)
      <3>1. h.error = "NONE"
        OBVIOUS
      <3> HIDE DEF h, a, c
      <3> QED  BY <2>4, <3>1 DEF Joined
    <2> DEFINE more == Append(m, a)
    <2>7. Gathers(more, h)
      <3>1. Gathers(m, g)
        BY DEF Scanned
      <3> HIDE DEF h, a, c
      <3> QED  BY <1>0, <2>3, <2>4, <2>5, <2>6, <3>1, GathersMore
    <2>8. h.at = g.at + c /\ ~h.done
      <3> HIDE DEF h, a, c
      <3> QED  BY <1>0, <2>4 DEF Joined
    <2> HIDE DEF h, a, c, t
    <2>9. ASSUME NEW j \in h.at .. Len(s), NEW rest \in GroupCuts(s, i, j)[h.at]
          PROVE  more \o rest \in GroupCuts(s, i, j)[i + 1]
      <3> DEFINE k == g.at
                 x == g.at + c - 1
      <3>1. /\ j \in i + 1 .. Len(s) /\ k \in i + 1 .. j - 1 /\ x \in k .. j - 1 /\ x + 1 = h.at
            /\ j \in k .. Len(s) /\ h.at \in i + 1 .. j
        BY <1>0, <2>5, <2>8
      <3>2. a \in Single(SubSeq(s, k, x)) /\ rest \in GroupCuts(s, i, j)[x + 1]
        BY <2>5, <2>9, <3>1
      <3> HIDE DEF k, x
      <3>3. <<a>> \o rest \in GroupCuts(s, i, j)[k]
        BY <3>1, <3>2, GroupCutsMade
      <3>4. m \o (<<a>> \o rest) \in GroupCuts(s, i, j)[i + 1]
        BY <3>1, <3>3 DEF Scanned, k
      <3>5. rest \in Seq(Action)
        BY <1>0, <2>9, <3>1, GroupCutsFacts
      <3>6. m \in Seq(Action)
        BY DEF Scanned, Gathers
      <3>7. a \in Action
        BY <2>5
      <3>8. Append(m, a) \o rest = m \o (<<a>> \o rest)
        BY <3>5, <3>6, <3>7, AppendThen
      <3> QED  BY <3>4, <3>8
    <2> HIDE DEF more
    <2>10. Scanned(s, i, h, more)
      BY <2>7, <2>8, <2>9 DEF Scanned
    <2> QED  BY <2>10 DEF h
  <1> QED  BY <1>4, <1>5

\* Before its first step the scan has read nothing.
LEMMA ScannedStart ==
  ASSUME NEW s \in Seq(STRING), NEW i \in 1 .. Len(s)
  PROVE  Scanned(s, i, GroupStart(i), <<>>)
  <1>1. GroupStart(i).at = i + 1 /\ ~GroupStart(i).done
    BY DEF GroupStart
  <1>2. ASSUME NEW j \in i + 1 .. Len(s), NEW rest \in GroupCuts(s, i, j)[i + 1]
        PROVE  <<>> \o rest \in GroupCuts(s, i, j)[i + 1]
    <2>1. i + 1 \in i + 1 .. j
      OBVIOUS
    <2>2. rest \in Seq(Action)
      BY <1>2, <2>1, GroupCutsFacts
    <2>3. <<>> \o rest = rest
      BY <2>2, ConcatEmptySeq
    <2> QED  BY <1>2, <2>3
  <1> QED  BY <1>1, <1>2, GathersNothing DEF Scanned

\* What the whole scan has read.
LEMMA GroupScanned ==
  ASSUME NEW s \in Seq(STRING), NEW i \in 1 .. Len(s), GroupContent(s, i).error = "NONE"
  PROVE  \E m : Scanned(s, i, GroupContent(s, i), m)
  <1> DEFINE N == Len(s)
             G == GroupScan(s, i)
             Good(n) == G[n].error = "NONE" => \E m : Scanned(s, i, G[n], m)
             T == {n \in 0 .. N : Good(n)}
  <1>0. N \in Nat
    OBVIOUS
  <1>1. G[0] = GroupStart(i) /\ \A n \in 1 .. N : G[n] = NextGroup(s, G[n - 1])
    BY GroupScanDef
  <1>2. GroupContent(s, i) = G[N]
    BY DEF GroupContent
  <1>3. \A n \in 0 .. N : Scanning(s, i, G[n])
    BY GroupEnds
  <1> HIDE DEF G, N
  <1>4. 0 \in T
    BY <1>0, <1>1, ScannedStart
  <1>5. ASSUME NEW k \in 0 .. N - 1, k \in T
        PROVE  k + 1 \in T
    <2>1. k + 1 \in 1 .. N /\ k + 1 \in 0 .. N /\ k \in 0 .. N /\ (k + 1) - 1 = k
      BY <1>0
    <2>2. G[k + 1] = NextGroup(s, G[k])
      BY <1>1, <2>1
    <2>3. Good(k) /\ Scanning(s, i, G[k])
      BY <1>3, <1>5, <2>1
    <2>4. CASE Over(G[k])
      <3>1. G[k + 1] = G[k]
        BY <2>2, <2>4 DEF NextGroup, Over
      <3>2. Good(k + 1)
        BY <2>3, <3>1
      <3> QED  BY <2>1, <3>2
    <2>5. CASE ~Over(G[k])
      <3>1. G[k + 1] = GroupStep(s, G[k])
        BY <2>2, <2>5 DEF NextGroup, Over
      <3>2. G[k].error = "NONE"
        BY <2>5 DEF Over
      <3>3. PICK m : Scanned(s, i, G[k], m)
        BY <2>3, <3>2
      <3>4. Good(k + 1)
        BY <2>3, <2>5, <3>1, <3>3, ScannedStep
      <3> QED  BY <2>1, <3>4
    <2> QED  BY <2>4, <2>5
  <1>6. 0 .. N \subseteq T
    <2> HIDE DEF T
    <2> QED  BY <1>0, <1>4, <1>5, Induction
  <1>7. Good(N)
    BY <1>0, <1>6
  <1> QED  BY <1>2, <1>7

\* A group that is taken is a chord of the language.
LEMMA GroupIsChord ==
  ASSUME NEW s \in Seq(STRING), NEW i \in 1 .. Len(s), OpensGroup(s, i),
         GroupContent(s, i).error = "NONE"
  PROVE  /\ GroupContent(s, i).at \in i + 1 .. Len(s)
         /\ Press(ChordOf(GroupContent(s, i))) \in Chords(s, i, GroupContent(s, i).at)
  <1> DEFINE g == GroupContent(s, i)
             j == g.at
  <1>0. Len(s) \in Nat /\ i \in Nat
    OBVIOUS
  <1>1. Scanning(s, i, g) /\ Over(g)
    BY GroupEnds
  <1>2. PICK m : Scanned(s, i, g, m)
    BY GroupScanned
  <1>3. g.error = "NONE"
    OBVIOUS
  <1> HIDE DEF g
  <1>4. /\ g \in Group /\ j \in Nat /\ j > i /\ j <= Len(s) /\ s[j] = "]" /\ g.done
        /\ Len(g.usages) <= UsagesMax
    BY <1>1, <1>3 DEF Scanning, Over, Group
  <1>5. j \in i + 1 .. Len(s)
    BY <1>0, <1>4
  <1>6. /\ GroupCuts(s, i, j)[j] = {<<>>}
    BY <1>5, GroupCutsFacts
  <1>7. Gathers(m, g) /\ m \in Seq(Action)
    BY <1>2 DEF Scanned, Gathers
  <1>8. m \in GroupCuts(s, i, j)[i + 1]
    <2>1. j \in j .. Len(s)
      BY <1>4
    <2>2. m \o <<>> \in GroupCuts(s, i, j)[i + 1]
      BY <1>2, <1>6, <2>1 DEF Scanned
    <2>3. m \o <<>> = m
      BY <1>7, ConcatEmptySeq
    <2> QED  BY <2>2, <2>3
  <1>9. j # i + 1
    <2>1. SUFFICES ASSUME j = i + 1 PROVE FALSE
      OBVIOUS
    <2>2. m = <<>>
      BY <1>6, <1>8, <2>1
    <2>3. Keys(<<>>) = {} /\ Cardinality({}) = 0 /\ DOMAIN <<>> = {}
      BY FS_EmptySet DEF Keys
    <2>4. g.modifiers = {} /\ Len(g.usages) = 0
      <3>1. g.modifiers = UNION {m[x].modifiers : x \in DOMAIN m}
        BY <1>7 DEF Gathers
      <3>2. DOMAIN m = {} /\ Keys(m) = {}
        BY <2>2, <2>3
      <3>3. g.modifiers = {}
        BY <3>1, <3>2
      <3>4. Cardinality(Keys(m)) = Len(g.usages)
        BY <1>7 DEF Gathers
      <3> QED  BY <2>3, <3>2, <3>3, <3>4
    <2>5. g.usages = <<>>
      BY <1>4, <2>4 DEF Group
    <2> QED  BY <1>2, <1>4, <2>4, <2>5 DEF Scanned
  <1>10. Together(m)
    BY <1>4, <1>7 DEF Gathers, Apart, Together
  <1>11. m \in {x \in Cuts(Singles(s), i + 1, j - 1)[i + 1] : Together(x)}
    BY <1>8, <1>10 DEF GroupCuts
  <1>12. Press(ChordOf(g)) = [held |-> UNION {m[x].modifiers : x \in DOMAIN m},
                             keys |-> {m[x].usages[1] : x \in Keys(m)}, delay |-> 0]
    <2>1. /\ ChordOf(g).modifiers = g.modifiers /\ ChordOf(g).usages = g.usages
          /\ ChordOf(g).delay = 0
      BY DEF ChordOf
    <2>2. /\ g.modifiers = UNION {m[x].modifiers : x \in DOMAIN m}
          /\ Elements(g.usages) = {m[x].usages[1] : x \in Keys(m)}
      BY <1>7 DEF Gathers
    <2> HIDE DEF Elements, Keys
    <2> QED  BY <2>1, <2>2 DEF Press
  <1>13. Press(ChordOf(g)) \in Chords(s, i, j)
    <2>1. ~(i + 1 >= j) /\ s[i] = "[" /\ s[j] = "]"
      BY <1>0, <1>4, <1>9 DEF OpensGroup
    <2> HIDE DEF j
    <2>2. Chords(s, i, j) = {[held  |-> UNION {members[x].modifiers : x \in DOMAIN members},
                              keys  |-> {members[x].usages[1] : x \in Keys(members)},
                              delay |-> 0] :
                    members \in {x \in Cuts(Singles(s), i + 1, j - 1)[i + 1] : Together(x)}}
      BY <2>1, Zenon DEF Chords
    <2> QED  BY <1>11, <1>12, <2>2
  <1> QED  BY <1>5, <1>13 DEF g

-----------------------------------------------------------------------------
(* A plan is a reading. *)

SourceCuts(s) == Cuts(Denoted(s), 1, Len(s))

\* What a piece of the source denotes.
LEMMA DenotedIs ==
  ASSUME NEW s \in Seq(STRING), NEW i \in 1 .. Len(s), NEW j \in 1 .. Len(s)
  PROVE  Denoted(s)[i][j] = {Press(a) : a \in Single(SubSeq(s, i, j))} \cup Chords(s, i, j)
  BY DEF Denoted

\* A taken token is what its text says.
LEMMA TokenDenotes ==
  ASSUME NEW s \in Seq(STRING), NEW i \in 1 .. Len(s), NextToken(s, i).error = "NONE"
  PROVE  LET t == NextToken(s, i)
         IN  /\ i + t.consumed - 1 \in i .. Len(s)
             /\ Press(t.action) \in Denoted(s)[i][i + t.consumed - 1]
  <1> DEFINE t == NextToken(s, i)
             j == i + t.consumed - 1
             group == GroupContent(s, i)
  <1>0. Len(s) \in Nat /\ i \in Nat
    OBVIOUS
  <1>1. t.consumed \in Nat \ {0} /\ i + t.consumed <= Len(s) + 1 /\ t.action \in Action
    BY NextTokenType
  <1>2. t.error = "NONE"
    OBVIOUS
  <1>3. j \in i .. Len(s) /\ j \in 1 .. Len(s)
    BY <1>0, <1>1
  <1>4. Denoted(s)[i][j] = {Press(a) : a \in Single(SubSeq(s, i, j))} \cup Chords(s, i, j)
    BY <1>3, DenotedIs
  <1>5. CASE OpensGroup(s, i)
    <2>1. t = IF group.error # "NONE" THEN Fail(group.error)
              ELSE Ok(ChordOf(group), group.at + 1 - i)
      BY <1>5, NextTokenIs
    <2>2. group.error = "NONE"
      <3> HIDE DEF t, group
      <3> QED  BY <1>2, <2>1 DEF Fail
    <2>3. group.at \in i + 1 .. Len(s) /\ Press(ChordOf(group)) \in Chords(s, i, group.at)
      BY <1>5, <2>2, GroupIsChord
    <2>4. t.action = ChordOf(group) /\ t.consumed = group.at + 1 - i
      <3> HIDE DEF t, group
      <3> QED  BY <2>1, <2>2 DEF Ok
    <2>5. j = group.at
      <3> HIDE DEF t, group
      <3> QED  BY <1>0, <2>3, <2>4
    <2> HIDE DEF t, group, j
    <2>6. Press(t.action) \in Denoted(s)[i][j]
      BY <1>4, <2>3, <2>4, <2>5
    <2> QED  BY <1>3, <2>6 DEF t, j
  <1>6. CASE ~OpensGroup(s, i)
    <2>1. t = MemberToken(s, i)
      BY <1>6, NextTokenIs
    <2>2. Reads(s, i, t)
      BY <2>1, MemberRead
    <2> HIDE DEF t
    <2>3. t.action \in Single(SubSeq(s, i, j))
      BY <1>2, <2>2 DEF Reads
    <2> HIDE DEF j
    <2>4. Press(t.action) \in Denoted(s)[i][j]
      BY <1>4, <2>3
    <2> QED  BY <1>3, <2>4 DEF t, j
  <1> QED  BY <1>5, <1>6

\* All that any piece of the source denotes.
Meanings(s) == UNION {UNION {Denoted(s)[k][m] : m \in k .. Len(s)} : k \in 1 .. Len(s)}

\* How the actions of a source follow each other, up to its end.
LEMMA SourceCutsFacts ==
  ASSUME NEW s \in Seq(STRING)
  PROVE  /\ SourceCuts(s)[Len(s) + 1] = {<<>>} /\ Readings(s) = SourceCuts(s)[1]
         /\ \A k \in 1 .. Len(s) + 1 : SourceCuts(s)[k] \subseteq Seq(Meanings(s))
         /\ \A k \in 1 .. Len(s) : \A m \in k .. Len(s) : \A p \in Denoted(s)[k][m] :
               \A rest \in SourceCuts(s)[m + 1] : <<p>> \o rest \in SourceCuts(s)[k]
         /\ \A k \in 1 .. Len(s) : \A r \in SourceCuts(s)[k] :
               \E m, p, rest : Cut(Denoted(s), Len(s), SourceCuts(s), k, r, m, p, rest)
  <1> DEFINE N == Len(s)
             D == Denoted(s)
  <1>0. N \in Nat /\ 1 \in Nat /\ 1 <= N + 1
    OBVIOUS
  <1> HIDE DEF N
  <1>1. Readings(s) = SourceCuts(s)[1]
    BY DEF Readings, SourceCuts
  <1>2. SourceCuts(s) = Cuts(D, 1, N)
    BY DEF SourceCuts, N
  <1>3. \A k \in 1 .. N : \A m \in k .. N : D[k][m] \subseteq Meanings(s)
    <2> HIDE DEF D
    <2> QED  BY DEF Meanings, N, D
  <1> HIDE DEF D
  <1>4. Cuts(D, 1, N)[N + 1] = {<<>>}
    BY <1>0, CutsDef
  <1>5. \A k \in 1 .. N + 1 : Cuts(D, 1, N)[k] \subseteq Seq(Meanings(s))
    BY <1>0, <1>3, CutsType
  <1>6. ASSUME NEW k \in 1 .. N, NEW m \in k .. N, NEW p \in D[k][m], NEW rest \in Cuts(D, 1, N)[m + 1]
        PROVE  <<p>> \o rest \in Cuts(D, 1, N)[k]
    BY <1>0, CutsMade
  <1>7. ASSUME NEW k \in 1 .. N, NEW r \in Cuts(D, 1, N)[k]
        PROVE  \E m, p, rest : Cut(D, N, Cuts(D, 1, N), k, r, m, p, rest)
    BY <1>0, CutsHas
  <1> QED  BY <1>1, <1>2, <1>4, <1>5, <1>6, <1>7 DEF D, N

PressSet == {Press(a) : a \in Action}

\* The presses of a plan with one more action.
LEMMA PressesAppend ==
  ASSUME NEW actions \in Seq(Action), NEW a \in Action
  PROVE  /\ Presses(actions) \in Seq(PressSet) /\ Press(a) \in PressSet
         /\ Presses(Append(actions, a)) = Append(Presses(actions), Press(a))
  <1> DEFINE n == Len(actions)
             more == Append(actions, a)
             P == Presses(actions)
             Q == Presses(more)
  <1>1. /\ n \in Nat /\ DOMAIN actions = 1 .. n /\ more \in Seq(Action) /\ Len(more) = n + 1
        /\ DOMAIN more = 1 .. n + 1 /\ more[n + 1] = a /\ \A x \in 1 .. n : more[x] = actions[x]
        /\ \A x \in 1 .. n : actions[x] \in Action
        /\ \A x \in 1 .. n + 1 : more[x] \in Action
    OBVIOUS
  <1> HIDE DEF n, more
  <1>2. P = [x \in 1 .. n |-> Press(actions[x])] /\ Q = [x \in 1 .. n + 1 |-> Press(more[x])]
    BY <1>1 DEF Presses
  <1>3. Press(a) \in PressSet
    BY DEF PressSet
  <1>4. P \in Seq(PressSet) /\ Len(P) = n /\ Q \in Seq(PressSet) /\ Len(Q) = n + 1
    <2>1. /\ \A x \in 1 .. n : Press(actions[x]) \in PressSet
          /\ \A x \in 1 .. n + 1 : Press(more[x]) \in PressSet
      BY <1>1 DEF PressSet
    <2> HIDE DEF P, Q
    <2> QED  BY <1>1, <1>2, <2>1
  <1> DEFINE R == Append(P, Press(a))
  <1> HIDE DEF P, Q
  <1>5. /\ R \in Seq(PressSet) /\ Len(R) = n + 1 /\ R[n + 1] = Press(a)
        /\ \A x \in 1 .. n : R[x] = P[x]
    BY <1>3, <1>4
  <1> HIDE DEF R
  <1>6. ASSUME NEW x \in 1 .. n + 1
        PROVE  Q[x] = R[x]
    <2>1. CASE x = n + 1
      BY <1>1, <1>2, <1>5, <2>1
    <2>2. CASE x # n + 1
      <3>1. x \in 1 .. n
        BY <1>1, <2>2
      <3> QED  BY <1>1, <1>2, <1>5, <3>1
    <2> QED  BY <2>1, <2>2
  <1>7. Q = R
    BY <1>4, <1>5, <1>6, SeqEqual
  <1> QED  BY <1>3, <1>4, <1>7 DEF P, Q, R, more

\* With the plan so far, whatever the rest is cut into makes a reading of the source.
ReadSoFar ==
  /\ \A rest \in SourceCuts(source)[offset] : Presses(working.actions) \o rest \in Readings(source)
  /\ result = "NONE" => offset = Len(source) + 1

\* Before the first token, a cut of the source is a reading of it.
LEMMA InitRead == Init => ReadSoFar
  <1> SUFFICES ASSUME Init PROVE ReadSoFar
    OBVIOUS
  <1>1. source \in Seq(STRING) /\ offset = 1 /\ working.actions = <<>> /\ result = "none"
    BY InputAssumption DEF Init
  <1>2. Presses(<<>>) = <<>>
    BY DEF Presses
  <1>3. ASSUME NEW rest \in SourceCuts(source)[1]
        PROVE  <<>> \o rest \in Readings(source)
    <2>1. 1 \in 1 .. Len(source) + 1
      BY <1>1
    <2>2. rest \in Seq(Meanings(source))
      BY <1>1, <1>3, <2>1, SourceCutsFacts
    <2>3. <<>> \o rest = rest
      BY <2>2, ConcatEmptySeq
    <2> QED  BY <1>1, <1>3, <2>3, SourceCutsFacts
  <1> QED  BY <1>1, <1>2, <1>3 DEF ReadSoFar

\* A token that is taken is the next action of every reading that goes on from it.
LEMMA NextRead == TypeCorrect /\ ReadSoFar /\ [Next]_vars => ReadSoFar'
  <1> SUFFICES ASSUME TypeCorrect, ReadSoFar, [Next]_vars PROVE ReadSoFar'
    OBVIOUS
  <1>1. CASE /\ UNCHANGED <<source, options, offset, working>>
             /\ result' = "NONE" => result = "NONE" \/ offset > Len(source)
    <2>1. offset > Len(source) => offset = Len(source) + 1
      BY DEF TypeCorrect
    <2> QED  BY <1>1, <2>1 DEF ReadSoFar
  <1>2. ASSUME NEW token, Goes(token)
        PROVE  ReadSoFar'
    <2> DEFINE a == token.action
               m == offset + token.consumed - 1
               s == source
    <2>1. /\ a \in Action /\ offset \in 1 .. Len(s) /\ s \in Seq(STRING)
          /\ working.actions \in Seq(Action) /\ token.consumed \in Nat
      BY <1>2, GoesType DEF TypeCorrect
    <2>2. token = NextToken(s, offset) /\ token.error = "NONE" /\ result' = "none"
          /\ working'.actions = Append(working.actions, a) /\ offset' = m + 1 /\ source' = s
      BY <1>2, <2>1 DEF Goes
    <2>3. m \in offset .. Len(s) /\ Press(a) \in Denoted(s)[offset][m]
      BY <2>1, <2>2, TokenDenotes
    <2> HIDE DEF a, m
    <2>4. ASSUME NEW rest \in SourceCuts(s)[m + 1]
          PROVE  Presses(Append(working.actions, a)) \o rest \in Readings(s)
      <3>1. <<Press(a)>> \o rest \in SourceCuts(s)[offset]
        BY <2>1, <2>3, <2>4, SourceCutsFacts
      <3>2. Presses(working.actions) \o (<<Press(a)>> \o rest) \in Readings(s)
        BY <3>1 DEF ReadSoFar
      <3>3. m + 1 \in 1 .. Len(s) + 1
        BY <2>1, <2>3
      <3>4. rest \in Seq(Meanings(s))
        BY <2>1, <2>4, <3>3, SourceCutsFacts
      <3>5. /\ Presses(working.actions) \in Seq(PressSet) /\ Press(a) \in PressSet
            /\ Presses(Append(working.actions, a)) = Append(Presses(working.actions), Press(a))
        BY <2>1, PressesAppend
      <3>6. Append(Presses(working.actions), Press(a)) \o rest
              = Presses(working.actions) \o (<<Press(a)>> \o rest)
        BY <3>4, <3>5, AppendThen
      <3> QED  BY <3>2, <3>5, <3>6
    <2> QED  BY <2>2, <2>4 DEF ReadSoFar
  <1> QED  BY <1>1, <1>2, StepKinds

\* At the end of the source nothing is left to read.
LEMMA ReadAtEnd == TypeCorrect /\ ReadSoFar => PlanIsAReading
  <1> SUFFICES ASSUME TypeCorrect, ReadSoFar, result = "NONE"
               PROVE  Presses(working.actions) \in Readings(source)
    BY DEF PlanIsAReading
  <1>1. source \in Seq(STRING) /\ working.actions \in Seq(Action)
    BY DEF TypeCorrect
  <1>2. <<>> \in SourceCuts(source)[offset]
    BY <1>1, SourceCutsFacts DEF ReadSoFar
  <1>3. Presses(working.actions) \o <<>> \in Readings(source)
    BY <1>2 DEF ReadSoFar
  <1>4. \A x \in DOMAIN working.actions : Press(working.actions[x]) \in PressSet
    BY <1>1 DEF PressSet
  <1>5. Presses(working.actions) \in Seq(PressSet)
    BY <1>1, <1>4 DEF Presses
  <1>6. Presses(working.actions) \o <<>> = Presses(working.actions)
    BY <1>5, ConcatEmptySeq
  <1> QED  BY <1>3, <1>6

\* A plan that macro_compile_v2() hands out presses what the source says, in its
\* order: whatever its names, its limits and the depth of its text.
THEOREM PlansAreReadings == Spec => []PlanIsAReading
  BY InitType, NextType, InitRead, NextRead, ReadAtEnd, PTL DEF Spec

-----------------------------------------------------------------------------
(* What is refused as wrong is not in the language. *)

\* The group has read the members p, and the rest of the chord follows.
Follows(s, i, j, members, g, p, rest) ==
  /\ g.at \in i + 1 .. j /\ (g.done => g.at = j)
  /\ Gathers(p, g) /\ rest \in GroupCuts(s, i, j)[g.at] /\ p \o rest = members

\* No member of a chord is refused.
OnCourse(s, i, j, members, g) ==
  \/ g.error = "MACRO_LIMIT"
  \/ g.error = "NONE" /\ \E p, rest : Follows(s, i, j, members, g, p, rest)

\* A bracketed text with these members, which ends at its "]".
ChordText(s, i, j, members) ==
  /\ i + 1 < j /\ s[j] = "]" /\ ~Doubled(s, j) /\ ~LongDirective(s)
  /\ members \in GroupCuts(s, i, j)[i + 1] /\ Together(members)

\* A chord has a member.
LEMMA FirstMember ==
  ASSUME NEW s \in Seq(STRING), NEW i \in 1 .. Len(s), NEW j \in i + 1 .. Len(s), NEW members,
         ChordText(s, i, j, members)
  PROVE  members \in Seq(Action) /\ Len(members) >= 1
  <1>1. i + 1 \in i + 1 .. j - 1 /\ i + 1 \in i + 1 .. j
    BY DEF ChordText
  <1>2. members \in Seq(Action) /\ members \in GroupCuts(s, i, j)[i + 1]
    BY <1>1, GroupCutsFacts DEF ChordText
  <1>3. PICK m, a, rest : Begins(s, i, j, i + 1, members, m, a, rest)
    BY <1>1, <1>2, GroupCutsFacts
  <1>4. m + 1 \in i + 1 .. j /\ rest \in GroupCuts(s, i, j)[m + 1] /\ members = <<a>> \o rest
    BY <1>1, <1>3 DEF Begins
  <1>5. rest \in Seq(Action)
    BY <1>4, GroupCutsFacts
  <1>6. Len(<<a>> \o rest) = 1 + Len(rest)
    BY <1>5
  <1> QED  BY <1>2, <1>4, <1>5, <1>6

\* At its "]" the group ends.
LEMMA CourseEnd ==
  ASSUME NEW s \in Seq(STRING), NEW i \in 1 .. Len(s), NEW j \in i + 1 .. Len(s), NEW members,
         ChordText(s, i, j, members), NEW g, Scanning(s, i, g), ~Over(g),
         NEW p, NEW rest, Follows(s, i, j, members, g, p, rest), g.at = j
  PROVE  OnCourse(s, i, j, members, GroupStep(s, g))
  <1> DEFINE h == GroupStep(s, g)
  <1>1. g \in Group /\ g.error = "NONE" /\ "NONE" \in Errors
    BY DEF Scanning, Over, Errors
  <1>2. p = members
    <2>1. rest = <<>>
      BY GroupCutsFacts DEF Follows
    <2>2. p \in Seq(Action)
      BY DEF Follows, Gathers
    <2>3. p \o <<>> = p
      BY <2>2, ConcatEmptySeq
    <2> QED  BY <2>1, <2>3 DEF Follows
  <1>3. ~(g.usages = <<>> /\ g.modifiers = {})
    <2>1. 1 \in 1 .. Len(p) /\ DOMAIN p = 1 .. Len(p)
      BY <1>2, FirstMember
    <2>2. SingleAction(p[1]) /\ p[1].type # "delay"
      BY <2>1 DEF Follows, Gathers, Apart
    <2>3. p[1].usages # <<>> \/ p[1].modifiers # {}
      BY <2>2 DEF SingleAction
    <2>4. p[1].usages # <<>> => p[1].usages[1] \in Elements(g.usages)
      BY <2>1 DEF Follows, Gathers, Keys
    <2>5. p[1].modifiers \subseteq g.modifiers
      BY <2>1 DEF Follows, Gathers
    <2> QED  BY <2>3, <2>4, <2>5, ElementsOfFew
  <1>4. g.at <= Len(s) /\ ~AtMember(s, g.at)
    BY DEF ChordText, AtMember
  <1>5. h = Ended(g)
    BY <1>1, <1>3, <1>4, GroupStepIs
  <1>6. /\ h.error = "NONE" /\ h.at = g.at /\ h.modifiers = g.modifiers /\ h.usages = g.usages
    BY <1>1, <1>5, OutcomeTypes
  <1> HIDE DEF h
  <1>7. Follows(s, i, j, members, h, p, rest)
    BY <1>6 DEF Follows, Gathers
  <1> QED  BY <1>6, <1>7 DEF OnCourse, h

\* What is apart from all that is gathered does not clash.
LEMMA NoClash ==
  ASSUME NEW g \in Group, NEW p, Gathers(p, g), NEW a, SingleAction(a), NEW rest \in Seq(Action),
         Together(p \o (<<a>> \o rest))
  PROVE  ~Clash(g, a) /\ a.type # "delay"
  <1> DEFINE n == Len(p)
             m == p \o (<<a>> \o rest)
  <1>1. /\ p \in Seq(Action) /\ n \in Nat /\ DOMAIN p = 1 .. n /\ a \in Action
    BY DEF Gathers, SingleAction
  <1>2. /\ n + 1 \in DOMAIN m /\ m[n + 1] = a
        /\ \A x \in 1 .. n : x \in DOMAIN m /\ m[x] = p[x] /\ x # n + 1
    <2> DEFINE tail == <<a>> \o rest
    <2>1. tail \in Seq(Action) /\ Len(tail) = 1 + Len(rest) /\ tail[1] = a /\ Len(rest) \in Nat
      BY <1>1
    <2> HIDE DEF tail
    <2>2. /\ p \o tail \in Seq(Action) /\ Len(p \o tail) = n + Len(tail)
          /\ \A k \in 1 .. n + Len(tail) : (p \o tail)[k] = IF k <= n THEN p[k] ELSE tail[k - n]
      <3>1. p \in Seq(Action) /\ tail \in Seq(Action)
        BY <1>1, <2>1
      <3>2. /\ p \o tail \in Seq(Action) /\ Len(p \o tail) = Len(p) + Len(tail)
            /\ \A k \in 1 .. Len(p) + Len(tail) :
                  (p \o tail)[k] = IF k <= Len(p) THEN p[k] ELSE tail[k - Len(p)]
        <4> HIDE DEF n, m
        <4> QED  BY ONLY <3>1, ConcatProperties
      <3> QED  BY <3>2
    <2>3. DOMAIN (p \o tail) = 1 .. n + Len(tail)
      BY <2>2
    <2>4. (p \o tail)[n + 1] = a /\ n + 1 \in 1 .. n + Len(tail)
      BY <1>1, <2>1, <2>2
    <2>5. \A x \in 1 .. n : x \in 1 .. n + Len(tail) /\ (p \o tail)[x] = p[x] /\ x # n + 1
      BY <1>1, <2>1, <2>2
    <2> QED  BY <2>3, <2>4, <2>5 DEF tail
  <1>3. Together(m)
    OBVIOUS
  <1> HIDE DEF m
  <1>4. a.type # "delay"
    BY <1>2, <1>3 DEF Together
  <1>5. ASSUME NEW x \in 1 .. n
        PROVE  /\ p[x].modifiers \cap a.modifiers = {}
               /\ p[x].usages = <<>> \/ p[x].usages # a.usages
    BY <1>2, <1>3 DEF Together
  <1>6. g.modifiers \cap a.modifiers = {}
    <2>1. SUFFICES ASSUME NEW e \in g.modifiers \cap a.modifiers PROVE FALSE
      OBVIOUS
    <2>2. PICK x \in 1 .. n : e \in p[x].modifiers
      BY <1>1, <2>1 DEF Gathers
    <2> QED  BY <1>5, <2>1, <2>2
  <1>7. Elements(g.usages) \cap Elements(a.usages) = {}
    <2>1. SUFFICES ASSUME NEW u \in Elements(g.usages) \cap Elements(a.usages) PROVE FALSE
      OBVIOUS
    <2>2. PICK x \in Keys(p) : u = p[x].usages[1]
      BY <2>1 DEF Gathers
    <2>3. x \in 1 .. n /\ p[x].usages # <<>>
      BY <1>1, <2>2 DEF Keys
    <2>4. SingleAction(p[x])
      BY <2>3 DEF Gathers
    <2>5. p[x].usages = <<u>>
      BY <2>2, <2>3, <2>4 DEF SingleAction
    <2>6. a.usages = <<a.usages[1]>>
      BY <2>1, ElementsOfFew DEF SingleAction
    <2>7. PICK v : a.usages = <<v>>
      BY <2>6
    <2>8. u = v
      BY <2>1, <2>7, ElementsOfFew
    <2> QED  BY <1>5, <2>3, <2>5, <2>7, <2>8
  <1> QED  BY <1>4, <1>6, <1>7 DEF Clash

\* Before its "]" the group takes the next member, or has too many keys.
LEMMA CourseStep ==
  ASSUME NEW s \in Seq(STRING), NEW i \in 1 .. Len(s), NEW j \in i + 1 .. Len(s), NEW members,
         ChordText(s, i, j, members), NEW g, Scanning(s, i, g), ~Over(g),
         NEW p, NEW rest, Follows(s, i, j, members, g, p, rest), g.at # j
  PROVE  OnCourse(s, i, j, members, GroupStep(s, g))
  <1> DEFINE h == GroupStep(s, g)
             k == g.at
             t == MemberToken(s, k)
  <1>0. /\ g \in Group /\ g.error = "NONE" /\ ~g.done /\ Len(s) \in Nat /\ i \in Nat
        /\ k \in i + 1 .. j - 1 /\ k \in 1 .. Len(s) /\ k <= Len(s)
    BY DEF Scanning, Over, Follows
  <1>1. PICK m, a, after : Begins(s, i, j, k, rest, m, a, after)
    BY <1>0, GroupCutsFacts DEF Follows
  <1>2. /\ m \in k .. j - 1 /\ m \in k .. Len(s) /\ a \in Single(SubSeq(s, k, m))
        /\ after \in GroupCuts(s, i, j)[m + 1] /\ rest = <<a>> \o after
        /\ m + 1 \in i + 1 .. j
    BY <1>0, <1>1 DEF Begins
  <1>3. t = Ok(a, m - k + 1)
    <2>1. Reads(s, k, t)
      BY <1>0, MemberRead
    <2> HIDE DEF t
    <2> QED  BY <1>2, <2>1 DEF Reads, ChordText
  <1>4. t.error = "NONE" /\ t.action = a /\ t.consumed = m - k + 1
    BY <1>3 DEF Ok
  <1>5. SingleAction(a) /\ a \in Action
    BY <1>2, SingleType DEF SingleAction
  <1>6. after \in Seq(Action)
    BY <1>2, GroupCutsFacts
  <1>7. Together(p \o (<<a>> \o after)) /\ Gathers(p, g) /\ p \o (<<a>> \o after) = members
    BY <1>2 DEF Follows, ChordText
  <1>8. ~Clash(g, a) /\ a.type # "delay"
    BY <1>0, <1>5, <1>6, <1>7, NoClash
  <1>9. AtMember(s, k)
    <2>1. SUFFICES ASSUME s[k] = "]", ~Doubled(s, k) PROVE FALSE
      BY <1>0 DEF AtMember
    <2>2. t = Fail("MACRO_SYNTAX")
      BY <2>1 DEF MemberToken
    <2> HIDE DEF t
    <2> QED  BY <1>4, <2>2 DEF Fail
  <1>10. h = Joined(g, a, m - k + 1)
    BY <1>0, <1>4, <1>8, <1>9, GroupStepIs
  <1>11. Gathers(Append(p, a), h)
    <2> HIDE DEF h
    <2> QED  BY <1>0, <1>5, <1>7, <1>8, <1>10, GathersMore
  <1> HIDE DEF h, t
  <1>12. h.at = m + 1 /\ ~h.done /\ h.error \in {"NONE", "MACRO_LIMIT"}
    <2>1. h.at = k + (m - k + 1) /\ h.done = g.done
      BY <1>10 DEF Joined
    <2>2. h.error \in {"NONE", "MACRO_LIMIT"}
      BY <1>8, <1>10 DEF Joined
    <2>3. ~h.done
      BY <1>0, <1>10 DEF Joined
    <2> QED  BY <1>0, <1>2, <2>1, <2>2, <2>3
  <1>13. Append(p, a) \o after = members
    <2>1. p \in Seq(Action)
      BY <1>7 DEF Gathers
    <2>2. Append(p, a) \o after = p \o (<<a>> \o after)
      BY <1>5, <1>6, <2>1, AppendThen
    <2> QED  BY <1>7, <2>2
  <1>14. Follows(s, i, j, members, h, Append(p, a), after)
    BY <1>2, <1>11, <1>12, <1>13 DEF Follows
  <1>15. OnCourse(s, i, j, members, h)
    BY <1>12, <1>14 DEF OnCourse
  <1> QED  BY <1>15 DEF h

\* The scan of a chord ends at its "]", or has too many keys.
LEMMA ChordScanned ==
  ASSUME NEW s \in Seq(STRING), NEW i \in 1 .. Len(s), NEW j \in i + 1 .. Len(s), NEW members,
         ChordText(s, i, j, members)
  PROVE  \/ GroupContent(s, i).error = "MACRO_LIMIT"
         \/ GroupContent(s, i).error = "NONE" /\ GroupContent(s, i).at = j
  <1> DEFINE N == Len(s)
             G == GroupScan(s, i)
             Good(n) == OnCourse(s, i, j, members, G[n])
             T == {n \in 0 .. N : Good(n)}
  <1>0. N \in Nat /\ i \in Nat
    OBVIOUS
  <1>1. G[0] = GroupStart(i) /\ \A n \in 1 .. N : G[n] = NextGroup(s, G[n - 1])
    BY GroupScanDef
  <1>2. GroupContent(s, i) = G[N]
    BY DEF GroupContent
  <1>3. /\ \A n \in 0 .. N : Scanning(s, i, G[n])
        /\ Over(GroupContent(s, i))
    BY GroupEnds
  <1> HIDE DEF G, N
  <1>4. 0 \in T
    <2>1. /\ GroupStart(i).at = i + 1 /\ GroupStart(i).error = "NONE" /\ ~GroupStart(i).done
      BY DEF GroupStart
    <2>2. <<>> \o members = members
      BY FirstMember, ConcatEmptySeq
    <2>3. members \in GroupCuts(s, i, j)[i + 1] /\ i + 1 \in i + 1 .. j
      BY DEF ChordText
    <2>4. Follows(s, i, j, members, GroupStart(i), <<>>, members)
      BY <2>1, <2>2, <2>3, GathersNothing DEF Follows
    <2>5. Good(0)
      BY <1>1, <2>1, <2>4 DEF OnCourse
    <2> QED  BY <1>0, <2>5
  <1>5. ASSUME NEW n \in 0 .. N - 1, n \in T
        PROVE  n + 1 \in T
    <2>1. n + 1 \in 1 .. N /\ n + 1 \in 0 .. N /\ n \in 0 .. N /\ (n + 1) - 1 = n
      BY <1>0
    <2>2. G[n + 1] = NextGroup(s, G[n])
      BY <1>1, <2>1
    <2>3. Good(n) /\ Scanning(s, i, G[n])
      BY <1>3, <1>5, <2>1
    <2>4. CASE Over(G[n])
      <3>1. G[n + 1] = G[n]
        BY <2>2, <2>4 DEF NextGroup, Over
      <3>2. Good(n + 1)
        BY <2>3, <3>1
      <3> QED  BY <2>1, <3>2
    <2>5. CASE ~Over(G[n])
      <3>1. G[n + 1] = GroupStep(s, G[n])
        BY <2>2, <2>5 DEF NextGroup, Over
      <3>2. G[n].error = "NONE"
        BY <2>5 DEF Over
      <3>3. PICK p, rest : Follows(s, i, j, members, G[n], p, rest)
        BY <2>3, <3>2 DEF OnCourse
      <3>4. Good(n + 1)
        <4>1. CASE G[n].at = j
          BY <2>3, <2>5, <3>1, <3>3, <4>1, CourseEnd
        <4>2. CASE G[n].at # j
          BY <2>3, <2>5, <3>1, <3>3, <4>2, CourseStep
        <4> QED  BY <4>1, <4>2
      <3> QED  BY <2>1, <3>4
    <2> QED  BY <2>4, <2>5
  <1>6. 0 .. N \subseteq T
    <2> HIDE DEF T
    <2> QED  BY <1>0, <1>4, <1>5, Induction
  <1>7. Good(N)
    BY <1>0, <1>6
  <1> QED  BY <1>2, <1>3, <1>7 DEF OnCourse, Over, Follows

\* A text that begins with a bracket is a doubled bracket, or a chord.
LEMMA BracketText ==
  ASSUME NEW s \in Seq(STRING), ~LongDirective(s), NEW i \in 1 .. Len(s),
         s[i] \in {"[", "]"}, NEW j \in i .. Len(s), NEW a \in Single(SubSeq(s, i, j))
  PROVE  Doubled(s, i)
  <1> SUFFICES ASSUME ~Doubled(s, i) PROVE FALSE
    OBVIOUS
  <1>1. MemberToken(s, i) = Fail("MACRO_SYNTAX")
    BY DEF MemberToken
  <1>2. MemberToken(s, i) = Ok(a, j - i + 1)
    BY MemberRead DEF Reads
  <1> QED  BY <1>1, <1>2 DEF Ok, Fail

\* Two doubled brackets that overlap are three in a row.
LEMMA ThreeBrackets ==
  ASSUME NEW s \in Seq(STRING), NEW i \in 1 .. Len(s), s[i] \in {"[", "]"},
         Doubled(s, i), Doubled(s, i + 1)
  PROVE  Ambiguous(s)
  <1>1. /\ i \in 1 .. Len(s) - 2 /\ s[i + 1] = s[i] /\ s[i + 2] = s[i]
    <2>1. i + 1 < Len(s) /\ s[(i + 1) + 1] = s[i + 1] /\ (i + 1) + 1 = i + 2
      BY DEF Doubled
    <2> QED  BY <2>1 DEF Doubled
  <1> QED  BY <1>1 DEF Ambiguous

\* What a chord is the text of.
LEMMA ChordHas ==
  ASSUME NEW s, NEW i \in Nat, NEW j \in Nat, NEW p \in Chords(s, i, j)
  PROVE  /\ i + 1 < j /\ s[i] = "[" /\ s[j] = "]"
         /\ \E members \in GroupCuts(s, i, j)[i + 1] : Together(members)
  <1>1. ~(i + 1 >= j \/ s[i] # "[" \/ s[j] # "]")
    BY DEF Chords
  <1>2. \E members \in GroupCuts(s, i, j)[i + 1] : Together(members)
    BY <1>1 DEF Chords, GroupCuts
  <1> QED  BY <1>1, <1>2

\* When the rest of the source has a meaning, it begins with no "]" that stands alone.
LEMMA RestBegins ==
  ASSUME NEW s \in Seq(STRING), ~LongDirective(s), NEW k \in 1 .. Len(s), s[k] = "]",
         NEW rest \in SourceCuts(s)[k]
  PROVE  Doubled(s, k)
  <1>1. PICK m, p, after : Cut(Denoted(s), Len(s), SourceCuts(s), k, rest, m, p, after)
    BY SourceCutsFacts
  <1>2. m \in k .. Len(s) /\ m \in 1 .. Len(s) /\ p \in Denoted(s)[k][m]
    BY <1>1 DEF Cut
  <1>3. p \in {Press(a) : a \in Single(SubSeq(s, k, m))} \cup Chords(s, k, m)
    BY <1>2, DenotedIs
  <1>4. p \notin Chords(s, k, m)
    <2>1. k \in Nat /\ m \in Nat /\ s[k] # "["
      BY <1>2
    <2> QED  BY <2>1, ChordHas
  <1>5. PICK a \in Single(SubSeq(s, k, m)) : p = Press(a)
    BY <1>3, <1>4
  <1> QED  BY <1>2, <1>5, BracketText

\* The text i .. m of the source means something, and so does what follows it.
LEMMA TokenRead ==
  ASSUME NEW s \in Seq(STRING), ~LongDirective(s), ~Ambiguous(s),
         NEW i \in 1 .. Len(s), NEW m \in i .. Len(s), NEW p \in Denoted(s)[i][m],
         NEW rest \in SourceCuts(s)[m + 1]
  PROVE  /\ NextToken(s, i).error # "MACRO_SYNTAX"
         /\ NextToken(s, i).error = "NONE" => i + NextToken(s, i).consumed = m + 1
  <1>0. Len(s) \in Nat /\ i \in Nat /\ m \in Nat /\ m \in 1 .. Len(s)
    OBVIOUS
  <1>1. p \in {Press(a) : a \in Single(SubSeq(s, i, m))} \cup Chords(s, i, m)
    BY <1>0, DenotedIs
  <1>2. CASE p \in {Press(a) : a \in Single(SubSeq(s, i, m))}
    <2>1. PICK a \in Single(SubSeq(s, i, m)) : p = Press(a)
      BY <1>2
    <2>2. ~OpensGroup(s, i)
      BY BracketText DEF OpensGroup
    <2>3. NextToken(s, i) = MemberToken(s, i)
      BY <2>2, NextTokenIs
    <2>4. MemberToken(s, i) = Ok(a, m - i + 1)
      BY MemberRead DEF Reads
    <2>5. /\ NextToken(s, i).error = "NONE" /\ NextToken(s, i).consumed = m - i + 1
      BY <2>3, <2>4 DEF Ok
    <2> QED  BY <1>0, <2>5
  <1>3. CASE p \in Chords(s, i, m)
    <2>1. i + 1 < m /\ s[i] = "[" /\ s[m] = "]"
      BY <1>3, ChordHas
    <2>2. PICK members \in GroupCuts(s, i, m)[i + 1] : Together(members)
      BY <1>3, ChordHas
    <2>3. m \in i + 1 .. Len(s) /\ i + 1 \in i + 1 .. m - 1 /\ i + 1 \in 1 .. Len(s)
      BY <1>0, <2>1
    <2>4. ~Doubled(s, i)
      <3>1. SUFFICES ASSUME Doubled(s, i) PROVE FALSE
        OBVIOUS
      <3>2. PICK k, a, after : Begins(s, i, m, i + 1, members, k, a, after)
        BY <2>2, <2>3, GroupCutsFacts
      <3>3. k \in i + 1 .. Len(s) /\ a \in Single(SubSeq(s, i + 1, k))
        BY <1>0, <2>3, <3>2 DEF Begins
      <3>4. s[i + 1] = "["
        BY <2>1, <3>1 DEF Doubled
      <3>5. Doubled(s, i + 1)
        BY <2>3, <3>3, <3>4, BracketText
      <3> QED  BY <2>1, <3>1, <3>5, ThreeBrackets
    <2>5. ~Doubled(s, m)
      <3>1. SUFFICES ASSUME Doubled(s, m) PROVE FALSE
        OBVIOUS
      <3>2. m + 1 \in 1 .. Len(s) /\ s[m + 1] = "]"
        BY <1>0, <2>1, <3>1 DEF Doubled
      <3>3. Doubled(s, m + 1)
        BY <3>2, RestBegins
      <3> QED  BY <1>0, <2>1, <3>1, <3>3, ThreeBrackets
    <2>6. ChordText(s, i, m, members)
      BY <2>1, <2>2, <2>5 DEF ChordText
    <2>7. \/ GroupContent(s, i).error = "MACRO_LIMIT"
          \/ GroupContent(s, i).error = "NONE" /\ GroupContent(s, i).at = m
      BY <2>3, <2>6, ChordScanned
    <2>8. NextToken(s, i) =
            IF GroupContent(s, i).error # "NONE" THEN Fail(GroupContent(s, i).error)
            ELSE Ok(ChordOf(GroupContent(s, i)), GroupContent(s, i).at + 1 - i)
      BY <2>1, <2>4, NextTokenIs DEF OpensGroup
    <2>9. CASE GroupContent(s, i).error = "MACRO_LIMIT"
      BY <2>8, <2>9 DEF Fail
    <2>10. CASE GroupContent(s, i).error = "NONE" /\ GroupContent(s, i).at = m
      <3>1. NextToken(s, i).error = "NONE" /\ NextToken(s, i).consumed = m + 1 - i
        BY <2>8, <2>10 DEF Ok
      <3> QED  BY <1>0, <3>1
    <2> QED  BY <2>7, <2>9, <2>10
  <1> QED  BY <1>1, <1>2, <1>3

\* While a source of the language is compiled, its rest has a meaning.
NotRefused ==
  ~Ambiguous(source) /\ ~LongDirective(source) /\ Readings(source) # {} =>
    /\ result # "MACRO_SYNTAX"
    /\ result = "none" => SourceCuts(source)[offset] # {}

\* Nothing is refused before the first token.
LEMMA InitNotRefused == Init => NotRefused
  <1> SUFFICES ASSUME Init PROVE NotRefused
    OBVIOUS
  <1>1. source \in Seq(STRING) /\ offset = 1 /\ result = "none"
    BY InputAssumption DEF Init
  <1> QED  BY <1>1, SourceCutsFacts DEF NotRefused

\* The rest of a source of the language begins with a text that the token reader reads.
LEMMA RestRead ==
  ASSUME TypeCorrect, ~Ambiguous(source), ~LongDirective(source), offset <= Len(source),
         SourceCuts(source)[offset] # {}
  PROVE  /\ NextToken(source, offset).error # "MACRO_SYNTAX"
         /\ NextToken(source, offset).error = "NONE" =>
               SourceCuts(source)[offset + NextToken(source, offset).consumed] # {}
  <1>1. source \in Seq(STRING) /\ offset \in 1 .. Len(source)
    BY DEF TypeCorrect
  <1>2. PICK r : r \in SourceCuts(source)[offset]
    OBVIOUS
  <1>3. PICK m, p, rest : Cut(Denoted(source), Len(source), SourceCuts(source), offset, r, m, p, rest)
    BY <1>1, <1>2, SourceCutsFacts
  <1>4. /\ m \in offset .. Len(source) /\ p \in Denoted(source)[offset][m]
        /\ rest \in SourceCuts(source)[m + 1]
    BY <1>3 DEF Cut
  <1>5. /\ NextToken(source, offset).error # "MACRO_SYNTAX"
        /\ NextToken(source, offset).error = "NONE" =>
              offset + NextToken(source, offset).consumed = m + 1
    BY <1>1, <1>4, TokenRead
  <1> QED  BY <1>4, <1>5

\* No step refuses a source of the language, or leaves it without a rest that has a meaning.
LEMMA NextNotRefused == TypeCorrect /\ NotRefused /\ [Next]_vars => NotRefused'
  <1> SUFFICES ASSUME TypeCorrect, NotRefused, [Next]_vars,
                      ~Ambiguous(source'), ~LongDirective(source'), Readings(source') # {}
               PROVE  /\ result' # "MACRO_SYNTAX"
                      /\ result' = "none" => SourceCuts(source')[offset'] # {}
    BY DEF NotRefused
  <1>1. CASE /\ UNCHANGED <<source, options, offset, working>>
             /\ \/ result' \in {"INVALID_ARGUMENT", "MACRO_LIMIT", "INTERNAL"}
                \/ /\ result = "none" /\ result' = NextToken(source, offset).error
                   /\ offset <= Len(source) /\ result' \in Errors \ {"NONE"}
                \/ result = "none" /\ offset > Len(source) /\ result' = "NONE"
                \/ UNCHANGED result
    <2>1. CASE result' \in {"INVALID_ARGUMENT", "MACRO_LIMIT", "INTERNAL", "NONE"}
      BY <2>1
    <2>2. CASE /\ result = "none" /\ result' = NextToken(source, offset).error
               /\ offset <= Len(source) /\ result' \in Errors \ {"NONE"}
      <3>1. SourceCuts(source)[offset] # {}
        BY <1>1, <2>2 DEF NotRefused
      <3>2. result' # "MACRO_SYNTAX"
        BY <1>1, <2>2, <3>1, RestRead
      <3> QED  BY <2>2, <3>2 DEF Errors
    <2>3. CASE UNCHANGED result
      BY <1>1, <2>3 DEF NotRefused
    <2> QED  BY <1>1, <2>1, <2>2, <2>3
  <1>2. ASSUME NEW token, Goes(token)
        PROVE  result' = "none" /\ SourceCuts(source')[offset'] # {}
    <2>1. /\ source' = source /\ result = "none" /\ result' = "none" /\ offset <= Len(source)
          /\ token = NextToken(source, offset) /\ token.error = "NONE"
          /\ offset' = offset + token.consumed
      BY <1>2 DEF Goes
    <2>2. SourceCuts(source)[offset] # {}
      BY <2>1 DEF NotRefused
    <2>3. SourceCuts(source)[offset + token.consumed] # {}
      BY <2>1, <2>2, RestRead
    <2> QED  BY <2>1, <2>3
  <1> QED  BY <1>1, <1>2, StepKinds

\* macro_compile_v2() refuses as wrong only what the language does not have, but for
\* its two exceptions: three brackets in a row, and a directive too long for the
\* buffer of v2_parse_directive().
THEOREM RefusalsAreRight == Spec => []RefusedOnlyIfInvalid
  <1>1. NotRefused => RefusedOnlyIfInvalid
    BY DEF NotRefused, RefusedOnlyIfInvalid
  <1> QED  BY <1>1, InitType, NextType, InitNotRefused, NextNotRefused, PTL DEF Spec

=============================================================================
