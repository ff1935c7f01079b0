---------------------------- MODULE SizingProofs ----------------------------
(***************************************************************************)
(* Theorems about Sizing, for every width of the integers, every unit,     *)
(* every floor that the widths have room for and every set of texts: the   *)
(* capacities, and that a text is read as the size that is written in it.  *)
(***************************************************************************)
EXTENDS Sizing, SequenceTheorems, WellFoundedInduction, TLAPS

\* A parsed size is an int64_t; texts are where parsed sizes come from.
ParsedInv == text # <<>> /\ pc \in {"bound", "done"} => payload <= IntMax

IInv == TypeOK /\ ParsedInv /\ CapExact /\ ReadAsWritten

-----------------------------------------------------------------------------
(* Induction.                                                              *)

\* The naturals are well-founded under a relation, as a set of pairs.
LEMMA NatLess ==
  \E R : /\ IsWellFoundedOn(R, Nat)
         /\ \A x, y \in Nat : x < y => <<x, y>> \in R
  <1>1. \A x, y \in Nat : x < y => <<x, y>> \in OpToRel(<, Nat)
    BY DEF OpToRel
  <1> QED
    BY <1>1, NatLessThanWellFounded

\* Induction, for a set in place of a predicate: the least natural outside it
\* would have its predecessor inside.
LEMMA SetInduction ==
  ASSUME NEW S, 0 \in S, \A n \in Nat : n \in S => n + 1 \in S
  PROVE  Nat \subseteq S
  <1> SUFFICES ASSUME NEW m \in Nat, m \notin S PROVE FALSE
    OBVIOUS
  <1> DEFINE T == Nat \ S
  <1>1. T \subseteq Nat /\ T # {} /\ \A n \in Nat : n \notin T => n \in S
    OBVIOUS
  <1>2. \A n \in T : n \notin S
    OBVIOUS
  <1> HIDE DEF T
  <1>3. PICK R : IsWellFoundedOn(R, Nat) /\ \A x, y \in Nat : x < y => <<x, y>> \in R
    BY NatLess
  <1>4. \E x \in T : \A y \in T : ~ (<<y, x>> \in R)
    BY <1>1, <1>3, WFMin
  <1>5. PICK x \in T : \A y \in T : ~ (<<y, x>> \in R)
    BY <1>4
  <1>6. x \in Nat /\ x # 0
    BY <1>1, <1>2
  <1>7. x - 1 \in Nat /\ x - 1 < x /\ (x - 1) + 1 = x
    BY <1>6
  <1>8. x - 1 \notin T
    BY <1>3, <1>5, <1>6, <1>7
  <1>9. x \in S
    BY <1>1, <1>7, <1>8
  <1> QED
    BY <1>2, <1>9

-----------------------------------------------------------------------------
(* Arithmetic.                                                             *)

\* A sum of two numbers below the modulus wraps at most once.
LEMMA WrapOnce ==
  ASSUME NEW x \in Nat, x < 2 * Modulus
  PROVE  Wrap(x) = IF x < Modulus THEN x ELSE x - Modulus
  <1> USE WidthAssumption DEF Wrap
  <1>1. CASE x < Modulus
    BY <1>1, SMT
  <1>2. CASE x >= Modulus
    <2>1. x - Modulus \in 0 .. Modulus - 1 /\ x = Modulus + (x - Modulus)
      BY <1>2
    <2>2. x % Modulus = x - Modulus
      BY <2>1, SMT
    <2> QED
      BY <1>2, <2>2
  <1> QED
    BY <1>1, <1>2

\* What the guard by division allows does not overflow.
LEMMA ProductFits ==
  ASSUME NEW n \in Nat, NEW m \in Nat \ {0}, Fits(n, m)
  PROVE  n * m \in 0 .. IntMax
  <1> USE WidthAssumption DEF Fits
  <1>1. CASE m = 1
    BY <1>1
  <1>2. CASE m > 1
    <2>1. PICK q \in Nat : q = IntMax \div m /\ q * m <= IntMax
      BY <1>2, SMT
    <2>2. n <= q
      BY <1>2, <2>1
    <2>3. n * m <= q * m
      BY <2>2, SMT
    <2>4. n * m >= 0
      BY SMT
    <2> QED
      BY <2>1, <2>3, <2>4
  <1> QED
    BY <1>1, <1>2

\* The two guards of out_cap notice every wrap, and nothing else.
LEMMA OutCapExact ==
  ASSUME NEW p \in 0 .. Modulus - 1
  PROVE  /\ OutCap(p) = LET exact == p + p \div 4 + Floor IN
                        IF exact < Modulus THEN exact ELSE p
         /\ OutCap(p) \in 0 .. Modulus - 1
  <1> USE WidthAssumption
  <1> DEFINE s == p + p \div 4
  <1>1. s \in Nat /\ p <= s /\ s < 2 * Modulus /\ s - Modulus < p
    BY SMT
  <1>2. Quarter(p) = IF s < Modulus THEN s ELSE s - Modulus
    BY <1>1, WrapOnce DEF Quarter
  <1>3. CASE s >= Modulus
    <2>1. Overflows(p)
      BY <1>1, <1>2, <1>3 DEF Overflows
    <2> QED
      BY <1>1, <1>3, <2>1 DEF OutCap
  <1>4. CASE s < Modulus
    <2>1. Quarter(p) = s
      BY <1>2, <1>4
    <2>2. Floor < Modulus
      BY SMT
    <2>3. Wrap(s + Floor) = IF s + Floor < Modulus THEN s + Floor ELSE s + Floor - Modulus
      BY <1>1, <1>4, <2>2, WrapOnce
    <2>4. Overflows(p) <=> s + Floor >= Modulus
      BY <1>1, <2>1, <2>2, <2>3 DEF Overflows
    <2> QED
      BY <1>1, <2>1, <2>2, <2>3, <2>4 DEF OutCap
  <1> QED
    BY <1>1, <1>3, <1>4

\* A product within the width fits.
LEMMA FitsProduct ==
  ASSUME NEW n \in Nat, NEW m \in Nat \ {0}, n * m <= IntMax
  PROVE  Fits(n, m)
  <1> USE WidthAssumption
  <1>1. n <= n * m
    BY SMT
  <1>2. n \in 0 .. IntMax
    <2>1. n * m \in Nat
      BY SMT
    <2> QED
      BY <1>1, <2>1
  <1>3. n <= IntMax \div m
    <2>1. PICK q \in Nat, r \in 0 .. m - 1 : IntMax = q * m + r /\ q = IntMax \div m
      BY SMT
    <2> SUFFICES ASSUME q < n PROVE FALSE
      BY <2>1
    <2>2. (q + 1) * m <= n * m
      BY SMT
    <2>3. (q + 1) * m = q * m + m
      BY SMT
    <2>4. q * m \in Nat /\ n * m \in Nat /\ (q + 1) * m \in Nat
      BY SMT
    <2> QED
      BY <2>1, <2>2, <2>3, <2>4
  <1> QED
    BY <1>2, <1>3 DEF Fits

-----------------------------------------------------------------------------
(* Characters.                                                             *)

Letters == {"K", "M", "G", "I", "B"}
Digits == ToSet(DigitChars)
Capital(c) == IF c \in DOMAIN Capitals THEN Capitals[c] ELSE c

\* Capitals keep digits and blanks, and make none.
LEMMA CapitalKeeps ==
  ASSUME NEW c
  PROVE  /\ Capital(c) = " " <=> c = " "
         /\ Capital(c) \in Digits <=> c \in Digits
         /\ c \in Digits => Capital(c) = c
  <1>1. Digits = {"0", "1", "2", "3", "4", "5", "6", "7", "8", "9"}
    BY DEF Digits, ToSet, DigitChars
  <1>2. DOMAIN Capitals = {"k", "m", "g", "i", "b"}
    BY DEF Capitals
  <1>3. /\ Capitals["k"] = "K" /\ Capitals["m"] = "M" /\ Capitals["g"] = "G"
        /\ Capitals["i"] = "I" /\ Capitals["b"] = "B"
    BY DEF Capitals
  <1>4. CASE c \in DOMAIN Capitals
    <2>1. Capital(c) \in {"K", "M", "G", "I", "B"}
      BY <1>2, <1>3, <1>4 DEF Capital
    <2> QED
      BY <1>1, <1>2, <1>4, <2>1
  <1>5. CASE c \notin DOMAIN Capitals
    BY <1>5 DEF Capital
  <1> QED
    BY <1>4, <1>5

\* Blanks, digits and letters are apart.
LEMMA Apart == " " \notin Digits /\ " " \notin Letters /\ Digits \cap Letters = {}
  <1>1. Digits = {"0", "1", "2", "3", "4", "5", "6", "7", "8", "9"}
    BY DEF Digits, ToSet, DigitChars
  <1> QED
    BY <1>1 DEF Letters

-----------------------------------------------------------------------------
(* Parts of a text.                                                        *)

\* A function over the first numbers is as long as it has places.
LEMMA FunctionLength ==
  ASSUME NEW n \in Nat, NEW f, f = [i \in 1 .. n |-> f[i]]
  PROVE  Len(f) = n
  <1> DEFINE E == {f[i] : i \in 1 .. n}
  <1>1. \A i \in 1 .. n : f[i] \in E
    OBVIOUS
  <1> HIDE DEF E
  <1>2. [i \in 1 .. n |-> f[i]] \in Seq(E)
    BY <1>1, IsASeq
  <1>3. f \in Seq(E) /\ DOMAIN f = 1 .. n
    BY <1>2
  <1>4. DOMAIN f = 1 .. Len(f) /\ Len(f) \in Nat
    BY <1>3, LenProperties
  <1> QED
    BY <1>3, <1>4

\* A set of places has a first one and a last one.
LEMMA FirstAndLast ==
  ASSUME NEW n \in Nat, NEW P, P \subseteq 1 .. n, P # {}
  PROVE  /\ Min(P) \in P /\ \A i \in P : Min(P) <= i
         /\ Max(P) \in P /\ \A i \in P : i <= Max(P)
  <1>1. \E x \in P : \A y \in P : x <= y
    <2> SUFFICES ASSUME \A x \in P : \E y \in P : y < x PROVE FALSE
      OBVIOUS
    <2> DEFINE S == {k \in Nat : \A j \in P : k < j}
    <2>1. 0 \in S
      OBVIOUS
    <2>2. ASSUME NEW k \in Nat, k \in S PROVE k + 1 \in S
      <3>1. \A j \in P : k + 1 <= j
        BY <2>2
      <3>2. k + 1 \notin P
        BY <3>1
      <3> QED
        BY <3>1, <3>2
    <2>3. Nat \subseteq S
      <3> HIDE DEF S
      <3> QED
        BY <2>1, <2>2, SetInduction
    <2>4. PICK j \in P : TRUE
      OBVIOUS
    <2>5. j \in Nat /\ j \in S
      BY <2>3
    <2> QED
      BY <2>5
  <1>2. \E x \in P : \A y \in P : y <= x
    <2> SUFFICES ASSUME \A x \in P : \E y \in P : x < y PROVE FALSE
      OBVIOUS
    <2> DEFINE S == {k \in Nat : \A j \in P : j < n + 1 - k}
    <2>1. 0 \in S
      OBVIOUS
    <2>2. ASSUME NEW k \in Nat, k \in S PROVE k + 1 \in S
      <3>1. \A j \in P : j <= n - k
        BY <2>2
      <3>2. n - k \notin P
        BY <3>1
      <3> QED
        BY <3>1, <3>2
    <2>3. Nat \subseteq S
      <3> HIDE DEF S
      <3> QED
        BY <2>1, <2>2, SetInduction
    <2>4. PICK j \in P : TRUE
      OBVIOUS
    <2>5. j \in 1 .. n /\ n \in S
      BY <2>3
    <2>6. j < n + 1 - n
      BY <2>5
    <2> QED
      BY <2>5, <2>6
  <1> QED
    BY <1>1, <1>2 DEF Min, Max

\* A part of a text, place by place.
LEMMA PartPlaces ==
  ASSUME NEW S, NEW t \in Seq(S), NEW lo \in 1 .. Len(t) + 1, NEW hi \in lo - 1 .. Len(t)
  PROVE  /\ SubSeq(t, lo, hi) \in Seq(S) /\ Len(SubSeq(t, lo, hi)) = hi - lo + 1
         /\ \A i \in 1 .. hi - lo + 1 : SubSeq(t, lo, hi)[i] = t[lo + i - 1]
  <1>1. Len(t) \in Nat
    BY LenProperties
  <1>2. \A i \in lo .. hi : t[i] \in S
    BY <1>1, ElementOfSeq
  <1>3. lo \in Int /\ hi \in Int /\ lo <= hi + 1
    BY <1>1
  <1>4. /\ SubSeq(t, lo, hi) \in Seq(S)
        /\ Len(SubSeq(t, lo, hi)) = IF lo <= hi THEN hi - lo + 1 ELSE 0
        /\ \A i \in 1 .. hi - lo + 1 : SubSeq(t, lo, hi)[i] = t[lo + i - 1]
    BY <1>2, <1>3, SubSeqProperties
  <1> QED
    BY <1>3, <1>4

\* The first and the last printed place.
Ends(t, lo, hi) ==
  /\ lo \in 1 .. Len(t) /\ hi \in lo .. Len(t) /\ t[lo] # " " /\ t[hi] # " "
  /\ \A i \in 1 .. Len(t) : i < lo \/ hi < i => t[i] = " "

\* Trimming cuts there ...
LEMMA TrimsAtEnds ==
  ASSUME NEW S, NEW t \in Seq(S), NEW lo, NEW hi, Ends(t, lo, hi)
  PROVE  Trimmed(t) = SubSeq(t, lo, hi)
  <1> DEFINE n == Len(t)
             P == Printed(t)
  <1>1. n \in Nat /\ DOMAIN t = 1 .. n
    BY LenProperties
  <1>2. \A i : i \in P <=> i \in 1 .. n /\ t[i] # " "
    BY <1>1 DEF Printed
  <1>3. P # {} => Trimmed(t) = SubSeq(t, Min(P), Max(P))
    BY DEF Trimmed
  <1>4. lo \in 1 .. n /\ hi \in lo .. n
    BY DEF Ends
  <1>5. t[lo] # " " /\ t[hi] # " "
    BY DEF Ends
  <1>6. \A i \in 1 .. n : i < lo \/ hi < i => t[i] = " "
    BY DEF Ends
  <1> HIDE DEF n, P
  <1>7. lo \in 1 .. n /\ hi \in 1 .. n
    BY <1>1, <1>4
  <1>8. lo \in P /\ hi \in P /\ P \subseteq 1 .. n /\ P # {}
    BY <1>2, <1>5, <1>7
  <1>9. \A i \in P : i \in 1 .. n /\ ~ (i < lo) /\ ~ (hi < i)
    BY <1>2, <1>6, Zenon
  <1>10. /\ Min(P) \in P /\ \A i \in P : Min(P) <= i
        /\ Max(P) \in P /\ \A i \in P : i <= Max(P)
    BY <1>1, <1>8, FirstAndLast
  <1>11. Min(P) = lo /\ Max(P) = hi
    <2>1. Min(P) <= lo /\ ~ (Min(P) < lo) /\ hi <= Max(P) /\ ~ (hi < Max(P))
      BY <1>8, <1>9, <1>10
    <2>2. Min(P) \in 1 .. n /\ Max(P) \in 1 .. n
      BY <1>9, <1>10, Zenon
    <2> QED
      BY <1>1, <1>7, <2>1, <2>2
  <1> QED
    BY <1>3, <1>8, <1>11

\* ... if anything is printed at all.
LEMMA TrimmedHasEnds ==
  ASSUME NEW S, NEW t \in Seq(S), Trimmed(t) # <<>>
  PROVE  \E lo, hi \in Nat : Ends(t, lo, hi) /\ Trimmed(t) = SubSeq(t, lo, hi)
  <1> DEFINE n == Len(t)
             P == Printed(t)
             first == Min(P)
             last == Max(P)
  <1>1. n \in Nat /\ DOMAIN t = 1 .. n
    BY LenProperties
  <1>2. \A i : i \in P <=> i \in 1 .. n /\ t[i] # " "
    BY <1>1 DEF Printed
  <1>3. P # {} /\ Trimmed(t) = SubSeq(t, first, last)
    BY DEF Trimmed
  <1> HIDE DEF P
  <1>4. P \subseteq 1 .. n
    BY <1>2
  <1> HIDE DEF n
  <1>5. first \in P /\ (\A i \in P : first <= i) /\ last \in P /\ (\A i \in P : i <= last)
    BY <1>1, <1>3, <1>4, FirstAndLast
  <1> HIDE DEF first, last
  <1>6. first \in 1 .. n /\ last \in 1 .. n /\ first <= last
    BY <1>4, <1>5
  <1>7. t[first] # " " /\ t[last] # " "
    BY <1>2, <1>5
  <1>8. ASSUME NEW i \in 1 .. n, i < first \/ last < i PROVE t[i] = " "
    <2>1. i \notin P
      <3> SUFFICES ASSUME i \in P PROVE FALSE
        OBVIOUS
      <3>1. first <= i /\ i <= last
        BY <1>5
      <3> QED
        BY <1>1, <1>6, <1>8, <3>1
    <2> QED
      BY <1>2, <2>1
  <1>9. Ends(t, first, last)
    <2>1. last \in first .. n
      BY <1>1, <1>6
    <2> QED
      BY <1>6, <1>7, <1>8, <2>1 DEF Ends, n
  <1>10. first \in Nat /\ last \in Nat
    BY <1>1, <1>6
  <1> QED
    BY <1>3, <1>9, <1>10

\* What Upper makes of a text.
LEMMA UpperText ==
  ASSUME NEW S, NEW t \in Seq(S)
  PROVE  /\ Upper(t) \in Seq({Capital(c) : c \in S})
         /\ Len(Upper(t)) = Len(t)
         /\ \A i \in 1 .. Len(t) : Upper(t)[i] = Capital(t[i])
  <1> DEFINE C == {Capital(c) : c \in S}
  <1>1. Len(t) \in Nat /\ DOMAIN t = 1 .. Len(t) /\ \A i \in 1 .. Len(t) : t[i] \in S
    BY LenProperties, ElementOfSeq
  <1>2. Upper(t) = [i \in 1 .. Len(t) |-> Capital(t[i])]
    BY <1>1 DEF Upper, Capital
  <1>3. \A i \in 1 .. Len(t) : Capital(t[i]) \in C
    BY <1>1
  <1> HIDE DEF C
  <1>4. Upper(t) \in Seq(C) /\ DOMAIN Upper(t) = 1 .. Len(t)
    <2>1. [i \in 1 .. Len(t) |-> Capital(t[i])] \in Seq(C)
      BY <1>1, <1>3, IsASeq
    <2> QED
      BY <1>2, <2>1
  <1>5. Len(Upper(t)) = Len(t)
    <2>1. DOMAIN Upper(t) = 1 .. Len(Upper(t)) /\ Len(Upper(t)) \in Nat
      BY <1>4, LenProperties
    <2> QED
      BY <1>1, <1>4, <2>1
  <1> QED
    BY <1>2, <1>4, <1>5 DEF C

\* A suffix, place by place.
LEMMA SuffixPlaces ==
  ASSUME NEW S, NEW s \in Seq(S), NEW t \in Seq(S)
  PROVE  IsSuffix(s, t) <=> Len(s) <= Len(t) /\ \A i \in 1 .. Len(s) : s[i] = t[Len(t) - Len(s) + i]
  <1> DEFINE m == Len(s)
             n == Len(t)
             rs == [i \in 1 .. m |-> s[(m - i) + 1]]
             rt == [i \in 1 .. n |-> t[(n - i) + 1]]
  <1>1. m \in Nat /\ n \in Nat /\ (\A i \in 1 .. m : s[i] \in S) /\ \A i \in 1 .. n : t[i] \in S
    BY LenProperties, ElementOfSeq
  <1>2. \A i \in 1 .. m : (m - i) + 1 \in 1 .. m /\ s[(m - i) + 1] \in S
    <2> HIDE DEF m
    <2> QED
      BY <1>1
  <1>3. \A i \in 1 .. n : (n - i) + 1 \in 1 .. n /\ t[(n - i) + 1] \in S
    <2> HIDE DEF n
    <2> QED
      BY <1>1
  <1>4. Reverse(s) = rs /\ Reverse(t) = rt
    BY DEF Reverse
  <1> HIDE DEF m, n
  <1>5. rs \in Seq(S) /\ rt \in Seq(S)
    BY <1>1, <1>2, <1>3, IsASeq
  <1>6. Len(rs) = m /\ Len(rt) = n
    <2>1. rs = [i \in 1 .. m |-> rs[i]] /\ rt = [i \in 1 .. n |-> rt[i]]
      OBVIOUS
    <2> HIDE DEF rs, rt
    <2> QED
      BY <1>1, <2>1, FunctionLength
  <1>7. (\A i \in 1 .. m : rs[i] = s[(m - i) + 1]) /\ \A i \in 1 .. n : rt[i] = t[(n - i) + 1]
    OBVIOUS
  <1> HIDE DEF rs, rt
  <1>8. ASSUME m <= n
        PROVE  SubSeq(rs, 1, m) = SubSeq(rt, 1, m) <=> \A i \in 1 .. m : s[i] = t[(n - m) + i]
    <2>1. SubSeq(rs, 1, m) = rs
      BY <1>5, <1>6, SubSeqFull
    <2>2. \A i \in 1 .. m : rt[i] \in S
      <3> TAKE i \in 1 .. m
      <3>1. i \in 1 .. n
        BY <1>1, <1>8
      <3> QED
        BY <1>3, <1>7, <3>1
    <2>3. /\ SubSeq(rt, 1, m) \in Seq(S) /\ Len(SubSeq(rt, 1, m)) = m
          /\ \A i \in 1 .. m : SubSeq(rt, 1, m)[i] = rt[i]
      <3>1. /\ SubSeq(rt, 1, m) \in Seq(S)
            /\ Len(SubSeq(rt, 1, m)) = IF 1 <= m THEN m - 1 + 1 ELSE 0
            /\ \A i \in 1 .. m - 1 + 1 : SubSeq(rt, 1, m)[i] = rt[1 + i - 1]
        BY <1>1, <2>2, SubSeqProperties
      <3> QED
        BY <1>1, <3>1
    <2> DEFINE u == SubSeq(rt, 1, m)
    <2>4. (\A i \in 1 .. m : rs[i] = u[i]) <=> rs = u
      <3> HIDE DEF u
      <3>1. u \in Seq(S) /\ Len(u) = m
        BY <2>3 DEF u
      <3> QED
        BY <1>5, <1>6, <3>1, SeqEqual
    <2>5. (\A i \in 1 .. m : rs[i] = rt[i]) <=> \A i \in 1 .. m : s[i] = t[(n - m) + i]
      <3>1. ASSUME \A i \in 1 .. m : rs[i] = rt[i], NEW i \in 1 .. m PROVE s[i] = t[(n - m) + i]
        <4> DEFINE j == (m - i) + 1
        <4>1. j \in 1 .. m /\ j \in 1 .. n /\ (m - j) + 1 = i /\ (n - j) + 1 = (n - m) + i
          BY <1>1, <1>8
        <4> HIDE DEF j
        <4>2. rs[j] = s[i] /\ rt[j] = t[(n - m) + i]
          BY <1>7, <4>1
        <4> QED
          BY <3>1, <4>1, <4>2
      <3>2. ASSUME \A i \in 1 .. m : s[i] = t[(n - m) + i], NEW i \in 1 .. m PROVE rs[i] = rt[i]
        <4> DEFINE j == (m - i) + 1
        <4>1. j \in 1 .. m /\ i \in 1 .. n /\ (n - m) + j = (n - i) + 1
          BY <1>1, <1>8
        <4>2. rs[i] = s[j] /\ rt[i] = t[(n - i) + 1]
          BY <1>7, <4>1
        <4> HIDE DEF j
        <4>3. s[j] = t[(n - m) + j]
          BY <3>2, <4>1
        <4> QED
          BY <4>1, <4>2, <4>3
      <3> QED
        BY <3>1, <3>2
    <2> QED
      BY <2>1, <2>3, <2>4, <2>5
  <1>9. IsSuffix(s, t) <=> m <= n /\ SubSeq(rs, 1, m) = SubSeq(rt, 1, m)
    BY <1>4, <1>6 DEF IsSuffix, IsPrefix
  <1> QED
    BY <1>8, <1>9 DEF m, n

-----------------------------------------------------------------------------
(* Numbers.                                                                *)

\* A digit has a value.
LEMMA DigitValue ==
  ASSUME NEW c \in Digits
  PROVE  Digit(c) \in 0 .. 9
  <1>1. DOMAIN DigitChars = 1 .. 10
    BY DEF DigitChars
  <1>2. \E i \in 1 .. 10 : DigitChars[i] = c
    BY <1>1 DEF Digits, ToSet
  <1>3. (CHOOSE i \in 1 .. 10 : DigitChars[i] = c) \in 1 .. 10
    BY <1>2
  <1> QED
    BY <1>3 DEF Digit

\* The values of the prefixes, up to any length.
LEMMA ValuesExist ==
  ASSUME NEW n \in Nat, NEW d
  PROVE  \E f : f = [i \in 0 .. n |-> IF i = 0 THEN 0 ELSE 10 * f[i - 1] + Digit(d[i])]
  <1> DEFINE Values(f, k) == f = [i \in 0 .. k |-> IF i = 0 THEN 0 ELSE 10 * f[i - 1] + Digit(d[i])]
             S == {k \in Nat : \E f : Values(f, k)}
  <1>1. 0 \in S
    <2>1. Values([i \in 0 .. 0 |-> 0], 0)
      OBVIOUS
    <2> QED
      BY <2>1
  <1>2. ASSUME NEW k \in Nat, k \in S PROVE k + 1 \in S
    <2>1. PICK f : Values(f, k)
      BY <1>2
    <2> DEFINE g == [i \in 0 .. k + 1 |-> IF i = k + 1 THEN 10 * f[k] + Digit(d[k + 1]) ELSE f[i]]
    <2>2. \A i \in 0 .. k + 1 : g[i] = IF i = 0 THEN 0 ELSE 10 * g[i - 1] + Digit(d[i])
      <3> SUFFICES ASSUME NEW i \in 0 .. k + 1
                   PROVE  g[i] = IF i = 0 THEN 0 ELSE 10 * g[i - 1] + Digit(d[i])
        OBVIOUS
      <3>1. CASE i = k + 1
        <4>1. g[i - 1] = f[k] /\ i # 0 /\ g[i] = 10 * f[k] + Digit(d[i])
          BY <3>1
        <4> QED
          BY <4>1
      <3>2. CASE i # k + 1
        <4>1. g[i] = f[i] /\ (i # 0 => g[i - 1] = f[i - 1])
          BY <3>2
        <4>2. f[i] = IF i = 0 THEN 0 ELSE 10 * f[i - 1] + Digit(d[i])
          BY <2>1, <3>2
        <4> QED
          BY <4>1, <4>2
      <3> QED
        BY <3>1, <3>2
    <2>3. g = [i \in 0 .. k + 1 |-> g[i]]
      OBVIOUS
    <2>4. Values(g, k + 1)
      <3> HIDE DEF g
      <3> QED
        BY <2>2, <2>3
    <2> HIDE DEF g, Values
    <2> QED
      BY <2>4
  <1>3. n \in S
    <2> HIDE DEF S
    <2> QED
      BY <1>1, <1>2, SetInduction
  <1> QED
    BY <1>3

\* Figures have a number.
LEMMA NumberOfFigures ==
  ASSUME NEW d \in Seq(Digits)
  PROVE  Number(d) \in Nat
  <1>1. Len(d) \in Nat /\ \A i \in 1 .. Len(d) : Digit(d[i]) \in Nat
    BY LenProperties, ElementOfSeq, DigitValue
  <1> DEFINE value == CHOOSE f :
                        f = [i \in 0 .. Len(d) |-> IF i = 0 THEN 0 ELSE 10 * f[i - 1] + Digit(d[i])]
  <1>2. value = [i \in 0 .. Len(d) |-> IF i = 0 THEN 0 ELSE 10 * value[i - 1] + Digit(d[i])]
    BY <1>1, ValuesExist
  <1>3. Number(d) = value[Len(d)]
    BY Zenon DEF Number
  <1> HIDE DEF value
  <1> DEFINE S == {k \in Nat : k <= Len(d) => value[k] \in Nat}
  <1>4. 0 \in S
    BY <1>1, <1>2
  <1>5. ASSUME NEW k \in Nat, k \in S PROVE k + 1 \in S
    <2> SUFFICES ASSUME k + 1 <= Len(d) PROVE value[k + 1] \in Nat
      OBVIOUS
    <2>1. k + 1 \in 0 .. Len(d) /\ k + 1 # 0 /\ (k + 1) - 1 = k /\ k + 1 \in 1 .. Len(d)
      BY <1>1
    <2>2. value[k + 1] = 10 * value[k] + Digit(d[k + 1])
      BY <1>2, <2>1
    <2>3. value[k] \in Nat
      BY <1>1, <1>5
    <2> QED
      BY <1>1, <2>1, <2>2, <2>3
  <1>6. Len(d) \in S
    <2> HIDE DEF S
    <2> QED
      BY <1>1, <1>4, <1>5, SetInduction
  <1> QED
    BY <1>3, <1>6

-----------------------------------------------------------------------------
(* Suffixes.                                                               *)

Places == 1 .. 10
Bare == [text |-> <<>>, mult |-> 1]

\* What the table holds, place by place.
LEMMA TableTexts ==
  /\ DOMAIN Table = Places
  /\ Table[1].text = <<"K", "I", "B">> /\ Table[2].text = <<"K", "B">> /\ Table[3].text = <<"K">>
  /\ Table[4].text = <<"M", "I", "B">> /\ Table[5].text = <<"M", "B">> /\ Table[6].text = <<"M">>
  /\ Table[7].text = <<"G", "I", "B">> /\ Table[8].text = <<"G", "B">> /\ Table[9].text = <<"G">>
  /\ Table[10].text = <<"B">>
  BY DEF Table, Places

\* The letters of a unit, and how many they are.
Letter(j, i) == Table[j].text[i]
Width(j) == Len(Table[j].text)

LEMMA TableLetters ==
  /\ \A j \in {1, 4, 7} : Width(j) = 3 /\ Letter(j, 2) = "I" /\ Letter(j, 3) = "B"
  /\ \A j \in {2, 5, 8} : Width(j) = 2 /\ Letter(j, 2) = "B"
  /\ \A j \in {3, 6, 9, 10} : Width(j) = 1
  /\ \A j \in {1, 2, 3} : Letter(j, 1) = "K"
  /\ \A j \in {4, 5, 6} : Letter(j, 1) = "M"
  /\ \A j \in {7, 8, 9} : Letter(j, 1) = "G"
  /\ Letter(10, 1) = "B"
  <1>1. /\ Len(<<"K", "I", "B">>) = 3 /\ Len(<<"M", "I", "B">>) = 3 /\ Len(<<"G", "I", "B">>) = 3
        /\ Len(<<"K", "B">>) = 2 /\ Len(<<"M", "B">>) = 2 /\ Len(<<"G", "B">>) = 2
        /\ Len(<<"K">>) = 1 /\ Len(<<"M">>) = 1 /\ Len(<<"G">>) = 1 /\ Len(<<"B">>) = 1
    OBVIOUS
  <1>2. /\ \A j \in {1, 4, 7} : Width(j) = 3
        /\ \A j \in {2, 5, 8} : Width(j) = 2
        /\ \A j \in {3, 6, 9, 10} : Width(j) = 1
    BY <1>1, TableTexts DEF Width
  <1>3. /\ \A j \in {1, 4, 7} : Letter(j, 2) = "I" /\ Letter(j, 3) = "B"
        /\ \A j \in {2, 5, 8} : Letter(j, 2) = "B"
    BY TableTexts DEF Letter
  <1>4. /\ \A j \in {1, 2, 3} : Letter(j, 1) = "K"
        /\ \A j \in {4, 5, 6} : Letter(j, 1) = "M"
        /\ \A j \in {7, 8, 9} : Letter(j, 1) = "G"
        /\ Letter(10, 1) = "B"
    BY TableTexts DEF Letter
  <1> QED
    BY <1>2, <1>3, <1>4

\* The unit of every place has letters, three at most, and its multiplier.
LEMMA TableHolds ==
  /\ DOMAIN Table = Places
  /\ \A j \in Places : /\ Table[j].text \in Seq(Letters) /\ Len(Table[j].text) \in 1 .. 3
                       /\ Table[j].mult \in Nat \ {0}
  <1>1. Kibi \in Nat \ {0} /\ Mebi \in Nat \ {0} /\ Gibi \in Nat \ {0}
    BY UnitsAssumption
  <1>2. /\ "K" \in Letters /\ "M" \in Letters /\ "G" \in Letters /\ "I" \in Letters
        /\ "B" \in Letters
    BY DEF Letters
  <1>3. \A j \in {3, 6, 9, 10} : Table[j].text \in Seq(Letters)
    <2>1. /\ <<"K">> \in Seq(Letters) /\ <<"M">> \in Seq(Letters) /\ <<"G">> \in Seq(Letters)
          /\ <<"B">> \in Seq(Letters)
      BY <1>2
    <2> QED
      BY <2>1, TableTexts
  <1>4. \A j \in {2, 5, 8} : Table[j].text \in Seq(Letters)
    <2>1. /\ <<"K", "B">> \in Seq(Letters) /\ <<"M", "B">> \in Seq(Letters)
          /\ <<"G", "B">> \in Seq(Letters)
      BY <1>2
    <2> QED
      BY <2>1, TableTexts
  <1>5. \A j \in {1, 4, 7} : Table[j].text \in Seq(Letters)
    <2>1. /\ <<"K", "I", "B">> \in Seq(Letters) /\ <<"M", "I", "B">> \in Seq(Letters)
          /\ <<"G", "I", "B">> \in Seq(Letters)
      BY <1>2
    <2> QED
      BY <2>1, TableTexts
  <1>6. \A j \in Places : Width(j) \in 1 .. 3
    BY TableLetters DEF Places
  <1>7. ASSUME NEW j \in Places PROVE Table[j].mult \in Nat \ {0}
    BY <1>1 DEF Table, Places
  <1>8. Places = {1, 4, 7} \cup {2, 5, 8} \cup {3, 6, 9, 10}
    BY DEF Places
  <1> QED
    BY <1>3, <1>4, <1>5, <1>6, <1>7, <1>8, TableTexts DEF Width

\* The longest suffix of a unit stands first: an earlier unit is longer than a
\* later one, or begins with another letter than the place it would have in that.
LEMMA LongestFirst ==
  ASSUME NEW j \in Places, NEW k \in Places, k < j, Width(k) <= Width(j)
  PROVE  Letter(k, 1) # Letter(j, Width(j) - Width(k) + 1)
  <1>1. CASE k \in {1, 2, 3}
    BY <1>1, TableLetters DEF Places
  <1>2. CASE k \in {4, 5, 6}
    BY <1>2, TableLetters DEF Places
  <1>3. CASE k \in {7, 8, 9}
    BY <1>3, TableLetters DEF Places
  <1> QED
    BY <1>1, <1>2, <1>3 DEF Places

\* A text that ends in the letters of a unit, after something that is no letter,
\* has this suffix.
LEMMA EndsInUnit ==
  ASSUME NEW S, NEW t \in Seq(S), Letters \subseteq S, NEW j \in Places,
         NEW n \in Nat, Len(t) = n + Len(Table[j].text), n # 0, t[n] \notin Letters,
         \A i \in 1 .. Len(Table[j].text) : t[n + i] = Table[j].text[i]
  PROVE  Suffix(t) = Table[j]
  <1> DEFINE M == Matches(t)
             l == Len(t)
  <1>1. \A k \in Places : Table[k].text \in Seq(S) /\ Width(k) \in 1 .. 3
    BY TableHolds, SeqMonotonic DEF Width
  <1>2. \A k \in Places :
          k \in M <=> Width(k) <= l /\ \A i \in 1 .. Width(k) : Letter(k, i) = t[l - Width(k) + i]
    <2> TAKE k \in Places
    <2>1. k \in M <=> IsSuffix(Table[k].text, t)
      BY TableHolds DEF Matches
    <2> QED
      BY <1>1, <2>1, SuffixPlaces, ZenonT(40) DEF Width, Letter
  <1>3. M \subseteq Places
    BY TableHolds DEF Matches
  <1>4. M # {} => Suffix(t) = Table[Min(M)]
    BY DEF Suffix
  <1>5. \A k \in Places : \A i \in 1 .. Width(k) : Letter(k, i) \in Letters
    BY TableHolds, ElementOfSeq DEF Width, Letter
  <1>6. \A k \in Places :
          k < j /\ Width(k) <= Width(j) => Letter(k, 1) # Letter(j, Width(j) - Width(k) + 1)
    BY LongestFirst
  <1>7. l = n + Width(j) /\ \A i \in 1 .. Width(j) : t[n + i] = Letter(j, i)
    BY DEF Width, Letter
  <1>8. \A k \in Places : Width(k) \in 1 .. 3
    BY <1>1
  <1> HIDE DEF M, l
  <1>9. j \in M
    <2>1. Width(j) <= l /\ l - Width(j) = n
      BY <1>7, <1>8
    <2> QED
      BY <1>2, <1>7, <2>1
  <1>10. ASSUME NEW k \in M PROVE ~ (k < j)
    <2> SUFFICES ASSUME k < j PROVE FALSE
      OBVIOUS
    <2>1. k \in Places
      BY <1>3
    <2>2. Width(k) <= l /\ \A i \in 1 .. Width(k) : Letter(k, i) = t[l - Width(k) + i]
      BY <1>2, <2>1
    <2>3. CASE Width(k) > Width(j)
      <3> DEFINE p == Width(k) - Width(j)
      <3>1. p \in 1 .. Width(k) /\ l - Width(k) + p = n
        BY <1>7, <1>8, <2>1, <2>3
      <3> HIDE DEF p
      <3>2. Letter(k, p) = t[n]
        BY <2>2, <3>1
      <3> QED
        BY <1>5, <2>1, <3>1, <3>2
    <2>4. CASE Width(k) <= Width(j)
      <3> DEFINE p == Width(j) - Width(k) + 1
      <3>1. p \in 1 .. Width(j) /\ l - Width(k) + 1 = n + p /\ 1 \in 1 .. Width(k)
        BY <1>7, <1>8, <2>1, <2>4
      <3>2. Letter(k, 1) # Letter(j, p)
        BY <1>6, <2>1, <2>4
      <3> HIDE DEF p
      <3>3. Letter(k, 1) = t[n + p] /\ t[n + p] = Letter(j, p)
        BY <1>7, <2>2, <3>1
      <3> QED
        BY <3>2, <3>3
    <2>5. Width(k) \in 1 .. 3 /\ Width(j) \in 1 .. 3
      BY <1>8, <2>1
    <2> QED
      BY <2>3, <2>4, <2>5
  <1>11. Min(M) = j
    <2> DEFINE z == Min(M)
    <2>1. z \in M /\ \A i \in M : z <= i
      BY <1>3, <1>9, FirstAndLast DEF Places
    <2>2. ~ (z < j) /\ z <= j /\ z \in Places
      BY <1>3, <1>9, <1>10, <2>1, Zenon
    <2> HIDE DEF z
    <2>3. z \in Int /\ j \in Int
      BY <2>2 DEF Places
    <2>4. z = j
      BY <2>2, <2>3
    <2> QED
      BY <2>4 DEF z
  <1> QED
    BY <1>4, <1>9, <1>11

\* A text that ends in something else has none.
LEMMA EndsInNoUnit ==
  ASSUME NEW S, NEW t \in Seq(S), Letters \subseteq S, Len(t) # 0, t[Len(t)] \notin Letters
  PROVE  Suffix(t) = Bare
  <1>1. ASSUME NEW k \in Places PROVE ~ IsSuffix(Table[k].text, t)
    <2> DEFINE s == Table[k].text
               m == Len(s)
               l == Len(t)
    <2>1. s \in Seq(S) /\ s \in Seq(Letters) /\ m \in 1 .. 3 /\ l \in Nat
      BY TableHolds, SeqMonotonic, LenProperties
    <2> SUFFICES ASSUME IsSuffix(s, t) PROVE FALSE
      OBVIOUS
    <2> HIDE DEF s
    <2>2. m <= l /\ \A i \in 1 .. m : s[i] = t[l - m + i]
      BY <2>1, SuffixPlaces
    <2>3. \A i \in 1 .. m : s[i] \in Letters
      BY <2>1, ElementOfSeq
    <2>4. t[l] \notin Letters
      OBVIOUS
    <2> HIDE DEF m, l
    <2>5. m \in 1 .. m /\ l - m + m = l
      BY <2>1
    <2> QED
      BY <2>2, <2>3, <2>4, <2>5
  <1>2. Matches(t) = {}
    BY <1>1, TableHolds DEF Matches
  <1> QED
    BY <1>2 DEF Suffix, Bare

\* The suffix a text has is a unit, and the text ends in it.
LEMMA SuffixIsUnit ==
  ASSUME NEW S, NEW t \in Seq(S), Letters \subseteq S
  PROVE  \/ Suffix(t) = Bare
         \/ \E j \in Places : /\ Suffix(t) = Table[j] /\ Len(Table[j].text) <= Len(t)
                              /\ \A i \in 1 .. Len(Table[j].text) :
                                   t[Len(t) - Len(Table[j].text) + i] = Table[j].text[i]
  <1> DEFINE M == Matches(t)
  <1>1. CASE M = {}
    BY <1>1 DEF Suffix, Bare
  <1>2. CASE M # {}
    <2>1. M \subseteq Places
      BY TableHolds DEF Matches
    <2>2. Suffix(t) = Table[Min(M)] /\ \A k \in M : IsSuffix(Table[k].text, t)
      BY <1>2 DEF Suffix, Matches
    <2> HIDE DEF M
    <2>3. Min(M) \in M
      BY <1>2, <2>1, FirstAndLast DEF Places
    <2>4. PICK j \in Places : j = Min(M)
      BY <2>1, <2>3
    <2>5. Table[j].text \in Seq(S)
      BY TableHolds, SeqMonotonic
    <2>6. IsSuffix(Table[j].text, t)
      BY <2>2, <2>3, <2>4
    <2>7. /\ Len(Table[j].text) <= Len(t)
          /\ \A i \in 1 .. Len(Table[j].text) : Table[j].text[i] = t[Len(t) - Len(Table[j].text) + i]
      BY <2>5, <2>6, SuffixPlaces
    <2> QED
      BY <2>2, <2>4, <2>7
  <1> QED
    BY <1>1, <1>2

\* So it has one of the four multipliers.
LEMMA SuffixUnit ==
  ASSUME NEW t
  PROVE  Suffix(t).mult \in Nat \ {0}
  <1> DEFINE M == Matches(t)
  <1>1. CASE M = {}
    BY <1>1 DEF Suffix
  <1>2. CASE M # {}
    <2>1. M \subseteq Places
      BY TableHolds DEF Matches
    <2>2. Suffix(t) = Table[Min(M)]
      BY <1>2 DEF Suffix
    <2> HIDE DEF M
    <2>3. Min(M) \in Places
      BY <1>2, <2>1, FirstAndLast DEF Places
    <2> QED
      BY <2>2, <2>3, TableHolds
  <1> QED
    BY <1>1, <1>2

-----------------------------------------------------------------------------
(* Layouts: where the parts of a text stand.                               *)

\* A unit has letters, three at most, and only the bare one has none.
LEMMA UnitHolds ==
  ASSUME NEW u \in Units
  PROVE  /\ u = Bare \/ \E j \in Places : u = Table[j]
         /\ u.text \in Seq(Letters) /\ Len(u.text) \in 0 .. 3 /\ u.mult \in Nat \ {0}
         /\ Len(u.text) = 0 <=> u = Bare
         /\ u = Bare => u.text = <<>>
  <1>1. u = Bare \/ \E j \in Places : u = Table[j]
    <2>1. ToSet(Table) = {Table[j] : j \in Places}
      BY TableTexts DEF ToSet
    <2>2. CASE u \in ToSet(Table)
      BY <2>1, <2>2
    <2>3. CASE u \in [text : {<<>>}, mult : {1}]
      BY <2>3 DEF Bare
    <2> QED
      BY <2>2, <2>3 DEF Units
  <1>2. Bare.text = <<>> /\ Bare.mult = 1 /\ <<>> \in Seq(Letters) /\ Len(<<>>) = 0
    BY DEF Bare
  <1>3. Bare.text \in Seq(Letters) /\ Len(Bare.text) = 0 /\ Bare.mult \in Nat \ {0}
    BY <1>2
  <1>4. \A j \in Places : /\ Table[j].text \in Seq(Letters) /\ Len(Table[j].text) \in 1 .. 3
                          /\ Table[j].mult \in Nat \ {0}
    BY TableHolds
  <1>5. u.text \in Seq(Letters) /\ u.mult \in Nat \ {0}
    BY <1>1, <1>3, <1>4
  <1>6. u = Bare => u.text = <<>> /\ Len(u.text) = 0
    BY <1>2, <1>3
  <1>7. u # Bare => Len(u.text) \in 1 .. 3
    BY <1>1, <1>4
  <1> DEFINE l == Len(u.text)
  <1>8. (u = Bare => l = 0) /\ (u # Bare => l \in 1 .. 3)
    BY <1>6, <1>7
  <1> HIDE DEF l
  <1>9. l \in 0 .. 3 /\ (l = 0 <=> u = Bare)
    BY <1>8
  <1> QED
    BY <1>1, <1>5, <1>6, <1>9 DEF l

LEMMA KnownUnits == Bare \in Units /\ \A j \in Places : Table[j] \in Units
  <1>1. Bare \in [text : {<<>>}, mult : {1}]
    BY DEF Bare
  <1>2. \A j \in Places : Table[j] \in ToSet(Table)
    BY TableTexts DEF ToSet
  <1> QED
    BY <1>1, <1>2 DEF Units

\* Figures from lo to h, blanks up to k, a suffix up to hi, and blanks around.
Layout(x, u, lo, h, k, hi) ==
  /\ u \in Units
  /\ lo \in 1 .. Len(x) /\ h \in lo .. Len(x) /\ k \in h .. Len(x) /\ hi \in k .. Len(x)
  /\ hi = k + Len(u.text)
  /\ \A i \in 1 .. Len(x) : i < lo \/ hi < i \/ (h < i /\ i <= k) => x[i] = " "
  /\ \A i \in lo .. h : x[i] \in Digits
  /\ \A i \in 1 .. Len(u.text) : Capital(x[k + i]) = u.text[i]

\* What parse_size looks at: the text between its ends, in capitals.
Characters(S) == {Capital(c) : c \in S} \cup Letters

LEMMA TextPlaces ==
  ASSUME NEW S, NEW x \in Seq(S), NEW lo \in Nat, NEW hi \in Nat, Ends(x, lo, hi)
  PROVE  /\ Upper(Trimmed(x)) \in Seq(Characters(S))
         /\ Len(Upper(Trimmed(x))) = hi - lo + 1
         /\ \A i \in 1 .. hi - lo + 1 : Upper(Trimmed(x))[i] = Capital(x[lo + i - 1])
  <1> DEFINE p == SubSeq(x, lo, hi)
             n == hi - lo + 1
             C == {Capital(c) : c \in S}
  <1>1. Len(x) \in Nat
    BY LenProperties
  <1>2. lo \in 1 .. Len(x) + 1 /\ hi \in lo - 1 .. Len(x)
    <2>1. lo \in 1 .. Len(x) /\ hi \in lo .. Len(x)
      BY DEF Ends
    <2> QED
      BY <1>1, <2>1
  <1>3. p \in Seq(S) /\ Len(p) = n /\ \A i \in 1 .. n : p[i] = x[lo + i - 1]
    BY <1>2, PartPlaces
  <1>4. Trimmed(x) = p
    BY TrimsAtEnds
  <1> HIDE DEF p, n
  <1>5. Upper(p) \in Seq(C) /\ Len(Upper(p)) = n /\ \A i \in 1 .. n : Upper(p)[i] = Capital(p[i])
    BY <1>3, UpperText
  <1>6. Upper(p) \in Seq(Characters(S))
    <2>1. C \subseteq Characters(S)
      BY DEF Characters
    <2> HIDE DEF C
    <2> QED
      BY <1>5, <2>1, SeqMonotonic
  <1> QED
    BY <1>3, <1>4, <1>5, <1>6 DEF n

\* Figures from lo on are what a text in capitals begins with.
BeginsWith(t, x, lo, q) ==
  \A i \in 1 .. q : t[i] = Capital(x[lo + i - 1]) /\ x[lo + i - 1] \in Digits

\* Figures are their own capitals.
LEMMA SameFigures ==
  ASSUME NEW S, NEW x \in Seq(S), NEW R, NEW t \in Seq(R),
         NEW lo \in 1 .. Len(x), NEW q \in Nat, NEW v \in q .. Len(t), lo + q - 1 <= Len(x),
         BeginsWith(t, x, lo, q)
  PROVE  SubSeq(SubSeq(t, 1, v), 1, q) = SubSeq(x, lo, lo + q - 1)
  <1> DEFINE a == SubSeq(t, 1, v)
             b == SubSeq(a, 1, q)
             c == SubSeq(x, lo, lo + q - 1)
  <1>1. Len(x) \in Nat /\ Len(t) \in Nat
    BY LenProperties
  <1>2. lo \in 1 .. Len(x) + 1 /\ lo + q - 1 \in lo - 1 .. Len(x) /\ (lo + q - 1) - lo + 1 = q
    BY <1>1
  <1>3. c \in Seq(S) /\ Len(c) = q /\ \A i \in 1 .. q : c[i] = x[lo + i - 1]
    <2> HIDE DEF c
    <2>1. /\ SubSeq(x, lo, lo + q - 1) \in Seq(S)
          /\ Len(SubSeq(x, lo, lo + q - 1)) = (lo + q - 1) - lo + 1
          /\ \A i \in 1 .. (lo + q - 1) - lo + 1 : SubSeq(x, lo, lo + q - 1)[i] = x[lo + i - 1]
      BY <1>2, PartPlaces
    <2> QED
      BY <1>2, <2>1 DEF c
  <1>4. 1 \in 1 .. Len(t) + 1 /\ v \in 1 - 1 .. Len(t) /\ v - 1 + 1 = v
    BY <1>1
  <1>5. a \in Seq(R) /\ Len(a) = v /\ \A i \in 1 .. v : a[i] = t[1 + i - 1]
    BY <1>4, PartPlaces
  <1> HIDE DEF a
  <1>6. 1 \in 1 .. Len(a) + 1 /\ q \in 1 - 1 .. Len(a) /\ q - 1 + 1 = q
    BY <1>1, <1>5
  <1>7. b \in Seq(R) /\ Len(b) = q /\ \A i \in 1 .. q : b[i] = a[1 + i - 1]
    BY <1>5, <1>6, PartPlaces
  <1> HIDE DEF b, c
  <1>8. ASSUME NEW i \in 1 .. q PROVE b[i] = c[i]
    <2>1. i \in 1 .. v /\ 1 + i - 1 = i
      BY <1>1
    <2>2. b[i] = a[i] /\ a[i] = t[i]
      BY <1>5, <1>7, <2>1
    <2>3. t[i] = x[lo + i - 1]
      BY CapitalKeeps DEF BeginsWith
    <2> QED
      BY <1>3, <2>2, <2>3
  <1>9. b \in Seq(R \cup S) /\ c \in Seq(R \cup S)
    BY <1>3, <1>7, SeqMonotonic
  <1>10. b = c
    BY <1>3, <1>7, <1>8, <1>9, SeqEqual
  <1> QED
    BY <1>10 DEF a, b, c

\* Without a suffix the last figure is the end.
Tight(u, h, k) == u = Bare => h = k

\* A text that is laid out is read as it is laid out.
LEMMA LayoutIsRead ==
  ASSUME NEW S, NEW x \in Seq(S), NEW u, NEW lo, NEW h, NEW k, NEW hi,
         Layout(x, u, lo, h, k, hi), Tight(u, h, k), NEW t, t = Upper(Trimmed(x))
  PROVE  Len(t) = hi - lo + 1 /\ t # <<>> /\ Suffix(t) = u /\ Figures(t) = SubSeq(x, lo, h)
  <1> DEFINE l == Len(x)
             m == Len(u.text)
             n == hi - lo + 1
             v == k - lo + 1
             R == Characters(S)
  <1>1. l \in Nat
    BY LenProperties
  <1>2. u \in Units /\ hi = k + m
    BY DEF Layout
  <1>3. lo \in 1 .. l /\ h \in lo .. l /\ k \in h .. l /\ hi \in k .. l
    BY DEF Layout
  <1>4. \A i \in 1 .. l : i < lo \/ hi < i \/ (h < i /\ i <= k) => x[i] = " "
    BY DEF Layout
  <1>5. \A i \in lo .. h : x[i] \in Digits
    BY DEF Layout
  <1>6. \A i \in 1 .. m : Capital(x[k + i]) = u.text[i]
    BY DEF Layout
  <1>7. /\ u = Bare \/ \E j \in Places : u = Table[j]
        /\ m \in 0 .. 3 /\ (m = 0 <=> u = Bare) /\ \A i \in 1 .. m : u.text[i] \in Letters
    BY <1>2, UnitHolds, ElementOfSeq
  <1>8. lo \in Nat /\ h \in Nat /\ k \in Nat /\ hi \in Nat
    BY <1>1, <1>3
  <1>9. lo \in lo .. h /\ h \in lo .. h
    BY <1>1, <1>3, <1>8
  <1>10. Ends(x, lo, hi)
    <2>1. lo \in 1 .. Len(x) /\ hi \in lo .. Len(x)
      BY <1>1, <1>3, <1>8
    <2>2. x[lo] # " "
      BY <1>5, <1>9, Apart
    <2>3. x[hi] # " "
      <3>1. CASE m = 0
        <4>1. hi = h
          <5>1. u = Bare
            BY <1>7, <3>1
          <5>2. h = k
            BY <5>1 DEF Tight
          <5>3. hi = k + 0
            BY <1>2, <3>1
          <5> QED
            BY <1>8, <5>2, <5>3
        <4> QED
          BY <1>5, <1>9, <4>1, Apart
      <3>2. CASE m # 0
        <4> HIDE DEF m
        <4>1. m \in 1 .. m
          BY <1>7, <3>2
        <4>2. Capital(x[hi]) \in Letters
          BY <1>2, <1>6, <1>7, <4>1
        <4>3. Capital(x[hi]) # " "
          BY <4>2, Apart
        <4> QED
          BY <4>3, CapitalKeeps
      <3> QED
        BY <3>1, <3>2
    <2>4. \A i \in 1 .. Len(x) : i < lo \/ hi < i => x[i] = " "
      BY <1>4
    <2> QED
      BY <2>1, <2>2, <2>3, <2>4 DEF Ends
  <1>11. t \in Seq(R) /\ Len(t) = n /\ \A i \in 1 .. n : t[i] = Capital(x[lo + i - 1])
    BY <1>10, <1>8, TextPlaces, SMTT(30)
  <1> HIDE DEF m, l
  <1>12. n \in Nat /\ n # 0 /\ v \in 1 .. n /\ n - m = v /\ n = v + m
    BY <1>1, <1>2, <1>3, <1>8, <1>7
  <1>13. Letters \subseteq R
    BY DEF Characters
  <1> HIDE DEF R
  <1>14. t # <<>>
    BY <1>11, <1>12, EmptySeq
  <1>15. t[v] \notin Letters
    <2>1. t[v] = Capital(x[k])
      <3>1. lo + v - 1 = k
        BY <1>1, <1>3, <1>8
      <3> HIDE DEF v
      <3> QED
        BY <1>11, <1>12, <3>1
    <2>2. x[k] \in Digits \/ x[k] = " "
      <3>1. k = h \/ (h < k /\ k <= k /\ k \in 1 .. l)
        BY <1>1, <1>3, <1>8
      <3> QED
        BY <1>4, <1>5, <1>9, <3>1
    <2> HIDE DEF v
    <2>3. Capital(x[k]) \in Digits \/ Capital(x[k]) = " "
      BY <2>2, CapitalKeeps
    <2> QED
      BY <2>1, <2>3, Apart
  <1>16. Suffix(t) = u
    <2>1. CASE u = Bare
      <3>1. Len(t) = v
        BY <1>7, <1>11, <1>12, <2>1
      <3> HIDE DEF v
      <3>2. Len(t) # 0 /\ t[Len(t)] \notin Letters
        BY <1>12, <1>15, <3>1
      <3> QED
        BY <1>11, <1>13, <2>1, <3>2, EndsInNoUnit
    <2>2. CASE u # Bare
      <3>1. PICK j \in Places : u = Table[j]
        BY <1>7, <2>2
      <3>2. Len(t) = v + Len(Table[j].text) /\ v \in Nat /\ v # 0
        <4>1. Len(t) = v + m /\ v \in Nat /\ v # 0
          BY <1>11, <1>12
        <4> HIDE DEF v
        <4> QED
          BY <3>1, <4>1 DEF m
      <3>3. ASSUME NEW i \in 1 .. m PROVE t[v + i] = u.text[i]
        <4>1. m \in Nat
          BY <1>7
        <4>2. v + i \in 1 .. n /\ lo + (v + i) - 1 = k + i
          BY <1>1, <1>3, <1>8, <1>12, <4>1
        <4> HIDE DEF v, n
        <4>3. t[v + i] = Capital(x[k + i])
          BY <1>11, <4>2
        <4> QED
          BY <1>6, <4>3
      <3>4. \A i \in 1 .. Len(Table[j].text) : t[v + i] = Table[j].text[i]
        BY <3>1, <3>3 DEF m
      <3> HIDE DEF v, n
      <3>5. Suffix(t) = Table[j]
        BY <1>11, <1>13, <1>15, <3>2, <3>4, EndsInUnit
      <3> QED
        BY <3>1, <3>5
    <2> QED
      BY <2>1, <2>2
  <1> DEFINE head == SubSeq(t, 1, v)
             q == h - lo + 1
  <1>17. Figures(t) = Trimmed(head)
    <2>1. Len(t) - Len(Suffix(t).text) = v
      BY <1>11, <1>12, <1>16 DEF m
    <2> QED
      BY <2>1 DEF Figures
  <1>18. q \in 1 .. v /\ q \in Nat /\ v \in q .. n /\ lo + q - 1 = h
    BY <1>1, <1>3, <1>8
  <1>19. Len(head) = v /\ head \in Seq(R) /\ \A i \in 1 .. v : head[i] = t[i]
    <2>1. 1 \in 1 .. Len(t) + 1 /\ v \in 1 - 1 .. Len(t) /\ v - 1 + 1 = v
      BY <1>11, <1>12
    <2>2. /\ head \in Seq(R) /\ Len(head) = v - 1 + 1
          /\ \A i \in 1 .. v - 1 + 1 : head[i] = t[1 + i - 1]
      BY <1>11, <2>1, PartPlaces
    <2>3. \A i \in 1 .. v : head[i] = t[i]
      <3> HIDE DEF head
      <3> QED
        BY <1>12, <2>1, <2>2
    <2> QED
      BY <2>1, <2>2, <2>3
  <1>20. ASSUME NEW i \in 1 .. v
         PROVE  /\ head[i] = Capital(x[lo + i - 1])
                /\ i <= q => x[lo + i - 1] \in Digits
                /\ q < i => x[lo + i - 1] = " "
    <2>1. i \in 1 .. n
      BY <1>12
    <2>2. i <= q => lo + i - 1 \in lo .. h
      BY <1>1, <1>3, <1>8
    <2>3. q < i => lo + i - 1 \in 1 .. l /\ h < lo + i - 1 /\ lo + i - 1 <= k
      BY <1>1, <1>3, <1>8
    <2> HIDE DEF head, v, n, q
    <2>4. head[i] = Capital(x[lo + i - 1])
      BY <1>11, <1>19, <2>1
    <2> QED
      BY <1>4, <1>5, <2>2, <2>3, <2>4
  <1> HIDE DEF head
  <1>21. Ends(head, 1, q)
    <2>1. 1 \in 1 .. v /\ 1 <= q /\ q <= q
      BY <1>1, <1>3, <1>8, <1>12
    <2> HIDE DEF v, q
    <2>2. head[1] # " " /\ head[q] # " "
      BY <1>18, <1>20, <2>1, Apart, CapitalKeeps
    <2>3. \A i \in 1 .. v : q < i => head[i] = " "
      BY <1>20, CapitalKeeps
    <2>4. \A i \in 1 .. v : ~ (i < 1)
      BY <1>12
    <2>5. q \in 1 .. v
      BY <1>18
    <2> QED
      BY <1>19, <2>1, <2>2, <2>3, <2>4, <2>5 DEF Ends
  <1>22. Trimmed(head) = SubSeq(head, 1, q)
    BY <1>19, <1>21, TrimsAtEnds
  <1>23. SubSeq(head, 1, q) = SubSeq(x, lo, h)
    <2>1. BeginsWith(t, x, lo, q)
      <3> SUFFICES ASSUME NEW i \in 1 .. q
                   PROVE  t[i] = Capital(x[lo + i - 1]) /\ x[lo + i - 1] \in Digits
        BY DEF BeginsWith
      <3>1. i \in 1 .. v /\ i <= q
        BY <1>1, <1>3, <1>8, <1>18
      <3> HIDE DEF q, v
      <3> QED
        BY <1>19, <1>20, <3>1
    <2>2. lo \in 1 .. Len(x) /\ lo + q - 1 <= Len(x) /\ v \in q .. Len(t)
      BY <1>1, <1>3, <1>8, <1>11, <1>18 DEF l
    <2>3. t \in Seq(R) /\ q \in Nat
      BY <1>11, <1>18
    <2> HIDE DEF q, v
    <2>4. SubSeq(SubSeq(t, 1, v), 1, q) = SubSeq(x, lo, lo + q - 1)
      BY <2>1, <2>2, <2>3, SameFigures
    <2> QED
      BY <1>18, <2>4 DEF head
  <1> QED
    BY <1>11, <1>14, <1>16, <1>17, <1>22, <1>23

\* A text that is read as figures and a suffix is laid out so.
LEMMA ReadIsLaidOut ==
  ASSUME NEW S, NEW x \in Seq(S), NEW t, t = Upper(Trimmed(x)), t # <<>>,
         Figures(t) # <<>>, ToSet(Figures(t)) \subseteq Digits
  PROVE  \E lo, h, k, hi \in Nat :
           /\ Layout(x, Suffix(t), lo, h, k, hi)
           /\ Figures(t) = SubSeq(x, lo, h) /\ Len(t) = hi - lo + 1
  <1> DEFINE l == Len(x)
             R == Characters(S)
             u == Suffix(t)
             m == Len(u.text)
  <1>1. l \in Nat
    BY LenProperties
  <1>2. Trimmed(x) # <<>>
    <2> SUFFICES ASSUME Trimmed(x) = <<>> PROVE FALSE
      OBVIOUS
    <2>1. <<>> \in Seq(S) /\ Len(<<>>) = 0
      OBVIOUS
    <2>2. Upper(<<>>) \in Seq({Capital(c) : c \in S}) /\ Len(Upper(<<>>)) = 0
      BY <2>1, UpperText
    <2>3. Upper(<<>>) = <<>>
      <3> DEFINE C == {Capital(c) : c \in S}
                 y == Upper(<<>>)
      <3>1. y \in Seq(C) /\ Len(y) = 0
        BY <2>2
      <3> HIDE DEF C, y
      <3> QED
        BY <3>1, EmptySeq DEF y
    <2> QED
      BY <2>3
  <1>3. PICK lo \in Nat, hi \in Nat : Ends(x, lo, hi)
    BY <1>2, TrimmedHasEnds
  <1> DEFINE n == hi - lo + 1
             v == n - m
             k == hi - m
  <1>4. lo \in 1 .. l /\ hi \in lo .. l
    BY <1>3 DEF Ends
  <1>5. x[lo] # " "
    BY <1>3 DEF Ends
  <1>6. \A i \in 1 .. l : i < lo \/ hi < i => x[i] = " "
    BY <1>3 DEF Ends
  <1>7. t \in Seq(R) /\ Len(t) = n /\ \A i \in 1 .. n : t[i] = Capital(x[lo + i - 1])
    BY <1>3, TextPlaces, ZenonT(40)
  <1>8. Letters \subseteq R
    BY DEF Characters
  <1> HIDE DEF R
  <1> HIDE DEF n
  <1>9. u = Bare \/ \E j \in Places : /\ u = Table[j] /\ m <= n
                                       /\ \A i \in 1 .. m : t[n - m + i] = u.text[i]
    <2>1. t \in Seq(R)
      BY <1>7
    <2>2. \/ u = Bare
          \/ \E j \in Places : /\ u = Table[j] /\ Len(Table[j].text) <= Len(t)
                              /\ \A i \in 1 .. Len(Table[j].text) :
                                   t[Len(t) - Len(Table[j].text) + i] = Table[j].text[i]
      BY <1>8, <2>1, SuffixIsUnit, ZenonT(40)
    <2>3. ASSUME NEW j \in Places, u = Table[j], m <= Len(t),
                 \A i \in 1 .. m : t[Len(t) - m + i] = u.text[i]
          PROVE  m <= n /\ \A i \in 1 .. m : t[n - m + i] = u.text[i]
      <3> HIDE DEF u, m
      <3> QED
        BY <1>7, <2>3
    <2>4. CASE u # Bare
      <3>1. PICK j \in Places : /\ u = Table[j] /\ Len(Table[j].text) <= Len(t)
                                /\ \A i \in 1 .. Len(Table[j].text) :
                                     t[Len(t) - Len(Table[j].text) + i] = Table[j].text[i]
        BY <2>2, <2>4
      <3>2. Len(Table[j].text) = m
        BY <3>1
      <3>3. m <= Len(t) /\ \A i \in 1 .. m : t[Len(t) - m + i] = u.text[i]
        BY <3>1, <3>2, Zenon
      <3>4. m <= n /\ \A i \in 1 .. m : t[n - m + i] = u.text[i]
        BY <2>3, <3>1, <3>3, Zenon
      <3> QED
        BY <3>1, <3>4, Zenon
    <2> QED
      BY <2>4
  <1>10. u \in Units /\ m \in 0 .. 3 /\ (u = Bare => m = 0)
    BY <1>9, KnownUnits, UnitHolds
  <1>11. n \in Nat
    BY <1>1, <1>4 DEF n
  <1> HIDE DEF u, m
  <1>12. m \in 0 .. 3 /\ m <= n
    <2>1. m = 0 \/ m <= n
      BY <1>9, <1>10
    <2> QED
      BY <1>10, <1>11, <2>1
  <1>13. \A i \in 1 .. m : t[n - m + i] = u.text[i]
    <2>1. m = 0 => 1 .. m = {}
      OBVIOUS
    <2> QED
      BY <1>9, <1>10, <2>1
  <1> DEFINE head == SubSeq(t, 1, v)
  <1>14. Figures(t) = Trimmed(head)
    <2>1. Len(t) - Len(Suffix(t).text) = v
      BY <1>7 DEF m, u
    <2> QED
      BY <2>1 DEF Figures
  <1> HIDE DEF l
  <1>15. v \in 0 .. n /\ n \in Nat /\ k = lo + v - 1
    BY <1>1, <1>4, <1>12 DEF n
  <1>16. Len(head) = v /\ head \in Seq(R) /\ \A i \in 1 .. v : head[i] = t[i]
    <2>1. 1 \in 1 .. Len(t) + 1 /\ v \in 1 - 1 .. Len(t) /\ v - 1 + 1 = v
      BY <1>7, <1>15
    <2>2. /\ head \in Seq(R) /\ Len(head) = v - 1 + 1
          /\ \A i \in 1 .. v - 1 + 1 : head[i] = t[1 + i - 1]
      BY <1>7, <2>1, PartPlaces
    <2>3. \A i \in 1 .. v : head[i] = t[i]
      <3> HIDE DEF head
      <3> QED
        BY <1>15, <2>1, <2>2
    <2> QED
      BY <2>1, <2>2, <2>3
  <1> HIDE DEF head
  <1>17. PICK p \in Nat, q \in Nat : Ends(head, p, q) /\ Trimmed(head) = SubSeq(head, p, q)
    BY <1>14, <1>16, TrimmedHasEnds
  <1>18. p \in 1 .. v /\ q \in p .. v
    BY <1>16, <1>17 DEF Ends
  <1>19. \A i \in 1 .. v : i < p \/ q < i => head[i] = " "
    BY <1>16, <1>17 DEF Ends
  <1>20. \A i \in 1 .. v : head[i] = Capital(x[lo + i - 1])
    <2> TAKE i \in 1 .. v
    <2>1. i \in 1 .. n
      BY <1>15
    <2> HIDE DEF v, n
    <2> QED
      BY <1>7, <1>16, <2>1
  <1>21. p = 1
    <2>1. 1 \in 1 .. v /\ lo + 1 - 1 = lo
      BY <1>1, <1>4, <1>15, <1>18
    <2> HIDE DEF v
    <2>2. head[1] # " "
      BY <1>5, <1>20, <2>1, CapitalKeeps
    <2>3. ~ (1 < p)
      BY <1>19, <2>1, <2>2
    <2> QED
      BY <1>15, <1>18, <2>3
  <1> DEFINE h == lo + q - 1
  <1>22. q \in 1 .. v /\ v \in q .. n /\ h \in lo .. k /\ h - lo + 1 = q /\ k \in Nat /\ h \in Nat
    BY <1>1, <1>4, <1>15, <1>18, <1>21
  <1>23. Figures(t) = SubSeq(head, 1, q)
    BY <1>14, <1>17, <1>21
  <1>24. ASSUME NEW i \in 1 .. q PROVE x[lo + i - 1] \in Digits
    <2> DEFINE f == SubSeq(head, 1, q)
    <2>1. 1 \in 1 .. Len(head) + 1 /\ q \in 1 - 1 .. Len(head) /\ q - 1 + 1 = q
      BY <1>15, <1>16, <1>22
    <2>2. /\ f \in Seq(R) /\ Len(f) = q - 1 + 1
          /\ \A j \in 1 .. q - 1 + 1 : f[j] = head[1 + j - 1]
      BY <1>16, <2>1, PartPlaces
    <2> HIDE DEF f
    <2>3. 1 + i - 1 = i /\ i \in 1 .. v
      BY <1>15, <1>22
    <2>4. f[i] = head[i] /\ i \in DOMAIN f
      <3>1. Len(f) = q /\ DOMAIN f = 1 .. Len(f)
        BY <2>1, <2>2, LenProperties
      <3> QED
        BY <2>1, <2>2, <2>3, <3>1
    <2>5. f[i] \in Digits
      BY <1>23, <2>4 DEF f, ToSet
    <2> HIDE DEF v
    <2> QED
      BY <1>20, <2>3, <2>4, <2>5, CapitalKeeps
  <1>25. Figures(t) = SubSeq(x, lo, h)
    <2>1. BeginsWith(t, x, lo, q)
      <3> SUFFICES ASSUME NEW i \in 1 .. q
                   PROVE  t[i] = Capital(x[lo + i - 1]) /\ x[lo + i - 1] \in Digits
        BY DEF BeginsWith
      <3>1. i \in 1 .. v
        BY <1>15, <1>22
      <3> HIDE DEF v
      <3> QED
        BY <1>16, <1>20, <1>24, <3>1
    <2>2. lo \in 1 .. Len(x) /\ lo + q - 1 <= Len(x) /\ v \in q .. Len(t)
      BY <1>1, <1>4, <1>7, <1>12, <1>15, <1>22 DEF l
    <2>3. t \in Seq(R) /\ q \in Nat
      BY <1>7, <1>17
    <2> HIDE DEF v
    <2>4. SubSeq(SubSeq(t, 1, v), 1, q) = SubSeq(x, lo, lo + q - 1)
      BY <2>1, <2>2, <2>3, SameFigures
    <2> QED
      BY <1>23, <2>4 DEF head
  <1>26. Layout(x, u, lo, h, k, hi)
    <2>1. h \in lo .. l /\ k \in h .. l /\ hi \in k .. l /\ hi = k + m
      BY <1>1, <1>4, <1>12, <1>15, <1>22 DEF n
    <2>2. \A i \in lo .. h : x[i] \in Digits
      <3> TAKE i \in lo .. h
      <3> DEFINE j == i - lo + 1
      <3>1. j \in 1 .. q /\ lo + j - 1 = i
        BY <1>1, <1>4, <1>22
      <3> HIDE DEF j
      <3> QED
        BY <1>24, <3>1
    <2>3. ASSUME NEW i \in 1 .. l, h < i, i <= k PROVE x[i] = " "
      <3> DEFINE j == i - lo + 1
      <3>1. j \in 1 .. v /\ q < j /\ lo + j - 1 = i
        BY <1>1, <1>4, <1>15, <1>22, <2>3
      <3> HIDE DEF j, v
      <3> QED
        BY <1>19, <1>20, <3>1, CapitalKeeps
    <2>4. ASSUME NEW i \in 1 .. m PROVE Capital(x[k + i]) = u.text[i]
      <3> DEFINE j == v + i
      <3>1. j \in 1 .. n /\ lo + j - 1 = k + i /\ n - m + i = j
        BY <1>1, <1>4, <1>12, <1>15 DEF n
      <3> HIDE DEF j, v, n, k
      <3> QED
        BY <1>7, <1>13, <3>1
    <2> HIDE DEF h, k
    <2>5. lo \in 1 .. Len(x) /\ h \in lo .. Len(x) /\ k \in h .. Len(x) /\ hi \in k .. Len(x)
      BY <1>4, <2>1 DEF l
    <2>6. \A i \in 1 .. Len(x) : i < lo \/ hi < i \/ (h < i /\ i <= k) => x[i] = " "
      BY <1>6, <2>3 DEF l
    <2>7. \A i \in 1 .. Len(u.text) : Capital(x[k + i]) = u.text[i]
      BY <2>4 DEF m
    <2>8. u \in Units /\ hi = k + Len(u.text)
      BY <1>10, <2>1 DEF m
    <2> QED
      BY <2>2, <2>5, <2>6, <2>7, <2>8 DEF Layout
  <1> HIDE DEF h, k
  <1>27. h \in Nat /\ k \in Nat
    BY <1>22
  <1> QED
    BY <1>7, <1>25, <1>26, <1>27 DEF u, n

-----------------------------------------------------------------------------
(* What is written.                                                        *)

\* A sequence that is not too long is a bounded one, and the other way round.
LEMMA BoundedIsShort ==
  ASSUME NEW S, NEW n \in Nat, NEW s
  PROVE  s \in BoundedSeq(S, n) <=> s \in Seq(S) /\ Len(s) <= n
  <1>1. ASSUME s \in BoundedSeq(S, n) PROVE s \in Seq(S) /\ Len(s) <= n
    <2>1. PICK m \in 0 .. n : s \in [1 .. m -> S]
      BY <1>1 DEF BoundedSeq, SeqOf
    <2>2. m \in Nat /\ s = [i \in 1 .. m |-> s[i]] /\ \A i \in 1 .. m : s[i] \in S
      BY <2>1
    <2>3. Len(s) = m
      BY <2>2, FunctionLength, Zenon
    <2>4. [i \in 1 .. m |-> s[i]] \in Seq(S)
      BY <2>2, IsASeq
    <2>5. s \in Seq(S)
      BY <2>2, <2>4, Zenon
    <2>6. m <= n
      OBVIOUS
    <2> QED
      BY <2>3, <2>5, <2>6, Zenon
  <1>2. ASSUME s \in Seq(S), Len(s) <= n PROVE s \in BoundedSeq(S, n)
    <2>1. Len(s) \in 0 .. n /\ s \in [1 .. Len(s) -> S]
      BY <1>2, LenProperties
    <2> QED
      BY <2>1 DEF BoundedSeq, SeqOf
  <1> QED
    BY <1>1, <1>2

\* Blanks are blank.
LEMMA BlanksAreBlank ==
  ASSUME NEW a \in Blanks
  PROVE  a \in Seq({" "}) /\ \A i \in 1 .. Len(a) : a[i] = " "
  <1> DEFINE E == {" "}
  <1>1. PICK n \in 0 .. Longest : a = [i \in 1 .. n |-> " "]
    BY DEF Blanks
  <1>2. n \in Nat /\ (\A i \in 1 .. n : a[i] \in E) /\ a = [i \in 1 .. n |-> a[i]]
    <2>1. n \in Nat
      BY TextsAssumption
    <2>2. \A i \in 1 .. n : a[i] = " "
      BY <1>1
    <2>3. a = [i \in 1 .. n |-> a[i]]
      BY <1>1
    <2> QED
      BY <2>1, <2>2, <2>3
  <1>3. \A e \in E : e = " "
    OBVIOUS
  <1> HIDE DEF E
  <1>4. [i \in 1 .. n |-> a[i]] \in Seq(E)
    BY <1>2, IsASeq
  <1>5. a \in Seq(E)
    BY <1>2, <1>4
  <1>6. \A i \in 1 .. Len(a) : a[i] \in E
    BY <1>5, ElementOfSeq
  <1> QED
    BY <1>3, <1>5, <1>6 DEF E

\* Nothing is printed between two places.
BlankFrom(x, lo, hi) == \A i \in 1 .. Len(x) : lo <= i /\ i <= hi => x[i] = " "

\* A blank part of a text is blanks.
LEMMA BlankPart ==
  ASSUME NEW S, NEW x \in Seq(S), Len(x) <= Longest,
         NEW lo \in 1 .. Len(x) + 1, NEW hi \in lo - 1 .. Len(x),
         BlankFrom(x, lo, hi)
  PROVE  SubSeq(x, lo, hi) \in Blanks
  <1> DEFINE a == SubSeq(x, lo, hi)
             n == hi - lo + 1
             b == [i \in 1 .. n |-> " "]
  <1>1. Len(x) \in Nat /\ Longest \in Nat
    BY LenProperties, TextsAssumption
  <1>2. n \in 0 .. Longest /\ n \in Nat
    BY <1>1
  <1>3. a \in Seq(S) /\ Len(a) = n /\ \A i \in 1 .. n : a[i] = x[lo + i - 1]
    BY PartPlaces
  <1>4. ASSUME NEW i \in 1 .. n PROVE a[i] = " "
    <2>1. lo + i - 1 \in 1 .. Len(x) /\ lo <= lo + i - 1 /\ lo + i - 1 <= hi
      BY <1>1
    <2>2. x[lo + i - 1] = " "
      BY <2>1 DEF BlankFrom
    <2> HIDE DEF a, n
    <2> QED
      BY <1>3, <2>2
  <1>5. a = b
    <2> HIDE DEF a, n
    <2>1. DOMAIN a = 1 .. n /\ a = [i \in 1 .. n |-> a[i]]
      BY <1>3, LenProperties
    <2> QED
      BY <1>4, <2>1
  <1> HIDE DEF n
  <1> QED
    BY <1>2, <1>5 DEF Blanks

\* A text of five parts, and where they stand.
Joined(x, p, a, d, b, s, c) == p = d \o b \o s /\ x = a \o p \o c
Cut(a, d, b, s, lo, h, k, hi) ==
  lo = Len(a) + 1 /\ h = Len(a) + Len(d) /\ k = h + Len(b) /\ hi = k + Len(s)
Placed(x, a, d, b, s, c, lo, h, k, hi) ==
  \A i \in 1 .. Len(x) :
    /\ i < lo => i \in 1 .. Len(a) /\ x[i] = a[i]
    /\ lo <= i /\ i <= h => x[i] = d[i - lo + 1]
    /\ h < i /\ i <= k => i - h \in 1 .. Len(b) /\ x[i] = b[i - h]
    /\ k < i /\ i <= hi => x[i] = s[i - k]
    /\ hi < i => i - hi \in 1 .. Len(c) /\ x[i] = c[i - hi]

LEMMA FiveParts ==
  ASSUME NEW S, NEW a \in Seq(S), NEW d \in Seq(S), NEW b \in Seq(S), NEW s \in Seq(S),
         NEW c \in Seq(S), NEW p, NEW x, Joined(x, p, a, d, b, s, c),
         NEW lo, NEW h, NEW k, NEW hi, Cut(a, d, b, s, lo, h, k, hi)
  PROVE  /\ lo \in Nat /\ h \in Nat /\ k \in Nat /\ hi \in Nat
         /\ x \in Seq(S) /\ Len(x) = hi + Len(c) /\ Len(p) = hi - lo + 1
         /\ Placed(x, a, d, b, s, c, lo, h, k, hi)
  <1> DEFINE la == Len(a)
             ld == Len(d)
             lb == Len(b)
             ls == Len(s)
             lc == Len(c)
             f == d \o b
             y == a \o p
             lp == Len(p)
             ly == Len(y)
             lx == Len(x)
  <1>1. la \in Nat /\ ld \in Nat /\ lb \in Nat /\ ls \in Nat /\ lc \in Nat
    BY LenProperties
  <1>2. /\ f \in Seq(S) /\ Len(f) = ld + lb
        /\ \A i \in 1 .. ld + lb : f[i] = IF i <= ld THEN d[i] ELSE b[i - ld]
    BY ConcatProperties
  <1> HIDE DEF f
  <1>3. /\ p \in Seq(S) /\ lp = ld + lb + ls
        /\ \A i \in 1 .. ld + lb + ls : p[i] = IF i <= ld + lb THEN f[i] ELSE s[i - (ld + lb)]
    <2>1. p = f \o s
      BY DEF f, Joined
    <2> DEFINE g == f \o s
               lf == Len(f)
    <2>2. f \in Seq(S)
      BY <1>2
    <2>3. /\ g \in Seq(S) /\ Len(g) = lf + ls
          /\ \A i \in 1 .. lf + ls : g[i] = IF i <= lf THEN f[i] ELSE s[i - lf]
      BY <2>2, ConcatProperties
    <2>4. p = g /\ lf = ld + lb
      BY <1>2, <2>1
    <2> HIDE DEF g, lf, ld, lb, ls
    <2>5. /\ p \in Seq(S) /\ Len(p) = lf + ls
          /\ \A i \in 1 .. lf + ls : p[i] = IF i <= lf THEN f[i] ELSE s[i - lf]
      BY <2>3, <2>4
    <2> QED
      BY <2>4, <2>5
  <1>4. /\ y \in Seq(S) /\ ly = la + lp
        /\ \A i \in 1 .. la + lp : y[i] = IF i <= la THEN a[i] ELSE p[i - la]
    <2>1. p \in Seq(S)
      BY <1>3
    <2> QED
      BY <2>1, ConcatProperties
  <1> HIDE DEF y
  <1>5. /\ x \in Seq(S) /\ lx = ly + lc
        /\ \A i \in 1 .. ly + lc : x[i] = IF i <= ly THEN y[i] ELSE c[i - ly]
    <2>1. x = y \o c
      BY DEF y, Joined
    <2> DEFINE g == y \o c
    <2>2. y \in Seq(S)
      BY <1>4
    <2>3. /\ g \in Seq(S) /\ Len(g) = ly + lc
          /\ \A i \in 1 .. ly + lc : g[i] = IF i <= ly THEN y[i] ELSE c[i - ly]
      BY <2>2, ConcatProperties
    <2>4. x = g
      BY <2>1
    <2> HIDE DEF g
    <2> QED
      BY <2>4, <2>3
  <1>6. lo = la + 1 /\ h = la + ld /\ k = h + lb /\ hi = k + ls
    BY DEF Cut
  <1>7. lp = ld + lb + ls /\ ly = la + lp /\ lx = ly + lc
    BY <1>3, <1>4, <1>5
  <1> HIDE DEF la, ld, lb, ls, lc, lp, ly, lx
  <1>8. ASSUME NEW i \in 1 .. lx
        PROVE  /\ i < lo => i \in 1 .. la /\ x[i] = a[i]
               /\ lo <= i /\ i <= h => x[i] = d[i - lo + 1]
               /\ h < i /\ i <= k => i - h \in 1 .. lb /\ x[i] = b[i - h]
               /\ k < i /\ i <= hi => x[i] = s[i - k]
               /\ hi < i => i - hi \in 1 .. lc /\ x[i] = c[i - hi]
    <2>1. CASE i < lo
      <3>1. i \in 1 .. la /\ i <= ly /\ i \in 1 .. ly + lc /\ i \in 1 .. la + lp
        BY <1>1, <1>6, <1>7, <2>1
      <3>2. ~ (lo <= i) /\ ~ (h < i) /\ ~ (k < i) /\ ~ (hi < i)
        BY <1>1, <1>6, <1>7, <2>1
      <3>3. x[i] = y[i] /\ y[i] = a[i]
        BY <1>4, <1>5, <3>1
      <3> QED
        BY <3>1, <3>2, <3>3
    <2>2. CASE lo <= i /\ i <= h
      <3> DEFINE j == i - la
      <3>1. /\ i <= ly /\ i \in 1 .. ly + lc /\ i \in 1 .. la + lp /\ ~ (i <= la)
            /\ j \in 1 .. ld + lb + ls /\ j \in 1 .. ld + lb /\ j <= ld + lb /\ j <= ld
            /\ i - lo + 1 = j
        BY <1>1, <1>6, <1>7, <2>2
      <3>2. ~ (i < lo) /\ ~ (h < i) /\ ~ (k < i) /\ ~ (hi < i)
        BY <1>1, <1>6, <1>7, <2>2
      <3>3. x[i] = y[i] /\ y[i] = p[j]
        BY <1>4, <1>5, <3>1
      <3> HIDE DEF j
      <3>4. p[j] = f[j] /\ f[j] = d[j]
        BY <1>2, <1>3, <3>1
      <3> QED
        BY <3>1, <3>2, <3>3, <3>4
    <2>3. CASE h < i /\ i <= k
      <3> DEFINE j == i - la
      <3>1. /\ i <= ly /\ i \in 1 .. ly + lc /\ i \in 1 .. la + lp /\ ~ (i <= la)
            /\ j \in 1 .. ld + lb + ls /\ j \in 1 .. ld + lb /\ j <= ld + lb /\ ~ (j <= ld)
            /\ i - h = j - ld /\ i - h \in 1 .. lb
        BY <1>1, <1>6, <1>7, <2>3
      <3>2. ~ (i < lo) /\ ~ (i <= h) /\ ~ (k < i) /\ ~ (hi < i)
        BY <1>1, <1>6, <1>7, <2>3
      <3>3. x[i] = y[i] /\ y[i] = p[j]
        BY <1>4, <1>5, <3>1
      <3> HIDE DEF j
      <3>4. p[j] = f[j] /\ f[j] = b[j - ld]
        BY <1>2, <1>3, <3>1
      <3> QED
        BY <3>1, <3>2, <3>3, <3>4
    <2>4. CASE k < i /\ i <= hi
      <3> DEFINE j == i - la
      <3>1. /\ i <= ly /\ i \in 1 .. ly + lc /\ i \in 1 .. la + lp /\ ~ (i <= la)
            /\ j \in 1 .. ld + lb + ls /\ ~ (j <= ld + lb) /\ i - k = j - (ld + lb)
        BY <1>1, <1>6, <1>7, <2>4
      <3>2. ~ (i < lo) /\ ~ (i <= h) /\ ~ (i <= k) /\ ~ (hi < i)
        BY <1>1, <1>6, <1>7, <2>4
      <3>3. x[i] = y[i] /\ y[i] = p[j]
        BY <1>4, <1>5, <3>1
      <3> HIDE DEF j
      <3>4. p[j] = s[j - (ld + lb)]
        BY <1>3, <3>1
      <3> QED
        BY <3>1, <3>2, <3>3, <3>4
    <2>5. CASE hi < i
      <3>1. ~ (i <= ly) /\ i \in 1 .. ly + lc /\ i - hi = i - ly /\ i - hi \in 1 .. lc
        BY <1>1, <1>6, <1>7, <2>5
      <3>2. ~ (i < lo) /\ ~ (i <= h) /\ ~ (i <= k) /\ ~ (i <= hi)
        BY <1>1, <1>6, <1>7, <2>5
      <3>3. x[i] = c[i - ly]
        BY <1>5, <3>1
      <3> QED
        BY <3>1, <3>2, <3>3
    <2>6. i < lo \/ (lo <= i /\ i <= h) \/ (h < i /\ i <= k) \/ (k < i /\ i <= hi) \/ hi < i
      BY <1>1, <1>6, <1>7
    <2> QED
      BY <2>1, <2>2, <2>3, <2>4, <2>5, <2>6
  <1>9. /\ lo \in Nat /\ h \in Nat /\ k \in Nat /\ hi \in Nat
        /\ lx = hi + lc /\ lp = hi - lo + 1
    BY <1>1, <1>6, <1>7
  <1> QED
    <2>1. Placed(x, a, d, b, s, c, lo, h, k, hi)
      BY <1>8 DEF Placed, la, lb, lc, lx
    <2>2. x \in Seq(S)
      BY <1>5
    <2>3. Len(x) = hi + Len(c) /\ Len(p) = hi - lo + 1
      BY <1>9 DEF lc, lp, lx
    <2> QED
      BY <1>9, <2>1, <2>2, <2>3

\* A text of Texts is one over the characters in use.
LEMMA TextsAreGlyphs ==
  ASSUME NEW x \in Texts
  PROVE  x \in Seq(Glyphs) /\ Len(x) <= Longest
  <1>1. x \in Seq(STRING) /\ Len(x) <= Longest
    BY TextsAssumption
  <1>2. \A i \in 1 .. Len(x) : x[i] \in Glyphs
    <2>1. DOMAIN x = 1 .. Len(x)
      BY <1>1, LenProperties
    <2>2. ToSet(x) \subseteq Glyphs
      BY DEF Glyphs
    <2> QED
      BY <2>1, <2>2 DEF ToSet
  <1>3. Len(x) \in Nat /\ x = [i \in 1 .. Len(x) |-> x[i]]
    BY <1>1, LenProperties
  <1> DEFINE n == Len(x)
  <1>4. [i \in 1 .. n |-> x[i]] \in Seq(Glyphs)
    <2>1. n \in Nat /\ \A i \in 1 .. n : x[i] \in Glyphs
      BY <1>2, <1>3
    <2> HIDE DEF n
    <2> QED
      BY <2>1, IsASeq
  <1> QED
    BY <1>1, <1>3, <1>4

\* The parts of a written size, and of a text that holds one.
LEMMA CoreParts ==
  ASSUME NEW u, NEW z
  PROVE  z \in Core(u) <=> \E d \in Numerals, b \in Blanks, s \in Spellings(u) :
                             z = <<d \o b \o s, Number(d) * u.mult>>
  <1>1. ASSUME z \in Core(u)
        PROVE  \E d \in Numerals : \E b \in Blanks : \E s \in Spellings(u) :
                 z = <<d \o b \o s, Number(d) * u.mult>>
    BY <1>1 DEF Core
  <1>2. ASSUME NEW d \in Numerals, NEW b \in Blanks, NEW s \in Spellings(u)
        PROVE  <<d \o b \o s, Number(d) * u.mult>> \in Core(u)
    BY DEF Core
  <1> QED
    BY <1>1, <1>2

LEMMA WrittenParts ==
  ASSUME NEW w
  PROVE  w \in Written <=>
           \E a \in Blanks, c \in Blanks, z \in UNION {Core(u) : u \in Units} :
             /\ z[2] <= IntMax /\ Len(z[1]) <= Longest /\ Len(z[1]) < TextMax
             /\ w = <<a \o z[1] \o c, z[2]>>
  <1>1. \A z : z \in Fitting <=> /\ z \in UNION {Core(u) : u \in Units}
                                /\ z[2] <= IntMax /\ Len(z[1]) <= Longest /\ Len(z[1]) < TextMax
    BY DEF Fitting
  <1>2. w \in Written <=> \E a \in Blanks, c \in Blanks, z \in Fitting : w = Padded(a, c, z)
    BY DEF Written
  <1> QED
    BY <1>1, <1>2 DEF Padded

\* A given text that is laid out is written.
LEMMA LaidOutIsWritten ==
  ASSUME NEW x \in Texts, NEW u, NEW lo \in Nat, NEW h \in Nat, NEW k \in Nat, NEW hi \in Nat,
         Layout(x, u, lo, h, k, hi), hi - lo + 1 < TextMax,
         NEW value, value = Number(SubSeq(x, lo, h)) * u.mult, value <= IntMax
  PROVE  <<x, value>> \in Written
  <1> DEFINE l == Len(x)
             m == Len(u.text)
             a == SubSeq(x, 1, lo - 1)
             d == SubSeq(x, lo, h)
             b == SubSeq(x, h + 1, k)
             s == SubSeq(x, k + 1, hi)
             c == SubSeq(x, hi + 1, l)
             p == SubSeq(x, lo, hi)
  <1>1. x \in Seq(Glyphs) /\ l <= Longest /\ l \in Nat /\ Longest \in Nat
    BY TextsAreGlyphs, LenProperties, TextsAssumption
  <1>2. u \in Units /\ hi = k + m
    BY DEF Layout
  <1>3. lo \in 1 .. l /\ h \in lo .. l /\ k \in h .. l /\ hi \in k .. l
    BY DEF Layout
  <1>4. \A i \in 1 .. l : i < lo \/ hi < i \/ (h < i /\ i <= k) => x[i] = " "
    BY DEF Layout
  <1>5. \A i \in lo .. h : x[i] \in Digits
    BY DEF Layout
  <1>6. \A i \in 1 .. m : Capital(x[k + i]) = u.text[i]
    BY DEF Layout
  <1>7. u.text \in Seq(Letters) /\ m \in 0 .. 3
    BY <1>2, UnitHolds
  <1>8. /\ 1 \in 1 .. l + 1 /\ lo \in 1 .. l + 1 /\ h + 1 \in 1 .. l + 1 /\ k + 1 \in 1 .. l + 1
        /\ hi + 1 \in 1 .. l + 1
        /\ lo - 1 \in 1 - 1 .. l /\ h \in lo - 1 .. l /\ k \in (h + 1) - 1 .. l
        /\ hi \in (k + 1) - 1 .. l /\ l \in (hi + 1) - 1 .. l /\ hi \in lo - 1 .. l
    <2>1. l \in Nat
      BY <1>1
    <2> HIDE DEF l
    <2>2. /\ 1 \in 1 .. l + 1 /\ lo \in 1 .. l + 1 /\ h + 1 \in 1 .. l + 1 /\ k + 1 \in 1 .. l + 1
          /\ hi + 1 \in 1 .. l + 1
      BY <1>3, <2>1
    <2>3. /\ lo - 1 \in 1 - 1 .. l /\ h \in lo - 1 .. l /\ k \in (h + 1) - 1 .. l
          /\ hi \in (k + 1) - 1 .. l /\ l \in (hi + 1) - 1 .. l /\ hi \in lo - 1 .. l
      BY <1>3, <2>1
    <2> QED
      BY <2>2, <2>3
  <1>9. x = a \o p \o c /\ p = d \o b \o s
    <2>1. d \o b = SubSeq(x, lo, k)
      <3>1. k \in h .. l
        BY <1>3
      <3> QED
        BY <1>1, <1>8, <3>1, ConcatAdjacentSubSeq
    <2>2. SubSeq(x, lo, k) \o s = p
      <3>1. k \in lo - 1 .. l /\ hi \in k .. l
        BY <1>1, <1>3
      <3> QED
        BY <1>1, <1>8, <3>1, ConcatAdjacentSubSeq
    <2>3. a \o p = SubSeq(x, 1, hi)
      <3>1. hi \in lo - 1 .. l /\ (lo - 1) + 1 = lo
        BY <1>1, <1>3
      <3>2. SubSeq(x, 1, lo - 1) \o SubSeq(x, (lo - 1) + 1, hi) = SubSeq(x, 1, hi)
        BY <1>1, <1>8, <3>1, ConcatAdjacentSubSeq
      <3> QED
        BY <3>1, <3>2
    <2>4. SubSeq(x, 1, hi) \o c = SubSeq(x, 1, l)
      <3>1. hi \in 1 - 1 .. l /\ l \in hi .. l
        BY <1>1, <1>3
      <3> QED
        BY <1>1, <1>8, <3>1, ConcatAdjacentSubSeq
    <2>5. SubSeq(x, 1, l) = x
      BY <1>1, SubSeqFull
    <2> QED
      BY <2>1, <2>2, <2>3, <2>4, <2>5, Zenon
  <1>10. a \in Blanks
    <2>1. BlankFrom(x, 1, lo - 1)
      <3> SUFFICES ASSUME NEW i \in 1 .. l, i <= lo - 1 PROVE x[i] = " "
        BY DEF BlankFrom
      <3>1. i < lo
        BY <1>1, <1>3
      <3> QED
        BY <1>4, <3>1
    <2> QED
      BY <1>1, <1>8, <2>1, BlankPart
  <1>11. b \in Blanks
    <2>1. BlankFrom(x, h + 1, k)
      <3> SUFFICES ASSUME NEW i \in 1 .. l, h + 1 <= i, i <= k PROVE x[i] = " "
        BY DEF BlankFrom
      <3>1. h < i
        BY <1>1, <1>3
      <3> QED
        BY <1>4, <3>1
    <2> QED
      BY <1>1, <1>8, <2>1, BlankPart
  <1>12. c \in Blanks
    <2>1. BlankFrom(x, hi + 1, l)
      <3> SUFFICES ASSUME NEW i \in 1 .. l, hi + 1 <= i PROVE x[i] = " "
        BY DEF BlankFrom
      <3>1. hi < i
        BY <1>1, <1>3
      <3> QED
        BY <1>4, <3>1
    <2> QED
      BY <1>1, <1>8, <2>1, BlankPart
  <1>13. d \in Numerals
    <2> DEFINE n == h - lo + 1
    <2>1. n \in Nat /\ n # 0 /\ n <= Longest
      BY <1>1, <1>3
    <2>2. d \in Seq(Glyphs) /\ Len(d) = n /\ \A i \in 1 .. n : d[i] = x[lo + i - 1]
      BY <1>1, <1>8, PartPlaces
    <2>3. ASSUME NEW i \in 1 .. n PROVE d[i] \in Glyphs \cap Digits
      <3>1. lo + i - 1 \in lo .. h
        BY <1>1, <1>3
      <3> HIDE DEF d, n
      <3>2. d[i] \in Glyphs
        BY <2>2, ElementOfSeq
      <3> QED
        BY <1>5, <2>2, <3>1, <3>2
    <2> HIDE DEF d, n
    <2>4. d \in Seq(Glyphs \cap Digits)
      <3> DEFINE E == Glyphs \cap Digits
      <3>1. d = [i \in 1 .. n |-> d[i]] /\ \A i \in 1 .. n : d[i] \in E
        BY <2>2, <2>3, LenProperties
      <3> HIDE DEF E
      <3>2. [i \in 1 .. n |-> d[i]] \in Seq(E)
        BY <2>1, <3>1, IsASeq
      <3> QED
        BY <3>1, <3>2 DEF E
    <2>5. d # <<>>
      BY <2>1, <2>2, EmptySeq
    <2>6. d \in BoundedSeq(Glyphs \cap Digits, Longest)
      BY <1>1, <2>1, <2>2, <2>4, BoundedIsShort
    <2> QED
      BY <2>5, <2>6 DEF Numerals, Digits
  <1>14. s \in Spellings(u)
    <2>1. hi - (k + 1) + 1 = m
      BY <1>1, <1>2, <1>3, <1>7
    <2>2. s \in Seq(Glyphs) /\ Len(s) = m /\ \A i \in 1 .. m : s[i] = x[(k + 1) + i - 1]
      BY <1>1, <1>8, <2>1, PartPlaces
    <2> HIDE DEF s, m
    <2>3. \A i \in 1 .. m : s[i] = x[k + i]
      <3> TAKE i \in 1 .. m
      <3>1. (k + 1) + i - 1 = k + i
        BY <1>1, <1>3, <1>7
      <3> QED
        BY <2>2, <3>1
    <2> DEFINE C == {Capital(e) : e \in Glyphs}
               v == Upper(s)
    <2>4. v \in Seq(C) /\ Len(v) = m /\ \A i \in 1 .. m : v[i] = Capital(s[i])
      BY <2>2, UpperText
    <2>5. Upper(s) = u.text
      <3> HIDE DEF C, v
      <3>1. \A i \in 1 .. m : v[i] = u.text[i]
        BY <1>6, <2>3, <2>4
      <3>2. v \in Seq(C \cup Letters) /\ u.text \in Seq(C \cup Letters)
        BY <1>7, <2>4, SeqMonotonic
      <3>3. Len(u.text) = m
        BY DEF m
      <3>4. v = u.text
        BY <2>4, <3>1, <3>2, <3>3, SeqEqual
      <3> QED
        BY <3>4 DEF v
    <2>6. 3 \in Nat /\ m <= 3
      BY <1>7
    <2>7. s \in BoundedSeq(Glyphs, 3)
      BY <2>2, <2>6, BoundedIsShort
    <2> QED
      BY <2>5, <2>7 DEF Spellings
  <1>15. Len(p) = hi - lo + 1 /\ Len(p) <= Longest
    <2>1. Len(p) = hi - lo + 1
      BY <1>1, <1>8, PartPlaces
    <2>2. hi - lo + 1 <= Longest
      BY <1>1, <1>3
    <2> QED
      BY <2>1, <2>2
  <1> HIDE DEF a, d, b, s, c, p
  <1> DEFINE w == <<p, value>>
  <1>16. w \in Core(u)
    <2>1. value = Number(d) * u.mult
      BY DEF d
    <2>2. w = <<d \o b \o s, Number(d) * u.mult>>
      BY <1>9, <2>1
    <2> HIDE DEF w
    <2> QED
      BY <1>11, <1>13, <1>14, <2>2, CoreParts
  <1>17. w[1] = p /\ w[2] = value
    OBVIOUS
  <1> HIDE DEF w
  <1>18. w \in UNION {Core(e) : e \in Units}
    BY <1>2, <1>16
  <1>19. w[2] <= IntMax /\ Len(w[1]) <= Longest /\ Len(w[1]) < TextMax
    BY <1>15, <1>17
  <1>20. <<a \o w[1] \o c, w[2]>> \in Written
    BY <1>10, <1>12, <1>18, <1>19, WrittenParts
  <1> QED
    BY <1>9, <1>17, <1>20

\* What is written is laid out, with the figures and the unit it stands for.
LEMMA WrittenIsLaidOut ==
  ASSUME NEW w \in Written
  PROVE  \E u \in Units : \E lo, h, k, hi \in Nat :
           /\ w[1] \in Seq(Glyphs \cup {" "})
           /\ Layout(w[1], u, lo, h, k, hi) /\ Tight(u, h, k)
           /\ hi - lo + 1 < TextMax /\ SubSeq(w[1], lo, h) \in Seq(Digits)
           /\ w[2] = Number(SubSeq(w[1], lo, h)) * u.mult /\ w[2] <= IntMax
  <1> DEFINE S == Glyphs \cup {" "}
  <1>1. PICK a \in Blanks, c \in Blanks, z \in UNION {Core(u) : u \in Units} :
             /\ z[2] <= IntMax /\ Len(z[1]) <= Longest /\ Len(z[1]) < TextMax
             /\ w = <<a \o z[1] \o c, z[2]>>
    BY WrittenParts
  <1>2. PICK u \in Units : z \in Core(u)
    OBVIOUS
  <1>3. PICK d \in Numerals, b \in Blanks, s \in Spellings(u) :
             z = <<d \o b \o s, Number(d) * u.mult>>
    BY <1>2, CoreParts
  <1> DEFINE p == d \o b \o s
             x == a \o p \o c
             value == Number(d) * u.mult
  <1>4. w[1] = x /\ w[2] = value /\ value <= IntMax /\ Len(p) < TextMax
    BY <1>1, <1>3
  <1>5. d \in Seq(Digits) /\ d \in Seq(S) /\ d # <<>>
    <2>1. d \in Seq(Glyphs \cap Digits) /\ d # <<>>
      BY BoundedIsShort, TextsAssumption DEF Numerals, Digits
    <2>2. Glyphs \cap Digits \subseteq Digits /\ Glyphs \cap Digits \subseteq S
      OBVIOUS
    <2> QED
      BY <2>1, <2>2, SeqMonotonic
  <1>6. s \in Seq(S) /\ Upper(s) = u.text /\ s \in Seq(Glyphs)
    <2>1. s \in BoundedSeq(Glyphs, 3) /\ Upper(s) = u.text
      BY DEF Spellings
    <2>2. s \in Seq(Glyphs)
      BY <2>1, BoundedIsShort
    <2>3. Glyphs \subseteq S
      OBVIOUS
    <2> QED
      BY <2>1, <2>2, <2>3, SeqMonotonic
  <1>7. /\ a \in Seq(S) /\ b \in Seq(S) /\ c \in Seq(S)
        /\ (\A i \in 1 .. Len(a) : a[i] = " ") /\ (\A i \in 1 .. Len(b) : b[i] = " ")
        /\ \A i \in 1 .. Len(c) : c[i] = " "
    <2>1. {" "} \subseteq S
      OBVIOUS
    <2> QED
      BY <2>1, BlanksAreBlank, SeqMonotonic
  <1> DEFINE la == Len(a)
             ld == Len(d)
             lb == Len(b)
             ls == Len(s)
             lc == Len(c)
             lo == la + 1
             h == la + ld
             k == h + lb
             hi == k + ls
             m == Len(u.text)
  <1>8. Joined(x, p, a, d, b, s, c) /\ Cut(a, d, b, s, lo, h, k, hi)
    BY DEF Joined, Cut
  <1>9. la \in Nat /\ ld \in Nat /\ lb \in Nat /\ ls \in Nat /\ lc \in Nat /\ ld # 0
    BY <1>5, <1>6, <1>7, LenProperties, EmptySeq
  <1>10. m = ls /\ \A i \in 1 .. ls : u.text[i] = Capital(s[i])
    BY <1>6, UpperText
  <1>11. \A i \in 1 .. ld : d[i] \in Digits
    BY <1>5, ElementOfSeq
  <1> HIDE DEF x, p, S, value, lo, h, k, hi
  <1>12. /\ lo \in Nat /\ h \in Nat /\ k \in Nat /\ hi \in Nat
         /\ x \in Seq(S) /\ Len(x) = hi + lc /\ Len(p) = hi - lo + 1
         /\ \A i \in 1 .. Len(x) :
              /\ i < lo => i \in 1 .. la /\ x[i] = a[i]
              /\ lo <= i /\ i <= h => x[i] = d[i - lo + 1]
              /\ h < i /\ i <= k => i - h \in 1 .. lb /\ x[i] = b[i - h]
              /\ k < i /\ i <= hi => x[i] = s[i - k]
              /\ hi < i => i - hi \in 1 .. lc /\ x[i] = c[i - hi]
    <2>1. a \in Seq(S) /\ d \in Seq(S) /\ b \in Seq(S) /\ s \in Seq(S) /\ c \in Seq(S)
      BY <1>5, <1>6, <1>7
    <2>2. /\ lo \in Nat /\ h \in Nat /\ k \in Nat /\ hi \in Nat
          /\ x \in Seq(S) /\ Len(x) = hi + Len(c) /\ Len(p) = hi - lo + 1
          /\ Placed(x, a, d, b, s, c, lo, h, k, hi)
      BY <1>8, <2>1, FiveParts
    <2> QED
      BY <2>2, Zenon DEF Placed
  <1> DEFINE lx == Len(x)
  <1>13. lo = la + 1 /\ h = la + ld /\ k = h + lb /\ hi = k + ls /\ lx = hi + lc
    BY <1>12 DEF lo, h, k, hi
  <1> HIDE DEF la, ld, lb, ls, lc, lx, m
  <1>14. ASSUME NEW i \in 1 .. lx, i < lo \/ hi < i \/ (h < i /\ i <= k) PROVE x[i] = " "
    BY <1>7, <1>12, <1>14 DEF la, lb, lc, lx
  <1>15. ASSUME NEW i \in lo .. h PROVE x[i] \in Digits
    <2>1. i \in 1 .. lx /\ lo <= i /\ i <= h /\ i - lo + 1 \in 1 .. ld
      BY <1>9, <1>13
    <2>2. x[i] = d[i - lo + 1]
      BY <1>12, <2>1 DEF lx
    <2> QED
      BY <1>11, <2>1, <2>2
  <1>16. ASSUME NEW i \in 1 .. m PROVE Capital(x[k + i]) = u.text[i]
    <2>1. i \in 1 .. ls
      BY <1>10
    <2>2. k + i \in 1 .. lx /\ k < k + i /\ k + i <= hi /\ (k + i) - k = i
      BY <1>9, <1>13, <2>1
    <2>3. x[k + i] = s[(k + i) - k]
      BY <1>12, <2>2 DEF lx
    <2> QED
      BY <1>10, <2>1, <2>2, <2>3
  <1>17. lo \in 1 .. lx /\ h \in lo .. lx /\ k \in h .. lx /\ hi \in k .. lx /\ hi = k + m
    <2>1. m = ls
      BY <1>10
    <2> QED
      BY <1>9, <1>13, <2>1
  <1>18. SubSeq(x, lo, h) = d
    <2> DEFINE e == SubSeq(x, lo, h)
    <2>1. lo \in 1 .. lx + 1 /\ h \in lo - 1 .. lx /\ h - lo + 1 = ld
      BY <1>9, <1>13
    <2>2. e \in Seq(S) /\ Len(e) = ld /\ \A i \in 1 .. ld : e[i] = x[lo + i - 1]
      BY <1>12, <2>1, PartPlaces DEF lx
    <2> HIDE DEF e
    <2>3. ASSUME NEW i \in 1 .. ld PROVE e[i] = d[i]
      <3>1. /\ lo + i - 1 \in 1 .. lx /\ lo <= lo + i - 1 /\ lo + i - 1 <= h
            /\ (lo + i - 1) - lo + 1 = i
        BY <1>9, <1>13
      <3>2. x[lo + i - 1] = d[(lo + i - 1) - lo + 1]
        BY <1>12, <3>1 DEF lx
      <3> QED
        BY <2>2, <3>1, <3>2
    <2>4. Len(d) = ld
      BY DEF ld
    <2>5. e = d
      BY <1>5, <2>2, <2>3, <2>4, SeqEqual
    <2> QED
      BY <2>5 DEF e
  <1>19. Layout(x, u, lo, h, k, hi)
    BY <1>14, <1>15, <1>16, <1>17 DEF Layout, lx, m
  <1>20. hi - lo + 1 < TextMax
    BY <1>4, <1>12
  <1>21. w[1] = x /\ w[2] = Number(SubSeq(x, lo, h)) * u.mult /\ w[2] <= IntMax
    BY <1>4, <1>18 DEF value
  <1>22. SubSeq(x, lo, h) \in Seq(Digits)
    BY <1>5, <1>18
  <1>23. CASE u # Bare
    BY <1>12, <1>19, <1>20, <1>21, <1>22, <1>23 DEF S, Tight
  <1>24. CASE u = Bare
    <2>1. m = 0
      BY <1>24, UnitHolds DEF m
    <2>2. hi = k
      BY <1>12, <1>17, <2>1
    <2>3. Layout(x, u, lo, h, h, h)
      <3>1. lo \in 1 .. lx /\ h \in lo .. lx /\ h \in h .. lx /\ h = h + m
        BY <1>9, <1>13, <2>1
      <3>2. ASSUME NEW i \in 1 .. lx, i < lo \/ h < i \/ (h < i /\ i <= h) PROVE x[i] = " "
        <4>1. i < lo \/ hi < i \/ (h < i /\ i <= k)
          BY <1>9, <1>13, <2>2, <3>2
        <4> QED
          BY <1>14, <4>1
      <3>3. ASSUME NEW i \in 1 .. m PROVE Capital(x[h + i]) = u.text[i]
        BY <2>1
      <3> QED
        BY <1>15, <3>1, <3>2, <3>3 DEF Layout, lx, m
    <2>4. h - lo + 1 < TextMax
      <3>1. /\ h - lo + 1 <= hi - lo + 1 /\ h - lo + 1 \in Int /\ hi - lo + 1 \in Int
            /\ TextMax \in Int
        BY <1>9, <1>13, TextsAssumption
      <3> QED
        BY <1>20, <3>1
    <2> QED
      BY <1>12, <1>21, <1>22, <2>3, <2>4 DEF S, Tight
  <1> QED
    BY <1>23, <1>24

\* What is read from a given text is written there.
LEMMA ReadIsWritten ==
  ASSUME NEW x \in Texts, NEW t, t = Upper(Trimmed(x)), WellFormed(t)
  PROVE  <<x, SizeOf(t)>> \in Written
  <1> DEFINE n == Number(Figures(t))
             m == Suffix(t).mult
  <1>1. /\ t # <<>> /\ Len(t) < TextMax
        /\ Figures(t) # <<>> /\ ToSet(Figures(t)) \subseteq Digits /\ Fits(n, m)
    BY DEF WellFormed, Digits
  <1>2. x \in Seq(Glyphs)
    BY TextsAreGlyphs
  <1>3. PICK lo \in Nat, h \in Nat, k \in Nat, hi \in Nat :
             /\ Layout(x, Suffix(t), lo, h, k, hi)
             /\ Figures(t) = SubSeq(x, lo, h) /\ Len(t) = hi - lo + 1
    BY <1>1, <1>2, ReadIsLaidOut, ZenonT(40)
  <1>4. m \in Nat \ {0}
    BY <1>3, UnitHolds DEF Layout
  <1>5. n \in Nat
    BY <1>1, WidthAssumption DEF Fits
  <1> HIDE DEF n, m
  <1>6. n * m <= IntMax
    <2>1. n * m \in 0 .. IntMax
      BY <1>1, <1>4, <1>5, ProductFits
    <2> QED
      BY <2>1, WidthAssumption
  <1>7. SizeOf(t) = n * m /\ SizeOf(t) = Number(SubSeq(x, lo, h)) * Suffix(t).mult
    BY <1>3 DEF SizeOf, n, m
  <1>8. SizeOf(t) <= IntMax /\ hi - lo + 1 < TextMax
    BY <1>1, <1>3, <1>6, <1>7
  <1> QED
    BY <1>3, <1>7, <1>8, LaidOutIsWritten

\* What is written in a text is read from it.
LEMMA WrittenIsRead ==
  ASSUME NEW w \in Written, NEW t, t = Upper(Trimmed(w[1]))
  PROVE  WellFormed(t) /\ SizeOf(t) = w[2] /\ w[2] \in Nat
  <1> DEFINE x == w[1]
             S == Glyphs \cup {" "}
  <1>1. PICK u \in Units, lo \in Nat, h \in Nat, k \in Nat, hi \in Nat :
             /\ x \in Seq(S)
             /\ Layout(x, u, lo, h, k, hi) /\ Tight(u, h, k)
             /\ hi - lo + 1 < TextMax /\ SubSeq(x, lo, h) \in Seq(Digits)
             /\ w[2] = Number(SubSeq(x, lo, h)) * u.mult /\ w[2] <= IntMax
    BY WrittenIsLaidOut
  <1> DEFINE d == SubSeq(x, lo, h)
             n == Number(d)
             m == u.mult
  <1> HIDE DEF x, S
  <1>2. Len(t) = hi - lo + 1 /\ t # <<>> /\ Suffix(t) = u /\ Figures(t) = d
    <2>1. t = Upper(Trimmed(x))
      BY DEF x
    <2>2. x \in Seq(S) /\ Layout(x, u, lo, h, k, hi) /\ Tight(u, h, k)
      BY <1>1
    <2>3. Len(t) = hi - lo + 1 /\ t # <<>> /\ Suffix(t) = u /\ Figures(t) = SubSeq(x, lo, h)
      BY <2>1, <2>2, LayoutIsRead, ZenonT(40)
    <2> QED
      BY <2>3
  <1>3. d # <<>>
    <2>1. lo \in 1 .. Len(x) /\ h \in lo .. Len(x) /\ Len(x) \in Nat
      BY <1>1, LenProperties DEF Layout
    <2>2. lo \in 1 .. Len(x) + 1 /\ h \in lo - 1 .. Len(x) /\ h - lo + 1 # 0
      BY <2>1
    <2>3. Len(d) = h - lo + 1
      BY <1>1, <2>2, PartPlaces
    <2> HIDE DEF d
    <2> QED
      BY <2>2, <2>3, EmptySeq
  <1>4. d \in Seq(Digits) /\ ToSet(d) \subseteq ToSet(DigitChars)
    <2>1. d \in Seq(Digits)
      BY <1>1
    <2> HIDE DEF d
    <2>2. DOMAIN d = 1 .. Len(d) /\ \A i \in 1 .. Len(d) : d[i] \in Digits
      BY <2>1, LenProperties, ElementOfSeq
    <2>3. ToSet(d) \subseteq Digits
      BY <2>2 DEF ToSet
    <2> QED
      BY <2>1, <2>3 DEF Digits
  <1> HIDE DEF d
  <1>5. n \in Nat
    BY <1>4, NumberOfFigures
  <1>6. m \in Nat \ {0}
    BY UnitHolds
  <1>7. w[2] = n * m /\ n * m <= IntMax
    BY <1>1 DEF d
  <1> HIDE DEF n, m
  <1>8. Fits(n, m)
    BY <1>5, <1>6, <1>7, FitsProduct
  <1>9. SizeOf(t) = n * m
    BY <1>2 DEF SizeOf, n, m
  <1>10. WellFormed(t)
    <2>1. Len(t) < TextMax
      BY <1>1, <1>2
    <2>2. Fits(Number(Figures(t)), Suffix(t).mult)
      BY <1>2, <1>8 DEF n, m
    <2> QED
      BY <1>2, <1>3, <1>4, <2>1, <2>2 DEF WellFormed
  <1>11. n * m \in Nat
    BY <1>5, <1>6, SMT
  <1> QED
    BY <1>7, <1>9, <1>10, <1>11

-----------------------------------------------------------------------------
(* The invariant.                                                          *)

\* It holds at the start.
LEMMA InitFact == Init => IInv
  <1> SUFFICES ASSUME Init PROVE IInv
    OBVIOUS
  <1>1. 0 \in 0 .. Modulus - 1
    BY WidthAssumption
  <1>2. payload \in 0 .. Modulus - 1 /\ cap \in 0 .. Modulus - 1
    BY <1>1, PayloadsAssumption DEF Init
  <1>3. pc \in {"parse", "bound"} /\ text \in Texts \cup {<<>>}
    BY DEF Init
  <1>4. pc # "done" /\ pc # "rejected" /\ (pc = "bound" => text = <<>>)
    BY DEF Init
  <1> QED
    BY <1>2, <1>3, <1>4 DEF IInv, TypeOK, ParsedInv, CapExact, ReadAsWritten

\* Every step keeps what it says of types and capacities ...
LEMMA Step ==
  ASSUME IInv, [Next]_vars
  PROVE  TypeOK' /\ ParsedInv' /\ CapExact'
  <1> USE WidthAssumption DEF IInv, TypeOK, ParsedInv, CapExact
  <1>1. CASE ParseSize
    <2> DEFINE t == Upper(Trimmed(text))
    <2>1. /\ Fits(Number(Figures(t)), Suffix(t).mult)
          /\ payload' = Number(Figures(t)) * Suffix(t).mult
          /\ pc' = "bound" /\ UNCHANGED <<text, cap>>
      BY <1>1 DEF ParseSize, WellFormed, SizeOf
    <2>2. Number(Figures(t)) \in Nat
      BY <2>1 DEF Fits
    <2>3. payload' \in 0 .. IntMax
      BY <2>1, <2>2, SuffixUnit, ProductFits
    <2> QED
      BY <2>1, <2>3
  <1>2. CASE ParseRejects
    BY <1>2 DEF ParseRejects
  <1>3. CASE OutBound
    <2>1. cap' = OutCap(payload) /\ UNCHANGED <<text, payload>> /\ pc' = "done"
      BY <1>3 DEF OutBound
    <2> QED
      BY <1>3, <2>1, OutCapExact DEF OutBound
  <1>4. CASE Stopped
    BY <1>4 DEF Stopped, vars
  <1>5. CASE UNCHANGED vars
    BY <1>5 DEF vars
  <1> QED
    BY <1>1, <1>2, <1>3, <1>4, <1>5 DEF Next

\* ... and of texts: parse_size is the one place where they are read.
LEMMA ReadStep ==
  ASSUME IInv, [Next]_vars
  PROVE  ReadAsWritten'
  <1> DEFINE t == Upper(Trimmed(text))
  <1>1. text # <<>> => text \in Texts
    BY DEF IInv, TypeOK
  <1>2. text # <<>> /\ pc \in {"bound", "done"} => <<text, payload>> \in Written
    BY DEF IInv, ReadAsWritten
  <1>3. pc = "rejected" => \A w \in Written : w[1] = text => w[2] = 0
    BY DEF IInv, ReadAsWritten
  <1>4. CASE ParseSize
    <2>1. WellFormed(t) /\ payload' = SizeOf(t) /\ pc' = "bound" /\ text' = text
      BY <1>4 DEF ParseSize
    <2>2. text # <<>> => <<text, SizeOf(t)>> \in Written
      BY <1>1, <2>1, ReadIsWritten
    <2> HIDE DEF t
    <2> QED
      BY <2>1, <2>2 DEF ReadAsWritten, Written
  <1>5. CASE ParseRejects
    <2>1. ~ (WellFormed(t) /\ SizeOf(t) >= 1) /\ pc' = "rejected" /\ text' = text
      BY <1>5 DEF ParseRejects
    <2>2. ASSUME NEW w \in Written, w[1] = text PROVE w[2] = 0
      <3>1. WellFormed(t) /\ SizeOf(t) = w[2] /\ w[2] \in Nat
        BY <2>2, WrittenIsRead
      <3> HIDE DEF t
      <3> QED
        BY <2>1, <3>1
    <2> HIDE DEF t
    <2> QED
      BY <2>1, <2>2 DEF ReadAsWritten
  <1>6. CASE OutBound
    <2>1. pc = "bound" /\ pc' = "done" /\ text' = text /\ payload' = payload
      BY <1>6 DEF OutBound
    <2> QED
      BY <1>2, <2>1 DEF ReadAsWritten
  <1>7. CASE Stopped \/ UNCHANGED vars
    <2>1. pc' = pc /\ text' = text /\ payload' = payload
      BY <1>7 DEF Stopped, vars
    <2> QED
      BY <1>2, <1>3, <2>1 DEF ReadAsWritten
  <1> QED
    BY <1>4, <1>5, <1>6, <1>7 DEF Next

-----------------------------------------------------------------------------
(* The theorems.                                                           *)

\* The invariant holds throughout.
LEMMA Invariance == Spec => []IInv
  <1>1. IInv /\ [Next]_vars => IInv'
    BY Step, ReadStep DEF IInv
  <1> QED
    BY InitFact, <1>1, PTL DEF Spec

\* No size parsed and no capacity computed leaves its type.
THEOREM TypeCorrectness == Spec => []TypeOK
  BY Invariance, PTL DEF IInv

\* out_cap is the formula its comment gives for every size_t, of any width.
THEOREM CapacitiesAreExact == Spec => []CapExact
  BY Invariance, PTL DEF IInv

\* Whatever --payload-size is accepted, out_cap gives the payload its head-room.
THEOREM ParsedSizesHaveHeadroom == Spec => []ParsedHasHeadroom
  <1>1. IInv => ParsedHasHeadroom
    BY WidthAssumption DEF IInv, TypeOK, ParsedInv, CapExact, ParsedHasHeadroom
  <1> QED
    BY <1>1, Invariance, PTL

\* An accepted --payload-size is the size the text spells, in any case and with
\* blanks around it, and a text that is refused spells none but zero: parse_size
\* takes exactly the grammar its comment gives.
THEOREM TextsAreReadAsWritten == Spec => []ReadAsWritten
  BY Invariance, PTL DEF IInv

=============================================================================
