----------------------------- MODULE FileProofs -----------------------------
(***************************************************************************)
(* splitSQL cuts every text as its markers say, however long it is and     *)
(* wherever its markers stand.                                             *)
(***************************************************************************)
EXTENDS MigrationFile, Integers, SequenceTheorems, WellFoundedInduction, TLAPS

(* A set of natural numbers has a smallest one, ... *)
LEMMA Smallest ==
  ASSUME NEW T, T \subseteq Nat, T # {}
  PROVE  \E x \in T : \A y \in T : x <= y
<1> DEFINE R == {ss \in Nat \X Nat : ss[1] < ss[2]}
<1>1. OpToRel(<, Nat) = R
  BY Zenon DEF OpToRel
<1>2. IsWellFoundedOn(R, Nat)
  BY <1>1, NatLessThanWellFounded, Zenon
<1> HIDE DEF R
<1>3. \E x \in T : \A y \in T : ~ (<<y, x>> \in R)
  BY <1>2, WFMin
<1>4. ASSUME NEW x \in T, NEW y \in T, ~ (<<y, x>> \in R)
      PROVE  x <= y
  BY <1>4 DEF R
<1> QED
  BY <1>3, <1>4

(* ... and, if it has a bound, a largest one. *)
LEMMA Largest ==
  ASSUME NEW n \in Nat, NEW T, T \subseteq 1..n, T # {}
  PROVE  \E x \in T : \A y \in T : y <= x
<1> DEFINE D == {n - x : x \in T}
<1>1. D \subseteq Nat /\ D # {}
  <2>1. PICK x \in T : TRUE
    OBVIOUS
  <2>2. n - x \in D
    BY <2>1
  <2>3. \A y \in T : n - y \in Nat
    OBVIOUS
  <2> QED
    BY <2>2, <2>3
<1> HIDE DEF D
<1>2. PICK d \in D : \A e \in D : d <= e
  BY <1>1, Smallest
<1>3. PICK x \in T : d = n - x
  BY <1>2 DEF D
<1>4. ASSUME NEW y \in T PROVE y <= x
  <2>1. n - y \in D
    BY DEF D
  <2>2. d <= n - y
    BY <1>2, <2>1
  <2> QED
    BY <1>3, <2>2
<1> QED
  BY <1>4

(* Index finds the first marker or none. *)
LEMMA IndexFinds ==
  ASSUME NEW text \in Seq(Tokens), NEW marker
  PROVE  \/ /\ Index(text, marker) = 0
            /\ \A i \in 1..Len(text) : text[i] # marker
         \/ /\ Index(text, marker) \in 1..Len(text)
            /\ text[Index(text, marker)] = marker
            /\ \A j \in 1..(Index(text, marker) - 1) : text[j] # marker
<1>1. DOMAIN text = 1..Len(text) /\ Len(text) \in Nat
  OBVIOUS
<1>2. CASE \A i \in DOMAIN text : text[i] # marker
  BY <1>1, <1>2 DEF Index
<1>3. CASE \E i \in DOMAIN text : text[i] = marker
  <2> DEFINE P(i) == /\ text[i] = marker
                     /\ \A j \in 1..(i - 1) : text[j] # marker
             T == {i \in DOMAIN text : text[i] = marker}
  <2>1. \E i \in T : \A j \in T : i <= j
    <3>1. T \subseteq Nat /\ T # {}
      BY <1>1, <1>3
    <3> HIDE DEF T
    <3> QED
      BY <3>1, Smallest
  <2>2. PICK i \in DOMAIN text : P(i)
    <3>1. PICK i \in T : \A j \in T : i <= j
      BY <2>1
    <3>2. ASSUME NEW j \in 1..(i - 1), text[j] = marker PROVE FALSE
      BY <1>1, <3>1, <3>2
    <3> QED
      BY <3>1, <3>2
  <2>3. Index(text, marker) = CHOOSE k \in DOMAIN text : P(k)
    BY <1>3 DEF Index
  <2> HIDE DEF P
  <2>4. Index(text, marker) \in DOMAIN text /\ P(Index(text, marker))
    BY <2>2, <2>3
  <2> QED
    BY <1>1, <2>4 DEF P
<1> QED
  BY <1>2, <1>3

(* The rest of a text. *)
LEMMA FromShifts ==
  ASSUME NEW text \in Seq(Tokens), NEW n \in 1..(Len(text) + 1)
  PROVE  /\ From(text, n) \in Seq(Tokens)
         /\ Len(From(text, n)) = Len(text) - n + 1
         /\ \A k \in 1..(Len(text) - n + 1) : From(text, n)[k] = text[n + k - 1]
<1>1. n \in Int /\ Len(text) \in Int
      /\ \A i \in n..Len(text) : text[i] \in Tokens
  OBVIOUS
<1> QED
  BY <1>1, SubSeqProperties DEF From

(* TrimSpace applied to a stretch of a text, part, which begins after the  *)
(* first c tokens, gives what the stretch holds.                           *)
LEMMA TrimSpaceIsSection ==
  ASSUME NEW text \in Seq(Tokens), NEW part \in Seq(Tokens), NEW c \in Nat,
         c + Len(part) <= Len(text),
         \A k \in 1..Len(part) : part[k] = text[c + k]
  PROVE  IsSection(TrimSpace(part), text, (c + 1)..(c + Len(part)))
<1> DEFINE places == (c + 1)..(c + Len(part))
           filled == {k \in DOMAIN part : part[k] # Blank}
<1>1. DOMAIN part = 1..Len(part) /\ Len(part) \in Nat /\ Len(text) \in Nat
  OBVIOUS
<1>2. \A k \in filled : c + k \in Filled(text, places)
  BY <1>1 DEF Filled
<1>3. \A i \in Filled(text, places) : i - c \in filled /\ i = c + (i - c)
  BY <1>1 DEF Filled
<1>4. CASE filled = {}
  <2>1. TrimSpace(part) = <<>>
    BY <1>4 DEF TrimSpace
  <2>2. Filled(text, places) = {}
    BY <1>3, <1>4
  <2> QED
    BY <2>1, <2>2 DEF IsSection
<1>5. CASE filled # {}
  <2> DEFINE first == CHOOSE i \in filled : \A j \in filled : i <= j
             last == CHOOSE i \in filled : \A j \in filled : j <= i
  <2>1. first \in filled /\ \A j \in filled : first <= j
    <3>1. \E i \in filled : \A j \in filled : i <= j
      <4>1. filled \subseteq Nat
        BY <1>1
      <4> HIDE DEF filled
      <4> QED
        BY <1>5, <4>1, Smallest
    <3> QED
      BY <3>1
  <2>2. last \in filled /\ \A j \in filled : j <= last
    <3>1. \E i \in filled : \A j \in filled : j <= i
      <4>1. filled \subseteq 1..Len(part)
        BY <1>1
      <4> HIDE DEF filled
      <4> QED
        BY <1>1, <1>5, <4>1, Largest
    <3> QED
      BY <3>1
  <2>3. TrimSpace(part) = SubSeq(part, first, last)
    BY <1>5 DEF TrimSpace
  <2> HIDE DEF first, last
  <2>4. first \in 1..Len(part) /\ last \in 1..Len(part) /\ first <= last
    BY <1>1, <2>1, <2>2
  <2>5. SubSeq(part, first, last) = SubSeq(text, c + first, c + last)
    <3> DEFINE s == SubSeq(part, first, last)
               t == SubSeq(text, c + first, c + last)
    <3>1. /\ s \in Seq(Tokens) /\ Len(s) = last - first + 1
          /\ \A i \in 1..(last - first + 1) : s[i] = part[first + i - 1]
      <4>1. first \in Int /\ last \in Int
            /\ \A i \in first..last : part[i] \in Tokens
        BY <1>1, <2>4
      <4> QED
        BY <2>4, <4>1, SubSeqProperties
    <3>2. /\ t \in Seq(Tokens) /\ Len(t) = last - first + 1
          /\ \A i \in 1..(last - first + 1) : t[i] = text[c + first + i - 1]
      <4>1. c + first \in Int /\ c + last \in Int
            /\ \A i \in (c + first)..(c + last) : text[i] \in Tokens
        BY <1>1, <2>4
      <4>2. /\ t \in Seq(Tokens)
            /\ Len(t) = IF c + first <= c + last
                        THEN (c + last) - (c + first) + 1 ELSE 0
            /\ \A i \in 1..((c + last) - (c + first) + 1) :
                 t[i] = text[(c + first) + i - 1]
        BY <4>1, SubSeqProperties
      <4> QED
        BY <2>4, <4>2
    <3> HIDE DEF s, t
    <3>3. ASSUME NEW i \in 1..(last - first + 1) PROVE s[i] = t[i]
      <4>1. first + i - 1 \in 1..Len(part)
            /\ c + (first + i - 1) = c + first + i - 1
        BY <1>1, <2>4
      <4>2. part[first + i - 1] = text[c + (first + i - 1)]
        BY <4>1
      <4> QED
        BY <3>1, <3>2, <4>1, <4>2
    <3>4. Len(s) = Len(t)
      BY <3>1, <3>2
    <3>5. s = t
      BY <3>1, <3>2, <3>3, <3>4, SeqEqual
    <3> QED
      BY <3>5 DEF s, t
  <2>6. c + first \in Filled(text, places) /\ c + last \in Filled(text, places)
    BY <1>2, <2>1, <2>2
  <2>7. ASSUME NEW i \in Filled(text, places)
        PROVE  c + first <= i /\ i <= c + last
    <3>1. i - c \in filled /\ i \in Int
      BY <1>1, <1>3 DEF Filled
    <3>2. first <= i - c /\ i - c <= last
      BY <2>1, <2>2, <3>1
    <3> HIDE DEF filled
    <3> QED
      BY <2>4, <3>1, <3>2
  <2>8. (c + first)..(c + last) \subseteq places
    BY <1>1, <2>4
  <2> HIDE DEF places
  <2> QED
    BY <2>3, <2>5, <2>6, <2>7, <2>8 DEF IsSection, places
<1> QED
  BY <1>4, <1>5

-----------------------------------------------------------------------------
(* The places of the sections, by the first markers. *)
UpEnd(text) ==
    IF DownIndex(text) = 0 THEN Len(text)
    ELSE Index(text, Up) + DownIndex(text) - 1

LEMMA MarkersFound ==
  ASSUME NEW text \in Seq(Tokens), Index(text, Up) # 0
  PROVE  /\ Index(text, Up) \in 1..Len(text)
         /\ text[Index(text, Up)] = Up
         /\ \A j \in 1..(Index(text, Up) - 1) : text[j] # Up
         /\ AfterUp(text) \in Seq(Tokens)
         /\ Len(AfterUp(text)) = Len(text) - Index(text, Up)
         /\ \A k \in 1..(Len(text) - Index(text, Up)) :
              AfterUp(text)[k] = text[Index(text, Up) + k]
         /\ DownIndex(text) \in 0..(Len(text) - Index(text, Up))
<1> DEFINE u == Index(text, Up)
           rest == AfterUp(text)
<1>1. /\ u \in 1..Len(text) /\ text[u] = Up
      /\ \A j \in 1..(u - 1) : text[j] # Up
  BY IndexFinds
<1> HIDE DEF u
<1>2. u + 1 \in 1..(Len(text) + 1) /\ Len(text) \in Nat /\ u \in Nat
  BY <1>1
<1>3. rest = From(text, u + 1)
  BY DEF AfterUp, u
<1>4. /\ rest \in Seq(Tokens)
      /\ Len(rest) = Len(text) - u
  BY <1>2, <1>3, FromShifts
<1>5. ASSUME NEW k \in 1..(Len(text) - u) PROVE rest[k] = text[u + k]
  <2>1. k \in 1..(Len(text) - (u + 1) + 1) /\ (u + 1) + k - 1 = u + k
    BY <1>2
  <2>2. rest[k] = text[(u + 1) + k - 1]
    BY <1>2, <1>3, <2>1, FromShifts
  <2> QED
    BY <2>1, <2>2
<1>6. DownIndex(text) \in 0..Len(rest)
  BY <1>2, <1>4, IndexFinds DEF DownIndex
<1> QED
  BY <1>1, <1>4, <1>5, <1>6 DEF u

(* A down marker after an up marker is the first down marker after the     *)
(* first up marker, or comes later.                                        *)
LEMMA PastDownIsPastIndex ==
  ASSUME NEW text \in Seq(Tokens), Index(text, Up) # 0,
         NEW i \in 0..Len(text)
  PROVE  PastDown(text, i)
           <=> DownIndex(text) # 0 /\ Index(text, Up) + DownIndex(text) <= i
<1> DEFINE u == Index(text, Up)
           d == DownIndex(text)
           rest == AfterUp(text)
<1>1. /\ u \in 1..Len(text) /\ text[u] = Up
      /\ \A j \in 1..(u - 1) : text[j] # Up
      /\ rest \in Seq(Tokens) /\ Len(rest) = Len(text) - u
      /\ \A k \in 1..(Len(text) - u) : rest[k] = text[u + k]
      /\ d \in 0..(Len(text) - u)
  BY MarkersFound
<1>2. \/ d = 0 /\ \A k \in 1..Len(rest) : rest[k] # Down
      \/ /\ d \in 1..Len(rest) /\ rest[d] = Down
         /\ \A k \in 1..(d - 1) : rest[k] # Down
  BY <1>1, IndexFinds DEF DownIndex
<1> HIDE DEF u, d, rest
<1>3. u \in Nat /\ d \in Nat /\ Len(text) \in Nat
  BY <1>1
<1>4. ASSUME d # 0, u + d <= i PROVE PastDown(text, i)
  <2>1. text[u + d] = Down
    BY <1>1, <1>2, <1>3, <1>4
  <2>2. u \in 1..i /\ u + d \in 1..i /\ u < u + d
    BY <1>1, <1>3, <1>4
  <2> QED
    BY <1>1, <2>1, <2>2 DEF PastDown
<1>5. ASSUME PastDown(text, i) PROVE d # 0 /\ u + d <= i
  <2>1. PICK j, k \in 1..i : j < k /\ text[j] = Up /\ text[k] = Down
    BY <1>5 DEF PastDown
  <2>2. ~ (j < u)
    BY <1>1, <1>3, <2>1
  <2>3. k - u \in 1..(Len(text) - u) /\ u + (k - u) = k
    BY <1>3, <2>1, <2>2
  <2>4. rest[k - u] = Down
    BY <1>1, <2>1, <2>3
  <2>5. d # 0 /\ ~ (k - u < d)
    BY <1>1, <1>2, <1>3, <2>3, <2>4
  <2> QED
    BY <1>3, <2>1, <2>3, <2>5
<1>6. PastDown(text, i) <=> d # 0 /\ u + d <= i
  BY <1>4, <1>5
<1> QED
  BY <1>6 DEF u, d

LEMMA SectionPlaces ==
  ASSUME NEW text \in Seq(Tokens), Index(text, Up) # 0
  PROVE  /\ UpPlaces(text) = (Index(text, Up) + 1)..UpEnd(text)
         /\ DownPlaces(text) =
              IF DownIndex(text) = 0 THEN {}
              ELSE (Index(text, Up) + DownIndex(text) + 1)..Len(text)
<1> DEFINE u == Index(text, Up)
           d == DownIndex(text)
<1>1. /\ u \in 1..Len(text) /\ text[u] = Up
      /\ \A j \in 1..(u - 1) : text[j] # Up
      /\ d \in 0..(Len(text) - u)
  BY MarkersFound
<1>2. \A i \in 0..Len(text) : PastDown(text, i) <=> d # 0 /\ u + d <= i
  BY PastDownIsPastIndex
<1>3. UpEnd(text) = IF d = 0 THEN Len(text) ELSE u + d - 1
  BY DEF UpEnd
<1> HIDE DEF u, d
<1>4. u \in Nat /\ d \in Nat /\ Len(text) \in Nat /\ DOMAIN text = 1..Len(text)
  BY <1>1
<1>5. ASSUME NEW i \in 1..Len(text)
      PROVE  i \in UpPlaces(text) <=> i \in (u + 1)..UpEnd(text)
  <2>1. (\E j \in 1..(i - 1) : text[j] = Up) <=> u < i
    BY <1>1, <1>4
  <2>2. PastDown(text, i) <=> d # 0 /\ u + d <= i
    BY <1>2, <1>4
  <2>3. i \in UpPlaces(text) <=> u < i /\ ~ (d # 0 /\ u + d <= i)
    BY <1>4, <2>1, <2>2 DEF UpPlaces
  <2> QED
    BY <1>3, <1>4, <2>3
<1>6. /\ UpPlaces(text) \subseteq 1..Len(text)
      /\ DownPlaces(text) \subseteq 1..Len(text)
      /\ (u + 1)..UpEnd(text) \subseteq 1..Len(text)
  BY <1>1, <1>3, <1>4 DEF UpPlaces, DownPlaces
<1>7. UpPlaces(text) = (u + 1)..UpEnd(text)
  BY <1>5, <1>6
<1>8. ASSUME NEW i \in 1..Len(text)
      PROVE  i \in DownPlaces(text) <=> d # 0 /\ u + d + 1 <= i
  <2>1. i - 1 \in 0..Len(text)
    BY <1>4
  <2>2. PastDown(text, i - 1) <=> d # 0 /\ u + d <= i - 1
    BY <1>2, <2>1
  <2> QED
    BY <1>4, <2>2 DEF DownPlaces
<1>9. DownPlaces(text) = IF d = 0 THEN {} ELSE (u + d + 1)..Len(text)
  <2>1. CASE d = 0
    BY <1>6, <1>8, <2>1
  <2>2. CASE d # 0
    <3>1. (u + d + 1)..Len(text) \subseteq 1..Len(text)
      BY <1>4
    <3>2. \A i \in 1..Len(text) :
            i \in DownPlaces(text) <=> i \in (u + d + 1)..Len(text)
      BY <1>4, <1>8, <2>2
    <3> QED
      BY <1>6, <2>2, <3>1, <3>2
  <2> QED
    BY <2>1, <2>2
<1> QED
  BY <1>7, <1>9 DEF u, d

(* The two sections of a text with an up marker. *)
LEMMA SectionsAreRight ==
  ASSUME NEW text \in Seq(Tokens), Index(text, Up) # 0
  PROVE  /\ IsSection(UpSQL(text), text, UpPlaces(text))
         /\ IsSection(DownSQL(text), text, DownPlaces(text))
<1> DEFINE u == Index(text, Up)
           d == DownIndex(text)
           rest == AfterUp(text)
<1>1. /\ u \in 1..Len(text)
      /\ rest \in Seq(Tokens) /\ Len(rest) = Len(text) - u
      /\ \A k \in 1..(Len(text) - u) : rest[k] = text[u + k]
      /\ d \in 0..(Len(text) - u)
  BY MarkersFound
<1>2. /\ UpPlaces(text) = (u + 1)..(IF d = 0 THEN Len(text) ELSE u + d - 1)
      /\ DownPlaces(text) = IF d = 0 THEN {} ELSE (u + d + 1)..Len(text)
  BY SectionPlaces DEF UpEnd
<1>3. /\ UpSQL(text) = IF d = 0 THEN TrimSpace(rest)
                       ELSE TrimSpace(SubSeq(rest, 1, d - 1))
      /\ DownSQL(text) = IF d = 0 THEN <<>>
                         ELSE TrimSpace(From(rest, d + 1))
  BY DEF UpSQL, DownSQL
<1> HIDE DEF u, d, rest
<1>4. u \in Nat /\ d \in Nat /\ Len(text) \in Nat
  BY <1>1
<1>5. CASE d = 0
  <2>1. (u + 1)..(u + Len(rest)) = UpPlaces(text) /\ u + Len(rest) <= Len(text)
    BY <1>1, <1>2, <1>4, <1>5
  <2>2. \A k \in 1..Len(rest) : rest[k] = text[u + k]
    BY <1>1
  <2>3. IsSection(TrimSpace(rest), text, (u + 1)..(u + Len(rest)))
    BY <1>1, <1>4, <2>1, <2>2, TrimSpaceIsSection
  <2>4. IsSection(<<>>, text, {})
    BY DEF IsSection, Filled
  <2> QED
    BY <1>2, <1>3, <1>5, <2>1, <2>3, <2>4
<1>6. CASE d # 0
  <2> DEFINE part == SubSeq(rest, 1, d - 1)
             last == From(rest, d + 1)
  <2>1. /\ part \in Seq(Tokens) /\ Len(part) = d - 1
        /\ \A k \in 1..(d - 1) : part[k] = rest[k]
    <3>1. \A k \in 1..(d - 1) : rest[k] \in Tokens
      BY <1>1, <1>4
    <3>2. /\ part \in Seq(Tokens)
          /\ Len(part) = IF 1 <= d - 1 THEN (d - 1) - 1 + 1 ELSE 0
          /\ \A k \in 1..((d - 1) - 1 + 1) : part[k] = rest[1 + k - 1]
      BY <1>4, <3>1, SubSeqProperties
    <3> QED
      BY <1>4, <1>6, <3>2
  <2>2. /\ last \in Seq(Tokens) /\ Len(last) = Len(text) - u - d
        /\ \A k \in 1..(Len(text) - u - d) : last[k] = rest[d + k]
    <3>1. d + 1 \in 1..(Len(rest) + 1)
      BY <1>1, <1>4
    <3>2. /\ last \in Seq(Tokens) /\ Len(last) = Len(rest) - (d + 1) + 1
          /\ \A k \in 1..(Len(rest) - (d + 1) + 1) :
               last[k] = rest[(d + 1) + k - 1]
      BY <1>1, <3>1, FromShifts
    <3>3. Len(rest) - (d + 1) + 1 = Len(text) - u - d
      BY <1>1, <1>4
    <3> HIDE DEF last
    <3>4. ASSUME NEW k \in 1..(Len(text) - u - d)
          PROVE  last[k] = rest[d + k]
      <4>1. (d + 1) + k - 1 = d + k
        BY <1>4
      <4> QED
        BY <3>2, <3>3, <4>1
    <3> QED
      BY <3>2, <3>3, <3>4
  <2> HIDE DEF part, last
  <2>3. IsSection(TrimSpace(part), text, (u + 1)..(u + Len(part)))
    <3>1. u + Len(part) <= Len(text)
      BY <1>1, <1>4, <2>1
    <3>2. \A k \in 1..Len(part) : part[k] = text[u + k]
      BY <1>1, <1>4, <2>1
    <3> QED
      BY <1>4, <2>1, <3>1, <3>2, TrimSpaceIsSection
  <2>4. IsSection(TrimSpace(last), text,
                  (u + d + 1)..(u + d + Len(last)))
    <3>1. u + d + Len(last) <= Len(text) /\ u + d \in Nat
      BY <1>1, <1>4, <2>2
    <3>2. ASSUME NEW k \in 1..Len(last) PROVE last[k] = text[(u + d) + k]
      <4>1. d + k \in 1..(Len(text) - u) /\ u + (d + k) = (u + d) + k
        BY <1>1, <1>4, <2>2
      <4> QED
        BY <1>1, <2>2, <4>1
    <3> QED
      BY <2>2, <3>1, <3>2, TrimSpaceIsSection
  <2>5. /\ u + Len(part) = u + d - 1
        /\ u + d + Len(last) = Len(text)
    BY <1>1, <1>4, <2>1, <2>2
  <2> QED
    BY <1>2, <1>3, <1>6, <2>3, <2>4, <2>5 DEF part, last
<1> QED
  BY <1>5, <1>6

(* Whatever a migration file holds, splitSQL cuts it as its markers say or *)
(* refuses it because no statement is up.                                  *)
THEOREM EveryTextFollowsMarkers ==
  ASSUME NEW text \in Seq(Tokens)
  PROVE  FollowsMarkers(text)
<1>1. CASE Index(text, Up) = 0
  <2>1. \A i \in 1..Len(text) : text[i] # Up
    BY <1>1, IndexFinds
  <2>2. UpPlaces(text) = {}
    BY <2>1 DEF UpPlaces
  <2> QED
    BY <1>1, <2>2 DEF FollowsMarkers, Splits, Filled
<1>2. CASE Splits(text)
  BY <1>2, SectionsAreRight DEF FollowsMarkers, Splits
<1>3. CASE Index(text, Up) # 0 /\ UpSQL(text) = <<>>
  <2> DEFINE places == UpPlaces(text)
  <2>1. IsSection(<<>>, text, places)
    BY <1>3, SectionsAreRight
  <2>2. ASSUME NEW first \in Filled(text, places),
               NEW last \in Filled(text, places),
               first <= last, <<>> = SubSeq(text, first, last)
        PROVE  FALSE
    <3>1. /\ first \in 1..Len(text) /\ last \in 1..Len(text)
          /\ \A i \in first..last : text[i] \in Tokens
      BY DEF Filled, UpPlaces
    <3>2. Len(SubSeq(text, first, last)) = last - first + 1
      BY <2>2, <3>1, SubSeqProperties
    <3> QED
      BY <2>2, <3>1, <3>2
  <2>3. Filled(text, places) = {}
    BY <2>1, <2>2 DEF IsSection
  <2> QED
    BY <1>3, <2>3 DEF FollowsMarkers, Splits
<1> QED
  BY <1>1, <1>2, <1>3 DEF Splits

=============================================================================
