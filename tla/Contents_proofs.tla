---------------------------- MODULE Contents_proofs ----------------------------
(***************************************************************************)
(* Proofs about what a session holds and is shown, for any constants: the  *)
(* text of a document and the search in it, the resources of a message     *)
(* and the lists of the store, each on its own.                            *)
(***************************************************************************)
EXTENDS KnowledgeText, ResourceOutput, Paging, FiniteSetTheorems, WellFoundedInduction, TLAPS

(***************************************************************************)
(* Sets of natural numbers: the least of one, the highest of a bounded     *)
(* one, and induction with a set in the place of a predicate.              *)
(***************************************************************************)
LEMMA LeastNatural ==
    ASSUME NEW S \in SUBSET Nat, S # {}
    PROVE  \E m \in S : \A k \in S : m <= k
<1> DEFINE Below == {0 .. n : n \in S}
<1>1. Below \subseteq FiniteSubsetsOf(Nat) /\ Below # {}
  <2>1. \A n \in S : 0 .. n \in FiniteSubsetsOf(Nat)
    <3> TAKE n \in S
    <3>1. IsFiniteSet(0 .. n)
      BY FS_Interval
    <3> QED
      BY <3>1 DEF FiniteSubsetsOf
  <2> QED
    BY <2>1
<1>2. PICK b \in Below :
          \A c \in Below : <<c, b>> \notin StrictSubsetOrdering(Nat)
  <2> HIDE DEF Below
  <2> QED
    BY <1>1, FS_StrictSubsetOrderingWellFounded, WFMin, Zenon
<1>3. PICK m \in S : b = 0 .. m
  OBVIOUS
<1>4. ASSUME NEW k \in S, k < m PROVE FALSE
  <2>1. 0 .. k \subseteq 0 .. m /\ 0 .. k # 0 .. m
    BY <1>4
  <2>2. <<0 .. k, b>> \in StrictSubsetOrdering(Nat)
    BY <1>3, <2>1 DEF StrictSubsetOrdering
  <2> QED
    BY <1>2, <2>2
<1> QED
  BY <1>4

LEMMA InductionOnSet ==
    ASSUME NEW P, 0 \in P, \A n \in Nat : n \in P => n + 1 \in P
    PROVE  Nat \subseteq P
<1> SUFFICES ASSUME Nat \ P # {} PROVE FALSE
  OBVIOUS
<1>1. PICK m \in Nat \ P : \A k \in Nat \ P : m <= k
  BY LeastNatural
<1>2. m # 0 /\ m - 1 \in Nat /\ m - 1 \notin Nat \ P
  BY <1>1
<1> QED
  BY <1>1, <1>2

LEMMA HighestNatural ==
    ASSUME NEW n \in Nat, NEW S \in SUBSET (0 .. n), S # {}
    PROVE  \E m \in S : \A k \in S : k <= m
<1> DEFINE Bounds == {b \in Nat : \A k \in S : k <= b}
<1>1. n \in Bounds
  OBVIOUS
<1>2. PICK b \in Bounds : \A c \in Bounds : b <= c
  BY <1>1, LeastNatural
<1>3. b \in S
  <2> SUFFICES ASSUME b \notin S PROVE FALSE
    OBVIOUS
  <2>1. \A k \in S : k < b
    OBVIOUS
  <2>2. PICK k \in S : k < b
    BY <2>1
  <2>3. b - 1 \in Nat /\ b - 1 < b
    BY <2>2
  <2>4. \A x \in S : x <= b - 1
    BY <2>1
  <2> QED
    BY <1>2, <2>3, <2>4
<1> QED
  BY <1>3

-----------------------------------------------------------------------------
(***************************************************************************)
(* The text of a document, for any lengths of words and chunks, and any    *)
(* overlap below the length of a chunk.                                    *)
(***************************************************************************)

\* The ends of the first n words.
KtEndsTo(text, n, f) ==
    /\ DOMAIN f = 0..n
    /\ \A k \in 0..n : f[k] = IF k = 0 THEN 0 ELSE f[k - 1] + text[k] + (IF k = 1 THEN 0 ELSE 1)

LEMMA KtEndsExist ==
    ASSUME NEW text \in Seq(Nat)
    PROVE  \E f \in [0..Len(text) -> Nat] : KtEndsTo(text, Len(text), f)
<1> DEFINE Exists(n) == \E f \in [0..n -> Nat] : KtEndsTo(text, n, f)
           P == {n \in Nat : n \in 0..Len(text) => Exists(n)}
<1>1. 0 \in P
  <2> DEFINE f == [k \in 0..0 |-> 0]
  <2>1. f \in [0..0 -> Nat] /\ KtEndsTo(text, 0, f)
    BY DEF KtEndsTo
  <2> QED
    BY <2>1
<1>2. ASSUME NEW n \in Nat, n \in P, n + 1 \in 0..Len(text)
      PROVE  Exists(n + 1)
  <2>1. PICK f \in [0..n -> Nat] : KtEndsTo(text, n, f)
    BY <1>2
  <2> DEFINE last == f[n] + text[n + 1] + (IF n + 1 = 1 THEN 0 ELSE 1)
             g == [k \in 0..n + 1 |-> IF k = n + 1 THEN last ELSE f[k]]
  <2>2. last \in Nat
    <3>1. f[n] \in Nat /\ text[n + 1] \in Nat
      BY <1>2, <2>1
    <3> QED
      BY <3>1
  <2> HIDE DEF last
  <2>3. \A k \in 0..n : k \in 0..n + 1 /\ k # n + 1 /\ g[k] = f[k]
    OBVIOUS
  <2>4. g[n + 1] = last
    OBVIOUS
  <2>5. g \in [0..n + 1 -> Nat]
    BY <2>1, <2>2
  <2>6. ASSUME NEW k \in 0..n + 1
        PROVE  g[k] = IF k = 0 THEN 0 ELSE g[k - 1] + text[k] + (IF k = 1 THEN 0 ELSE 1)
    <3> HIDE DEF g
    <3>1. CASE k = n + 1
      <4>1. k # 0 /\ k - 1 = n /\ n \in 0..n
        BY <3>1
      <4> QED
        BY <2>3, <2>4, <3>1, <4>1 DEF last
    <3>2. CASE k # n + 1
      <4>1. k \in 0..n /\ (k # 0 => k - 1 \in 0..n)
        BY <2>6, <3>2
      <4>2. f[k] = IF k = 0 THEN 0 ELSE f[k - 1] + text[k] + (IF k = 1 THEN 0 ELSE 1)
        BY <2>1, <4>1 DEF KtEndsTo
      <4> QED
        BY <2>3, <4>1, <4>2
    <3> QED
      BY <3>1, <3>2
  <2> HIDE DEF g
  <2>7. KtEndsTo(text, n + 1, g)
    BY <2>5, <2>6 DEF KtEndsTo
  <2> QED
    BY <2>5, <2>7
<1>3. Nat \subseteq P
  <2>1. ASSUME NEW n \in Nat, n \in P PROVE n + 1 \in P
    <3> HIDE DEF Exists
    <3>1. CASE n + 1 \in 0..Len(text)
      <4>1. Exists(n + 1)
        <5> HIDE DEF P
        <5> QED
          BY <1>2, <2>1, <3>1
      <4> QED
        BY <4>1
    <3>2. CASE n + 1 \notin 0..Len(text)
      BY <3>2
    <3> QED
      BY <3>1, <3>2
  <2> HIDE DEF P
  <2> QED
    BY <1>1, <2>1, InductionOnSet
<1> QED
  BY <1>3

\* The end of a word is its length, and a space, after the end of the one
\* before it.
LEMMA KtEndIs ==
    ASSUME NEW text \in Seq(Nat)
    PROVE  /\ KtEndOf(text) \in [0..Len(text) -> Nat]
           /\ KtEndOf(text)[0] = 0
           /\ \A k \in 1..Len(text) :
                KtEndOf(text)[k] = KtEndOf(text)[k - 1] + text[k] + (IF k = 1 THEN 0 ELSE 1)
<1> DEFINE n == Len(text)
           S[k \in 0..n] == IF k = 0 THEN 0 ELSE S[k - 1] + text[k] + (IF k = 1 THEN 0 ELSE 1)
<1>1. PICK g \in [0..n -> Nat] : KtEndsTo(text, n, g)
  BY KtEndsExist
<1>2. g = [k \in 0..n |-> IF k = 0 THEN 0 ELSE g[k - 1] + text[k] + (IF k = 1 THEN 0 ELSE 1)]
  BY <1>1 DEF KtEndsTo
<1>3. S = [k \in 0..n |-> IF k = 0 THEN 0 ELSE S[k - 1] + text[k] + (IF k = 1 THEN 0 ELSE 1)]
  BY <1>2
<1>4. KtEndOf(text) = S
  BY DEF KtEndOf
<1>5. PICK f : f = KtEndOf(text)
  OBVIOUS
<1>6. f = [k \in 0..n |-> IF k = 0 THEN 0 ELSE f[k - 1] + text[k] + (IF k = 1 THEN 0 ELSE 1)]
  BY <1>3, <1>4, <1>5
<1>7. n \in Nat /\ \A k \in 1..n : text[k] \in Nat
  OBVIOUS
<1> HIDE DEF S, n
<1>8. /\ DOMAIN f = 0..n /\ f[0] = 0
      /\ \A k \in 1..n : k - 1 \in 0..n /\ f[k] = f[k - 1] + text[k] + (IF k = 1 THEN 0 ELSE 1)
  BY <1>6, <1>7
<1> DEFINE P == {k \in Nat : k \in 0..n => f[k] \in Nat}
<1>9. Nat \subseteq P
  <2>1. 0 \in P
    BY <1>8
  <2>2. ASSUME NEW k \in Nat, k \in P PROVE k + 1 \in P
    <3>1. CASE k + 1 \in 0..n
      <4>1. k \in 0..n /\ k + 1 \in 1..n /\ (k + 1) - 1 = k
        BY <1>7, <3>1
      <4>2. f[k] \in Nat /\ text[k + 1] \in Nat
        BY <1>7, <2>2, <4>1
      <4>3. f[k + 1] = f[k] + text[k + 1] + (IF k + 1 = 1 THEN 0 ELSE 1)
        BY <1>8, <4>1
      <4>4. f[k + 1] \in Nat
        BY <4>2, <4>3
      <4> QED
        BY <4>4
    <3>2. CASE k + 1 \notin 0..n
      BY <3>2
    <3> QED
      BY <3>1, <3>2
  <2> HIDE DEF P
  <2> QED
    BY <2>1, <2>2, InductionOnSet
<1>10. f \in [0..n -> Nat]
  <2>1. \A k \in 0..n : f[k] \in Nat
    BY <1>7, <1>9
  <2>2. f = [k \in 0..n |-> f[k]]
    BY <1>6, <1>8
  <2> QED
    BY <2>1, <2>2
<1> QED
  BY <1>5, <1>8, <1>10 DEF n

-----------------------------------------------------------------------------
(* The words of the text and its chunks.                                   *)

LEMMA KtTextIs ==
    ASSUME ktText \in KtTexts
    PROVE  /\ ktText \in Seq(Nat) /\ Len(ktText) \in Nat /\ DOMAIN ktText = 1..Len(ktText)
           /\ \A k \in 1..Len(ktText) : ktText[k] \in Nat /\ ktText[k] > 0
<1>1. PICK n \in 0..KtMaxWords : ktText \in [1..n -> KtLengths]
  BY DEF KtTexts
<1>2. n \in Nat /\ KtLengths \subseteq Nat \ {0}
  BY KnowledgeTextAssumption
<1>3. \A k \in 1..n : ktText[k] \in KtLengths
  BY <1>1
<1>4. \A k \in 1..n : ktText[k] \in Nat \ {0}
  BY <1>2, <1>3
<1>5. ktText \in [1..n -> Nat] /\ \A k \in 1..n : ktText[k] \in Nat /\ ktText[k] > 0
  BY <1>1, <1>4
<1> QED
  BY <1>2, <1>5

\* A word is at least a letter; the next one starts a space after its end.
LEMMA KtWordsAre ==
    ASSUME ktText \in KtTexts
    PROVE  /\ \A k \in 0..Len(ktText) : KtEnd[k] \in Nat
           /\ KtEnd[0] = 0 /\ KtLength \in Nat
           /\ \A k \in 1..Len(ktText) :
                /\ KtStart(k) \in Nat /\ KtEnd[k] = KtStart(k) + ktText[k] /\ KtStart(k) < KtEnd[k]
                /\ KtStart(k) = IF k = 1 THEN 0 ELSE KtEnd[k - 1] + 1
<1>1. /\ ktText \in Seq(Nat) /\ Len(ktText) \in Nat
      /\ \A k \in 1..Len(ktText) : ktText[k] \in Nat /\ ktText[k] > 0
  BY KtTextIs
<1>2. /\ KtEnd \in [0..Len(ktText) -> Nat] /\ KtEnd[0] = 0
      /\ \A k \in 1..Len(ktText) : KtEnd[k] = KtEnd[k - 1] + ktText[k] + (IF k = 1 THEN 0 ELSE 1)
  BY <1>1, KtEndIs DEF KtEnd
<1>3. \A k \in 0..Len(ktText) : KtEnd[k] \in Nat
  BY <1>2
<1>4. KtLength \in Nat
  BY <1>1, <1>3 DEF KtLength
<1>5. ASSUME NEW k \in 1..Len(ktText)
      PROVE  /\ KtStart(k) \in Nat /\ KtEnd[k] = KtStart(k) + ktText[k] /\ KtStart(k) < KtEnd[k]
             /\ KtStart(k) = IF k = 1 THEN 0 ELSE KtEnd[k - 1] + 1
  <2>1. k - 1 \in 0..Len(ktText) /\ k \in 0..Len(ktText) /\ (k = 1 => k - 1 = 0)
    BY <1>1
  <2>2. KtEnd[k - 1] \in Nat /\ KtEnd[k] \in Nat /\ ktText[k] \in Nat /\ ktText[k] > 0
    BY <1>1, <1>3, <2>1
  <2>3. KtEnd[k] = KtEnd[k - 1] + ktText[k] + (IF k = 1 THEN 0 ELSE 1)
    BY <1>2
  <2>4. k = 1 => KtEnd[k - 1] = 0
    BY <1>2, <2>1
  <2> QED
    BY <2>2, <2>3, <2>4 DEF KtStart
<1> QED
  BY <1>2, <1>3, <1>4, <1>5

\* A word further takes at least a letter and a space.
LEMMA KtSpan ==
    ASSUME ktText \in KtTexts, NEW i \in 1..Len(ktText)
    PROVE  \A j \in i..Len(ktText) : KtEnd[j] >= KtEnd[i] + 2 * (j - i)
<1> DEFINE n == Len(ktText)
           P == {d \in Nat : i + d \in i..n => KtEnd[i + d] >= KtEnd[i] + 2 * d}
<1>1. n \in Nat /\ \A k \in 0..n : KtEnd[k] \in Nat
  BY KtTextIs, KtWordsAre
<1>2. \A k \in 1..n : k # 1 => KtEnd[k] >= KtEnd[k - 1] + 2
  <2>1. ASSUME NEW k \in 1..n, k # 1 PROVE KtEnd[k] >= KtEnd[k - 1] + 2
    <3>1. /\ KtStart(k) \in Nat /\ KtEnd[k] = KtStart(k) + ktText[k]
          /\ KtStart(k) = KtEnd[k - 1] + 1 /\ ktText[k] \in Nat /\ ktText[k] > 0
      BY <2>1, KtTextIs, KtWordsAre
    <3>2. KtEnd[k - 1] \in Nat
      BY <1>1, <2>1
    <3> QED
      BY <3>1, <3>2
  <2> QED
    BY <2>1
<1>3. i \in 1..n /\ i \in Nat
  OBVIOUS
<1> HIDE DEF n
<1>4. Nat \subseteq P
  <2>1. 0 \in P
    BY <1>1, <1>3
  <2>2. ASSUME NEW d \in Nat, d \in P PROVE d + 1 \in P
    <3>1. CASE i + (d + 1) \in i..n
      <4>1. i + d \in i..n /\ i + (d + 1) \in 1..n /\ i + (d + 1) # 1 /\ (i + (d + 1)) - 1 = i + d
        BY <1>1, <1>3, <3>1
      <4>2. KtEnd[i + d] >= KtEnd[i] + 2 * d
        BY <2>2, <4>1
      <4>3. KtEnd[i + (d + 1)] >= KtEnd[i + d] + 2
        BY <1>2, <4>1
      <4>4. KtEnd[i + d] \in Nat /\ KtEnd[i] \in Nat /\ KtEnd[i + (d + 1)] \in Nat
        BY <1>1, <1>3, <4>1
      <4>5. KtEnd[i + (d + 1)] >= KtEnd[i] + 2 * (d + 1)
        BY <4>2, <4>3, <4>4
      <4> QED
        BY <4>5
    <3>2. CASE i + (d + 1) \notin i..n
      BY <3>2
    <3> QED
      BY <3>1, <3>2
  <2> HIDE DEF P
  <2> QED
    BY <2>1, <2>2, InductionOnSet
<1>5. ASSUME NEW j \in i..n PROVE KtEnd[j] >= KtEnd[i] + 2 * (j - i)
  <2>1. j - i \in Nat /\ i + (j - i) = j
    BY <1>1, <1>3
  <2>2. j - i \in P
    BY <1>4, <2>1
  <2> QED
    BY <2>1, <2>2
<1> QED
  BY <1>5 DEF n

\* A letter that comes before the next word belongs to this one or to one
\* before it.
LEMMA KtLetterBefore ==
    ASSUME ktText \in KtTexts, NEW j \in 1..Len(ktText), j < Len(ktText),
           NEW c \in KtLetters, c < KtStart(j + 1)
    PROVE  c < KtEnd[j]
<1> DEFINE n == Len(ktText)
<1>1. /\ n \in Nat /\ \A k \in 0..n : KtEnd[k] \in Nat
      /\ \A k \in 1..n : /\ KtStart(k) \in Nat
                         /\ KtStart(k) = IF k = 1 THEN 0 ELSE KtEnd[k - 1] + 1
  BY KtTextIs, KtWordsAre
<1>2. PICK i \in 1..n : c \in KtStart(i)..KtEnd[i] - 1
  BY DEF KtLetters
<1>3. \A k, m \in 1..n : k <= m => KtEnd[m] >= KtEnd[k]
  <2>1. ASSUME NEW k \in 1..n, NEW m \in 1..n, k <= m PROVE KtEnd[m] >= KtEnd[k]
    <3>1. m \in k..Len(ktText)
      BY <1>1, <2>1
    <3>2. KtEnd[m] >= KtEnd[k] + 2 * (m - k)
      BY <3>1, KtSpan
    <3>3. KtEnd[m] \in Nat /\ KtEnd[k] \in Nat
      BY <1>1
    <3> QED
      BY <2>1, <3>2, <3>3
  <2> QED
    BY <2>1
<1>4. j \in 1..n /\ j < n /\ j + 1 \in 1..n /\ (j + 1) - 1 = j
  BY <1>1
<1>5. KtStart(j + 1) = KtEnd[j] + 1
  BY <1>1, <1>4
<1>6. KtStart(i) \in Nat /\ KtEnd[i] \in Nat /\ KtEnd[j] \in Nat
  BY <1>1, <1>4
<1> HIDE DEF n
<1>7. CASE i <= j
  <2>1. KtEnd[j] >= KtEnd[i]
    BY <1>3, <1>4, <1>7
  <2> QED
    BY <1>2, <1>6, <2>1
<1>8. CASE ~(i <= j)
  <2>1. i - 1 \in 1..n /\ j <= i - 1 /\ i # 1
    BY <1>1, <1>4, <1>8
  <2>2. KtEnd[i - 1] >= KtEnd[j] /\ KtStart(i) = KtEnd[i - 1] + 1 /\ KtEnd[i - 1] \in Nat
    BY <1>1, <1>3, <1>4, <2>1
  <2> QED
    BY <1>2, <1>5, <1>6, <2>2
<1> QED
  BY <1>7, <1>8

LEMMA KtMinIs ==
    ASSUME NEW S \in SUBSET Nat, S # {}
    PROVE  KtMin(S) \in S /\ \A k \in S : KtMin(S) <= k
BY LeastNatural DEF KtMin

LEMMA KtMaxOfIs ==
    ASSUME NEW n \in Nat, NEW S \in SUBSET (0 .. n), S # {}
    PROVE  KtMaxOf(S) \in S /\ \A k \in S : k <= KtMaxOf(S)
BY HighestNatural DEF KtMaxOf

\* A chunk of words takes as many as fit, and one in any case.
LEMMA KtLastWordIs ==
    ASSUME ktText \in KtTexts, NEW i \in 1..Len(ktText)
    PROVE  /\ KtLastWord(i) \in i..Len(ktText)
           /\ KtLastWord(i) < Len(ktText) => KtEnd[KtLastWord(i) + 1] - KtStart(i) > KtMax
<1> DEFINE n == Len(ktText)
           S == {j \in i..n : j = i \/ KtEnd[j] - KtStart(i) <= KtMax}
<1>1. /\ n \in Nat /\ KtStart(i) \in Nat /\ \A k \in 0..n : KtEnd[k] \in Nat
      /\ KtMax \in Nat /\ i \in 1..n
  BY KtTextIs, KtWordsAre, KnowledgeTextAssumption
<1>2. KtLastWord(i) = KtMaxOf(S)
  BY DEF KtLastWord
<1> HIDE DEF n
<1>3. S \in SUBSET (0..n) /\ i \in S
  BY <1>1
<1>4. KtMaxOf(S) \in S /\ \A k \in S : k <= KtMaxOf(S)
  BY <1>1, <1>3, KtMaxOfIs
<1> DEFINE m == KtMaxOf(S)
<1>5. m \in i..n /\ m \in Nat
  BY <1>1, <1>4
<1>6. ASSUME m < n PROVE KtEnd[m + 1] - KtStart(i) > KtMax
  <2>1. m + 1 \in i..n /\ m + 1 \in 0..n /\ ~(m + 1 <= m)
    BY <1>1, <1>5, <1>6
  <2>2. m + 1 \notin S
    BY <1>4, <2>1
  <2>3. KtEnd[m + 1] \in Nat
    BY <1>1, <2>1
  <2> HIDE DEF m
  <2> QED
    BY <1>1, <2>1, <2>2, <2>3
<1> QED
  BY <1>2, <1>5, <1>6 DEF n

\* The next chunk begins within this one or right after it.
LEMMA KtOverlappedWordIs ==
    ASSUME ktText \in KtTexts, NEW first \in 1..Len(ktText), NEW last \in first..Len(ktText)
    PROVE  KtOverlappedWord(first, last) \in 2..last + 1
<1> DEFINE enough == {i \in 2..last : KtLettersOf(i, last) >= KtOverlap}
<1>1. last \in Nat /\ last >= 1
  BY KtTextIs
<1>2. CASE KtOverlap = 0
  BY <1>1, <1>2 DEF KtOverlappedWord
<1>3. CASE KtOverlap # 0 /\ enough = {}
  BY <1>1, <1>3 DEF KtOverlappedWord
<1>4. CASE KtOverlap # 0 /\ enough # {}
  <2>1. KtOverlappedWord(first, last) = KtMaxOf(enough)
    BY <1>4 DEF KtOverlappedWord
  <2>2. enough \in SUBSET (0..last)
    BY <1>1
  <2>3. KtMaxOf(enough) \in enough
    BY <1>1, <1>4, <2>2, KtMaxOfIs
  <2> QED
    BY <1>1, <2>1, <2>3
<1> QED
  BY <1>2, <1>3, <1>4

-----------------------------------------------------------------------------
(* The vectors and the search.                                             *)

\* Sorted by its indexes, a complete answer is in the order of the chunks.
LEMMA KtSortedIs ==
    ASSUME NEW n \in Nat, n # 0, NEW data \in KtAnswers(n), Len(KtSorted(data)) = n
    PROVE  \A k \in 1..n : KtSorted(data)[k] = k
<1>1. PICK m \in {n - 1, n} : data \in [1..m -> 1..n] /\ \A i, j \in 1..m : data[i] = data[j] => i = j
  BY DEF KtAnswers
<1>2. m \in Nat /\ DOMAIN KtSorted(data) = 1..m
  BY <1>1 DEF KtSorted
<1>3. m = n
  <2>1. Len(KtSorted(data)) = m
    BY <1>2
  <2> QED
    BY <2>1
<1>4. /\ IsFiniteSet(1..n) /\ Cardinality(1..n) = n
  BY FS_Interval
<1>5. data \in Injection(1..n, 1..n)
  BY <1>1, <1>3 DEF Injection, IsInjective
<1>6. data \in Surjection(1..n, 1..n)
  BY <1>4, <1>5, FS_Injection
<1> DEFINE Below(x) == {i \in 1..n : data[i] < x}
<1>7. ASSUME NEW x \in 1..n PROVE Cardinality(Below(x)) = x - 1
  <2> DEFINE S == Below(x)
             T == 1..x - 1
             f == [i \in S |-> data[i]]
  <2>1. IsFiniteSet(S)
    BY <1>4, FS_Subset
  <2>2. \A i \in S : i \in 1..n /\ data[i] \in T
    BY <1>1, <1>3
  <2>3. f \in [S -> T]
    BY <2>2
  <2>4. f \in Injection(S, T)
    BY <1>1, <1>3, <2>2, <2>3 DEF Injection, IsInjective
  <2>5. \A t \in T : \E i \in S : f[i] = t
    <3> SUFFICES ASSUME NEW t \in T PROVE \E i \in S : f[i] = t
      OBVIOUS
    <3>1. t \in 1..n /\ t < x
      OBVIOUS
    <3>2. PICK i \in 1..n : data[i] = t
      BY <1>6, <3>1 DEF Surjection
    <3> QED
      BY <3>1, <3>2
  <2>6. f \in Surjection(S, T)
    BY <2>3, <2>5 DEF Surjection
  <2> HIDE DEF f, S, T
  <2>7. ExistsBijection(S, T)
    BY <2>4, <2>6 DEF ExistsBijection, Bijection
  <2>8. Cardinality(T) = Cardinality(S)
    BY <2>1, <2>7, FS_Bijection
  <2>9. Cardinality(T) = x - 1
    BY FS_Interval DEF T
  <2> QED
    BY <2>8, <2>9 DEF S
<1> HIDE DEF Below
<1>8. ASSUME NEW k \in 1..n PROVE KtSorted(data)[k] = k
  <2>1. {data[i] : i \in DOMAIN data} = 1..n /\ DOMAIN data = 1..n
    <3>1. DOMAIN data = 1..n /\ \A i \in 1..n : data[i] \in 1..n
      BY <1>1, <1>3
    <3>2. \A t \in 1..n : \E i \in 1..n : data[i] = t
      BY <1>6 DEF Surjection
    <3> QED
      BY <3>1, <3>2
  <2>2. KtSorted(data)[k] = CHOOSE x \in 1..n : Cardinality(Below(x)) = k - 1
    BY <2>1 DEF KtSorted, Below
  <2>3. \A x \in 1..n : Cardinality(Below(x)) = k - 1 <=> x = k
    BY <1>7
  <2> QED
    BY <2>2, <2>3
<1> QED
  BY <1>8

\* If a row is near the place that is asked about, the first one found is.
LEMMA KtClosestIs ==
    ASSUME ktRows \in Seq([of : [from : Nat, to : Nat], vector : [from : Nat, to : Nat]]),
           NEW at, NEW r \in DOMAIN ktRows, KtDistance(ktRows[r], at) = 0, KtLimit > 0
    PROVE  /\ KtClosest(at) # <<>> /\ KtClosest(at)[1] \in DOMAIN ktRows
           /\ KtDistance(ktRows[KtClosest(at)[1]], at) = 0
<1> DEFINE n == Len(ktRows)
           m == KtMin({KtLimit, n})
           Before(i) == {j \in DOMAIN ktRows : KtBefore(j, i, at)}
           near == {i \in DOMAIN ktRows : KtDistance(ktRows[i], at) = 0}
<1>1. n \in Nat /\ DOMAIN ktRows = 1..n /\ n >= 1 /\ KtLimit \in Nat
  BY KnowledgeTextAssumption
<1>2. m \in Nat /\ 1 \in 1..m
  <2> HIDE DEF n
  <2>1. {KtLimit, n} \in SUBSET Nat
    BY <1>1
  <2>2. m \in {KtLimit, n}
    BY <2>1, KtMinIs
  <2> HIDE DEF m
  <2>3. m \in Nat /\ m >= 1
    BY <1>1, <2>2
  <2> QED
    BY <2>3
<1>3. \A i \in DOMAIN ktRows : KtDistance(ktRows[i], at) \in {0, 1}
  BY DEF KtDistance
<1>4. PICK i \in near : \A j \in near : i <= j
  <2>1. near \in SUBSET Nat /\ near # {}
    BY <1>1
  <2> HIDE DEF near
  <2> QED
    BY <2>1, LeastNatural
<1>5. Before(i) = {}
  <2>1. ASSUME NEW j \in DOMAIN ktRows, KtBefore(j, i, at) PROVE FALSE
    <3> DEFINE of(k) == KtDistance(ktRows[k], at)
    <3>0. of(i) = 0 /\ of(j) \in {0, 1} /\ (of(j) < of(i) \/ (of(j) = of(i) /\ j < i))
      BY <1>3, <1>4, <2>1 DEF KtBefore
    <3>1. of(j) = 0 /\ j < i
      <4> HIDE DEF of, near
      <4> QED
        BY <3>0
    <3>2. j \in near
      BY <2>1, <3>1
    <3>3. i \in Nat /\ j \in Nat /\ i <= j
      <4>1. i \in DOMAIN ktRows /\ j \in DOMAIN ktRows
        BY <1>4, <2>1
      <4>2. i <= j
        <5> HIDE DEF near
        <5> QED
          BY <1>4, <3>2
      <4> HIDE DEF n
      <4> QED
        BY <1>1, <4>1, <4>2
    <3> QED
      BY <3>1, <3>3
  <2> QED
    BY <2>1
<1>6. \A j \in DOMAIN ktRows : Cardinality(Before(j)) = 0 => Before(j) = {}
  <2>1. ASSUME NEW j \in DOMAIN ktRows, Cardinality(Before(j)) = 0 PROVE Before(j) = {}
    <3>1. IsFiniteSet(1..n)
      BY <1>1, FS_Interval
    <3>2. Before(j) \in SUBSET (1..n)
      BY <1>1
    <3> HIDE DEF Before, n
    <3>3. IsFiniteSet(Before(j))
      BY <3>1, <3>2, FS_Subset
    <3> QED
      BY <2>1, <3>3, FS_EmptySet
  <2> QED
    BY <2>1
<1>7. KtClosest(at)[1] = CHOOSE j \in DOMAIN ktRows : Cardinality(Before(j)) = 1 - 1
  BY <1>2 DEF KtClosest
<1>8. KtClosest(at) # <<>>
  <2>1. 1 \in DOMAIN KtClosest(at)
    BY <1>2 DEF KtClosest
  <2>2. DOMAIN <<>> = {}
    OBVIOUS
  <2> QED
    BY <2>1, <2>2
<1>9. i \in DOMAIN ktRows /\ Cardinality(Before(i)) = 0
  BY <1>4, <1>5, FS_EmptySet
<1> DEFINE c == KtClosest(at)[1]
<1>10. c \in DOMAIN ktRows /\ Before(c) = {}
  <2> HIDE DEF Before
  <2>1. c = CHOOSE j \in DOMAIN ktRows : Cardinality(Before(j)) = 0
    BY <1>7
  <2> HIDE DEF c
  <2>2. c \in DOMAIN ktRows /\ Cardinality(Before(c)) = 0
    BY <1>9, <2>1
  <2> QED
    BY <1>6, <2>2
<1> HIDE DEF c
<1>11. KtDistance(ktRows[c], at) = 0
  <2>1. ~KtBefore(i, c, at)
    BY <1>4, <1>10
  <2>2. KtDistance(ktRows[i], at) = 0
    BY <1>4
  <2> QED
    BY <1>3, <1>10, <2>1, <2>2 DEF KtBefore
<1> QED
  BY <1>8, <1>10, <1>11 DEF c

-----------------------------------------------------------------------------
(* The document on its way, and a search in it.                            *)

KtOffsets == [from : Nat, to : Nat]

\* The full shape of every variable.
KtShapes ==
    /\ ktPc \in {"upload", "parse", "split", "words", "characters", "chunked", "ready", "failed"}
    /\ ktFile = [mime |-> ktFile.mime, ext |-> ktFile.ext, ready |-> IF ktPc = "ready" THEN TRUE ELSE FALSE]
    /\ ktText \in KtTexts
    /\ ktPlace \in Nat
    /\ ktChunks \in Seq(KtOffsets)
    /\ \A i \in DOMAIN ktChunks : ktChunks[i].from < ktChunks[i].to /\ ktChunks[i].to <= KtLength
    /\ ktSearch = [pc |-> ktSearch.pc, at |-> ktSearch.at, found |-> ktSearch.found]
    /\ ktSearch.pc \in {"idle", "select", "found", "done"}

\* An offset that a chunk has.
KtCovered(c) == \E i \in DOMAIN ktChunks : c \in ktChunks[i].from..ktChunks[i].to - 1

\* The cutting leaves nothing behind the place it has reached.
KtNothingSkipped ==
    /\ ktPc \in {"upload", "parse", "split"} => ktChunks = <<>>
    /\ ktPc = "words" =>
         /\ ktPlace \in 1..Len(ktText)
         /\ \A c \in KtLetters : c < KtStart(ktPlace) => KtCovered(c)
    /\ ktPc = "characters" =>
         /\ Len(ktText) = 1
         /\ ktPlace \in 0..KtLength - 1
         /\ \A c \in 0..ktPlace - 1 : KtCovered(c)
    /\ ktPc \in {"chunked", "ready"} => \A c \in KtLetters : KtCovered(c)

\* A row of a ready document has its own vector, and a search is of rows
\* that stay.
KtSearched ==
    /\ ktPc = "ready" =>
         /\ ktChunks # <<>>
         /\ ktRows = [i \in 1..Len(ktChunks) |-> [of |-> ktChunks[i], vector |-> ktChunks[i]]]
    /\ ktSearch.pc # "idle" => ktPc \in {"ready", "failed"}
    /\ ktSearch.pc = "select" => ktSearch.at \in KtLetters
    /\ KtAnswerHasWord

KtIInv == KtShapes /\ KtNothingSkipped /\ KtSearched

LEMMA KtTextStays ==
    ASSUME ktText' = ktText
    PROVE  /\ KtEnd' = KtEnd /\ KtLength' = KtLength /\ KtLetters' = KtLetters
           /\ \A k \in 1..Len(ktText) : KtStart(k)' = KtStart(k)
<1>1. KtEnd' = KtEnd
  BY DEF KtEnd
<1>2. KtLength' = KtLength /\ \A k \in 1..Len(ktText) : KtStart(k)' = KtStart(k)
  BY <1>1 DEF KtLength, KtStart
<1> QED
  BY <1>1, <1>2 DEF KtLetters

\* A chunk that comes last leaves the others where they are.
LEMMA KtChunkAdded ==
    ASSUME ktChunks \in Seq(KtOffsets), NEW chunk \in KtOffsets, ktChunks' = Append(ktChunks, chunk)
    PROVE  /\ ktChunks' \in Seq(KtOffsets)
           /\ \A i \in DOMAIN ktChunks' : ktChunks'[i] = chunk \/
                (i \in DOMAIN ktChunks /\ ktChunks'[i] = ktChunks[i])
           /\ \A c : KtCovered(c) => KtCovered(c)'
           /\ \A c \in chunk.from..chunk.to - 1 : KtCovered(c)'
<1>1. /\ ktChunks' \in Seq(KtOffsets) /\ Len(ktChunks') = Len(ktChunks) + 1 /\ Len(ktChunks) \in Nat
      /\ \A i \in DOMAIN ktChunks : i \in DOMAIN ktChunks' /\ ktChunks'[i] = ktChunks[i]
      /\ ktChunks'[Len(ktChunks) + 1] = chunk
      /\ Len(ktChunks) + 1 \in DOMAIN ktChunks'
      /\ \A i \in DOMAIN ktChunks' : i = Len(ktChunks) + 1 \/ i \in DOMAIN ktChunks
  OBVIOUS
<1> QED
  BY <1>1 DEF KtCovered

\* What no chunk is cut from yet, and what no step but the cutting touches.
LEMMA KtSlowStep ==
    ASSUME KtIInv, KtUpload \/ KtParse \/ KtSplit
    PROVE  KtIInv'
<1>1. /\ ktPc \in {"upload", "parse", "split"} /\ ktChunks = <<>> /\ ktSearch.pc = "idle"
      /\ UNCHANGED <<ktChunks, ktRows, ktSearch>> /\ KtShapes
  BY DEF KtIInv, KtNothingSkipped, KtSearched, KtUpload, KtParse, KtSplit
<1>2. /\ ktChunks' \in Seq(KtOffsets) /\ DOMAIN ktChunks' = {}
      /\ ktSearch' = [pc |-> ktSearch'.pc, at |-> ktSearch'.at, found |-> ktSearch'.found]
      /\ ktSearch'.pc = "idle"
  BY <1>1 DEF KtShapes
<1>3. ASSUME KtUpload PROVE KtIInv'
  <2>1. PICK f \in KtFiles : ktFile' = [mime |-> f.mime, ext |-> f.ext, ready |-> FALSE]
    BY <1>3 DEF KtUpload
  <2>2. ktPc' = "parse" /\ ktText' = ktText /\ ktPlace' = ktPlace
    BY <1>3 DEF KtUpload
  <2>3. ktFile' = [mime |-> ktFile'.mime, ext |-> ktFile'.ext, ready |-> IF ktPc' = "ready" THEN TRUE ELSE FALSE]
    BY <2>1, <2>2
  <2>4. KtShapes'
    BY <1>1, <1>2, <2>2, <2>3 DEF KtShapes
  <2> QED
    BY <1>1, <1>2, <2>2, <2>4 DEF KtIInv, KtNothingSkipped, KtSearched, KtAnswerHasWord
<1>4. ASSUME KtParse PROVE KtIInv'
  <2>1. /\ ktPc' \in {"split", "failed"} /\ ktText' \in KtTexts /\ ktPlace' = ktPlace /\ ktFile' = ktFile
        /\ ktPc = "parse"
    BY <1>1, <1>4 DEF KtParse, KtShapes
  <2>2. KtShapes'
    BY <1>1, <1>2, <2>1 DEF KtShapes
  <2> QED
    BY <1>1, <1>2, <2>1, <2>2 DEF KtIInv, KtNothingSkipped, KtSearched, KtAnswerHasWord
<1>5. ASSUME KtSplit PROVE KtIInv'
  <2>1. /\ ktPc = "split" /\ ktText' = ktText /\ ktFile' = ktFile /\ ktText \in KtTexts
        /\ ktPc' = IF ktText = <<>> THEN "chunked" ELSE IF Len(ktText) > 1 THEN "words" ELSE "characters"
        /\ ktPlace' = IF Len(ktText) > 1 THEN 1 ELSE 0
    BY <1>1, <1>5 DEF KtSplit, KtShapes
  <2>2. /\ KtEnd' = KtEnd /\ KtLength' = KtLength /\ KtLetters' = KtLetters
        /\ \A k \in 1..Len(ktText) : KtStart(k)' = KtStart(k)
    BY <2>1, KtTextStays
  <2>3. /\ Len(ktText) \in Nat /\ ktText \in Seq(Nat)
        /\ \A k \in 1..Len(ktText) :
             KtStart(k) \in Nat /\ KtStart(k) < KtEnd[k] /\ KtStart(k) = IF k = 1 THEN 0 ELSE KtEnd[k - 1] + 1
        /\ \A k \in 0..Len(ktText) : KtEnd[k] \in Nat
    BY <2>1, KtTextIs, KtWordsAre
  <2>4. KtShapes'
    BY <1>1, <1>2, <2>1 DEF KtShapes
  <2>5. CASE ktText = <<>>
    <3>1. ktPc' = "chunked" /\ KtLetters' = {}
      BY <2>1, <2>2, <2>5 DEF KtLetters
    <3> QED
      BY <1>1, <1>2, <2>4, <3>1 DEF KtIInv, KtNothingSkipped, KtSearched, KtAnswerHasWord
  <2>6. CASE Len(ktText) > 1
    <3>1. ktPc' = "words" /\ ktPlace' = 1 /\ 1 \in 1..Len(ktText)
      <4>1. ktText # <<>>
        BY <2>6
      <4> QED
        BY <2>1, <2>3, <2>6, <4>1
    <3>2. KtStart(1)' = 0
      BY <2>2, <2>3, <3>1
    <3>3. \A c \in KtLetters : ~(c < 0)
      BY <2>3 DEF KtLetters, KtLength
    <3>4. KtNothingSkipped'
      BY <2>1, <2>2, <3>1, <3>2, <3>3 DEF KtNothingSkipped
    <3> QED
      BY <1>1, <1>2, <2>4, <3>1, <3>4 DEF KtIInv, KtSearched, KtAnswerHasWord
  <2>7. CASE ktText # <<>> /\ ~(Len(ktText) > 1)
    <3>1. ktPc' = "characters" /\ ktPlace' = 0 /\ Len(ktText) = 1
      <4>1. Len(ktText) # 0
        <5>1. ktText \in Seq(Nat)
          BY <2>3
        <5>2. Len(ktText) = 0 => ktText = <<>>
          BY <5>1
        <5> QED
          BY <2>7, <5>2
      <4>2. Len(ktText) = 1
        <5> DEFINE m == Len(ktText)
        <5>1. m \in Nat /\ m # 0 /\ ~(m > 1)
          BY <2>3, <2>7, <4>1
        <5> HIDE DEF m
        <5>2. m = 1
          BY <5>1
        <5> QED
          BY <5>2 DEF m
      <4> QED
        BY <2>1, <2>7, <4>2
    <3>2. KtLength \in Nat /\ KtLength > 0
      BY <2>3, <3>1 DEF KtLength
    <3>3. KtNothingSkipped'
      BY <2>1, <2>2, <3>1, <3>2 DEF KtNothingSkipped
    <3> QED
      BY <1>1, <1>2, <2>4, <3>1, <3>3 DEF KtIInv, KtSearched, KtAnswerHasWord
  <2> QED
    BY <2>5, <2>6, <2>7
<1> QED
  BY <1>3, <1>4, <1>5

LEMMA KtCharactersStep ==
    ASSUME KtIInv, KtCharacters
    PROVE  KtIInv'
<1> DEFINE end == KtChunkEnd
           chunk == [from |-> ktPlace, to |-> end]
<1>1. /\ ktPc = "characters" /\ ktChunks' = Append(ktChunks, chunk)
      /\ IF end = KtLength THEN ktPc' = "chunked" /\ ktPlace' = ktPlace
         ELSE ktPlace' = end - KtOverlap /\ ktPc' = ktPc
      /\ UNCHANGED <<ktFile, ktText, ktRows, ktSearch>>
  BY DEF KtCharacters
<1>2. /\ KtShapes /\ ktText \in KtTexts /\ Len(ktText) = 1 /\ ktPlace \in 0..KtLength - 1
      /\ \A c \in 0..ktPlace - 1 : KtCovered(c)
      /\ ktSearch.pc = "idle"
  BY <1>1 DEF KtIInv, KtShapes, KtNothingSkipped, KtSearched
<1>3. /\ KtLength \in Nat /\ KtMax \in Nat /\ KtMax > 0 /\ KtOverlap \in Nat /\ KtOverlap < KtMax
  BY <1>2, KtWordsAre, KnowledgeTextAssumption
<1>4. /\ end \in Nat /\ ktPlace < end /\ end <= KtLength
      /\ end # KtLength => end = ktPlace + KtMax
  <2>1. {KtLength, ktPlace + KtMax} \in SUBSET Nat
    BY <1>2, <1>3
  <2>2. end \in {KtLength, ktPlace + KtMax} /\ end <= KtLength
    BY <2>1, KtMinIs DEF KtChunkEnd
  <2> HIDE DEF end
  <2> QED
    BY <1>2, <1>3, <2>2
<1> HIDE DEF end
<1>5. chunk \in KtOffsets /\ chunk.from = ktPlace /\ chunk.to = end
  BY <1>2, <1>3, <1>4 DEF KtOffsets
<1> HIDE DEF chunk
<1>6. /\ ktChunks' \in Seq(KtOffsets)
      /\ \A i \in DOMAIN ktChunks' : ktChunks'[i] = chunk \/
           (i \in DOMAIN ktChunks /\ ktChunks'[i] = ktChunks[i])
      /\ \A c : KtCovered(c) => KtCovered(c)'
      /\ \A c \in ktPlace..end - 1 : KtCovered(c)'
  BY <1>1, <1>2, <1>5, KtChunkAdded DEF KtShapes
<1>7. \A c \in 0..end - 1 : KtCovered(c)'
  BY <1>2, <1>3, <1>4, <1>6
<1>8. /\ KtLength' = KtLength /\ KtLetters' = KtLetters
  BY <1>1, KtTextStays
<1>9. /\ ktPlace' \in Nat /\ ktPc' \in {"chunked", "characters"}
      /\ ktPc' = "characters" => ktPlace' \in 0..KtLength - 1 /\ ktPlace' <= end /\ end \in Nat
      /\ ktPc' = "chunked" => end = KtLength
  BY <1>1, <1>2, <1>3, <1>4
<1>10. KtShapes'
  <2>1. \A i \in DOMAIN ktChunks' : ktChunks'[i].from < ktChunks'[i].to /\ ktChunks'[i].to <= KtLength'
    BY <1>2, <1>4, <1>5, <1>6, <1>8 DEF KtShapes
  <2>2. ktFile' = [mime |-> ktFile'.mime, ext |-> ktFile'.ext, ready |-> IF ktPc' = "ready" THEN TRUE ELSE FALSE]
    BY <1>1, <1>2, <1>9 DEF KtShapes
  <2> QED
    BY <1>1, <1>2, <1>6, <1>9, <2>1, <2>2 DEF KtShapes
<1>11. KtNothingSkipped'
  <2>1. CASE ktPc' = "characters"
    <3>1. \A c \in 0..ktPlace' - 1 : c \in 0..end - 1
      <4>1. PICK p : p = ktPlace'
        OBVIOUS
      <4>2. p \in Nat /\ p <= end /\ end \in Nat
        BY <1>9, <2>1, <4>1
      <4>3. \A c \in 0..p - 1 : c \in 0..end - 1
        BY <4>2
      <4> QED
        BY <4>1, <4>3
    <3> QED
      BY <1>1, <1>2, <1>7, <1>8, <1>9, <2>1, <3>1 DEF KtNothingSkipped
  <2>2. CASE ktPc' = "chunked"
    <3>1. \A c \in KtLetters : c \in 0..end - 1
      BY <1>9, <2>2 DEF KtLetters
    <3> QED
      BY <1>7, <1>8, <2>2, <3>1 DEF KtNothingSkipped
  <2> QED
    BY <1>9, <2>1, <2>2
<1>12. KtSearched'
  BY <1>1, <1>2, <1>9 DEF KtSearched, KtAnswerHasWord
<1> QED
  BY <1>10, <1>11, <1>12 DEF KtIInv

LEMMA KtWordsStep ==
    ASSUME KtIInv, KtWords
    PROVE  KtIInv'
<1> DEFINE last == KtLastWord(ktPlace)
           chunk == [from |-> KtStart(ktPlace), to |-> KtEnd[last]]
           n == Len(ktText)
<1>1. /\ ktPc = "words" /\ ktChunks' = Append(ktChunks, chunk)
      /\ IF last = n THEN ktPc' = "chunked" /\ ktPlace' = ktPlace
         ELSE ktPlace' = KtOverlappedWord(ktPlace, last) /\ ktPc' = ktPc
      /\ UNCHANGED <<ktFile, ktText, ktRows, ktSearch>>
  BY DEF KtWords
<1>2. /\ KtShapes /\ ktText \in KtTexts /\ ktPlace \in 1..n
      /\ \A c \in KtLetters : c < KtStart(ktPlace) => KtCovered(c)
      /\ ktSearch.pc = "idle"
  BY <1>1 DEF KtIInv, KtShapes, KtNothingSkipped, KtSearched
<1>3. /\ n \in Nat /\ \A k \in 0..n : KtEnd[k] \in Nat
      /\ KtLength \in Nat /\ KtLength = KtEnd[n]
      /\ \A k \in 1..n :
           KtStart(k) \in Nat /\ KtStart(k) < KtEnd[k] /\ KtStart(k) = IF k = 1 THEN 0 ELSE KtEnd[k - 1] + 1
  BY <1>2, KtTextIs, KtWordsAre DEF KtLength
<1>4. last \in ktPlace..n
  BY <1>2, KtLastWordIs
<1>5. last # n => KtOverlappedWord(ktPlace, last) \in 2..last + 1
  BY <1>2, <1>4, KtOverlappedWordIs
<1> HIDE DEF last, n
<1>6. last \in 1..n /\ last \in Nat /\ ktPlace \in Nat
  BY <1>2, <1>3, <1>4
<1>7. KtStart(ktPlace) < KtEnd[last] /\ KtEnd[last] <= KtLength /\ KtEnd[last] \in Nat
  <2>1. KtEnd[last] >= KtEnd[ktPlace] + 2 * (last - ktPlace)
    BY <1>2, <1>4, KtSpan DEF n
  <2>2. KtEnd[n] >= KtEnd[last] + 2 * (n - last)
    <3>1. n \in last..n /\ last \in 1..n
      BY <1>3, <1>6
    <3> QED
      BY <1>2, <3>1, KtSpan DEF n
  <2>3. KtEnd[last] \in Nat /\ KtEnd[ktPlace] \in Nat /\ last >= ktPlace /\ n >= last
    BY <1>2, <1>3, <1>4, <1>6
  <2>4. KtStart(ktPlace) < KtEnd[ktPlace] /\ KtStart(ktPlace) \in Nat
    BY <1>2, <1>3
  <2> QED
    BY <1>3, <1>6, <2>1, <2>2, <2>3, <2>4
<1>8. chunk \in KtOffsets /\ chunk.from = KtStart(ktPlace) /\ chunk.to = KtEnd[last]
  BY <1>2, <1>3, <1>7 DEF KtOffsets
<1> HIDE DEF chunk
<1>9. /\ ktChunks' \in Seq(KtOffsets)
      /\ \A i \in DOMAIN ktChunks' : ktChunks'[i] = chunk \/
           (i \in DOMAIN ktChunks /\ ktChunks'[i] = ktChunks[i])
      /\ \A c : KtCovered(c) => KtCovered(c)'
      /\ \A c \in KtStart(ktPlace)..KtEnd[last] - 1 : KtCovered(c)'
  BY <1>1, <1>2, <1>8, KtChunkAdded DEF KtShapes
<1>10. \A c \in KtLetters : c < KtEnd[last] => KtCovered(c)'
  <2>1. ASSUME NEW c \in KtLetters, c < KtEnd[last] PROVE KtCovered(c)'
    <3>1. c \in Nat
      BY <1>3 DEF KtLetters
    <3>2. CASE c < KtStart(ktPlace)
      BY <1>2, <1>9, <2>1, <3>2
    <3>3. CASE ~(c < KtStart(ktPlace))
      <4>1. KtStart(ktPlace) \in Nat
        BY <1>2, <1>3
      <4>2. c \in KtStart(ktPlace)..KtEnd[last] - 1
        BY <1>7, <2>1, <3>1, <3>3, <4>1
      <4> QED
        BY <1>9, <4>2
    <3> QED
      BY <3>2, <3>3
  <2> QED
    BY <2>1
<1>11. /\ KtLength' = KtLength /\ KtLetters' = KtLetters
       /\ \A k \in 1..n : KtStart(k)' = KtStart(k)
  BY <1>1, KtTextStays DEF n
<1>12. /\ ktPlace' \in Nat /\ ktPc' \in {"chunked", "words"}
       /\ ktPc' = "words" => last # n /\ ktPlace' \in 2..last + 1
       /\ ktPc' = "chunked" => last = n
  BY <1>1, <1>5, <1>6
<1>13. KtShapes'
  <2>1. \A i \in DOMAIN ktChunks' : ktChunks'[i].from < ktChunks'[i].to /\ ktChunks'[i].to <= KtLength'
    BY <1>2, <1>7, <1>8, <1>9, <1>11 DEF KtShapes
  <2>2. ktFile' = [mime |-> ktFile'.mime, ext |-> ktFile'.ext, ready |-> IF ktPc' = "ready" THEN TRUE ELSE FALSE]
    BY <1>1, <1>2, <1>12 DEF KtShapes
  <2> QED
    BY <1>1, <1>2, <1>9, <1>12, <2>1, <2>2 DEF KtShapes
<1>14. KtNothingSkipped'
  <2>1. CASE ktPc' = "words"
    <3>1. last < n /\ last + 1 \in 1..n /\ (last + 1) - 1 = last /\ last + 1 # 1
      BY <1>3, <1>6, <1>12, <2>1
    <3>2. ktPlace' \in 1..n /\ ktPlace' - 1 \in 1..last /\ ktPlace' # 1 /\ ktPlace' - 1 \in Nat
      <4>1. PICK p : p = ktPlace'
        OBVIOUS
      <4>2. p \in 2..last + 1
        BY <1>12, <2>1, <4>1
      <4>3. p \in 1..n /\ p - 1 \in 1..last /\ p # 1 /\ p - 1 \in Nat
        BY <1>3, <1>6, <3>1, <4>2
      <4> QED
        BY <4>1, <4>3
    <3>3. ASSUME NEW c \in KtLetters, c < KtStart(ktPlace') PROVE c < KtEnd[last]
      <4>1. c < KtStart(last + 1)
        <5> DEFINE before == ktPlace' - 1
        <5>1. KtStart(ktPlace') = KtEnd[before] + 1 /\ KtStart(last + 1) = KtEnd[last] + 1
          BY <1>3, <3>1, <3>2
        <5>2. before \in 1..n /\ last \in before..n /\ before \in Nat
          <6>1. before \in 1..last /\ before \in Nat
            BY <3>2
          <6> HIDE DEF before
          <6> QED
            BY <1>3, <1>6, <3>1, <6>1
        <5> HIDE DEF before
        <5>3. KtEnd[last] >= KtEnd[before] + 2 * (last - before)
          BY <1>2, <5>2, KtSpan DEF n
        <5>4. KtEnd[last] \in Nat /\ KtEnd[before] \in Nat /\ last >= before /\ c \in Nat
          BY <1>3, <1>6, <5>2 DEF KtLetters
        <5> QED
          BY <1>6, <3>3, <5>1, <5>2, <5>3, <5>4
      <4> QED
        BY <1>2, <1>6, <3>1, <4>1, KtLetterBefore DEF n
    <3>4. KtStart(ktPlace)' = KtStart(ktPlace')
      BY <1>1, KtTextStays DEF KtStart
    <3> QED
      BY <1>1, <1>10, <1>11, <2>1, <3>2, <3>3, <3>4 DEF KtNothingSkipped, n
  <2>2. CASE ktPc' = "chunked"
    <3>1. \A c \in KtLetters : c < KtEnd[last]
      BY <1>3, <1>12, <2>2 DEF KtLetters
    <3> QED
      BY <1>10, <1>11, <2>2, <3>1 DEF KtNothingSkipped
  <2> QED
    BY <1>12, <2>1, <2>2
<1>15. KtSearched'
  BY <1>1, <1>2, <1>12 DEF KtSearched, KtAnswerHasWord
<1> QED
  BY <1>13, <1>14, <1>15 DEF KtIInv

LEMMA KtEmbedStep ==
    ASSUME KtIInv, KtEmbed
    PROVE  KtIInv'
<1>1. /\ ktPc = "chunked" /\ UNCHANGED <<ktText, ktPlace, ktChunks, ktSearch>>
  BY DEF KtEmbed
<1>2. /\ KtShapes /\ ktSearch.pc = "idle" /\ \A c \in KtLetters : KtCovered(c)
  BY <1>1 DEF KtIInv, KtNothingSkipped, KtSearched
<1>3. KtLength' = KtLength /\ KtLetters' = KtLetters
  BY <1>1, KtTextStays
<1>4. ASSUME NEW pc \in {"ready", "failed"}, ktPc' = pc,
             ktFile' = [mime |-> ktFile.mime, ext |-> ktFile.ext, ready |-> IF pc = "ready" THEN TRUE ELSE FALSE],
             pc = "ready" => ktChunks # <<>> /\
                ktRows' = [i \in 1..Len(ktChunks) |-> [of |-> ktChunks[i], vector |-> ktChunks[i]]]
      PROVE  KtIInv'
  <2>1. ktFile' = [mime |-> ktFile'.mime, ext |-> ktFile'.ext, ready |-> IF ktPc' = "ready" THEN TRUE ELSE FALSE]
    BY <1>4
  <2>2. KtShapes'
    BY <1>1, <1>2, <1>3, <1>4, <2>1 DEF KtShapes
  <2>3. KtNothingSkipped'
    BY <1>1, <1>2, <1>3, <1>4 DEF KtNothingSkipped, KtCovered
  <2>4. KtSearched'
    BY <1>1, <1>2, <1>4 DEF KtSearched, KtAnswerHasWord
  <2> QED
    BY <2>2, <2>3, <2>4 DEF KtIInv
<1>5. ktFile = [mime |-> ktFile.mime, ext |-> ktFile.ext, ready |-> FALSE]
  BY <1>1, <1>2 DEF KtShapes
<1>6. CASE ktPc' = "failed"
  <2>1. ktFile' = [mime |-> ktFile.mime, ext |-> ktFile.ext, ready |-> FALSE]
    BY <1>5, <1>6 DEF KtEmbed
  <2> QED
    BY <1>4, <1>6, <2>1
<1>7. CASE ktPc' # "failed"
  <2> DEFINE n == Len(ktChunks)
  <2>1. /\ ktChunks # <<>> /\ ktFile' = [ktFile EXCEPT !.ready = TRUE] /\ ktPc' = "ready"
        /\ \E data \in KtAnswers(n) :
             /\ Len(KtSorted(data)) = n
             /\ ktRows' = [i \in 1..n |-> [of |-> ktChunks[i], vector |-> ktChunks[KtSorted(data)[i]]]]
    BY <1>7 DEF KtEmbed
  <2>2. PICK data \in KtAnswers(n) :
             /\ Len(KtSorted(data)) = n
             /\ ktRows' = [i \in 1..n |-> [of |-> ktChunks[i], vector |-> ktChunks[KtSorted(data)[i]]]]
    BY <2>1
  <2>3. n \in Nat /\ n # 0
    <3>1. ktChunks \in Seq(KtOffsets)
      BY <1>2 DEF KtShapes
    <3>2. n \in Nat /\ (n = 0 => ktChunks = <<>>)
      BY <3>1
    <3> QED
      BY <2>1, <3>2
  <2> HIDE DEF n
  <2>4. \A k \in 1..n : KtSorted(data)[k] = k
    BY <2>2, <2>3, KtSortedIs
  <2>5. ktRows' = [i \in 1..n |-> [of |-> ktChunks[i], vector |-> ktChunks[i]]]
    BY <2>2, <2>4
  <2>6. ktFile' = [mime |-> ktFile.mime, ext |-> ktFile.ext, ready |-> TRUE]
    BY <1>5, <2>1
  <2> QED
    BY <1>4, <2>1, <2>5, <2>6 DEF n
<1> QED
  BY <1>6, <1>7

LEMMA KtSearchStep ==
    ASSUME KtIInv, KtQuery \/ KtSelect
    PROVE  KtIInv'
<1>1. UNCHANGED <<ktFile, ktPc, ktText, ktPlace, ktChunks, ktRows>>
  BY DEF KtQuery, KtSelect
<1>2. KtShapes /\ KtNothingSkipped /\ KtSearched
  BY DEF KtIInv
<1>3. KtLength' = KtLength /\ KtLetters' = KtLetters /\ \A k \in 1..Len(ktText) : KtStart(k)' = KtStart(k)
  BY <1>1, KtTextStays
<1>4. KtNothingSkipped'
  <2>1. KtStart(ktPlace)' = KtStart(ktPlace)
    BY <1>1, KtTextStays DEF KtStart
  <2> QED
    BY <1>1, <1>2, <1>3, <2>1 DEF KtNothingSkipped, KtCovered
<1>5. ktPc \in {"ready", "failed"}
  BY <1>2 DEF KtSearched, KtQuery, KtSelect
<1>6. ASSUME ktSearch' = [pc |-> ktSearch'.pc, at |-> ktSearch'.at, found |-> ktSearch'.found],
             ktSearch'.pc \in {"select", "found", "done"},
             ktSearch'.pc = "select" => ktSearch'.at \in KtLetters,
             KtAnswerHasWord'
      PROVE  KtIInv'
  <2>1. KtShapes'
    BY <1>1, <1>2, <1>3, <1>6 DEF KtShapes
  <2>2. KtSearched'
    BY <1>1, <1>2, <1>3, <1>5, <1>6 DEF KtSearched
  <2> QED
    BY <1>4, <2>1, <2>2 DEF KtIInv
<1>7. ktSearch = [pc |-> ktSearch.pc, at |-> ktSearch.at, found |-> ktSearch.found]
  BY <1>2 DEF KtShapes
<1>8. ASSUME KtQuery PROVE KtIInv'
  <2>1. CASE ktSearch' = [ktSearch EXCEPT !.pc = "done"]
    <3>1. ktSearch' = [pc |-> "done", at |-> ktSearch.at, found |-> ktSearch.found]
      BY <1>7, <2>1
    <3> QED
      BY <1>6, <3>1 DEF KtAnswerHasWord
  <2>2. CASE ktSearch' # [ktSearch EXCEPT !.pc = "done"]
    <3>1. PICK c \in KtLetters : ktSearch' = [ktSearch EXCEPT !.pc = "select", !.at = c]
      BY <1>8, <2>2 DEF KtQuery
    <3>2. ktSearch' = [pc |-> "select", at |-> c, found |-> ktSearch.found]
      BY <1>7, <3>1
    <3> QED
      BY <1>6, <3>2 DEF KtAnswerHasWord
  <2> QED
    BY <2>1, <2>2
<1>9. ASSUME KtSelect PROVE KtIInv'
  <2> DEFINE at == ktSearch.at
             found == IF ktFile.ready THEN KtClosest(at) ELSE <<>>
  <2>1. ktSearch.pc = "select" /\ ktSearch' = [ktSearch EXCEPT !.pc = "found", !.found = found]
    BY <1>9 DEF KtSelect
  <2>2. ktSearch' = [pc |-> "found", at |-> at, found |-> found]
    BY <1>7, <2>1
  <2>3. ASSUME ktFile.ready, KtLimit > 0
        PROVE  /\ found # <<>>
               /\ at \in ktRows[found[1]].of.from..ktRows[found[1]].of.to - 1
    <3>1. ktPc = "ready"
      BY <1>2, <2>3 DEF KtShapes
    <3>2. /\ ktRows = [i \in 1..Len(ktChunks) |-> [of |-> ktChunks[i], vector |-> ktChunks[i]]]
          /\ at \in KtLetters
      BY <1>2, <2>1, <3>1 DEF KtSearched
    <3>3. PICK r \in DOMAIN ktChunks : at \in ktChunks[r].from..ktChunks[r].to - 1
      BY <1>2, <3>1, <3>2 DEF KtNothingSkipped, KtCovered
    <3>4. /\ ktChunks \in Seq(KtOffsets) /\ Len(ktChunks) \in Nat /\ DOMAIN ktChunks = 1..Len(ktChunks)
      BY <1>2 DEF KtShapes
    <3>5. \A i \in 1..Len(ktChunks) : ktChunks[i] \in KtOffsets
      BY <3>4
    <3>6. ktRows \in Seq([of : KtOffsets, vector : KtOffsets])
      <4> DEFINE n == Len(ktChunks)
                 Row(i) == [of |-> ktChunks[i], vector |-> ktChunks[i]]
      <4>1. \A i \in 1..n : Row(i) \in [of : KtOffsets, vector : KtOffsets]
        BY <3>5
      <4>2. ktRows = [i \in 1..n |-> Row(i)] /\ n \in Nat
        BY <3>2, <3>4
      <4> HIDE DEF n, Row
      <4> QED
        BY <4>1, <4>2
    <3>7. /\ DOMAIN ktRows = DOMAIN ktChunks
          /\ \A i \in DOMAIN ktRows : ktRows[i].of = ktChunks[i] /\ ktRows[i].vector = ktChunks[i]
      BY <3>2, <3>4
    <3>8. r \in DOMAIN ktRows /\ KtDistance(ktRows[r], at) = 0
      BY <3>3, <3>7 DEF KtDistance
    <3>9. /\ KtClosest(at) # <<>> /\ KtClosest(at)[1] \in DOMAIN ktRows
          /\ KtDistance(ktRows[KtClosest(at)[1]], at) = 0
      BY <2>3, <3>6, <3>8, KtClosestIs DEF KtOffsets
    <3> DEFINE first == KtClosest(at)[1]
    <3>10. at \in ktRows[first].vector.from..ktRows[first].vector.to - 1
      BY <3>9 DEF KtDistance
    <3>11. ktRows[first].of = ktRows[first].vector
      BY <3>7, <3>9
    <3> QED
      BY <2>3, <3>9, <3>10, <3>11
  <2>4. KtAnswerHasWord'
    <3> HIDE DEF found, at
    <3>1. ktSearch'.pc = "found" /\ ktSearch'.at = at /\ ktSearch'.found = found
      BY <2>2
    <3> QED
      BY <1>1, <2>3, <3>1 DEF KtAnswerHasWord
  <2> QED
    BY <1>6, <2>2, <2>4
<1> QED
  BY <1>8, <1>9

LEMMA KtInitIInv == KtInit => KtIInv
<1> SUFFICES ASSUME KtInit PROVE KtIInv
  OBVIOUS
<1>1. <<>> \in KtTexts
  <2>1. 0 \in 0..KtMaxWords /\ <<>> \in [1..0 -> KtLengths]
    BY KnowledgeTextAssumption
  <2> QED
    BY <2>1 DEF KtTexts
<1>2. <<>> \in Seq(KtOffsets) /\ DOMAIN <<>> = {}
  OBVIOUS
<1>3. /\ ktFile = [mime |-> ktFile.mime, ext |-> ktFile.ext, ready |-> IF ktPc = "ready" THEN TRUE ELSE FALSE]
      /\ ktSearch = [pc |-> ktSearch.pc, at |-> ktSearch.at, found |-> ktSearch.found]
      /\ ktSearch.pc = "idle"
  BY DEF KtInit, KtNoSearch
<1> QED
  BY <1>1, <1>2, <1>3 DEF KtInit, KtIInv, KtShapes, KtNothingSkipped, KtSearched, KtAnswerHasWord

LEMMA KtNextIInv == KtIInv /\ [KtNext]_ktVars => KtIInv'
<1> SUFFICES ASSUME KtIInv, [KtNext]_ktVars PROVE KtIInv'
  OBVIOUS
<1>1. CASE UNCHANGED ktVars
  <2>1. /\ UNCHANGED <<ktFile, ktPc, ktText, ktPlace, ktChunks, ktRows, ktSearch>>
    BY <1>1 DEF ktVars
  <2>2. KtLength' = KtLength /\ KtLetters' = KtLetters /\ KtStart(ktPlace)' = KtStart(ktPlace)
    BY <2>1, KtTextStays DEF KtStart
  <2> QED
    BY <2>1, <2>2 DEF KtIInv, KtShapes, KtNothingSkipped, KtSearched, KtAnswerHasWord, KtCovered
<1>2. CASE KtNext
  BY <1>2, KtSlowStep, KtCharactersStep, KtWordsStep, KtEmbedStep, KtSearchStep DEF KtNext
<1> QED
  BY <1>1, <1>2

\* The inductive invariant: the shapes, where the cutting stands in the text,
\* and what the chunks cover up to there.
THEOREM KtInductive == KtSpec => []KtIInv
BY KtInitIInv, KtNextIInv, PTL DEF KtSpec

\* The document, its chunks and a search in it have their shapes.
THEOREM KtTypeCorrect == KtSpec => []KtTypeOK
<1>1. ASSUME KtIInv PROVE KtTypeOK
  <2>1. KtShapes /\ ktFile.ready \in BOOLEAN
    <3>1. KtShapes
      BY <1>1 DEF KtIInv
    <3>2. CASE ktPc = "ready"
      <4>1. ktFile = [mime |-> ktFile.mime, ext |-> ktFile.ext, ready |-> TRUE]
        BY <3>1, <3>2 DEF KtShapes
      <4>2. ktFile.ready = TRUE
        BY <4>1
      <4> QED
        BY <3>1, <4>2
    <3>3. CASE ktPc # "ready"
      <4>1. ktFile = [mime |-> ktFile.mime, ext |-> ktFile.ext, ready |-> FALSE]
        BY <3>1, <3>3 DEF KtShapes
      <4>2. ktFile.ready = FALSE
        BY <4>1
      <4> QED
        BY <3>1, <4>2
    <3> QED
      BY <3>2, <3>3
  <2> QED
    BY <2>1 DEF KtTypeOK, KtShapes
<1> QED
  BY <1>1, KtInductive, PTL

\* A search about anything in the text of a ready document finds a chunk
\* that contains it, whatever the overlap and the order of the vectors.
THEOREM KtAnswerHasWordAlways == KtSpec => []KtAnswerHasWord
<1>1. KtIInv => KtAnswerHasWord
  BY DEF KtIInv, KtSearched
<1> QED
  BY <1>1, KtInductive, PTL

-----------------------------------------------------------------------------
(* The cutting gets on.                                                    *)

\* Behind the first word of a chunk that is full there is a quarter of a
\* chunk in letters, when a word is at most a quarter of one: half of what
\* is between the first word and the one that did not fit.
LEMMA KtWordsGetOn ==
    ASSUME ktText \in KtTexts, \A i \in DOMAIN ktText : 4 * ktText[i] <= KtMax,
           4 * KtOverlap <= KtMax,
           NEW first \in 1..Len(ktText), KtLastWord(first) < Len(ktText)
    PROVE  KtOverlappedWord(first, KtLastWord(first)) > first
<1> DEFINE n == Len(ktText)
           last == KtLastWord(first)
           enough == {i \in 2..last : KtLettersOf(i, last) >= KtOverlap}
<1>1. /\ n \in Nat /\ first \in 1..n /\ first \in Nat
      /\ KtMax \in Nat /\ KtMax > 0 /\ KtOverlap \in Nat
  BY KtTextIs, KnowledgeTextAssumption
<1>2. /\ \A k \in 0..n : KtEnd[k] \in Nat
      /\ \A k \in 1..n :
           /\ KtStart(k) \in Nat /\ KtEnd[k] = KtStart(k) + ktText[k]
           /\ KtStart(k) = IF k = 1 THEN 0 ELSE KtEnd[k - 1] + 1
           /\ ktText[k] \in Nat /\ ktText[k] > 0 /\ 4 * ktText[k] <= KtMax
  BY KtTextIs, KtWordsAre
<1>3. last \in first..n /\ (last < n => KtEnd[last + 1] - KtStart(first) > KtMax)
  BY KtLastWordIs
<1>4. last < n
  OBVIOUS
<1> HIDE DEF n, last
<1>5. last \in 1..n /\ last \in Nat /\ last + 1 \in 1..n /\ (last + 1) - 1 = last /\ last + 1 # 1
  BY <1>1, <1>3, <1>4
<1>6. /\ KtEnd[last] \in Nat /\ KtStart(first) \in Nat /\ KtEnd[first] \in Nat
      /\ KtEnd[first] = KtStart(first) + ktText[first]
      /\ ktText[first] \in Nat /\ ktText[first] > 0 /\ 4 * ktText[first] <= KtMax
  BY <1>1, <1>2, <1>5
<1>7. /\ KtEnd[last + 1] = KtEnd[last] + 1 + ktText[last + 1]
      /\ ktText[last + 1] \in Nat /\ 4 * ktText[last + 1] <= KtMax
  <2>1. /\ KtEnd[last + 1] = KtStart(last + 1) + ktText[last + 1]
        /\ KtStart(last + 1) = KtEnd[last] + 1
        /\ ktText[last + 1] \in Nat /\ 4 * ktText[last + 1] <= KtMax
    BY <1>2, <1>5
  <2> QED
    BY <1>6, <2>1
<1>8. KtEnd[last] + 1 + ktText[last + 1] - KtStart(first) > KtMax
  <2>1. KtEnd[last + 1] - KtStart(first) > KtMax
    BY <1>3, <1>4
  <2> QED
    BY <1>6, <1>7, <2>1
<1>9. last # first
  <2> SUFFICES ASSUME last = first PROVE FALSE
    OBVIOUS
  <2> DEFINE a == KtStart(first)
             t == ktText[first]
             u == ktText[last + 1]
  <2>1. /\ a \in Nat /\ t \in Nat /\ u \in Nat /\ KtMax \in Nat /\ KtMax > 0
        /\ 4 * t <= KtMax /\ 4 * u <= KtMax /\ (a + t) + 1 + u - a > KtMax
    BY <1>1, <1>6, <1>7, <1>8
  <2> HIDE DEF a, t, u
  <2> QED
    BY <2>1
<1> DEFINE next == first + 1
<1>10. next \in 2..last /\ next \in 1..n /\ next \in Nat /\ next - 1 = first /\ next # 1
  BY <1>1, <1>3, <1>5, <1>9
<1> HIDE DEF next
<1>11. KtStart(next) = KtEnd[first] + 1 /\ KtEnd[next] = KtStart(next) + ktText[next] /\ ktText[next] \in Nat
       /\ ktText[next] > 0
  BY <1>2, <1>10
<1>12. KtEnd[last] >= KtEnd[next] + 2 * (last - next)
  <2>1. last \in next..n
    BY <1>5, <1>10
  <2> QED
    BY <1>10, <2>1, KtSpan DEF n
<1>13. KtLettersOf(next, last) >= KtOverlap
  <2> DEFINE a == KtStart(first)
             t == ktText[first]
             u == ktText[last + 1]
             v == ktText[next]
             e == KtEnd[last]
             d == last - next
  <2>1. /\ a \in Nat /\ t \in Nat /\ u \in Nat /\ v \in Nat /\ e \in Nat /\ d \in Nat
        /\ v > 0 /\ 4 * t <= KtMax /\ 4 * u <= KtMax /\ 4 * KtOverlap <= KtMax
        /\ e + 1 + u - a > KtMax
        /\ e >= a + t + 1 + v + 2 * d
        /\ KtMax \in Nat /\ KtOverlap \in Nat
    BY <1>1, <1>5, <1>6, <1>7, <1>8, <1>10, <1>11, <1>12
  <2>2. KtLettersOf(next, last) = e - (a + t + 1) - d
    BY <1>6, <1>11 DEF KtLettersOf
  <2> HIDE DEF a, t, u, v, e, d
  <2>3. e - (a + t + 1) - d >= KtOverlap
    BY <2>1
  <2> QED
    BY <2>2, <2>3
<1>14. next \in enough /\ enough \in SUBSET (0..last)
  BY <1>5, <1>10, <1>13
<1>15. CASE KtOverlap = 0
  <2>1. KtOverlappedWord(first, last) = last + 1
    BY <1>15 DEF KtOverlappedWord
  <2> QED
    BY <1>1, <1>5, <1>10, <2>1 DEF last
<1>16. CASE KtOverlap # 0
  <2>1. KtOverlappedWord(first, last) = KtMaxOf(enough)
    BY <1>14, <1>16 DEF KtOverlappedWord
  <2> HIDE DEF enough
  <2>2. KtMaxOf(enough) \in enough /\ next <= KtMaxOf(enough)
    BY <1>5, <1>14, KtMaxOfIs
  <2>3. KtMaxOf(enough) \in Nat
    <3>1. KtMaxOf(enough) \in 0..last
      BY <1>14, <2>2
    <3> QED
      BY <1>5, <3>1
  <2>4. KtMaxOf(enough) > first
    BY <1>1, <2>2, <2>3 DEF next
  <2> QED
    BY <2>1, <2>4 DEF last
<1> QED
  BY <1>15, <1>16

\* Each turn of the cutting gets on, in a text without a space always, and
\* between words as long as a word and the overlap are at most a quarter of
\* a chunk.
THEOREM KtCuttingGetsOn == KtSpec => KtOrdinaryTextIsCut
<1> DEFINE A == (Len(ktText) = 1 \/ \A i \in DOMAIN ktText : 4 * ktText[i] <= KtMax)
                  /\ 4 * KtOverlap <= KtMax /\ ktPc' = ktPc /\ ktChunks' # ktChunks
                => ktPlace' > ktPlace
<1>1. ASSUME KtIInv, [KtNext]_ktVars PROVE [A]_ktVars
  <2> SUFFICES ASSUME Len(ktText) = 1 \/ \A i \in DOMAIN ktText : 4 * ktText[i] <= KtMax,
                      4 * KtOverlap <= KtMax, ktPc' = ktPc, ktChunks' # ktChunks
               PROVE  ktPlace' > ktPlace
    OBVIOUS
  <2>1. KtShapes /\ KtNothingSkipped
    BY <1>1 DEF KtIInv
  <2>2. KtCharacters \/ KtWords
    BY <1>1 DEF KtNext, ktVars, KtUpload, KtParse, KtSplit, KtEmbed, KtQuery, KtSelect
  <2>3. CASE KtCharacters
    <3>1. /\ ktPc = "characters"
          /\ IF KtChunkEnd = KtLength THEN ktPc' = "chunked" ELSE ktPlace' = KtChunkEnd - KtOverlap
      BY <2>3 DEF KtCharacters
    <3>2. KtChunkEnd # KtLength /\ ktPlace' = KtChunkEnd - KtOverlap
      BY <3>1
    <3>3. /\ KtLength \in Nat /\ KtMax \in Nat /\ KtOverlap \in Nat /\ KtOverlap < KtMax /\ ktPlace \in Nat
      BY <2>1, KtWordsAre, KnowledgeTextAssumption DEF KtShapes
    <3>4. KtChunkEnd \in {KtLength, ktPlace + KtMax}
      <4>1. {KtLength, ktPlace + KtMax} \in SUBSET Nat
        BY <3>3
      <4> QED
        BY <4>1, KtMinIs DEF KtChunkEnd
    <3>5. ktPlace + KtMax - KtOverlap > ktPlace
      BY <3>3
    <3>6. KtChunkEnd = ktPlace + KtMax
      BY <3>2, <3>4
    <3>7. ktPlace' = ktPlace + KtMax - KtOverlap
      BY <3>2, <3>3, <3>6
    <3> QED
      BY <3>5, <3>7
  <2>4. CASE KtWords
    <3>1. /\ ktPc = "words"
          /\ IF KtLastWord(ktPlace) = Len(ktText) THEN ktPc' = "chunked"
             ELSE ktPlace' = KtOverlappedWord(ktPlace, KtLastWord(ktPlace))
      BY <2>4 DEF KtWords
    <3>2. ktText \in KtTexts /\ ktPlace \in 1..Len(ktText) /\ Len(ktText) \in Nat
      BY <2>1, <3>1, KtTextIs DEF KtShapes, KtNothingSkipped
    <3>3. KtLastWord(ktPlace) \in ktPlace..Len(ktText)
      BY <3>2, KtLastWordIs
    <3>4. /\ KtLastWord(ktPlace) # Len(ktText)
          /\ ktPlace' = KtOverlappedWord(ktPlace, KtLastWord(ktPlace))
      BY <3>1
    <3>5. KtLastWord(ktPlace) < Len(ktText)
      BY <3>2, <3>3, <3>4
    <3>6. Len(ktText) # 1
      <4> DEFINE n == Len(ktText)
                 last == KtLastWord(ktPlace)
      <4>1. n \in Nat /\ ktPlace \in 1..n /\ last \in ktPlace..n /\ last < n
        BY <3>2, <3>3, <3>5
      <4> HIDE DEF n, last
      <4>2. n # 1
        BY <4>1
      <4> QED
        BY <4>2 DEF n
    <3>7. KtOverlappedWord(ktPlace, KtLastWord(ktPlace)) > ktPlace
      BY <3>2, <3>5, <3>6, KtWordsGetOn
    <3> QED
      BY <3>4, <3>7
  <2> QED
    BY <2>2, <2>3, <2>4
<1>2. KtSpec => [][KtNext]_ktVars
  BY PTL DEF KtSpec
<1> QED
  BY <1>1, <1>2, KtInductive, PTL DEF KtOrdinaryTextIsCut

-----------------------------------------------------------------------------
(***************************************************************************)
(* FlattenSeq, which is defined by recursion on the places of a sequence:  *)
(* the recursion defines a function, whose values are concatenations.      *)
(***************************************************************************)

\* The function that the recursion is about, on the first n places.
FlattensTo(seqs, n, f) ==
    /\ DOMAIN f = 1..n
    /\ \A i \in 1..n : f[i] = IF i = 1 THEN seqs[i] ELSE f[i - 1] \o seqs[i]

\* The elements of the first n sequences.
ListedIn(seqs, n) == UNION {Range(seqs[k]) : k \in 1..n}

LEMMA FlattenExists ==
    ASSUME NEW T, NEW seqs \in Seq(Seq(T))
    PROVE  \A n \in 1..Len(seqs) : \E f \in [1..n -> Seq(T)] : FlattensTo(seqs, n, f)
<1> DEFINE Exists(n) == \E f \in [1..n -> Seq(T)] : FlattensTo(seqs, n, f)
           P == {n \in Nat : n \in 1..Len(seqs) => Exists(n)}
<1>1. 0 \in P
  OBVIOUS
<1>2. ASSUME NEW n \in Nat, n \in P, n + 1 \in 1..Len(seqs)
      PROVE  Exists(n + 1)
  <2>1. seqs[n + 1] \in Seq(T)
    BY <1>2
  <2>2. CASE n = 0
    <3> DEFINE f == [i \in 1..1 |-> seqs[i]]
    <3>1. f \in [1..1 -> Seq(T)] /\ FlattensTo(seqs, 1, f)
      BY <2>1, <2>2 DEF FlattensTo
    <3> QED
      BY <2>2, <3>1
  <2>3. CASE n # 0
    <3>1. PICK f \in [1..n -> Seq(T)] : FlattensTo(seqs, n, f)
      BY <1>2, <2>3
    <3> DEFINE last == f[n] \o seqs[n + 1]
               g == [i \in 1..n + 1 |-> IF i = n + 1 THEN last ELSE f[i]]
    <3>2. last \in Seq(T)
      <4>1. f[n] \in Seq(T)
        BY <2>3, <3>1
      <4> QED
        BY <2>1, <4>1
    <3> HIDE DEF last
    <3>3. \A i \in 1..n : i \in 1..n + 1 /\ i # n + 1 /\ g[i] = f[i]
      OBVIOUS
    <3>4. g[n + 1] = last
      OBVIOUS
    <3>5. g \in [1..n + 1 -> Seq(T)]
      BY <3>1, <3>2
    <3>6. ASSUME NEW i \in 1..n + 1
          PROVE  g[i] = IF i = 1 THEN seqs[i] ELSE g[i - 1] \o seqs[i]
      <4> HIDE DEF g
      <4>1. CASE i = n + 1
        <5>1. i # 1 /\ i - 1 = n /\ n \in 1..n
          BY <2>3, <4>1
        <5> QED
          BY <3>3, <3>4, <4>1, <5>1 DEF last
      <4>2. CASE i # n + 1
        <5>1. i \in 1..n /\ (i # 1 => i - 1 \in 1..n)
          BY <3>6, <4>2
        <5>2. f[i] = IF i = 1 THEN seqs[i] ELSE f[i - 1] \o seqs[i]
          BY <3>1, <5>1 DEF FlattensTo
        <5> QED
          BY <3>3, <5>1, <5>2
      <4> QED
        BY <4>1, <4>2
    <3> HIDE DEF g
    <3>7. FlattensTo(seqs, n + 1, g)
      BY <3>5, <3>6 DEF FlattensTo
    <3> QED
      BY <3>5, <3>7
  <2> QED
    BY <2>2, <2>3
<1>3. Nat \subseteq P
  <2>1. ASSUME NEW n \in Nat, n \in P PROVE n + 1 \in P
    <3> HIDE DEF Exists
    <3>1. CASE n + 1 \in 1..Len(seqs)
      <4>1. Exists(n + 1)
        <5> HIDE DEF P
        <5> QED
          BY <1>2, <2>1, <3>1
      <4> QED
        BY <4>1
    <3>2. CASE n + 1 \notin 1..Len(seqs)
      BY <3>2
    <3> QED
      BY <3>1, <3>2
  <2> HIDE DEF P
  <2> QED
    BY <1>1, <2>1, InductionOnSet
<1> QED
  BY <1>3

LEMMA ConcatElements ==
    ASSUME NEW T, NEW s \in Seq(T), NEW t \in Seq(T)
    PROVE  Range(s \o t) = Range(s) \cup Range(t)
<1> DEFINE st == s \o t
<1>1. /\ DOMAIN st = 1..Len(s) + Len(t) /\ Len(s) \in Nat /\ Len(t) \in Nat
      /\ DOMAIN s = 1..Len(s) /\ DOMAIN t = 1..Len(t)
      /\ \A j \in 1..Len(s) + Len(t) : st[j] = IF j <= Len(s) THEN s[j] ELSE t[j - Len(s)]
  OBVIOUS
<1> HIDE DEF st
<1>2. \A j \in DOMAIN s : j \in DOMAIN st /\ st[j] = s[j]
  BY <1>1
<1>3. \A j \in DOMAIN t : j + Len(s) \in DOMAIN st /\ st[j + Len(s)] = t[j]
  BY <1>1
<1>4. \A j \in DOMAIN st :
        \/ j \in DOMAIN s /\ st[j] = s[j]
        \/ j - Len(s) \in DOMAIN t /\ st[j] = t[j - Len(s)]
  BY <1>1
<1>5. Range(st) = Range(s) \cup Range(t)
  BY <1>2, <1>3, <1>4 DEF Range
<1> QED
  BY <1>5 DEF st

\* What such a function lists: the elements of the first i sequences.
LEMMA FlattensElements ==
    ASSUME NEW T, NEW seqs \in Seq(Seq(T)), NEW n \in Nat, n <= Len(seqs),
           NEW f, FlattensTo(seqs, n, f)
    PROVE  \A i \in 1..n : f[i] \in Seq(T) /\ Range(f[i]) = ListedIn(seqs, i)
<1> DEFINE Listed(i) == ListedIn(seqs, i)
           Good(i) == f[i] \in Seq(T) /\ Range(f[i]) = Listed(i)
           P == {i \in Nat : i \in 1..n => Good(i)}
<1>1. 0 \in P
  OBVIOUS
<1>2. ASSUME NEW i \in Nat, i \in P, i + 1 \in 1..n
      PROVE  Good(i + 1)
  <2>1. seqs[i + 1] \in Seq(T)
    BY <1>2
  <2>2. CASE i = 0
    <3>1. f[1] = seqs[1]
      <4>1. 1 \in 1..n
        BY <1>2, <2>2
      <4> QED
        BY <4>1 DEF FlattensTo
    <3>2. Listed(1) = Range(seqs[1])
      BY DEF ListedIn
    <3> QED
      BY <2>1, <2>2, <3>1, <3>2
  <2>3. CASE i # 0
    <3> DEFINE s == f[i]
               t == seqs[i + 1]
    <3>1. f[i + 1] = s \o t /\ i \in 1..n
      <4>1. i + 1 # 1 /\ i \in 1..n /\ (i + 1) - 1 = i
        BY <1>2, <2>3
      <4>2. f[i + 1] = IF i + 1 = 1 THEN seqs[i + 1] ELSE f[(i + 1) - 1] \o seqs[i + 1]
        BY <1>2 DEF FlattensTo
      <4> QED
        BY <4>1, <4>2
    <3>2. s \in Seq(T) /\ t \in Seq(T) /\ Range(s) = Listed(i)
      BY <1>2, <2>1, <3>1
    <3> HIDE DEF s
    <3>3. f[i + 1] \in Seq(T) /\ Range(f[i + 1]) = Range(s) \cup Range(t)
      <4> HIDE DEF t
      <4> QED
        BY <3>1, <3>2, ConcatElements
    <3>4. Listed(i + 1) = Listed(i) \cup Range(t)
      <4>1. 1..i + 1 = 1..i \cup {i + 1}
        BY <1>2
      <4> QED
        BY <4>1 DEF ListedIn
    <3> HIDE DEF Listed, t
    <3> QED
      BY <3>2, <3>3, <3>4
  <2> QED
    BY <2>2, <2>3
<1>3. Nat \subseteq P
  <2>1. ASSUME NEW i \in Nat, i \in P PROVE i + 1 \in P
    <3> HIDE DEF Good
    <3>1. CASE i + 1 \in 1..n
      <4>1. Good(i + 1)
        <5> HIDE DEF P
        <5> QED
          BY <1>2, <2>1, <3>1
      <4> QED
        BY <4>1
    <3>2. CASE i + 1 \notin 1..n
      BY <3>2
    <3> QED
      BY <3>1, <3>2
  <2> HIDE DEF P
  <2> QED
    BY <1>1, <2>1, InductionOnSet
<1> HIDE DEF Good
<1>4. \A i \in 1..n : Good(i)
  BY <1>3
<1> QED
  BY <1>4 DEF Good

\* FlattenSeq lists the elements of its sequences, and nothing else.
LEMMA FlattenSeqIs ==
    ASSUME NEW T, NEW seqs \in Seq(Seq(T))
    PROVE  /\ FlattenSeq(seqs) \in Seq(T)
           /\ Range(FlattenSeq(seqs)) = ListedIn(seqs, Len(seqs))
<1>1. CASE Len(seqs) = 0
  <2>1. seqs = <<>> /\ FlattenSeq(seqs) = <<>>
    BY <1>1 DEF FlattenSeq
  <2>2. DOMAIN seqs = {} /\ seqs \in Seq(T)
    BY <2>1
  <2>3. Range(seqs) = {}
    BY <2>2 DEF Range
  <2>4. ListedIn(seqs, 0) = {}
    BY DEF ListedIn
  <2> QED
    BY <1>1, <2>1, <2>2, <2>3, <2>4
<1>2. CASE Len(seqs) # 0
  <2> DEFINE n == Len(seqs)
             flatten[i \in 1..n] == IF i = 1 THEN seqs[i] ELSE flatten[i - 1] \o seqs[i]
  <2>1. n \in 1..n
    BY <1>2
  <2>2. PICK g \in [1..n -> Seq(T)] : FlattensTo(seqs, n, g)
    BY <2>1, FlattenExists
  <2>3. g = [i \in 1..n |-> IF i = 1 THEN seqs[i] ELSE g[i - 1] \o seqs[i]]
    BY <2>2 DEF FlattensTo
  <2>4. flatten = [i \in 1..n |-> IF i = 1 THEN seqs[i] ELSE flatten[i - 1] \o seqs[i]]
    BY <2>3
  <2>5. FlattenSeq(seqs) = flatten[n]
    BY <1>2 DEF FlattenSeq
  <2>6. PICK f : f = flatten
    OBVIOUS
  <2>7. FlattensTo(seqs, n, f)
    BY <2>4, <2>6 DEF FlattensTo
  <2>8. n \in Nat /\ n <= Len(seqs) /\ DOMAIN seqs = 1..n
    OBVIOUS
  <2> HIDE DEF n, flatten
  <2>9. f[n] \in Seq(T) /\ Range(f[n]) = ListedIn(seqs, n)
    BY <2>1, <2>7, <2>8, FlattensElements
  <2> QED
    BY <2>5, <2>6, <2>9 DEF n
<1> QED
  BY <1>1, <1>2

-----------------------------------------------------------------------------
(***************************************************************************)
(* The resources of a message, for any requests, calls and items.          *)
(***************************************************************************)
RoTypes == {"image", "video", "document"}

RoCallRows == [status : RoUnsettled \cup {"succeeded", "failed"}, request : RoRequests,
               outcome : Seq({"url", "two", "inline", "failed"})]

\* The prompts that are asked for, and their absence.
RoPrompts == {RoNoPrompt} \cup UNION {Range(request.prompts) : request \in RoRequests}

RoMetadata == [prompt : RoPrompts, index : 0..RoUnmarked]

RoRows == [type : RoTypes, call : Nat, index : 0..RoUnmarked, prompt : RoPrompts,
           status : {"pending", "succeeded", "failed"}, url : BOOLEAN]

RoShown == [res : Nat, call : Nat, slot : Nat, state : {"pending", "succeeded", "failed"}]

RoWrites == [type : RoTypes, call : Nat, slot : Nat,
             status : {"pending", "remote", "local", "error", "failed"},
             metadata : RoMetadata]

\* The full shape of every variable.
RoShapes ==
    /\ roRun \in {"running", "completed", "failed", "cancelled", "dead", "cleaned"}
    /\ roCalls \in Seq(RoCallRows) /\ Len(roCalls) <= RoMaxCalls
    /\ roResources \in Seq(RoRows)
    /\ roParts \in Seq(RoShown)
    /\ roTodo \in Seq(RoWrites)
    /\ roStep \in 0..Len(roResources)

\* The projector still works for the run, or has ended with it.
RoLive == roRun \notin {"dead", "cleaned"}

\* The slot of a call that a row, or the metadata of a write, is for.
RoSlot(row) == IF row.index = RoUnmarked THEN 0 ELSE row.index

\* What a tool made of the item of a slot.
RoMade(call, slot) ==
    IF call.status = "succeeded" /\ slot < Len(call.outcome) THEN call.outcome[slot + 1] ELSE "url"

\* A write that is left comes from the event its call is in.
RoWriteFits(w) ==
    LET call == roCalls[w.call]
    IN  /\ w.call \in DOMAIN roCalls /\ w.type = call.request.type
        /\ w.slot <= RoMaxItems /\ w.slot = RoSlot(w.metadata)
        /\ w.status = "pending" => call.status = "running" /\ w.slot < Len(call.request.prompts)
        /\ w.status = "error" =>
             w.slot = 0 /\ call.status \in {"running", "failed"} /\ Len(roTodo) = 1
        /\ w.status \in {"remote", "local"} =>
             call.status = "succeeded" /\ RoMade(call, w.slot) \in {"url", "two"}
        /\ w.status = "failed" => call.status = "succeeded"

\* The resource whose part comes next is the one of the write, and has left
\* its placeholder.
RoStepFits ==
    /\ roTodo = <<>> => roStep = 0
    /\ roStep # 0 =>
         LET row == roResources[roStep]
             w == roTodo[1]
         IN  /\ row.call = w.call /\ RoSlot(row) = w.slot
             /\ w.status # "pending" => row.status # "pending"
             /\ w.status = "error" => row.status = "failed"
    /\ roTodo # <<>> /\ roStep = 0 /\ roTodo[1].status = "error" =>
         roCalls[roTodo[1].call].status = "running"

\* A row follows the state of its call; one that still waits although its
\* call has succeeded has a write coming, unless its picture came inline.
RoRowFits(row) ==
    LET call == roCalls[row.call]
    IN  /\ row.call \in DOMAIN roCalls /\ row.type = call.request.type
        /\ call.status # "pending"
        /\ call.status = "running" => RoSlot(row) < Len(call.request.prompts)
        /\ row.status = "succeeded" =>
             call.status = "succeeded" /\ RoMade(call, RoSlot(row)) \in {"url", "two"}
        /\ row.status = "pending" =>
             \/ call.status = "running"
             \/ call.status = "failed" /\ RoSlot(row) > 0
             \/ /\ call.status = "succeeded"
                /\ \/ RoMade(call, RoSlot(row)) = "inline"
                   \/ \E i \in DOMAIN roTodo : roTodo[i].call = row.call /\ roTodo[i].slot = RoSlot(row)

\* A slot of a call has one row.
RoOneRow ==
    \A r, q \in DOMAIN roResources :
        roResources[r].call = roResources[q].call /\ RoSlot(roResources[r]) = RoSlot(roResources[q])
            => r = q

\* Part p shows row p, except the one that is written next.
RoPartsFit ==
    /\ \/ Len(roParts) = Len(roResources)
       \/ roStep = Len(roResources) /\ Len(roParts) + 1 = Len(roResources)
    /\ \A p \in DOMAIN roParts : p # roStep =>
         roParts[p] = [res |-> p, call |-> roResources[p].call, slot |-> RoSlot(roResources[p]),
                       state |-> roResources[p].status]
    /\ \A p \in DOMAIN roParts : roParts[p].res = p

RoLiveInv ==
    /\ \A i \in DOMAIN roTodo : RoWriteFits(roTodo[i])
    /\ RoStepFits
    /\ \A r \in DOMAIN roResources : RoRowFits(roResources[r])
    /\ RoOneRow
    /\ RoPartsFit

\* What is left when the run is over.
RoOver ==
    /\ roRun \in {"completed", "failed", "dead", "cleaned"} => roTodo = <<>> /\ roStep = 0
    /\ roRun = "completed" => roMessage = roParts
    /\ roRun = "cleaned" => \A r \in DOMAIN roResources : roResources[r].status # "pending"
    /\ \A p \in DOMAIN roParts : roParts[p].res \in DOMAIN roResources

RoIInv == RoShapes /\ (RoLive => RoLiveInv) /\ RoOver

-----------------------------------------------------------------------------
(* What the operators give.                                                *)

LEMMA RoFirstIs ==
    ASSUME NEW S \in SUBSET Nat, S # {}
    PROVE  RoFirst(S) \in S
BY LeastNatural DEF RoFirst

RoMakings == {"url", "two", "inline", "failed"}

LEMMA RoRequestIs ==
    ASSUME NEW request \in RoRequests
    PROVE  /\ request.type \in RoTypes /\ request.batch \in BOOLEAN
           /\ request.prompts \in Seq(RoPrompts)
           /\ DOMAIN request.prompts = 1..Len(request.prompts)
           /\ Len(request.prompts) \in 1..RoMaxItems /\ RoMaxItems \in Nat
           /\ ~request.batch => Len(request.prompts) = 1
           /\ request.batch => request.type = "image"
<1>1. /\ request \in [type : RoTypes, batch : BOOLEAN, prompts : Seq(STRING)]
      /\ Len(request.prompts) \in 1..RoMaxItems /\ RoMaxItems \in Nat
      /\ IF request.batch THEN request.type = "image" ELSE Len(request.prompts) = 1
  BY ResourceOutputAssumption DEF RoTypes
<1>2. /\ request.prompts \in Seq(STRING)
      /\ DOMAIN request.prompts = 1..Len(request.prompts) /\ Len(request.prompts) \in Nat
  BY <1>1
<1>3. \A i \in 1..Len(request.prompts) : request.prompts[i] \in RoPrompts
  BY <1>2 DEF RoPrompts, Range
<1>4. request.prompts \in Seq(RoPrompts)
  <2> DEFINE prompts == request.prompts
  <2>1. prompts = [i \in 1..Len(prompts) |-> prompts[i]]
    BY <1>2
  <2>2. \A i \in 1..Len(prompts) : prompts[i] \in RoPrompts
    BY <1>3
  <2>3. Len(prompts) \in Nat
    BY <1>2
  <2> HIDE DEF prompts
  <2>4. prompts \in [1..Len(prompts) -> RoPrompts]
    BY <2>1, <2>2
  <2> QED
    BY <2>3, <2>4 DEF prompts
<1> QED
  BY <1>1, <1>2, <1>4

LEMMA RoCallIs ==
    ASSUME RoShapes, NEW c \in DOMAIN roCalls
    PROVE  /\ c \in Nat /\ roCalls[c] \in RoCallRows
           /\ roCalls[c].request \in RoRequests
           /\ roCalls[c].status \in {"pending", "running", "succeeded", "failed"}
           /\ roCalls[c].outcome \in Seq(RoMakings)
<1>1. roCalls[c] \in RoCallRows /\ c \in Nat
  BY DEF RoShapes
<1> QED
  BY <1>1 DEF RoCallRows, RoUnsettled, RoMakings

LEMMA RoSlotIs ==
    ASSUME NEW row, row.index \in 0..RoUnmarked
    PROVE  RoSlot(row) \in 0..RoMaxItems
BY ResourceOutputAssumption DEF RoSlot, RoUnmarked

\* An outcome has an item per prompt of a batch, and otherwise one.
LEMMA RoOutcomeIs ==
    ASSUME NEW request \in RoRequests, NEW outcome \in RoOutcomes(request)
    PROVE  /\ outcome \in Seq(RoMakings) /\ DOMAIN outcome = 1..Len(outcome)
           /\ Len(outcome) = Len(request.prompts)
           /\ request.type # "image" => \A i \in DOMAIN outcome : outcome[i] = "url"
<1>1. RoItemOutcomes(request.type) \subseteq RoMakings
  BY DEF RoItemOutcomes, RoMakings
<1>2. CASE request.batch
  <2>1. outcome \in [1..Len(request.prompts) -> RoItemOutcomes(request.type)]
    BY <1>2, RoRequestIs DEF RoOutcomes
  <2>2. Len(request.prompts) \in Nat
    BY RoRequestIs
  <2>3. outcome \in [1..Len(request.prompts) -> RoMakings]
    BY <1>1, <2>1
  <2> QED
    BY <2>1, <2>2, <2>3 DEF RoItemOutcomes
<1>3. CASE ~request.batch
  <2>1. PICK o \in RoItemOutcomes(request.type) : outcome = <<o>>
    BY <1>3 DEF RoOutcomes
  <2>2. Len(request.prompts) = 1
    BY <1>3, RoRequestIs
  <2> QED
    BY <1>1, <2>1, <2>2 DEF RoItemOutcomes
<1> QED
  BY <1>2, <1>3, RoRequestIs

LEMMA RoFailedAssetsIs ==
    ASSUME NEW outcome \in Seq(RoMakings)
    PROVE  /\ RoFailedAssets(outcome) \in Seq(Nat)
           /\ Range(RoFailedAssets(outcome)) = {i - 1 : i \in {k \in DOMAIN outcome : outcome[k] = "failed"}}
<1> DEFINE parts == [i \in DOMAIN outcome |-> IF outcome[i] = "failed" THEN <<i - 1>> ELSE <<>>]
<1>1. Len(outcome) \in Nat /\ DOMAIN outcome = 1..Len(outcome)
  OBVIOUS
<1>2. \A i \in DOMAIN outcome : parts[i] \in Seq(Nat)
  BY <1>1
<1>3. parts \in Seq(Seq(Nat)) /\ Len(parts) = Len(outcome)
  BY <1>1, <1>2
<1>4. \A i \in DOMAIN outcome : Range(parts[i]) = IF outcome[i] = "failed" THEN {i - 1} ELSE {}
  BY <1>1 DEF Range
<1> HIDE DEF parts
<1>5. ListedIn(parts, Len(outcome)) = {i - 1 : i \in {k \in DOMAIN outcome : outcome[k] = "failed"}}
  BY <1>1, <1>4 DEF ListedIn
<1> QED
  BY <1>3, <1>5, FlattenSeqIs DEF RoFailedAssets, parts

LEMMA RoImageAssetsIs ==
    ASSUME NEW request \in RoRequests, NEW outcome \in RoOutcomes(request)
    PROVE  /\ RoImageAssets(request, outcome) \in Seq(Nat)
           /\ \A slot \in Range(RoImageAssets(request, outcome)) :
                /\ slot \in 0..RoMaxItems
                /\ request.batch => slot < Len(outcome)
                /\ slot < Len(outcome) => outcome[slot + 1] \in {"url", "two"}
           /\ \A i \in DOMAIN outcome : outcome[i] \in {"url", "two"} =>
                i - 1 \in Range(RoImageAssets(request, outcome))
<1> DEFINE part(i) == CASE outcome[i] = "url" -> <<i - 1>>
                        [] outcome[i] = "two" -> <<i - 1, IF request.batch THEN i - 1 ELSE i>>
                        [] OTHER -> <<>>
           parts == [i \in DOMAIN outcome |-> part(i)]
<1>1. /\ Len(outcome) \in Nat /\ DOMAIN outcome = 1..Len(outcome)
      /\ Len(outcome) \in 1..RoMaxItems /\ RoMaxItems \in Nat
      /\ ~request.batch => Len(outcome) = 1
      /\ request.batch \in BOOLEAN
  BY RoOutcomeIs, RoRequestIs
<1>2. ASSUME NEW i \in DOMAIN outcome
      PROVE  /\ part(i) \in Seq(Nat)
             /\ Range(part(i)) = CASE outcome[i] = "url" -> {i - 1}
                                   [] outcome[i] = "two" -> {i - 1, IF request.batch THEN i - 1 ELSE i}
                                   [] OTHER -> {}
  <2>1. i \in Nat /\ i - 1 \in Nat
    BY <1>1
  <2>2. CASE outcome[i] = "url"
    <3>1. part(i) = <<i - 1>>
      BY <2>2
    <3> HIDE DEF part
    <3> QED
      BY <2>1, <2>2, <3>1 DEF Range
  <2>3. CASE outcome[i] = "two"
    <3> DEFINE j == IF request.batch THEN i - 1 ELSE i
    <3>1. part(i) = <<i - 1, j>> /\ j \in Nat
      BY <2>1, <2>3
    <3> HIDE DEF part, j
    <3>2. Range(part(i)) = {i - 1, j}
      BY <2>1, <3>1 DEF Range
    <3> QED
      BY <2>1, <2>3, <3>1, <3>2 DEF j
  <2>4. CASE outcome[i] \notin {"url", "two"}
    <3>1. part(i) = <<>>
      BY <2>4
    <3> HIDE DEF part
    <3> QED
      BY <2>4, <3>1 DEF Range
  <2> QED
    BY <2>2, <2>3, <2>4
<1> HIDE DEF part
<1>3. parts \in Seq(Seq(Nat)) /\ Len(parts) = Len(outcome)
  BY <1>1, <1>2
<1>4. RoImageAssets(request, outcome) = FlattenSeq(parts)
  BY DEF RoImageAssets, part
<1>5. \A i \in DOMAIN outcome : parts[i] = part(i)
  OBVIOUS
<1> HIDE DEF parts
<1>6. /\ FlattenSeq(parts) \in Seq(Nat)
      /\ \A slot : slot \in Range(FlattenSeq(parts)) <=> \E i \in DOMAIN outcome : slot \in Range(part(i))
  <2>1. FlattenSeq(parts) \in Seq(Nat) /\ Range(FlattenSeq(parts)) = ListedIn(parts, Len(outcome))
    BY <1>3, FlattenSeqIs
  <2>2. \A slot : slot \in ListedIn(parts, Len(outcome)) <=> \E i \in DOMAIN outcome : slot \in Range(part(i))
    BY <1>1, <1>5 DEF ListedIn
  <2> QED
    BY <2>1, <2>2
<1>7. ASSUME NEW slot \in Range(FlattenSeq(parts))
      PROVE  /\ slot \in 0..RoMaxItems
             /\ request.batch => slot < Len(outcome)
             /\ slot < Len(outcome) => outcome[slot + 1] \in {"url", "two"}
  <2>1. PICK i \in DOMAIN outcome : slot \in Range(part(i))
    BY <1>6
  <2>2. outcome[i] \in {"url", "two"} /\ (slot = i - 1 \/ (slot = i /\ ~request.batch))
    BY <1>2, <2>1
  <2> QED
    BY <1>1, <2>2
<1>8. ASSUME NEW i \in DOMAIN outcome, outcome[i] \in {"url", "two"}
      PROVE  i - 1 \in Range(FlattenSeq(parts))
  BY <1>2, <1>6, <1>8
<1> QED
  BY <1>4, <1>6, <1>7, <1>8

\* A write of one of the projector's kinds is a write, for its own slot.
LEMMA RoWriteIs ==
    ASSUME RoShapes, NEW c \in DOMAIN roCalls, NEW slot \in 0..RoMaxItems,
           NEW status \in {"pending", "remote", "local", "error", "failed"},
           NEW metadata \in RoMetadata
    PROVE  LET w == RoWrite(c, slot, status, metadata)
           IN  /\ w \in RoWrites /\ w.type = roCalls[c].request.type /\ w.call = c
               /\ w.slot = slot /\ w.status = status /\ w.metadata = metadata
<1>1. roCalls[c].request \in RoRequests /\ c \in Nat
  BY RoCallIs
<1>2. roCalls[c].request.type \in RoTypes /\ slot \in Nat
  BY <1>1, RoRequestIs
<1> QED
  BY <1>1, <1>2 DEF RoWrite, RoWrites

LEMMA RoMetadataIs ==
    ASSUME NEW prompt \in RoPrompts, NEW slot \in 0..RoMaxItems, NEW marked \in BOOLEAN
    PROVE  /\ RoImageMetadata(prompt, slot, marked) \in RoMetadata
           /\ RoSlot(RoImageMetadata(prompt, slot, marked)) = IF marked THEN slot ELSE 0
           /\ RoVideoMetadata \in RoMetadata
           /\ RoSlot(RoVideoMetadata) = 0
           /\ RoDocumentMetadata(0) \in RoMetadata
           /\ RoSlot(RoDocumentMetadata(0)) = 0
<1>1. /\ RoUnmarked \in 0..RoUnmarked /\ slot \in 0..RoUnmarked /\ slot # RoUnmarked
      /\ 0 \in 0..RoUnmarked /\ RoNoPrompt \in RoPrompts
  BY ResourceOutputAssumption DEF RoUnmarked, RoPrompts
<1> QED
  BY <1>1 DEF RoMetadata, RoImageMetadata, RoVideoMetadata, RoDocumentMetadata, RoSlot

RoPlaceholdersOf(c) ==
    CASE roCalls[c].request.type = "image" -> RoImageSlots(c)
      [] roCalls[c].request.type = "video" -> RoVideoSlot(c)
      [] OTHER -> RoDocumentSlot(c)

LEMMA RoPlaceholdersFit ==
    ASSUME RoShapes, NEW c \in DOMAIN roCalls
    PROVE  /\ RoPlaceholdersOf(c) \in Seq(RoWrites)
           /\ \A i \in DOMAIN RoPlaceholdersOf(c) :
                LET w == RoPlaceholdersOf(c)[i]
                IN  /\ w.type = roCalls[c].request.type /\ w.call = c /\ w.status = "pending"
                    /\ w.slot < Len(roCalls[c].request.prompts)
                    /\ w.slot \in 0..RoMaxItems /\ w.slot = RoSlot(w.metadata)
<1> DEFINE request == roCalls[c].request
           Fits(w) == /\ w \in RoWrites /\ w.type = request.type /\ w.call = c /\ w.status = "pending"
                      /\ w.slot < Len(request.prompts)
                      /\ w.slot \in 0..RoMaxItems /\ w.slot = RoSlot(w.metadata)
<1>1. request \in RoRequests
  BY RoCallIs
<1> HIDE DEF request
<1>2. /\ request.batch \in BOOLEAN /\ request.prompts \in Seq(RoPrompts)
      /\ DOMAIN request.prompts = 1..Len(request.prompts)
      /\ Len(request.prompts) \in 1..RoMaxItems /\ RoMaxItems \in Nat
      /\ ~request.batch => Len(request.prompts) = 1
  BY <1>1, RoRequestIs
<1>3. CASE request.type = "image"
  <2> DEFINE w(i) == RoWrite(c, i - 1, "pending", RoImageMetadata(request.prompts[i], i - 1, request.batch))
  <2>1. RoPlaceholdersOf(c) = [i \in DOMAIN request.prompts |-> w(i)]
    BY <1>3 DEF RoPlaceholdersOf, RoImageSlots, request
  <2>2. ASSUME NEW i \in DOMAIN request.prompts PROVE Fits(w(i))
    <3>0. request.prompts[i] \in RoPrompts /\ i \in 1..Len(request.prompts)
      BY <1>2
    <3>1. /\ i - 1 \in 0..RoMaxItems /\ i - 1 < Len(request.prompts) /\ request.prompts[i] \in RoPrompts
          /\ ~request.batch => i - 1 = 0
      BY <1>2, <3>0
    <3> DEFINE metadata == RoImageMetadata(request.prompts[i], i - 1, request.batch)
    <3>2. metadata \in RoMetadata /\ RoSlot(metadata) = i - 1
      BY <1>2, <3>1, RoMetadataIs
    <3> HIDE DEF metadata
    <3> QED
      BY <3>1, <3>2, RoWriteIs DEF request, metadata
  <2> HIDE DEF w, Fits
  <2>3. /\ DOMAIN RoPlaceholdersOf(c) = 1..Len(request.prompts)
        /\ \A i \in DOMAIN RoPlaceholdersOf(c) : Fits(RoPlaceholdersOf(c)[i])
    BY <1>2, <2>1, <2>2
  <2>4. RoPlaceholdersOf(c) \in Seq(RoWrites)
    BY <1>2, <2>1, <2>2 DEF Fits
  <2> QED
    BY <2>3, <2>4 DEF Fits, request
<1>4. CASE request.type # "image"
  <2> DEFINE w == IF request.type = "video" THEN RoWrite(c, 0, "pending", RoVideoMetadata)
                  ELSE RoWrite(c, 0, "pending", RoDocumentMetadata(0))
  <2>1. RoPlaceholdersOf(c) = <<w>>
    BY <1>4 DEF RoPlaceholdersOf, RoVideoSlot, RoDocumentSlot, request
  <2>2. 0 \in 0..RoMaxItems /\ 0 < Len(request.prompts) /\ RoNoPrompt \in RoPrompts
    BY <1>2 DEF RoPrompts
  <2>3. /\ RoVideoMetadata \in RoMetadata /\ RoSlot(RoVideoMetadata) = 0
        /\ RoDocumentMetadata(0) \in RoMetadata
        /\ RoSlot(RoDocumentMetadata(0)) = 0
    BY <2>2, RoMetadataIs
  <2>4. Fits(w)
    BY <2>2, <2>3, RoWriteIs DEF request
  <2> HIDE DEF w
  <2> QED
    BY <2>1, <2>4 DEF request
<1> QED
  BY <1>3, <1>4

\* The writes of a result.
RoResultsOf(c, outcome) ==
    CASE roCalls[c].request.type = "image" -> RoImageWrites(c, outcome)
      [] roCalls[c].request.type = "video" -> RoVideoWrites(c)
      [] OTHER -> RoDocumentWrites(c)

\* What such a write is: its own call's, for an item that was made or failed.
RoResultFits(w, c, outcome) ==
    /\ w \in RoWrites /\ w.type = roCalls[c].request.type /\ w.call = c
    /\ w.status \in {"remote", "local", "failed"}
    /\ w.slot \in 0..RoMaxItems /\ w.slot = RoSlot(w.metadata)
    /\ w.status # "failed" /\ w.slot < Len(outcome) => outcome[w.slot + 1] \in {"url", "two"}

\* The writes of one kind for some slots, and slots that have the item for it.
RoWritesOf(c, slots, status) ==
    [i \in DOMAIN slots |->
        RoWrite(c, slots[i], status,
            RoImageMetadata(roCalls[c].request.prompts[IF roCalls[c].request.batch THEN slots[i] + 1 ELSE 1],
                            slots[i], slots[i] > 0))]

RoSlotsFit(c, outcome, slots, status) ==
    /\ slots \in Seq(Nat)
    /\ \A slot \in Range(slots) :
         /\ slot \in 0..RoMaxItems
         /\ roCalls[c].request.batch => slot < Len(roCalls[c].request.prompts)
         /\ status = "remote" /\ slot < Len(outcome) => outcome[slot + 1] \in {"url", "two"}

LEMMA RoWritesFor ==
    ASSUME RoShapes, NEW c \in DOMAIN roCalls,
           NEW outcome, NEW slots, NEW status \in {"remote", "failed"},
           RoSlotsFit(c, outcome, slots, status)
    PROVE  /\ RoWritesOf(c, slots, status) \in Seq(RoWrites)
           /\ \A w \in Range(RoWritesOf(c, slots, status)) : RoResultFits(w, c, outcome)
           /\ \A slot \in Range(slots) : \E w \in Range(RoWritesOf(c, slots, status)) : w.slot = slot
<1> DEFINE request == roCalls[c].request
           Prompt(slot) == request.prompts[IF request.batch THEN slot + 1 ELSE 1]
           Metadata(slot) == RoImageMetadata(Prompt(slot), slot, slot > 0)
           Write(slot) == RoWrite(c, slot, status, Metadata(slot))
           writes == RoWritesOf(c, slots, status)
<1>0. /\ slots \in Seq(Nat)
      /\ \A slot \in Range(slots) :
           /\ slot \in 0..RoMaxItems
           /\ request.batch => slot < Len(request.prompts)
           /\ status = "remote" /\ slot < Len(outcome) => outcome[slot + 1] \in {"url", "two"}
  BY DEF RoSlotsFit
<1>1. /\ request.batch \in BOOLEAN /\ request.prompts \in Seq(RoPrompts)
      /\ DOMAIN request.prompts = 1..Len(request.prompts)
      /\ Len(request.prompts) \in 1..RoMaxItems /\ RoMaxItems \in Nat
  BY RoCallIs, RoRequestIs
<1>2. /\ Len(slots) \in Nat /\ DOMAIN slots = 1..Len(slots)
      /\ \A i \in DOMAIN slots : slots[i] \in Range(slots)
      /\ Range(slots) = {slots[i] : i \in DOMAIN slots}
  BY <1>0 DEF Range
<1>3. ASSUME NEW slot \in Range(slots)
      PROVE  RoResultFits(Write(slot), c, outcome) /\ Write(slot).slot = slot
  <2>1. slot \in 0..RoMaxItems /\ slot \in Nat
    BY <1>0, <1>1
  <2>2. Prompt(slot) \in RoPrompts
    <3>1. (IF request.batch THEN slot + 1 ELSE 1) \in 1..Len(request.prompts)
      BY <1>0, <1>1, <2>1
    <3> HIDE DEF request
    <3> QED
      BY <1>1, <3>1
  <2>3. Metadata(slot) \in RoMetadata /\ RoSlot(Metadata(slot)) = slot
    <3> HIDE DEF Prompt
    <3>1. (slot > 0) \in BOOLEAN /\ (slot > 0 \/ slot = 0)
      BY <2>1
    <3> QED
      BY <2>1, <2>2, <3>1, RoMetadataIs
  <2> HIDE DEF Metadata
  <2>4. LET w == Write(slot)
        IN  /\ w \in RoWrites /\ w.type = request.type /\ w.call = c
            /\ w.slot = slot /\ w.status = status /\ w.metadata = Metadata(slot)
    BY <2>1, <2>3, RoWriteIs
  <2> HIDE DEF Write
  <2> QED
    BY <1>0, <2>1, <2>3, <2>4 DEF RoResultFits
<1>4. writes = [i \in DOMAIN slots |-> Write(slots[i])]
  BY DEF RoWritesOf
<1> HIDE DEF Write, request, writes
<1>5. \A slot \in Range(slots) : Write(slot) \in RoWrites
  BY <1>3 DEF RoResultFits
<1>6. writes \in Seq(RoWrites)
  BY <1>2, <1>4, <1>5
<1>7. DOMAIN writes = DOMAIN slots /\ \A i \in DOMAIN slots : writes[i] = Write(slots[i])
  BY <1>4
<1>8. \A w \in Range(writes) : \E slot \in Range(slots) : w = Write(slot)
  BY <1>2, <1>7 DEF Range
<1>9. \A slot \in Range(slots) : Write(slot) \in Range(writes)
  BY <1>2, <1>7 DEF Range
<1> QED
  BY <1>3, <1>6, <1>8, <1>9 DEF writes

LEMMA RoResultsFit ==
    ASSUME RoShapes, NEW c \in DOMAIN roCalls,
           NEW outcome \in RoOutcomes(roCalls[c].request)
    PROVE  /\ RoResultsOf(c, outcome) \in Seq(RoWrites)
           /\ \A w \in Range(RoResultsOf(c, outcome)) : RoResultFits(w, c, outcome)
           /\ \A i \in DOMAIN outcome : outcome[i] = "inline" \/
                \E w \in Range(RoResultsOf(c, outcome)) : w.slot = i - 1
<1> DEFINE request == roCalls[c].request
<1>1. request \in RoRequests
  BY RoCallIs
<1>2. /\ request.batch \in BOOLEAN
      /\ Len(request.prompts) \in 1..RoMaxItems /\ RoMaxItems \in Nat
      /\ ~request.batch => Len(request.prompts) = 1
      /\ request.batch => request.type = "image"
  BY <1>1, RoRequestIs
<1>3. /\ outcome \in Seq(RoMakings) /\ DOMAIN outcome = 1..Len(outcome)
      /\ Len(outcome) = Len(request.prompts)
      /\ request.type # "image" => \A i \in DOMAIN outcome : outcome[i] = "url"
  BY <1>1, RoOutcomeIs
<1>4. CASE request.type = "image"
  <2> DEFINE bad == RoFailedAssets(outcome)
             good == RoImageAssets(request, outcome)
             first == RoWritesOf(c, bad, "failed")
             second == RoWritesOf(c, good, "remote")
  <2>1. RoResultsOf(c, outcome) = first \o second
    BY <1>4 DEF RoResultsOf, RoImageWrites, RoWritesOf
  <2> HIDE DEF request
  <2>2. /\ bad \in Seq(Nat)
        /\ Range(bad) = {i - 1 : i \in {k \in DOMAIN outcome : outcome[k] = "failed"}}
    BY <1>3, RoFailedAssetsIs
  <2>3. /\ good \in Seq(Nat)
        /\ \A slot \in Range(good) :
             /\ slot \in 0..RoMaxItems
             /\ request.batch => slot < Len(outcome)
             /\ slot < Len(outcome) => outcome[slot + 1] \in {"url", "two"}
        /\ \A i \in DOMAIN outcome : outcome[i] \in {"url", "two"} => i - 1 \in Range(good)
    BY <1>1, RoImageAssetsIs DEF request
  <2> HIDE DEF bad, good
  <2>4. /\ first \in Seq(RoWrites)
        /\ \A w \in Range(first) : RoResultFits(w, c, outcome)
        /\ \A slot \in Range(bad) : \E w \in Range(first) : w.slot = slot
    <3>1. \A slot \in Range(bad) : slot \in 0..RoMaxItems /\ slot < Len(request.prompts)
      BY <1>2, <1>3, <2>2
    <3>2. RoSlotsFit(c, outcome, bad, "failed")
      BY <2>2, <3>1 DEF RoSlotsFit, request
    <3> QED
      BY <3>2, RoWritesFor
  <2>5. /\ second \in Seq(RoWrites)
        /\ \A w \in Range(second) : RoResultFits(w, c, outcome)
        /\ \A slot \in Range(good) : \E w \in Range(second) : w.slot = slot
    <3>0. \A slot \in Range(good) :
             /\ slot \in 0..RoMaxItems
             /\ request.batch => slot < Len(request.prompts)
             /\ slot < Len(outcome) => outcome[slot + 1] \in {"url", "two"}
      BY <1>3, <2>3
    <3>1. RoSlotsFit(c, outcome, good, "remote")
      BY <2>3, <3>0 DEF RoSlotsFit, request
    <3> QED
      BY <3>1, RoWritesFor
  <2> HIDE DEF first, second
  <2>6. first \o second \in Seq(RoWrites) /\ Range(first \o second) = Range(first) \cup Range(second)
    BY <2>4, <2>5, ConcatElements
  <2>7. \A i \in DOMAIN outcome : outcome[i] \in RoMakings
    BY <1>3
  <2>8. ASSUME NEW i \in DOMAIN outcome, outcome[i] # "inline"
        PROVE  \E w \in Range(first) \cup Range(second) : w.slot = i - 1
    <3>1. i - 1 \in Range(bad) \/ i - 1 \in Range(good)
      BY <2>2, <2>3, <2>7, <2>8 DEF RoMakings
    <3> QED
      BY <2>4, <2>5, <3>1
  <2> QED
    BY <2>1, <2>4, <2>5, <2>6, <2>8
<1>5. CASE request.type # "image"
  <2> DEFINE w == IF request.type = "video" THEN RoWrite(c, 0, "remote", RoVideoMetadata)
                  ELSE RoWrite(c, 0, "local", RoDocumentMetadata(0))
  <2>1. RoResultsOf(c, outcome) = <<w>>
    BY <1>5 DEF RoResultsOf, RoVideoWrites, RoDocumentWrites
  <2>2. 0 \in 0..RoMaxItems /\ RoNoPrompt \in RoPrompts
    BY <1>2 DEF RoPrompts
  <2>3. /\ RoVideoMetadata \in RoMetadata /\ RoSlot(RoVideoMetadata) = 0
        /\ RoDocumentMetadata(0) \in RoMetadata /\ RoSlot(RoDocumentMetadata(0)) = 0
    BY <2>2, RoMetadataIs
  <2>4. /\ w \in RoWrites /\ w.type = request.type /\ w.call = c
        /\ w.slot = 0 /\ w.status \in {"remote", "local"} /\ RoSlot(w.metadata) = 0
    BY <2>2, <2>3, RoWriteIs
  <2> HIDE DEF w
  <2>5. DOMAIN outcome = {1} /\ Len(outcome) = 1 /\ outcome[1] = "url"
    <3>1. Len(outcome) = 1 /\ 1..1 = {1}
      BY <1>2, <1>3, <1>5
    <3> QED
      BY <1>3, <1>5, <3>1
  <2>6. RoResultFits(w, c, outcome)
    BY <2>2, <2>4, <2>5 DEF RoResultFits
  <2>7. Range(<<w>>) = {w}
    BY DEF Range
  <2> QED
    BY <2>1, <2>4, <2>5, <2>6, <2>7
<1> QED
  BY <1>4, <1>5

-----------------------------------------------------------------------------
(* One lemma per action.                                                   *)

\* What updateToolCall leaves alone.
LEMMA RoUpdateCallIs ==
    ASSUME RoShapes, NEW c \in DOMAIN roCalls,
           NEW status \in RoUnsettled \cup {"succeeded", "failed"}, RoUpdateCall(c, status)
    PROVE  /\ roCalls' \in Seq(RoCallRows) /\ Len(roCalls') = Len(roCalls)
           /\ DOMAIN roCalls' = DOMAIN roCalls
           /\ roCalls'[c].status = status
           /\ \A d \in DOMAIN roCalls :
                /\ roCalls'[d].request = roCalls[d].request
                /\ roCalls'[d].outcome = roCalls[d].outcome
                /\ d # c => roCalls'[d] = roCalls[d]
<1>1. roCalls \in Seq(RoCallRows) /\ roCalls[c] \in RoCallRows
  BY RoCallIs DEF RoShapes
<1> DEFINE row == [roCalls[c] EXCEPT !.status = status]
<1>2. /\ row \in RoCallRows /\ row.status = status /\ row.request = roCalls[c].request
      /\ row.outcome = roCalls[c].outcome
  BY <1>1 DEF RoCallRows
<1>3. roCalls' = [roCalls EXCEPT ![c] = row]
  BY DEF RoUpdateCall
<1> HIDE DEF row
<1> QED
  BY <1>1, <1>2, <1>3

\* A row of a message whose projector lives is for a call of the message.
LEMMA RoCallReadyStep ==
    ASSUME RoIInv, NEW request \in RoRequests, RoCallReady(request)
    PROVE  RoIInv'
<1> DEFINE call == [status |-> "pending", request |-> request, outcome |-> <<>>]
<1>1. /\ roRun = "running" /\ roTodo = <<>> /\ Len(roCalls) < RoMaxCalls
      /\ roCalls' = Append(roCalls, call)
      /\ UNCHANGED <<roRun, roResources, roParts, roMessage, roTodo, roStep>>
  BY DEF RoCallReady, RoCreateCall
<1>2. RoShapes /\ RoLive /\ RoLiveInv /\ RoOver
  BY <1>1 DEF RoIInv, RoLive
<1>3. call \in RoCallRows
  BY DEF RoCallRows, RoUnsettled
<1> HIDE DEF call
<1>4. /\ roCalls' \in Seq(RoCallRows) /\ Len(roCalls') = Len(roCalls) + 1
      /\ \A c \in DOMAIN roCalls : c \in DOMAIN roCalls' /\ roCalls'[c] = roCalls[c]
  BY <1>1, <1>2, <1>3 DEF RoShapes
<1>5. Len(roCalls') <= RoMaxCalls
  BY <1>1, <1>2, <1>4, ResourceOutputAssumption DEF RoShapes
<1>6. RoShapes'
  BY <1>1, <1>2, <1>4, <1>5 DEF RoShapes
<1>7. RoLiveInv'
  <2>1. roStep = 0
    BY <1>1, <1>2 DEF RoLiveInv, RoStepFits
  <2>2. (\A i \in DOMAIN roTodo : RoWriteFits(roTodo[i]))' /\ RoStepFits'
    BY <1>1, <2>1 DEF RoStepFits
  <2>3. ASSUME NEW r \in DOMAIN roResources
        PROVE  RoRowFits(roResources[r])'
    <3>1. RoRowFits(roResources[r]) /\ roResources'[r] = roResources[r] /\ roTodo' = roTodo
      BY <1>1, <1>2 DEF RoLiveInv
    <3> QED
      BY <1>4, <3>1 DEF RoRowFits
  <2>4. RoOneRow' /\ RoPartsFit'
    BY <1>1, <1>2 DEF RoLiveInv, RoOneRow, RoPartsFit
  <2> QED
    BY <1>1, <2>2, <2>3, <2>4 DEF RoLiveInv
<1>8. RoOver'
  BY <1>1, <1>2 DEF RoOver
<1> QED
  BY <1>6, <1>7, <1>8 DEF RoIInv

LEMMA RoToolStartStep ==
    ASSUME RoIInv, NEW c \in DOMAIN roCalls, RoToolStart(c)
    PROVE  RoIInv'
<1>1. /\ roRun = "running" /\ roTodo = <<>> /\ roCalls[c].status = "pending"
      /\ RoUpdateCall(c, "running") /\ roTodo' = RoPlaceholdersOf(c)
      /\ UNCHANGED <<roRun, roResources, roParts, roMessage, roStep>>
  BY DEF RoToolStart, RoPlaceholdersOf
<1>2. RoShapes /\ RoLive /\ RoLiveInv /\ RoOver
  BY <1>1 DEF RoIInv, RoLive
<1>3. /\ roCalls' \in Seq(RoCallRows) /\ Len(roCalls') = Len(roCalls)
      /\ DOMAIN roCalls' = DOMAIN roCalls
      /\ roCalls'[c].status = "running" /\ roCalls'[c].request = roCalls[c].request
      /\ \A d \in DOMAIN roCalls : d # c => roCalls'[d] = roCalls[d]
  BY <1>1, <1>2, RoUpdateCallIs DEF RoUnsettled
<1>4. /\ roTodo' \in Seq(RoWrites)
      /\ \A i \in DOMAIN roTodo' :
           LET w == roTodo'[i]
           IN  /\ w.type = roCalls[c].request.type /\ w.call = c /\ w.status = "pending"
               /\ w.slot < Len(roCalls[c].request.prompts)
               /\ w.slot \in 0..RoMaxItems /\ w.slot = RoSlot(w.metadata)
  BY <1>1, <1>2, RoPlaceholdersFit
<1>5. RoShapes'
  BY <1>1, <1>2, <1>3, <1>4 DEF RoShapes
<1>6. RoLiveInv'
  <2>1. roStep = 0 /\ roStep' = 0
    BY <1>1, <1>2 DEF RoLiveInv, RoStepFits
  <2>2. ASSUME NEW i \in DOMAIN roTodo'
        PROVE  RoWriteFits(roTodo[i])'
    <3> DEFINE w == roTodo'[i]
    <3>1. /\ w.type = roCalls[c].request.type /\ w.call = c /\ w.status = "pending"
          /\ w.slot < Len(roCalls[c].request.prompts)
          /\ w.slot \in 0..RoMaxItems /\ w.slot = RoSlot(w.metadata)
      BY <1>4
    <3> HIDE DEF w
    <3>2. w.slot <= RoMaxItems
      BY <3>1
    <3> QED
      BY <1>3, <3>1, <3>2 DEF RoWriteFits, w
  <2>3. RoStepFits'
    <3>1. roTodo' # <<>> => roTodo'[1].status = "pending"
      BY <1>4
    <3> QED
      BY <2>1, <3>1 DEF RoStepFits
  <2>4. ASSUME NEW r \in DOMAIN roResources
        PROVE  RoRowFits(roResources[r])'
    <3>1. RoRowFits(roResources[r]) /\ roResources'[r] = roResources[r] /\ roTodo = <<>>
      BY <1>1, <1>2 DEF RoLiveInv
    <3>2. roResources[r].call # c /\ roCalls'[roResources[r].call] = roCalls[roResources[r].call]
      BY <1>1, <1>3, <3>1 DEF RoRowFits
    <3> QED
      BY <1>3, <3>1, <3>2 DEF RoRowFits
  <2>5. RoOneRow' /\ RoPartsFit'
    BY <1>1, <1>2 DEF RoLiveInv, RoOneRow, RoPartsFit
  <2> QED
    BY <1>1, <2>2, <2>3, <2>4, <2>5 DEF RoLiveInv
<1>7. RoOver'
  BY <1>1, <1>2 DEF RoOver
<1> QED
  BY <1>5, <1>6, <1>7 DEF RoIInv

LEMMA RoToolResultStep ==
    ASSUME RoIInv, NEW c \in DOMAIN roCalls,
           NEW outcome \in RoOutcomes(roCalls[c].request), RoToolResult(c, outcome)
    PROVE  RoIInv'
<1> DEFINE call == [roCalls[c] EXCEPT !.status = "succeeded", !.outcome = outcome]
<1>1. /\ roRun = "running" /\ roTodo = <<>> /\ roCalls[c].status = "running"
      /\ roCalls' = [roCalls EXCEPT ![c] = call]
      /\ roTodo' = RoResultsOf(c, outcome)
      /\ UNCHANGED <<roRun, roResources, roParts, roMessage, roStep>>
  BY DEF RoToolResult, RoResultsOf
<1>2. RoShapes /\ RoLive /\ RoLiveInv /\ RoOver
  BY <1>1 DEF RoIInv, RoLive
<1>3. /\ roCalls[c] \in RoCallRows /\ roCalls[c].request \in RoRequests /\ c \in Nat
      /\ outcome \in Seq(RoMakings) /\ DOMAIN outcome = 1..Len(outcome)
      /\ Len(outcome) = Len(roCalls[c].request.prompts)
  BY <1>2, RoCallIs, RoOutcomeIs
<1>4. /\ call \in RoCallRows /\ call.status = "succeeded" /\ call.outcome = outcome
      /\ call.request = roCalls[c].request
  BY <1>3 DEF RoCallRows, RoMakings
<1> HIDE DEF call
<1>5. /\ roCalls' \in Seq(RoCallRows) /\ Len(roCalls') = Len(roCalls)
      /\ DOMAIN roCalls' = DOMAIN roCalls
      /\ roCalls'[c] = call
      /\ \A d \in DOMAIN roCalls : d # c => roCalls'[d] = roCalls[d]
  BY <1>1, <1>2, <1>4 DEF RoShapes
<1>6. /\ roTodo' \in Seq(RoWrites)
      /\ \A w \in Range(roTodo') : RoResultFits(w, c, outcome)
      /\ \A i \in DOMAIN outcome : outcome[i] = "inline" \/
           \E w \in Range(roTodo') : w.slot = i - 1
  BY <1>1, <1>2, RoResultsFit
<1>7. RoShapes'
  BY <1>1, <1>2, <1>5, <1>6 DEF RoShapes
<1>8. RoLiveInv'
  <2>1. roStep = 0 /\ roStep' = 0
    BY <1>1, <1>2 DEF RoLiveInv, RoStepFits
  <2>2. ASSUME NEW i \in DOMAIN roTodo'
        PROVE  RoWriteFits(roTodo[i])' /\ roTodo'[i].call = c /\ roTodo'[i].status # "error"
    <3> DEFINE w == roTodo'[i]
    <3>1. RoResultFits(w, c, outcome)
      BY <1>6 DEF Range
    <3> HIDE DEF w
    <3>2. /\ w.type = call.request.type /\ w.call = c
          /\ w.status \in {"remote", "local", "failed"}
          /\ w.slot <= RoMaxItems /\ w.slot = RoSlot(w.metadata)
      BY <1>4, <3>1 DEF RoResultFits
    <3>3. w.status # "failed" => RoMade(call, w.slot) \in {"url", "two"}
      BY <1>4, <3>1 DEF RoResultFits, RoMade
    <3>4. call.status = "succeeded" /\ roCalls'[c] = call /\ c \in DOMAIN roCalls'
      BY <1>4, <1>5
    <3> QED
      BY <3>2, <3>3, <3>4 DEF RoWriteFits, w
  <2>3. RoStepFits'
    <3>1. roTodo' # <<>> => roTodo'[1].status # "error"
      BY <1>6, <2>2
    <3> QED
      BY <2>1, <3>1 DEF RoStepFits
  <2>4. ASSUME NEW r \in DOMAIN roResources
        PROVE  RoRowFits(roResources[r])'
    <3> DEFINE row == roResources[r]
    <3>1. RoRowFits(row) /\ roResources'[r] = row /\ roTodo = <<>>
      BY <1>1, <1>2 DEF RoLiveInv
    <3>2. CASE row.call # c
      <4> HIDE DEF row
      <4>1. roCalls'[row.call] = roCalls[row.call] /\ row.call \in DOMAIN roCalls'
        BY <1>5, <3>1, <3>2 DEF RoRowFits
      <4> QED
        BY <3>1, <4>1 DEF RoRowFits
    <3>3. CASE row.call = c
      <4>1. RoSlot(row) \in 0..RoMaxItems
        <5>1. row \in RoRows
          BY <1>2 DEF RoShapes
        <5>2. row.index \in 0..RoUnmarked
          BY <5>1 DEF RoRows
        <5> QED
          BY <5>2, RoSlotIs
      <4> HIDE DEF row
      <4>2. /\ row.type = call.request.type /\ row.status # "succeeded"
            /\ RoSlot(row) < Len(outcome)
        BY <1>1, <1>3, <1>4, <3>1, <3>3 DEF RoRowFits
      <4>3. RoMade(call, RoSlot(row)) = outcome[RoSlot(row) + 1]
        BY <1>4, <4>2 DEF RoMade
      <4>4. RoMade(call, RoSlot(row)) = "inline" \/
              \E i \in DOMAIN roTodo' : roTodo'[i].call = row.call /\ roTodo'[i].slot = RoSlot(row)
        <5>1. RoSlot(row) + 1 \in DOMAIN outcome /\ (RoSlot(row) + 1) - 1 = RoSlot(row)
          BY <1>3, <4>1, <4>2, ResourceOutputAssumption
        <5>2. outcome[RoSlot(row) + 1] = "inline" \/ \E w \in Range(roTodo') : w.slot = RoSlot(row)
          BY <1>6, <5>1
        <5> QED
          BY <2>2, <3>3, <4>3, <5>2 DEF Range
      <4>5. roCalls'[row.call] = call /\ row.call \in DOMAIN roCalls' /\ call.status = "succeeded"
        BY <1>4, <1>5, <3>3
      <4> QED
        BY <3>1, <4>2, <4>4, <4>5 DEF RoRowFits
    <3> QED
      BY <3>2, <3>3
  <2>5. RoOneRow' /\ RoPartsFit'
    BY <1>1, <1>2 DEF RoLiveInv, RoOneRow, RoPartsFit
  <2> QED
    BY <1>1, <2>2, <2>3, <2>4, <2>5 DEF RoLiveInv
<1>9. RoOver'
  BY <1>1, <1>2 DEF RoOver
<1> QED
  BY <1>7, <1>8, <1>9 DEF RoIInv

LEMMA RoToolErrorStep ==
    ASSUME RoIInv, NEW c \in DOMAIN roCalls, RoToolError(c)
    PROVE  RoIInv'
<1> DEFINE request == roCalls[c].request
           prompt == IF request.batch THEN RoNoPrompt ELSE request.prompts[1]
           metadata == CASE request.type = "image" -> RoImageMetadata(prompt, 0, FALSE)
                         [] request.type = "video" -> RoVideoMetadata
                         [] OTHER -> RoDocumentMetadata(0)
           w == RoWrite(c, 0, "error", metadata)
<1>1. /\ roRun = "running" /\ roTodo = <<>> /\ roCalls[c].status = "running"
      /\ roTodo' = <<w>>
      /\ UNCHANGED <<roRun, roCalls, roResources, roParts, roMessage, roStep>>
  BY DEF RoToolError
<1>2. RoShapes /\ RoLive /\ RoLiveInv /\ RoOver
  BY <1>1 DEF RoIInv, RoLive
<1>3. request \in RoRequests
  BY <1>2, RoCallIs
<1>4. prompt \in RoPrompts
  <2>1. /\ request.prompts \in Seq(RoPrompts) /\ Len(request.prompts) \in 1..RoMaxItems
        /\ DOMAIN request.prompts = 1..Len(request.prompts) /\ RoMaxItems \in Nat
    BY <1>3, RoRequestIs
  <2> HIDE DEF request
  <2>2. request.prompts[1] \in RoPrompts
    BY <2>1
  <2> QED
    BY <2>2 DEF RoPrompts
<1> HIDE DEF prompt
<1>5. metadata \in RoMetadata /\ RoSlot(metadata) = 0
  <2>1. 0 \in 0..RoMaxItems /\ FALSE \in BOOLEAN
    BY ResourceOutputAssumption
  <2>2. /\ RoImageMetadata(prompt, 0, FALSE) \in RoMetadata /\ RoSlot(RoImageMetadata(prompt, 0, FALSE)) = 0
        /\ RoVideoMetadata \in RoMetadata /\ RoSlot(RoVideoMetadata) = 0
        /\ RoDocumentMetadata(0) \in RoMetadata /\ RoSlot(RoDocumentMetadata(0)) = 0
    BY <1>4, <2>1, RoMetadataIs
  <2> QED
    BY <2>2
<1> HIDE DEF metadata
<1>6. /\ w \in RoWrites /\ w.type = request.type /\ w.call = c
      /\ w.slot = 0 /\ w.status = "error" /\ w.metadata = metadata
  <2>1. 0 \in 0..RoMaxItems
    BY ResourceOutputAssumption
  <2> QED
    BY <1>2, <1>5, <2>1, RoWriteIs
<1> HIDE DEF w, request
<1>7. RoShapes'
  BY <1>1, <1>2, <1>6 DEF RoShapes
<1>8. RoLiveInv'
  <2>1. roStep = 0 /\ roStep' = 0
    BY <1>1, <1>2 DEF RoLiveInv, RoStepFits
  <2>2. ASSUME NEW i \in DOMAIN roTodo'
        PROVE  RoWriteFits(roTodo[i])'
    <3>1. roTodo'[i] = w /\ Len(roTodo') = 1 /\ 0 <= RoMaxItems
      BY <1>1, ResourceOutputAssumption
    <3> QED
      BY <1>1, <1>5, <1>6, <3>1 DEF RoWriteFits, request
  <2>3. RoStepFits'
    BY <1>1, <1>6, <2>1 DEF RoStepFits
  <2>4. ASSUME NEW r \in DOMAIN roResources
        PROVE  RoRowFits(roResources[r])'
    <3>1. RoRowFits(roResources[r]) /\ roResources'[r] = roResources[r] /\ roTodo = <<>> /\ roCalls' = roCalls
      BY <1>1, <1>2 DEF RoLiveInv
    <3> QED
      BY <3>1 DEF RoRowFits
  <2>5. RoOneRow' /\ RoPartsFit'
    BY <1>1, <1>2 DEF RoLiveInv, RoOneRow, RoPartsFit
  <2> QED
    BY <1>1, <2>2, <2>3, <2>4, <2>5 DEF RoLiveInv
<1>9. RoOver'
  BY <1>1, <1>2 DEF RoOver
<1> QED
  BY <1>7, <1>8, <1>9 DEF RoIInv

\* What the write that comes next is, while the projector works.
LEMMA RoHeadIs ==
    ASSUME RoIInv, roTodo # <<>>
    PROVE  /\ RoShapes /\ RoLive /\ RoLiveInv
           /\ Head(roTodo) = roTodo[1] /\ 1 \in DOMAIN roTodo
           /\ Head(roTodo) \in RoWrites /\ RoWriteFits(Head(roTodo))
<1>1. RoShapes /\ RoOver
  BY DEF RoIInv
<1>2. RoLive /\ RoLiveInv
  BY <1>1 DEF RoIInv, RoLive, RoOver
<1>3. Head(roTodo) = roTodo[1] /\ 1 \in DOMAIN roTodo /\ Head(roTodo) \in RoWrites
  BY <1>1 DEF RoShapes
<1> QED
  BY <1>1, <1>2, <1>3 DEF RoLiveInv

LEMMA RoRowIs ==
    ASSUME RoShapes, NEW r \in DOMAIN roResources
    PROVE  /\ r \in Nat /\ roResources[r] \in RoRows /\ roResources[r].call \in Nat
           /\ roResources[r].index \in 0..RoUnmarked
           /\ roResources[r].status \in {"pending", "succeeded", "failed"}
           /\ roResources[r].url \in BOOLEAN
           /\ RoSlot(roResources[r]) \in 0..RoMaxItems
<1>1. roResources[r] \in RoRows /\ r \in Nat
  BY DEF RoShapes
<1>2. /\ roResources[r].index \in 0..RoUnmarked /\ roResources[r].call \in Nat
      /\ roResources[r].status \in {"pending", "succeeded", "failed"}
      /\ roResources[r].url \in BOOLEAN
  BY <1>1 DEF RoRows
<1> QED
  BY <1>1, <1>2, RoSlotIs

\* The resources that are found for a write are those of its slot.
LEMMA RoOwnIs ==
    ASSUME RoShapes, RoLiveInv, NEW w \in RoWrites, RoWriteFits(w)
    PROVE  RoOwnResources(w) =
             {r \in DOMAIN roResources : roResources[r].call = w.call /\ RoSlot(roResources[r]) = w.slot}
<1> DEFINE own == {r \in DOMAIN roResources : roResources[r].type = w.type /\ roResources[r].call = w.call}
           exact == {r \in own : roResources[r].index = w.slot}
           unmarked == {r \in own : roResources[r].index = RoUnmarked}
           same == {r \in DOMAIN roResources : roResources[r].call = w.call /\ RoSlot(roResources[r]) = w.slot}
<1>1. w.slot \in Nat /\ w.slot <= RoMaxItems /\ w.slot # RoUnmarked /\ w.type = roCalls[w.call].request.type
  BY ResourceOutputAssumption DEF RoWrites, RoWriteFits, RoUnmarked
<1>2. own = {r \in DOMAIN roResources : roResources[r].call = w.call}
  <2>1. \A r \in DOMAIN roResources : roResources[r].type = roCalls[roResources[r].call].request.type
    BY DEF RoLiveInv, RoRowFits
  <2> QED
    BY <1>1, <2>1
<1>3. exact \subseteq same /\ unmarked \subseteq {r \in DOMAIN roResources : RoSlot(roResources[r]) = 0}
  BY <1>1, <1>2 DEF RoSlot
<1>4. \A r \in same : r \in exact \/ (r \in unmarked /\ w.slot = 0)
  BY <1>1, <1>2 DEF RoSlot
<1>5. \A r, q \in same : r = q
  BY DEF RoLiveInv, RoOneRow
<1>6. unmarked \subseteq {r \in DOMAIN roResources : roResources[r].call = w.call}
  BY <1>2
<1>7. RoOwnResources(w) = IF exact # {} \/ w.slot > 0 THEN exact ELSE unmarked
  BY DEF RoOwnResources
<1>8. w.slot = 0 => unmarked \subseteq same
  BY <1>3, <1>6
<1> HIDE DEF own, exact, unmarked, same
<1>9. RoOwnResources(w) = same
  BY <1>1, <1>3, <1>4, <1>5, <1>7, <1>8
<1> QED
  BY <1>9 DEF same

\* The status a write may give.
LEMMA RoStatusIs ==
    ASSUME NEW w, w.status \in {"pending", "remote", "local", "error", "failed"},
           NEW status \in RoWriteStatuses(w)
    PROVE  /\ status \in {"pending", "succeeded", "failed"}
           /\ status = "pending" => w.status = "pending"
           /\ status = "succeeded" => w.status \in {"remote", "local"}
           /\ w.status = "error" => status = "failed"
<1>1. CASE w.status = "remote"
  <2>1. RoWriteStatuses(w) \subseteq {"succeeded", "failed"}
    BY <1>1 DEF RoWriteStatuses, RoStoreRemote
  <2> QED
    BY <1>1, <2>1
<1>2. CASE w.status = "local"
  <2>1. RoWriteStatuses(w) \subseteq {"succeeded", "failed"}
    BY <1>2 DEF RoWriteStatuses, RoStoreGenerated, RoStoreStream
  <2> QED
    BY <1>2, <2>1
<1>3. CASE w.status \in {"pending", "error", "failed"}
  BY <1>3 DEF RoWriteStatuses
<1> QED
  BY <1>1, <1>2, <1>3

LEMMA RoUpsertResourceStep ==
    ASSUME RoIInv, RoUpsertResource
    PROVE  RoIInv'
<1> DEFINE w == Head(roTodo)
           found == IF RoOwnResources(w) # {} THEN RoOwnResources(w) ELSE RoReusable(w)
           q == IF found = {} THEN Len(roResources) + 1 ELSE RoFirst(found)
<1>1. /\ roTodo # <<>> /\ roStep = 0
      /\ UNCHANGED <<roRun, roCalls, roParts, roMessage, roTodo>>
  BY DEF RoUpsertResource
<1>2. PICK status \in RoWriteStatuses(w) :
        IF found = {}
        THEN roResources' = Append(roResources, RoCreateResource(w, status)) /\ roStep' = Len(roResources) + 1
        ELSE /\ roResources' = [roResources EXCEPT ![RoFirst(found)] = RoUpdateResource(@, w, status)]
             /\ roStep' = RoFirst(found)
  BY DEF RoUpsertResource
<1>3. /\ RoShapes /\ RoLive /\ RoLiveInv /\ w = roTodo[1] /\ 1 \in DOMAIN roTodo
      /\ w \in RoWrites /\ RoWriteFits(w)
  BY <1>1, RoHeadIs
<1>4. RoOwnResources(w) =
        {r \in DOMAIN roResources : roResources[r].call = w.call /\ RoSlot(roResources[r]) = w.slot}
  BY <1>3, RoOwnIs
<1>5. found \subseteq DOMAIN roResources
  BY <1>4 DEF RoReusable
<1>6. found # {} => RoFirst(found) \in DOMAIN roResources /\ RoFirst(found) \in found
  <2>1. found \in SUBSET Nat
    BY <1>3, <1>5, RoRowIs
  <2> HIDE DEF found
  <2> QED
    BY <1>5, <2>1, RoFirstIs
<1>7. /\ w.type \in RoTypes /\ w.call \in Nat /\ w.slot \in Nat /\ w.metadata \in RoMetadata
      /\ w.status \in {"pending", "remote", "local", "error", "failed"}
  BY <1>3 DEF RoWrites
<1>8. /\ status \in {"pending", "succeeded", "failed"}
      /\ status = "pending" => w.status = "pending"
      /\ status = "succeeded" => w.status \in {"remote", "local"}
      /\ w.status = "error" => status = "failed"
  BY <1>2, <1>7, RoStatusIs
<1> DEFINE row == IF found = {} THEN RoCreateResource(w, status)
                  ELSE RoUpdateResource(roResources[RoFirst(found)], w, status)
<1>9. /\ row \in RoRows /\ row.type = w.type /\ row.call = w.call /\ row.index = w.metadata.index
      /\ row.status = status
  <2>1. w.metadata.prompt \in RoPrompts /\ w.metadata.index \in 0..RoUnmarked
    BY <1>7 DEF RoMetadata
  <2>2. /\ RoCreateResource(w, status) \in RoRows /\ RoCreateResource(w, status).type = w.type
        /\ RoCreateResource(w, status).call = w.call
        /\ RoCreateResource(w, status).index = w.metadata.index
        /\ RoCreateResource(w, status).status = status
    BY <1>7, <1>8, <2>1 DEF RoCreateResource, RoRows
  <2>3. found # {} => roResources[RoFirst(found)].url \in BOOLEAN
    BY <1>3, <1>6, RoRowIs
  <2> QED
    BY <2>2, <2>3 DEF RoUpdateResource, RoRows
<1>10. RoSlot(row) = w.slot
  BY <1>3, <1>9 DEF RoSlot, RoWriteFits
<1>11. /\ roResources' \in Seq(RoRows) /\ Len(roResources) \in Nat
       /\ Len(roResources') = IF found = {} THEN Len(roResources) + 1 ELSE Len(roResources)
       /\ DOMAIN roResources = 1..Len(roResources)
       /\ DOMAIN roResources' = 1..Len(roResources')
       /\ q \in DOMAIN roResources' /\ roStep' = q /\ roResources'[q] = row
       /\ \A r \in DOMAIN roResources' : r # q => r \in DOMAIN roResources /\ roResources'[r] = roResources[r]
  <2>1. roResources \in Seq(RoRows) /\ row \in RoRows
    BY <1>3, <1>9 DEF RoShapes
  <2>2. CASE found = {}
    <3>1. roResources' = Append(roResources, row) /\ roStep' = q /\ q = Len(roResources) + 1
      BY <1>2, <2>2
    <3> HIDE DEF row, found, q
    <3> QED
      BY <2>1, <2>2, <3>1
  <2>3. CASE found # {}
    <3>1. roResources' = [roResources EXCEPT ![q] = row] /\ roStep' = q /\ q \in DOMAIN roResources
      BY <1>2, <1>6, <2>3
    <3> HIDE DEF row, found, q
    <3> QED
      BY <2>1, <2>3, <3>1
  <2> QED
    BY <2>2, <2>3
<1>12. found = {} => q = Len(roResources) + 1
  OBVIOUS
<1>13. \A r \in DOMAIN roResources : roResources[r].call = w.call /\ RoSlot(roResources[r]) = w.slot => r = q
  <2>1. ASSUME NEW r \in DOMAIN roResources, roResources[r].call = w.call, RoSlot(roResources[r]) = w.slot
        PROVE  r = q
    <3>1. r \in RoOwnResources(w)
      BY <1>4, <2>1
    <3>2. RoFirst(found) \in RoOwnResources(w) /\ q = RoFirst(found)
      BY <1>6, <3>1
    <3>3. q \in DOMAIN roResources /\ roResources[q].call = w.call /\ RoSlot(roResources[q]) = w.slot
      BY <1>4, <3>2
    <3> QED
      BY <1>3, <2>1, <3>3 DEF RoLiveInv, RoOneRow
  <2> QED
    BY <2>1
<1> HIDE DEF w, found, q, row
<1>14. RoShapes'
  BY <1>1, <1>3, <1>11 DEF RoShapes
<1>15. RoLiveInv'
  <2>1. ASSUME NEW i \in DOMAIN roTodo
        PROVE  RoWriteFits(roTodo[i])'
    <3>1. RoWriteFits(roTodo[i])
      BY <1>3 DEF RoLiveInv
    <3> QED
      BY <1>1, <3>1 DEF RoWriteFits
  <2>2. RoStepFits'
    <3>1. roTodo'[1] = w /\ roTodo' # <<>> /\ roStep' # 0
      BY <1>1, <1>3, <1>11
    <3>2. w.status # "pending" => row.status # "pending"
      BY <1>8, <1>9
    <3>3. w.status = "error" => row.status = "failed"
      BY <1>8, <1>9
    <3> QED
      BY <1>9, <1>10, <1>11, <3>1, <3>2, <3>3 DEF RoStepFits
  <2>3. ASSUME NEW r \in DOMAIN roResources'
        PROVE  RoRowFits(roResources[r])'
    <3>1. CASE r = q
      <4> DEFINE call == roCalls[w.call]
      <4>1. /\ w.call \in DOMAIN roCalls /\ w.type = call.request.type
            /\ w.status = "pending" => call.status = "running" /\ w.slot < Len(call.request.prompts)
            /\ w.status = "error" => w.slot = 0 /\ call.status \in {"running", "failed"}
            /\ w.status \in {"remote", "local"} =>
                 call.status = "succeeded" /\ RoMade(call, w.slot) \in {"url", "two"}
            /\ w.status = "failed" => call.status = "succeeded"
        BY <1>3 DEF RoWriteFits
      <4>2. call.request \in RoRequests
        BY <1>3, <4>1, RoCallIs
      <4>3. 0 < Len(call.request.prompts)
        <5>1. Len(call.request.prompts) \in 1..RoMaxItems
          BY <4>2, RoRequestIs
        <5> HIDE DEF call
        <5> QED
          BY <5>1, ResourceOutputAssumption
      <4> HIDE DEF call
      <4>4. /\ call.status # "pending"
            /\ call.status = "running" => w.slot < Len(call.request.prompts)
            /\ row.status = "succeeded" => call.status = "succeeded" /\ RoMade(call, w.slot) \in {"url", "two"}
            /\ row.status = "pending" => call.status = "running"
        BY <1>7, <1>8, <1>9, <4>1, <4>3
      <4> QED
        BY <1>1, <1>9, <1>10, <1>11, <3>1, <4>1, <4>4 DEF RoRowFits, call
    <3>2. CASE r # q
      <4>1. r \in DOMAIN roResources /\ roResources'[r] = roResources[r]
        BY <1>11, <2>3, <3>2
      <4>2. RoRowFits(roResources[r])
        BY <1>3, <4>1 DEF RoLiveInv
      <4> QED
        BY <1>1, <4>1, <4>2 DEF RoRowFits
    <3> QED
      BY <3>1, <3>2
  <2>4. RoOneRow'
    <3>1. ASSUME NEW r \in DOMAIN roResources', NEW s \in DOMAIN roResources',
                 roResources'[r].call = roResources'[s].call,
                 RoSlot(roResources'[r]) = RoSlot(roResources'[s])
          PROVE  r = s
      <4>1. CASE r = q \/ s = q
        BY <1>9, <1>10, <1>11, <1>13, <3>1, <4>1
      <4>2. CASE r # q /\ s # q
        BY <1>3, <1>11, <3>1, <4>2 DEF RoLiveInv, RoOneRow
      <4> QED
        BY <4>1, <4>2
    <3> QED
      BY <3>1 DEF RoOneRow
  <2>5. RoPartsFit'
    <3>1. /\ Len(roParts) = Len(roResources)
          /\ DOMAIN roParts = 1..Len(roParts)
          /\ \A p \in DOMAIN roParts :
                /\ roParts[p].res = p
                /\ roParts[p] = [res |-> p, call |-> roResources[p].call, slot |-> RoSlot(roResources[p]),
                                 state |-> roResources[p].status]
      <4>1. Len(roParts) \in Nat /\ DOMAIN roParts = 1..Len(roParts) /\ Len(roResources) \in Nat
        BY <1>3 DEF RoShapes
      <4>2. 0 \notin DOMAIN roParts
        BY <4>1
      <4> QED
        BY <1>1, <1>3, <4>1, <4>2 DEF RoLiveInv, RoPartsFit
    <3>2. \A p \in DOMAIN roParts : p # q => p \in DOMAIN roResources' /\ roResources'[p] = roResources[p]
      BY <1>11, <3>1
    <3>3. \/ Len(roParts) = Len(roResources')
          \/ roStep' = Len(roResources') /\ Len(roParts) + 1 = Len(roResources')
      BY <1>11, <1>12, <3>1
    <3> QED
      BY <1>1, <1>11, <3>1, <3>2, <3>3 DEF RoPartsFit
  <2> QED
    BY <1>1, <2>1, <2>2, <2>3, <2>4, <2>5 DEF RoLiveInv
<1>16. RoOver'
  <2>1. roRun \notin {"completed", "failed", "dead", "cleaned"}
    BY <1>1 DEF RoIInv, RoOver
  <2>2. \A p \in DOMAIN roParts : roParts[p].res \in DOMAIN roResources
    BY DEF RoIInv, RoOver
  <2>3. DOMAIN roResources \subseteq DOMAIN roResources'
    BY <1>11
  <2> QED
    BY <1>1, <2>1, <2>2, <2>3 DEF RoOver
<1> QED
  BY <1>14, <1>15, <1>16 DEF RoIInv

LEMMA RoFailCallStep ==
    ASSUME RoIInv, RoFailCall
    PROVE  RoIInv'
<1> DEFINE w == Head(roTodo)
<1>1. /\ roTodo # <<>> /\ roStep # 0 /\ w.status = "error" /\ roCalls[w.call].status # "failed"
      /\ RoUpdateCall(w.call, "failed")
      /\ UNCHANGED <<roRun, roResources, roParts, roMessage, roTodo, roStep>>
  BY DEF RoFailCall
<1>2. /\ RoShapes /\ RoLive /\ RoLiveInv /\ w = roTodo[1] /\ 1 \in DOMAIN roTodo
      /\ w \in RoWrites /\ RoWriteFits(w)
  BY <1>1, RoHeadIs
<1>3. w.call \in DOMAIN roCalls /\ w.slot = 0 /\ roCalls[w.call].status = "running" /\ Len(roTodo) = 1
  BY <1>1, <1>2 DEF RoWriteFits
<1>4. /\ roCalls' \in Seq(RoCallRows) /\ Len(roCalls') = Len(roCalls)
      /\ DOMAIN roCalls' = DOMAIN roCalls
      /\ roCalls'[w.call].status = "failed" /\ roCalls'[w.call].request = roCalls[w.call].request
      /\ \A d \in DOMAIN roCalls : d # w.call => roCalls'[d] = roCalls[d]
  BY <1>1, <1>2, <1>3, RoUpdateCallIs
<1> HIDE DEF w
<1>5. RoShapes'
  BY <1>1, <1>2, <1>4 DEF RoShapes
<1>6. RoLiveInv'
  <2>1. ASSUME NEW i \in DOMAIN roTodo'
        PROVE  RoWriteFits(roTodo[i])'
    <3>1. roTodo'[i] = w
      <4>1. DOMAIN roTodo = 1..1
        BY <1>2, <1>3 DEF RoShapes
      <4> QED
        BY <1>1, <1>2, <2>1, <4>1
    <3> QED
      BY <1>1, <1>2, <1>3, <1>4, <3>1 DEF RoWriteFits
  <2>2. RoStepFits'
    <3>1. RoStepFits
      BY <1>2 DEF RoLiveInv
    <3> QED
      BY <1>1, <3>1 DEF RoStepFits
  <2>3. ASSUME NEW r \in DOMAIN roResources
        PROVE  RoRowFits(roResources[r])'
    <3> DEFINE row == roResources[r]
    <3>1. RoRowFits(row) /\ roResources'[r] = row /\ roTodo' = roTodo
      BY <1>1, <1>2 DEF RoLiveInv
    <3>2. CASE row.call # w.call
      <4> HIDE DEF row
      <4>1. roCalls'[row.call] = roCalls[row.call] /\ row.call \in DOMAIN roCalls'
        BY <1>4, <3>1, <3>2 DEF RoRowFits
      <4> QED
        BY <3>1, <4>1 DEF RoRowFits
    <3>3. CASE row.call = w.call
      <4>1. row.status = "pending" => RoSlot(row) > 0
        <5>1. RoSlot(row) \in 0..RoMaxItems
          BY <1>2, RoRowIs
        <5>2. CASE RoSlot(row) = 0
          <6>1. /\ roStep \in DOMAIN roResources /\ roResources[roStep].status = "failed"
                /\ roResources[roStep].call = w.call /\ RoSlot(roResources[roStep]) = w.slot
            <7>1. roStep \in 1..Len(roResources) /\ DOMAIN roResources = 1..Len(roResources)
              BY <1>1, <1>2 DEF RoShapes
            <7> QED
              BY <1>1, <1>2, <7>1 DEF RoLiveInv, RoStepFits, w
          <6>2. r = roStep
            BY <1>2, <1>3, <3>3, <5>2, <6>1 DEF RoLiveInv, RoOneRow
          <6> QED
            BY <6>1, <6>2
        <5> QED
          BY <5>1, <5>2, ResourceOutputAssumption
      <4> HIDE DEF row
      <4>2. row.status # "succeeded"
        BY <1>3, <3>1, <3>3 DEF RoRowFits
      <4> QED
        BY <1>3, <1>4, <3>1, <3>3, <4>1, <4>2 DEF RoRowFits
    <3> QED
      BY <3>2, <3>3
  <2>4. RoOneRow' /\ RoPartsFit'
    BY <1>1, <1>2 DEF RoLiveInv, RoOneRow, RoPartsFit
  <2> QED
    BY <1>1, <2>1, <2>2, <2>3, <2>4 DEF RoLiveInv
<1>7. RoOver'
  BY <1>1 DEF RoIInv, RoOver
<1> QED
  BY <1>5, <1>6, <1>7 DEF RoIInv

LEMMA RoUpsertPartStep ==
    ASSUME RoIInv, RoUpsertPart
    PROVE  RoIInv'
<1> DEFINE w == Head(roTodo)
           row == roResources[roStep]
           part == [res |-> roStep, call |-> w.call, slot |-> w.slot, state |-> row.status]
           found == RoPartOf(roStep, w)
<1>1. /\ roTodo # <<>> /\ roStep # 0
      /\ roParts' = IF found = {} THEN Append(roParts, part)
                    ELSE [roParts EXCEPT ![RoFirst(found)] = part]
      /\ roTodo' = Tail(roTodo) /\ roStep' = 0
      /\ UNCHANGED <<roRun, roCalls, roResources, roMessage>>
  BY DEF RoUpsertPart
<1>2. /\ RoShapes /\ RoLive /\ RoLiveInv /\ w = roTodo[1] /\ 1 \in DOMAIN roTodo
      /\ w \in RoWrites /\ RoWriteFits(w)
  BY <1>1, RoHeadIs
<1>3. /\ roStep \in DOMAIN roResources /\ row.call = w.call /\ RoSlot(row) = w.slot
      /\ w.status # "pending" => row.status # "pending"
  <2>1. roStep \in DOMAIN roResources
    BY <1>1, <1>2 DEF RoShapes
  <2> QED
    BY <1>1, <1>2, <2>1 DEF RoLiveInv, RoStepFits
<1>4. /\ Len(roParts) \in Nat /\ DOMAIN roParts = 1..Len(roParts) /\ Len(roResources) \in Nat
      /\ DOMAIN roResources = 1..Len(roResources) /\ roParts \in Seq(RoShown)
      /\ Len(roTodo) \in Nat /\ roTodo \in Seq(RoWrites) /\ DOMAIN roTodo = 1..Len(roTodo)
  BY <1>2 DEF RoShapes
<1>5. part \in RoShown /\ part.res = roStep
  <2>1. w.call \in Nat /\ w.slot \in Nat /\ roStep \in Nat /\ row.status \in {"pending", "succeeded", "failed"}
    BY <1>2, <1>3, RoRowIs DEF RoWrites
  <2> HIDE DEF w, row
  <2> QED
    BY <2>1 DEF RoShown
<1>6. /\ Len(roParts) = Len(roResources) \/
           (roStep = Len(roResources) /\ Len(roParts) + 1 = Len(roResources))
      /\ \A p \in DOMAIN roParts :
            /\ roParts[p].res = p /\ p \in DOMAIN roResources
            /\ p # roStep =>
                 roParts[p] = [res |-> p, call |-> roResources[p].call, slot |-> RoSlot(roResources[p]),
                               state |-> roResources[p].status]
  <2>1. RoPartsFit
    BY <1>2 DEF RoLiveInv
  <2>2. Len(roParts) = Len(roResources) \/
          (roStep = Len(roResources) /\ Len(roParts) + 1 = Len(roResources))
    BY <2>1 DEF RoPartsFit
  <2>3. \A p \in DOMAIN roParts : p \in DOMAIN roResources
    <3> DEFINE m == Len(roParts)
               n == Len(roResources)
    <3>1. m \in Nat /\ n \in Nat /\ DOMAIN roParts = 1..m /\ DOMAIN roResources = 1..n
      BY <1>4
    <3>2. m = n \/ m + 1 = n
      BY <2>2
    <3> HIDE DEF m, n
    <3> QED
      BY <3>1, <3>2
  <2>4. \A p \in DOMAIN roParts : roParts[p].res = p
    BY <2>1 DEF RoPartsFit
  <2>5. \A p \in DOMAIN roParts : p # roStep =>
          roParts[p] = [res |-> p, call |-> roResources[p].call, slot |-> RoSlot(roResources[p]),
                        state |-> roResources[p].status]
    BY <2>1 DEF RoPartsFit
  <2> QED
    BY <2>2, <2>3, <2>4, <2>5
<1>7. found = {roStep} \cap DOMAIN roParts
  <2>1. ASSUME NEW p \in DOMAIN roParts, p # roStep
        PROVE  p \notin found
    <3>1. /\ roParts[p].res = p /\ p \in DOMAIN roResources
          /\ roParts[p].call = roResources[p].call /\ roParts[p].slot = RoSlot(roResources[p])
      BY <1>6, <2>1
    <3>2. CASE roParts[p].call = w.call /\ roParts[p].slot = w.slot
      BY <1>2, <1>3, <2>1, <3>1, <3>2 DEF RoLiveInv, RoOneRow
    <3>3. CASE ~(roParts[p].call = w.call /\ roParts[p].slot = w.slot)
      BY <2>1, <3>1, <3>3 DEF RoPartOf
    <3> QED
      BY <3>2, <3>3
  <2>2. roStep \in DOMAIN roParts => roStep \in found
    BY <1>6 DEF RoPartOf
  <2>3. found \subseteq DOMAIN roParts
    BY DEF RoPartOf
  <2> QED
    BY <2>1, <2>2, <2>3
<1>8. found # {} => RoFirst(found) = roStep
  <2>1. found \in SUBSET Nat /\ \A p \in found : p = roStep
    BY <1>4, <1>7
  <2> HIDE DEF found
  <2> QED
    BY <2>1, RoFirstIs
<1> HIDE DEF w, part, found, row
<1>9. /\ roParts' \in Seq(RoShown) /\ Len(roParts') = Len(roResources)
      /\ DOMAIN roParts' = 1..Len(roResources)
      /\ roParts'[roStep] = part
      /\ \A p \in DOMAIN roParts' : p # roStep => p \in DOMAIN roParts /\ roParts'[p] = roParts[p]
  <2>1. CASE found = {}
    <3>1. roStep = Len(roParts) + 1 /\ Len(roParts) + 1 = Len(roResources)
      BY <1>3, <1>4, <1>6, <1>7, <2>1
    <3>2. roParts' = Append(roParts, part)
      BY <1>1, <2>1
    <3>3. roParts' \in Seq(RoShown) /\ Len(roParts') = Len(roParts) + 1 /\ roParts'[Len(roParts) + 1] = part
      BY <1>4, <1>5, <3>2
    <3>4. \A p \in 1..Len(roParts) : roParts'[p] = roParts[p]
      BY <1>4, <3>2
    <3> DEFINE m == Len(roParts)
    <3>5. /\ m \in Nat /\ roStep = m + 1 /\ Len(roResources) = m + 1 /\ DOMAIN roParts = 1..m
          /\ Len(roParts') = m + 1 /\ roParts'[m + 1] = part
          /\ \A p \in 1..m : roParts'[p] = roParts[p]
      BY <1>4, <3>1, <3>3, <3>4
    <3>6. DOMAIN roParts' = 1..m + 1
      BY <3>3, <3>5
    <3> HIDE DEF m
    <3> QED
      BY <3>3, <3>5, <3>6
  <2>2. CASE found # {}
    <3>1. roStep \in DOMAIN roParts /\ Len(roParts) = Len(roResources)
      <4>1. roStep \in DOMAIN roParts
        BY <1>7, <2>2
      <4>2. ~(roStep = Len(roResources) /\ Len(roParts) + 1 = Len(roResources))
        <5> DEFINE m == Len(roParts)
        <5>1. m \in Nat /\ roStep \in 1..m
          BY <1>4, <4>1
        <5> HIDE DEF m
        <5>2. ~(roStep = m + 1)
          BY <5>1
        <5> QED
          BY <5>2 DEF m
      <4> QED
        BY <1>6, <4>1, <4>2
    <3>2. roParts' = [roParts EXCEPT ![roStep] = part]
      BY <1>1, <1>8, <2>2
    <3> QED
      BY <1>4, <1>5, <3>1, <3>2
  <2> QED
    BY <2>1, <2>2
<1>10. /\ roTodo' \in Seq(RoWrites) /\ Len(roTodo') = Len(roTodo) - 1
       /\ DOMAIN roTodo' = 1..Len(roTodo) - 1
       /\ \A i \in DOMAIN roTodo' : i + 1 \in DOMAIN roTodo /\ roTodo'[i] = roTodo[i + 1]
       /\ \A i \in DOMAIN roTodo : i = 1 \/ (i - 1 \in DOMAIN roTodo' /\ roTodo'[i - 1] = roTodo[i])
  BY <1>1, <1>4
<1>11. RoShapes'
  <2>1. roStep' \in 0..Len(roResources')
    BY <1>1, <1>4
  <2> QED
    BY <1>1, <1>2, <1>9, <1>10, <2>1 DEF RoShapes
<1>12. RoLiveInv'
  <2>1. ASSUME NEW i \in DOMAIN roTodo'
        PROVE  RoWriteFits(roTodo[i])' /\ roTodo'[i].status # "error"
    <3>1. RoWriteFits(roTodo[i + 1]) /\ roTodo'[i] = roTodo[i + 1] /\ Len(roTodo) # 1
      BY <1>2, <1>4, <1>10 DEF RoLiveInv
    <3>2. roTodo[i + 1].status # "error"
      BY <3>1 DEF RoWriteFits
    <3> QED
      BY <1>1, <3>1, <3>2 DEF RoWriteFits
  <2>2. RoStepFits'
    <3>1. roTodo' # <<>> => roTodo'[1].status # "error"
      <4>1. roTodo' # <<>> => 1 \in DOMAIN roTodo'
        BY <1>10
      <4> QED
        BY <2>1, <4>1
    <3> QED
      BY <1>1, <3>1 DEF RoStepFits
  <2>3. ASSUME NEW r \in DOMAIN roResources
        PROVE  RoRowFits(roResources[r])'
    <3> DEFINE other == roResources[r]
    <3>1. RoRowFits(other) /\ roResources'[r] = other /\ roCalls' = roCalls
      BY <1>1, <1>2 DEF RoLiveInv
    <3>2. ASSUME NEW i \in DOMAIN roTodo, roTodo[i].call = other.call, roTodo[i].slot = RoSlot(other),
                 other.status = "pending", roCalls[other.call].status = "succeeded"
          PROVE  \E j \in DOMAIN roTodo' : roTodo'[j].call = other.call /\ roTodo'[j].slot = RoSlot(other)
      <4>1. i # 1
        <5>1. ASSUME i = 1 PROVE FALSE
          <6>1. r = roStep
            BY <1>2, <1>3, <3>2, <5>1 DEF RoLiveInv, RoOneRow, row
          <6>2. w.status = "pending"
            BY <1>3, <3>2, <6>1 DEF row
          <6> QED
            BY <1>2, <3>2, <5>1, <6>2 DEF RoWriteFits
        <5> QED
          BY <5>1
      <4> QED
        BY <1>10, <3>2, <4>1
    <3> HIDE DEF other
    <3> QED
      BY <3>1, <3>2 DEF RoRowFits
  <2>4. RoOneRow'
    BY <1>1, <1>2 DEF RoLiveInv, RoOneRow
  <2>5. RoPartsFit'
    <3>1. ASSUME NEW p \in DOMAIN roParts'
          PROVE  /\ roParts'[p] = [res |-> p, call |-> roResources[p].call, slot |-> RoSlot(roResources[p]),
                                   state |-> roResources[p].status]
                 /\ roParts'[p].res = p
      <4>1. CASE p = roStep
        BY <1>3, <1>5, <1>9, <4>1 DEF part, row
      <4>2. CASE p # roStep
        BY <1>6, <1>9, <3>1, <4>2
      <4> QED
        BY <4>1, <4>2
    <3> QED
      BY <1>1, <1>9, <3>1 DEF RoPartsFit
  <2> QED
    BY <1>1, <2>1, <2>2, <2>3, <2>4, <2>5 DEF RoLiveInv
<1>13. RoOver'
  <2>1. roRun \notin {"completed", "failed", "dead", "cleaned"}
    BY <1>1 DEF RoIInv, RoOver
  <2>2. \A p \in DOMAIN roParts' : roParts'[p].res \in DOMAIN roResources
    BY <1>3, <1>4, <1>5, <1>6, <1>9
  <2> QED
    BY <1>1, <2>1, <2>2 DEF RoOver
<1> QED
  BY <1>11, <1>12, <1>13 DEF RoIInv

\* The end of the run, its cancel and its death change no row.
LEMMA RoEndStep ==
    ASSUME RoIInv, RoCancel \/ RoCrash \/ \E status \in {"completed", "failed"} : RoEnd(status)
    PROVE  RoIInv'
<1>1. roRun = "running" /\ UNCHANGED <<roCalls, roResources, roParts>>
  BY DEF RoCancel, RoCrash, RoEnd
<1>2. RoShapes /\ RoLiveInv /\ RoOver
  BY <1>1 DEF RoIInv, RoLive
<1>3. CASE RoCrash
  <2>1. roRun' = "dead" /\ roTodo' = <<>> /\ roStep' = 0
    BY <1>3 DEF RoCrash
  <2>2. RoShapes'
    <3>1. <<>> \in Seq(RoWrites) /\ 0 \in 0..Len(roResources)
      BY <1>2 DEF RoShapes
    <3> QED
      BY <1>1, <1>2, <2>1, <3>1 DEF RoShapes
  <2>3. ~RoLive' /\ RoOver'
    BY <1>1, <1>2, <2>1 DEF RoLive, RoOver
  <2> QED
    BY <2>2, <2>3 DEF RoIInv
<1>4. CASE ~RoCrash
  <2>1. /\ roTodo' = roTodo /\ roStep' = roStep /\ roRun' \in {"completed", "failed", "cancelled"}
        /\ roRun' # "cancelled" => roTodo = <<>> /\ roMessage' = roParts
    BY <1>4 DEF RoCancel, RoEnd
  <2>2. RoShapes'
    BY <1>1, <1>2, <2>1 DEF RoShapes
  <2>3. RoLiveInv'
    BY <1>1, <1>2, <2>1 DEF RoLiveInv, RoWriteFits, RoStepFits, RoRowFits, RoOneRow, RoPartsFit
  <2>4. roRun' # "cancelled" => roStep = 0
    BY <1>2, <2>1 DEF RoLiveInv, RoStepFits
  <2>5. RoOver'
    BY <1>1, <1>2, <2>1, <2>4 DEF RoOver
  <2> QED
    BY <2>2, <2>3, <2>5 DEF RoIInv
<1> QED
  BY <1>3, <1>4

\* The cleanup works on the rows of a dead process only.
LEMMA RoCleanupStep ==
    ASSUME RoIInv,
           \/ \E c \in DOMAIN roCalls : RoCleanupCall(c)
           \/ \E r \in DOMAIN roResources : RoCleanupResource(r)
           \/ RoCleanupMessage
    PROVE  RoIInv'
<1>1. RoShapes /\ RoOver /\ roRun = "dead"
  BY DEF RoIInv, RoCleanupCall, RoCleanupResource, RoCleanupMessage
<1>2. ASSUME NEW c \in DOMAIN roCalls, RoCleanupCall(c) PROVE RoIInv'
  <2>1. /\ RoUpdateCall(c, "failed")
        /\ UNCHANGED <<roRun, roResources, roParts, roMessage, roTodo, roStep>>
    BY <1>2 DEF RoCleanupCall
  <2>2. roCalls' \in Seq(RoCallRows) /\ Len(roCalls') = Len(roCalls)
    BY <1>1, <2>1, RoUpdateCallIs
  <2> QED
    BY <1>1, <2>1, <2>2 DEF RoIInv, RoShapes, RoLive, RoOver
<1>3. ASSUME NEW r \in DOMAIN roResources, RoCleanupResource(r) PROVE RoIInv'
  <2> DEFINE row == [roResources[r] EXCEPT !.status = "failed"]
  <2>1. /\ roResources' = [roResources EXCEPT ![r] = row]
        /\ UNCHANGED <<roRun, roCalls, roParts, roMessage, roTodo, roStep>>
    BY <1>3 DEF RoCleanupResource
  <2>2. row \in RoRows
    BY <1>1, RoRowIs DEF RoRows
  <2> HIDE DEF row
  <2>3. /\ roResources' \in Seq(RoRows) /\ Len(roResources') = Len(roResources)
        /\ DOMAIN roResources' = DOMAIN roResources
    BY <1>1, <2>1, <2>2 DEF RoShapes
  <2> QED
    BY <1>1, <2>1, <2>3 DEF RoIInv, RoShapes, RoLive, RoOver
<1>4. ASSUME RoCleanupMessage PROVE RoIInv'
  <2>1. /\ roRun' = "cleaned" /\ roParts' = <<>>
        /\ \A r \in DOMAIN roResources : roResources[r].status # "pending"
        /\ UNCHANGED <<roCalls, roResources, roTodo, roStep>>
    BY <1>4 DEF RoCleanupMessage
  <2>2. <<>> \in Seq(RoShown) /\ DOMAIN <<>> = {}
    OBVIOUS
  <2> QED
    BY <1>1, <2>1, <2>2 DEF RoIInv, RoShapes, RoLive, RoOver
<1> QED
  BY <1>2, <1>3, <1>4

LEMMA RoInitIInv == RoInit => RoIInv
<1> SUFFICES ASSUME RoInit PROVE RoIInv
  OBVIOUS
<1>1. /\ <<>> \in Seq(RoCallRows) /\ <<>> \in Seq(RoRows) /\ <<>> \in Seq(RoShown) /\ <<>> \in Seq(RoWrites)
      /\ DOMAIN <<>> = {} /\ Len(<<>>) = 0
  OBVIOUS
<1>2. RoShapes
  BY <1>1, ResourceOutputAssumption DEF RoInit, RoShapes
<1>3. RoLiveInv
  BY <1>1 DEF RoInit, RoLiveInv, RoStepFits, RoOneRow, RoPartsFit
<1>4. RoOver
  BY <1>1 DEF RoInit, RoOver
<1> QED
  BY <1>2, <1>3, <1>4 DEF RoIInv

LEMMA RoNextIInv == RoIInv /\ [RoNext]_roVars => RoIInv'
<1> SUFFICES ASSUME RoIInv, [RoNext]_roVars PROVE RoIInv'
  OBVIOUS
<1>1. CASE UNCHANGED roVars
  BY <1>1 DEF roVars, RoIInv, RoShapes, RoLive, RoLiveInv, RoWriteFits, RoStepFits, RoRowFits, RoOneRow,
              RoPartsFit, RoOver
<1>2. CASE RoNext
  BY <1>2, RoCallReadyStep, RoToolStartStep, RoToolResultStep, RoToolErrorStep, RoUpsertResourceStep,
     RoFailCallStep, RoUpsertPartStep, RoEndStep, RoCleanupStep DEF RoNext
<1> QED
  BY <1>1, <1>2

\* The inductive invariant: the shapes, how calls, rows, draft and the writes
\* that are left fit together while the run lives, and what is left after it.
THEOREM RoInductive == RoSpec => []RoIInv
BY RoInitIInv, RoNextIInv, PTL DEF RoSpec

\* The rows, the draft and the writes that are left have their shapes.
THEOREM RoTypeCorrect == RoSpec => []RoTypeOK
<1>1. ASSUME RoIInv PROVE RoTypeOK
  <2>1. RoShapes /\ RoOver
    BY <1>1 DEF RoIInv
  <2>2. ASSUME NEW c \in DOMAIN roCalls
        PROVE  roCalls[c].status \in RoUnsettled \cup {"succeeded", "failed"} /\ roCalls[c].request \in RoRequests
    BY <2>1, RoCallIs DEF RoUnsettled
  <2>3. \A r \in DOMAIN roResources : roResources[r].status \in {"pending", "succeeded", "failed"}
    BY <2>1, RoRowIs
  <2>4. roStep \in DOMAIN roResources \cup {0}
    BY <2>1 DEF RoShapes
  <2> QED
    BY <2>1, <2>2, <2>3, <2>4 DEF RoTypeOK, RoShapes, RoOver
<1> QED
  BY <1>1, RoInductive, PTL

\* A completed message shows every resource once, as its row is, whatever
\* was taken over from one call by another.
THEOREM RoMessageShows == RoSpec => []RoMessageShowsResources
<1>1. ASSUME RoIInv PROVE RoMessageShowsResources
  <2> SUFFICES ASSUME roRun = "completed"
               PROVE  /\ Len(roMessage) = Len(roResources)
                      /\ \A r \in DOMAIN roResources : \E p \in DOMAIN roMessage :
                            roMessage[p].res = r /\ roMessage[p].state = roResources[r].status
    BY DEF RoMessageShowsResources
  <2>1. /\ RoShapes /\ RoLiveInv /\ roMessage = roParts /\ roStep = 0
    BY <1>1 DEF RoIInv, RoLive, RoOver
  <2>2. /\ Len(roParts) \in Nat /\ DOMAIN roParts = 1..Len(roParts) /\ Len(roResources) \in Nat
        /\ DOMAIN roResources = 1..Len(roResources)
    BY <2>1 DEF RoShapes
  <2>3. /\ Len(roParts) = Len(roResources)
        /\ \A p \in DOMAIN roParts :
             roParts[p] = [res |-> p, call |-> roResources[p].call, slot |-> RoSlot(roResources[p]),
                           state |-> roResources[p].status]
    <3>1. RoPartsFit /\ 0 \notin DOMAIN roParts
      BY <2>1, <2>2 DEF RoLiveInv
    <3>2. Len(roParts) = Len(roResources)
      <4> DEFINE m == Len(roParts)
                 n == Len(roResources)
      <4>1. m \in Nat /\ (m = n \/ (0 = n /\ m + 1 = n))
        BY <2>1, <2>2, <3>1 DEF RoPartsFit
      <4> HIDE DEF m, n
      <4>2. m = n
        BY <4>1
      <4> QED
        BY <4>2 DEF m, n
    <3>3. \A p \in DOMAIN roParts : p # roStep
      BY <2>1, <3>1
    <3> QED
      BY <3>1, <3>2, <3>3 DEF RoPartsFit
  <2> QED
    BY <2>1, <2>2, <2>3
<1> QED
  BY <1>1, RoInductive, PTL

\* What became of a slot is what its resource tells, between two events of
\* the run, and nothing waits any more once the cleanup is through.
THEOREM RoSlotsTell == RoSpec => []RoSlotsTellOutcome
<1>1. ASSUME RoIInv PROVE RoSlotsTellOutcome
  <2>1. RoShapes /\ RoOver
    BY <1>1 DEF RoIInv
  <2>2. roRun = "cleaned" => \A r \in DOMAIN roResources : roResources[r].status # "pending"
    BY <2>1 DEF RoOver
  <2>3. ASSUME RoIdle, NEW r \in DOMAIN roResources
        PROVE  LET row == roResources[r]
                   call == roCalls[row.call]
                   slot == IF row.index = RoUnmarked THEN 0 ELSE row.index
                   outcome == IF call.status = "succeeded" /\ slot < Len(call.outcome)
                              THEN call.outcome[slot + 1] ELSE "url"
               IN  /\ row.status = "pending" =>
                        \/ call.status = "running"
                        \/ call.status = "succeeded" /\ outcome = "inline"
                        \/ call.status = "failed" /\ slot > 0
                   /\ row.status = "succeeded" =>
                        call.status = "succeeded" /\ outcome \in {"url", "two"}
    <3> DEFINE row == roResources[r]
    <3>1. roTodo = <<>> /\ RoRowFits(row)
      BY <1>1, <2>3 DEF RoIdle, RoIInv, RoLive, RoLiveInv
    <3> HIDE DEF row
    <3>2. /\ row.status = "pending" =>
                \/ roCalls[row.call].status = "running"
                \/ roCalls[row.call].status = "succeeded" /\ RoMade(roCalls[row.call], RoSlot(row)) = "inline"
                \/ roCalls[row.call].status = "failed" /\ RoSlot(row) > 0
          /\ row.status = "succeeded" =>
                roCalls[row.call].status = "succeeded" /\ RoMade(roCalls[row.call], RoSlot(row)) \in {"url", "two"}
      BY <3>1 DEF RoRowFits
    <3> QED
      BY <3>2 DEF RoMade, RoSlot, row
  <2> QED
    BY <2>2, <2>3 DEF RoSlotsTellOutcome
<1> QED
  BY <1>1, RoInductive, PTL

-----------------------------------------------------------------------------
(***************************************************************************)
(* The lists, for any number of sessions, messages and writes and any      *)
(* limit of a page.                                                        *)
(***************************************************************************)

\* The rows there are or were: what a page can show or point to.  The last
\* session has not been created as long as it carries the first moment.
PgSeen ==
    IF pgKind = "sessions" THEN {s \in PgIds : pgSession[s].live \/ pgSession[s].at = 0}
    ELSE DOMAIN pgMessage

PgLists == [rows : SUBSET Nat, cursor : Nat, more : BOOLEAN, held : SUBSET Nat]

PgRequests == [pc : {"idle", "asked", "select", "answered"}, after : Nat, key : Nat \X Nat,
               answer : PgLists, late : BOOLEAN]

\* The full shape of every variable.
PgShapes ==
    /\ pgNow \in 1..PgMaxTime
    /\ pgSession \in [PgIds -> [at : 0..pgNow, live : BOOLEAN]]
    /\ pgMessage \in Seq(0..pgNow)
    /\ pgKind \in {"sessions", "messages"}
    /\ pgShown \in PgLists
    /\ pgAsk \in [PgAsks -> PgRequests]

\* A list names only rows that were there.
PgNames(list) == list.rows \cup list.held \subseteq PgSeen /\ list.cursor \in PgSeen \cup {0}

PgNamed == PgNames(pgShown) /\ \A a \in PgAsks : PgNames(pgAsk[a].answer)

\* Of these rows, those down to the place that a list has reached are shown.
PgCovers(held, cursor, more, rows) ==
    \A r \in held \cap PgExisting :
        (~more \/ (cursor \in PgExisting /\ ~PgOlder(PgKey(r), PgKey(cursor)))) => r \in rows

\* A first page is complete as it comes; nothing is held of a next page
\* before it is shown.
PgAsked ==
    /\ LET first == pgAsk["first"].answer
       IN  PgCovers(first.held, first.cursor, first.more, first.rows)
    /\ pgAsk["next"].answer.held = {}
    /\ pgAsk["next"].pc # "answered" => pgAsk["next"].answer.rows = {}

\* A next page that is still wanted goes on where the list has ended, also
\* when the key of that place has moved since it was read.
PgGoesOn ==
    LET next == pgAsk["next"]
    IN  ~next.late =>
        /\ next.pc \in {"asked", "select"} =>
             pgShown.held = {} \/ (pgShown.cursor = next.after /\ pgShown.more)
        /\ next.pc = "select" =>
             \A r \in pgShown.held \cap PgExisting :
                ~PgOlder(PgKey(r), next.key) => r \in pgShown.rows
        /\ next.pc = "answered" /\ next.answer.rows # {} =>
             PgCovers(pgShown.held, next.answer.cursor, next.answer.more,
                      pgShown.rows \cup next.answer.rows)

PgComplete == PgCovers(pgShown.held, pgShown.cursor, pgShown.more, pgShown.rows)

PgIInv == PgShapes /\ PgNamed /\ PgAsked /\ PgGoesOn /\ PgComplete

-----------------------------------------------------------------------------
(* The order of the rows, and a page of them.                              *)

\* The key of a row is a pair that ends with its number.
LEMMA PgKeyIs ==
    ASSUME PgShapes, NEW r \in PgSeen
    PROVE  PgKey(r) \in Nat \X Nat /\ PgKey(r)[2] = r /\ r \in Nat \ {0}
<1>1. CASE pgKind = "sessions"
  <2>1. r \in PgIds
    BY <1>1 DEF PgSeen
  <2>2. pgSession[r].at \in Nat /\ r \in Nat \ {0}
    BY <2>1, PagingAssumption DEF PgShapes, PgIds
  <2> QED
    BY <1>1, <2>2 DEF PgKey
<1>2. CASE pgKind # "sessions"
  <2>1. r \in 1..Len(pgMessage) /\ Len(pgMessage) \in Nat
    BY <1>2 DEF PgSeen, PgShapes
  <2>2. pgNow \in Nat
    BY PagingAssumption DEF PgShapes
  <2>3. pgMessage[r] \in 0..pgNow
    BY <2>1 DEF PgShapes
  <2>4. pgMessage[r] \in Nat /\ r \in Nat \ {0}
    BY <2>1, <2>2, <2>3
  <2> QED
    BY <1>2, <2>4 DEF PgKey
<1> QED
  BY <1>1, <1>2

LEMMA PgExistingIs ==
    ASSUME PgShapes
    PROVE  /\ PgExisting \subseteq PgSeen /\ PgSeen \subseteq Nat \ {0}
           /\ IsFiniteSet(PgExisting)
<1>1. PgExisting \subseteq PgSeen
  BY DEF PgExisting, PgSeen
<1>2. PgSeen \subseteq Nat \ {0}
  BY PgKeyIs
<1>3. \E n \in Nat : PgExisting \subseteq 1..n
  <2>1. CASE pgKind = "sessions"
    BY <2>1, PagingAssumption DEF PgExisting, PgIds
  <2>2. CASE pgKind # "sessions"
    <3>1. PgExisting = 1..Len(pgMessage) /\ Len(pgMessage) \in Nat
      BY <2>2 DEF PgExisting, PgShapes
    <3> QED
      BY <3>1
  <2> QED
    BY <2>1, <2>2
<1>4. \A n \in Nat : IsFiniteSet(1..n)
  BY FS_Interval
<1>5. IsFiniteSet(PgExisting)
  BY <1>3, <1>4, FS_Subset
<1> QED
  BY <1>1, <1>2, <1>5

LEMMA PgKeysAre ==
    PgShapes => 0 \notin PgExisting /\ \A r \in PgSeen : PgKey(r) \in Nat \X Nat
BY PgKeyIs, PgExistingIs

LEMMA PgKeysStill ==
    PgShapes' => 0 \notin PgExisting' /\ \A r \in PgSeen' : PgKey(r)' \in Nat \X Nat
<1>1. (PgShapes => 0 \notin PgExisting /\ \A r \in PgSeen : PgKey(r) \in Nat \X Nat)'
  BY PgKeysAre, PTL
<1> QED
  BY <1>1

\* Some row of a part of the list is the oldest, and PgOldest is that one.
LEMMA PgOldestIs ==
    ASSUME PgShapes, NEW rows \in SUBSET PgSeen, rows # {}
    PROVE  /\ PgOldest(rows) \in rows
           /\ \A q \in rows \ {PgOldest(rows)} : PgOlder(PgKey(PgOldest(rows)), PgKey(q))
<1> DEFINE times == {PgKey(r)[1] : r \in rows}
<1>1. \A r \in rows : PgKey(r) \in Nat \X Nat /\ PgKey(r)[2] = r /\ r \in Nat
  BY PgKeyIs
<1>2. times \in SUBSET Nat /\ times # {}
  BY <1>1
<1>3. PICK t \in times : \A u \in times : t <= u
  BY <1>2, LeastNatural
<1> DEFINE first == {r \in rows : PgKey(r)[1] = t}
<1>4. first \in SUBSET Nat /\ first # {}
  BY <1>1
<1>5. PICK r \in first : \A q \in first : r <= q
  BY <1>4, LeastNatural
<1>6. \A q \in rows \ {r} : PgOlder(PgKey(r), PgKey(q))
  <2> TAKE q \in rows \ {r}
  <2>1. PgKey(q)[1] \in Nat /\ PgKey(r)[1] = t /\ t \in Nat /\ t <= PgKey(q)[1]
    BY <1>1, <1>3, <1>5
  <2>2. r \in Nat /\ q \in Nat /\ PgKey(r)[2] = r /\ PgKey(q)[2] = q
    BY <1>1, <1>5
  <2>3. PgKey(q)[1] = t => r <= q
    BY <1>5
  <2> HIDE DEF times, first
  <2> QED
    BY <2>1, <2>2, <2>3 DEF PgOlder
<1> HIDE DEF times, first
<1>7. r \in rows
  BY <1>5 DEF first
<1> QED
  BY <1>6, <1>7 DEF PgOldest

\* A page holds the newest of the rows, down to its cursor.
LEMMA PgPageCovers ==
    ASSUME PgShapes, NEW rows \in SUBSET PgExisting
    PROVE  LET page == PgPage(rows)
           IN  /\ page \in PgLists /\ page.held = {}
               /\ page.rows \subseteq rows /\ page.cursor \in rows \cup {0}
               /\ \A r \in rows :
                    ~page.more \/ (page.cursor \in PgExisting /\ ~PgOlder(PgKey(r), PgKey(page.cursor)))
                      => r \in page.rows
<1> DEFINE newer(r) == {q \in rows : PgOlder(PgKey(r), PgKey(q))}
           trim == PgTrim(rows)
           more == Cardinality(rows) > PgLimit
           cursor == IF more THEN PgOldest(trim) ELSE 0
<1>1. /\ rows \subseteq PgSeen /\ rows \subseteq Nat \ {0}
      /\ IsFiniteSet(rows) /\ Cardinality(rows) \in Nat /\ PgLimit \in Nat
  BY PgExistingIs, FS_Subset, FS_CardinalityType, PagingAssumption
<1>2. ASSUME NEW r \in rows PROVE IsFiniteSet(newer(r)) /\ Cardinality(newer(r)) \in Nat
  <2>1. newer(r) \subseteq rows
    OBVIOUS
  <2> HIDE DEF newer
  <2> QED
    BY <1>1, <2>1, FS_Subset, FS_CardinalityType
<1>3. \A r \in rows : r \in trim <=> Cardinality(newer(r)) < PgLimit
  BY DEF PgTrim
<1>4. trim \subseteq rows
  BY DEF PgTrim
<1>5. ASSUME NEW r \in rows, ~more PROVE r \in trim
  <2>1. newer(r) \subseteq rows \ {r}
    <3>1. PgKey(r) \in Nat \X Nat
      BY <1>1, PgKeyIs
    <3> QED
      BY <3>1 DEF PgOlder
  <2>2. IsFiniteSet(rows \ {r}) /\ Cardinality(rows \ {r}) = Cardinality(rows) - 1
    BY <1>1, FS_RemoveElement
  <2>3. Cardinality(newer(r)) <= Cardinality(rows \ {r})
    <3> HIDE DEF newer
    <3> QED
      BY <2>1, <2>2, FS_Subset
  <2> HIDE DEF newer
  <2> QED
    BY <1>1, <1>2, <1>3, <1>5, <2>2, <2>3
<1>6. ASSUME trim # {}
      PROVE  /\ PgOldest(trim) \in trim
             /\ \A r \in rows : ~PgOlder(PgKey(r), PgKey(PgOldest(trim))) => r \in trim
  <2> DEFINE d == PgOldest(trim)
  <2>1. d \in trim /\ d \in rows
    BY <1>1, <1>4, <1>6, PgOldestIs
  <2>2. ASSUME NEW r \in rows, ~PgOlder(PgKey(r), PgKey(d)) PROVE r \in trim
    <3> HIDE DEF d
    <3>1. PgKey(r) \in Nat \X Nat /\ PgKey(d) \in Nat \X Nat
      BY <1>1, <2>1, PgKeyIs
    <3>2. newer(r) \subseteq newer(d)
      <4> SUFFICES ASSUME NEW q \in newer(r) PROVE q \in newer(d)
        OBVIOUS
      <4>1. PgKey(q) \in Nat \X Nat /\ PgOlder(PgKey(r), PgKey(q))
        BY <1>1, PgKeyIs
      <4>2. PgOlder(PgKey(d), PgKey(q))
        BY <2>2, <3>1, <4>1, PgKeyIs, <1>1, <2>1 DEF PgOlder
      <4> QED
        BY <4>2
    <3>3. Cardinality(newer(r)) <= Cardinality(newer(d))
      <4>1. IsFiniteSet(newer(d))
        BY <1>2, <2>1
      <4> HIDE DEF newer
      <4> QED
        BY <3>2, <4>1, FS_Subset
    <3>4. Cardinality(newer(d)) < PgLimit
      BY <1>3, <2>1
    <3>5. Cardinality(newer(r)) \in Nat /\ Cardinality(newer(d)) \in Nat
      BY <1>2, <2>1
    <3> HIDE DEF newer, trim
    <3> QED
      BY <1>1, <1>3, <3>3, <3>4, <3>5
  <2> QED
    BY <2>1, <2>2
<1>7. cursor \in rows \cup {0}
  BY <1>4, <1>6 DEF PgOldest
<1>8. ASSUME NEW r \in rows, ~more \/ (cursor \in PgExisting /\ ~PgOlder(PgKey(r), PgKey(cursor)))
      PROVE  r \in trim
  <2>1. 0 \notin PgExisting
    BY PgExistingIs
  <2>2. more => trim # {}
    BY <1>8, <2>1 DEF PgOldest
  <2> QED
    BY <1>5, <1>6, <1>8, <2>2
<1>9. trim \in SUBSET Nat /\ cursor \in Nat /\ more \in BOOLEAN
  <2>1. more \in BOOLEAN
    BY <1>1
  <2> HIDE DEF trim, more, cursor
  <2> QED
    BY <1>1, <1>4, <1>7, <2>1
<1>10. PgPage(rows) = [rows |-> trim, cursor |-> cursor, more |-> more, held |-> {}]
  BY DEF PgPage
<1> HIDE DEF trim, more, cursor
<1> QED
  BY <1>4, <1>7, <1>8, <1>9, <1>10 DEF PgLists

-----------------------------------------------------------------------------
(* The tables move under the lists.                                        *)

\* What a write to the tables may do to the rows that were there: none comes
\* back, keys only grow, and only the keys of the touched rows.
PgMoves(touched) ==
    /\ PgSeen \subseteq PgSeen'
    /\ \A r \in PgSeen : r \in PgExisting' =>
         /\ r \in PgExisting
         /\ r \notin touched => PgKey(r)' = PgKey(r)
         /\ PgOlder(PgKey(r), PgKey(r)') \/ PgKey(r)' = PgKey(r)

LEMMA PgCoversStays ==
    ASSUME PgShapes, PgShapes', NEW touched, PgMoves(touched),
           NEW held \in SUBSET PgSeen, NEW still \in SUBSET (held \ touched),
           NEW cursor \in PgSeen \cup {0}, NEW more \in BOOLEAN,
           NEW rows, NEW left, rows \cap PgExisting' \subseteq left,
           PgCovers(held, cursor, more, rows)
    PROVE  \A r \in still \cap PgExisting' :
              (~more \/ (cursor \in PgExisting' /\ ~PgOlder(PgKey(r)', PgKey(cursor)'))) => r \in left
<1> SUFFICES ASSUME NEW r \in still \cap PgExisting',
                    ~more \/ (cursor \in PgExisting' /\ ~PgOlder(PgKey(r)', PgKey(cursor)'))
             PROVE  r \in rows
  OBVIOUS
<1>1. r \in PgSeen /\ r \in PgExisting /\ r \in held /\ PgKey(r)' = PgKey(r)
  BY DEF PgMoves
<1>2. CASE ~more
  BY <1>1, <1>2 DEF PgCovers
<1>3. CASE more
  <2>1. 0 \notin PgExisting'
    BY PgKeysStill
  <2>2. cursor \in PgSeen /\ cursor \in PgExisting' /\ cursor \in PgExisting
    BY <1>3, <2>1 DEF PgMoves
  <2>3. PgKey(r) \in Nat \X Nat /\ PgKey(cursor) \in Nat \X Nat /\ PgKey(cursor)' \in Nat \X Nat
    <3>1. cursor \in PgSeen'
      BY <2>2 DEF PgMoves
    <3> QED
      BY <1>1, <2>2, <3>1, PgKeyIs, PgKeysStill
  <2>4. ~PgOlder(PgKey(r), PgKey(cursor)')
    BY <1>1, <1>3
  <2>5. PgOlder(PgKey(cursor), PgKey(cursor)') \/ PgKey(cursor)' = PgKey(cursor)
    BY <2>2 DEF PgMoves
  <2>6. ~PgOlder(PgKey(r), PgKey(cursor))
    <3> DEFINE k == PgKey(r)
               l == PgKey(cursor)
               m == PgKey(cursor)'
    <3> HIDE DEF k, l, m
    <3>1. k \in Nat \X Nat /\ l \in Nat \X Nat /\ m \in Nat \X Nat
      BY <2>3 DEF k, l, m
    <3>2. ~PgOlder(k, m) /\ (PgOlder(l, m) \/ m = l)
      BY <2>4, <2>5 DEF k, l, m
    <3>3. ~PgOlder(k, l)
      BY <3>1, <3>2 DEF PgOlder
    <3> QED
      BY <3>3 DEF k, l
  <2> QED
    BY <1>1, <2>2, <2>6 DEF PgCovers
<1> QED
  BY <1>2, <1>3

\* The lists stay good when only the tables move, and what is shown drops
\* no row that is still there.
LEMMA PgTableStep ==
    ASSUME PgIInv, PgShapes', NEW touched, PgMoves(touched),
           pgShown'.cursor = pgShown.cursor, pgShown'.more = pgShown.more,
           pgShown'.held \subseteq pgShown.held \ touched,
           pgShown'.rows \subseteq PgSeen', pgShown.rows \cap PgExisting' \subseteq pgShown'.rows,
           pgAsk'["next"] = pgAsk["next"],
           pgAsk'["first"].answer.cursor = pgAsk["first"].answer.cursor,
           pgAsk'["first"].answer.more = pgAsk["first"].answer.more,
           pgAsk'["first"].answer.rows = pgAsk["first"].answer.rows,
           pgAsk'["first"].answer.held \subseteq pgAsk["first"].answer.held \ touched
    PROVE  PgNamed' /\ PgAsked' /\ PgGoesOn' /\ PgComplete'
<1> DEFINE first == pgAsk["first"]
           next == pgAsk["next"]
<1>1. PgShapes /\ PgNamed /\ PgAsked /\ PgGoesOn /\ PgComplete /\ PgSeen \subseteq PgSeen'
  BY DEF PgIInv, PgMoves
<1>2. /\ pgShown \in PgLists /\ first \in PgRequests /\ next \in PgRequests
      /\ first.answer \in PgLists /\ next.answer \in PgLists
  BY <1>1 DEF PgShapes, PgAsks, PgRequests
<1>3. /\ pgShown.held \subseteq PgSeen /\ pgShown.cursor \in PgSeen \cup {0}
      /\ first.answer.held \subseteq PgSeen /\ first.answer.cursor \in PgSeen \cup {0}
      /\ next.answer.cursor \in PgSeen \cup {0}
      /\ next.answer.rows \subseteq PgSeen /\ first.answer.rows \subseteq PgSeen
      /\ next.answer.held \subseteq PgSeen
  BY <1>1 DEF PgNamed, PgNames, PgAsks
<1>4. PgNamed'
  BY <1>1, <1>3 DEF PgNamed, PgNames, PgAsks
<1>5. PgComplete'
  <2>1. pgShown.more \in BOOLEAN
    BY <1>2 DEF PgLists
  <2>2. \A r \in pgShown'.held \cap PgExisting' :
          (~pgShown.more \/ (pgShown.cursor \in PgExisting'
                              /\ ~PgOlder(PgKey(r)', PgKey(pgShown.cursor)')))
            => r \in pgShown'.rows
    BY <1>1, <1>3, <2>1, PgCoversStays DEF PgComplete
  <2> QED
    BY <2>2 DEF PgComplete, PgCovers
<1>6. PgAsked'
  <2>1. first.answer.more \in BOOLEAN
    BY <1>2 DEF PgLists
  <2>2. \A r \in pgAsk'["first"].answer.held \cap PgExisting' :
          (~first.answer.more \/ (first.answer.cursor \in PgExisting'
                                  /\ ~PgOlder(PgKey(r)', PgKey(first.answer.cursor)')))
            => r \in first.answer.rows
    BY <1>1, <1>3, <2>1, PgCoversStays DEF PgAsked
  <2> QED
    BY <1>1, <2>2 DEF PgAsked, PgCovers
<1>7. PgGoesOn'
  <2> SUFFICES ASSUME ~next.late PROVE PgGoesOn'
    BY DEF PgGoesOn
  <2>1. next.pc \in {"asked", "select"} =>
          pgShown'.held = {} \/ (pgShown'.cursor = next.after /\ pgShown'.more)
    BY <1>1 DEF PgGoesOn
  <2>2. next.pc = "select" =>
          \A r \in pgShown'.held \cap PgExisting' :
             ~PgOlder(PgKey(r)', next.key) => r \in pgShown'.rows
    BY <1>1, <1>3 DEF PgGoesOn, PgMoves
  <2>3. next.pc = "answered" /\ next.answer.rows # {} =>
          \A r \in pgShown'.held \cap PgExisting' :
            (~next.answer.more \/ (next.answer.cursor \in PgExisting'
                                    /\ ~PgOlder(PgKey(r)', PgKey(next.answer.cursor)')))
              => r \in pgShown'.rows \cup next.answer.rows
    <3>1. next.answer.more \in BOOLEAN
      BY <1>2 DEF PgLists
    <3>2. (pgShown.rows \cup next.answer.rows) \cap PgExisting' \subseteq pgShown'.rows \cup next.answer.rows
      OBVIOUS
    <3> QED
      BY <1>1, <1>3, <3>1, <3>2, PgCoversStays DEF PgGoesOn
  <2> QED
    BY <2>1, <2>2, <2>3 DEF PgGoesOn, PgCovers
<1> QED
  BY <1>4, <1>5, <1>6, <1>7

LEMMA PgStillLists ==
    ASSUME PgIInv, PgShapes', NEW touched, PgMoves(touched), UNCHANGED <<pgShown, pgAsk>>,
           touched = {}
    PROVE  PgIInv'
<1>1. pgShown.rows \subseteq PgSeen /\ PgSeen \subseteq PgSeen'
  BY DEF PgIInv, PgNamed, PgNames, PgMoves
<1> QED
  BY <1>1, PgTableStep DEF PgIInv

LEMMA PgTickKeeps == ASSUME PgIInv, PgTick PROVE PgIInv'
<1>1. PgShapes /\ PgShapes'
  <2>1. pgNow \in Nat /\ pgNow' = pgNow + 1 /\ PgMaxTime \in Nat /\ pgNow < PgMaxTime
    BY PagingAssumption DEF PgIInv, PgShapes, PgTick
  <2>2. pgNow' \in 1..PgMaxTime /\ 0..pgNow \subseteq 0..pgNow'
    BY <2>1
  <2>3. /\ pgSession' \in [PgIds -> [at : 0..pgNow', live : BOOLEAN]]
        /\ pgMessage' \in Seq(0..pgNow')
    BY <2>2 DEF PgIInv, PgShapes, PgTick
  <2> QED
    BY <2>2, <2>3 DEF PgIInv, PgShapes, PgTick, PgPageStays
<1>2. PgMoves({})
  BY DEF PgMoves, PgTick, PgPageStays, PgSeen, PgExisting, PgKey
<1>3. UNCHANGED <<pgShown, pgAsk>>
  BY DEF PgTick, PgPageStays
<1> QED
  BY <1>1, <1>2, <1>3, PgStillLists

LEMMA PgCreateKeeps == ASSUME PgIInv, PgCreate PROVE PgIInv'
<1>1. PgShapes /\ PgShapes'
  <2>1. PgSessions \in PgIds => pgSession' \in [PgIds -> [at : 0..pgNow, live : BOOLEAN]]
    BY PagingAssumption DEF PgIInv, PgShapes, PgCreate
  <2>2. PgSessions \notin PgIds => pgSession' = pgSession
    BY DEF PgIInv, PgShapes, PgCreate
  <2> QED
    BY <2>1, <2>2 DEF PgIInv, PgShapes, PgCreate, PgPageStays
<1>2. PgMoves({})
  <2>1. \A s \in PgIds \ {PgSessions} : pgSession'[s] = pgSession[s]
    BY <1>1 DEF PgShapes, PgCreate
  <2>2. pgKind = "sessions" /\ pgKind' = "sessions"
    BY DEF PgCreate, PgWrite, PgPageStays
  <2>3. PgSessions \in PgIds => PgSessions \notin PgSeen
    BY <2>2 DEF PgSeen, PgCreate
  <2>4. PgSessions \in PgIds => pgSession'[PgSessions].live
    BY <1>1 DEF PgShapes, PgCreate
  <2> QED
    BY <2>1, <2>2, <2>3, <2>4 DEF PgMoves, PgSeen, PgExisting, PgKey
<1>3. UNCHANGED <<pgShown, pgAsk>>
  BY DEF PgCreate, PgPageStays
<1> QED
  BY <1>1, <1>2, <1>3, PgStillLists

LEMMA PgInsertKeeps == ASSUME PgIInv, PgInsert PROVE PgIInv'
<1> USE DEF PgIInv
<1>1. PICK at \in {pgNow - 1, pgNow} : pgMessage' = Append(pgMessage, at)
  BY DEF PgInsert
<1>2. PgShapes /\ PgShapes'
  <2>1. at \in 0..pgNow
    BY <1>1, PagingAssumption DEF PgShapes
  <2> QED
    BY <1>1, <2>1 DEF PgShapes, PgInsert, PgPageStays
<1>3. PgMoves({})
  <2>1. pgKind = "messages" /\ pgKind' = "messages" /\ pgMessage \in Seq(0..pgNow)
    BY DEF PgInsert, PgPageStays, PgShapes
  <2>2. DOMAIN pgMessage \subseteq DOMAIN pgMessage'
    BY <1>1, <1>2, <2>1 DEF PgShapes
  <2>3. \A m \in DOMAIN pgMessage : pgMessage'[m] = pgMessage[m]
    BY <1>1, <2>1
  <2> QED
    BY <2>1, <2>2, <2>3 DEF PgMoves, PgSeen, PgExisting, PgKey
<1>4. UNCHANGED <<pgShown, pgAsk>>
  BY DEF PgInsert, PgPageStays
<1> QED
  BY <1>2, <1>3, <1>4, PgStillLists

LEMMA PgTouchKeeps ==
    ASSUME PgIInv, NEW s \in PgIds, NEW here \in BOOLEAN, PgTouch(s, here) PROVE PgIInv'
<1>1. /\ PgShapes /\ PgNamed /\ pgKind = "sessions" /\ pgKind' = "sessions"
      /\ pgSession[s].live /\ pgNow' = pgNow
      /\ pgSession' = [pgSession EXCEPT ![s].at = pgNow]
  BY DEF PgIInv, PgTouch, PgWrite, PgShapes
<1>2. /\ pgShown' \in PgLists
      /\ pgShown'.cursor = pgShown.cursor /\ pgShown'.more = pgShown.more
      /\ pgShown'.held = pgShown.held \ {s}
      /\ pgShown'.rows = IF here THEN pgShown.rows \cup {s} ELSE pgShown.rows
  <2>1. pgShown \in PgLists /\ s \in Nat
    BY <1>1, PagingAssumption DEF PgShapes, PgIds
  <2> QED
    BY <2>1 DEF PgTouch, PgLists
<1>3. /\ pgAsk' \in [PgAsks -> PgRequests] /\ pgAsk'["next"] = pgAsk["next"]
      /\ pgAsk'["first"].answer.cursor = pgAsk["first"].answer.cursor
      /\ pgAsk'["first"].answer.more = pgAsk["first"].answer.more
      /\ pgAsk'["first"].answer.rows = pgAsk["first"].answer.rows
      /\ pgAsk'["first"].answer.held = pgAsk["first"].answer.held \ {s}
  <2> DEFINE first == pgAsk["first"]
             answer == [first.answer EXCEPT !.held = @ \ {s}]
             second == [first EXCEPT !.answer = answer]
  <2>1. first \in PgRequests /\ first.answer \in PgLists /\ pgAsk \in [PgAsks -> PgRequests]
    BY <1>1 DEF PgShapes, PgAsks, PgRequests
  <2>2. /\ answer \in PgLists /\ answer.cursor = first.answer.cursor
        /\ answer.more = first.answer.more /\ answer.rows = first.answer.rows
        /\ answer.held = first.answer.held \ {s}
    BY <2>1 DEF PgLists
  <2>3. second \in PgRequests /\ second.answer = answer
    <3> HIDE DEF answer
    <3> QED
      BY <2>1, <2>2 DEF PgRequests
  <2>4. pgAsk' = [pgAsk EXCEPT !["first"] = second]
    BY DEF PgTouch
  <2> HIDE DEF answer, second
  <2> QED
    BY <2>1, <2>2, <2>3, <2>4 DEF PgAsks
<1>4. PgShapes'
  <2>1. pgNow \in 0..pgNow
    BY <1>1, PagingAssumption DEF PgShapes
  <2>2. pgSession' \in [PgIds -> [at : 0..pgNow, live : BOOLEAN]]
    BY <1>1, <2>1 DEF PgShapes
  <2> QED
    BY <1>1, <1>2, <1>3, <2>2 DEF PgShapes, PgTouch
<1>5. PgMoves({s})
  <2>1. \A t \in PgIds \ {s} : pgSession'[t] = pgSession[t]
    BY <1>1 DEF PgShapes
  <2>2. pgSession'[s].live /\ pgSession'[s].at = pgNow
    BY <1>1 DEF PgShapes
  <2>3. PgSeen' = PgSeen /\ PgExisting' = PgExisting
    BY <1>1, <2>1, <2>2 DEF PgSeen, PgExisting
  <2>4. PgOlder(PgKey(s), PgKey(s)') \/ PgKey(s)' = PgKey(s)
    <3>1. pgSession[s].at \in 0..pgNow /\ pgNow \in Nat
      BY <1>1, PagingAssumption DEF PgShapes
    <3>2. PgKey(s) = <<pgSession[s].at, s>> /\ PgKey(s)' = <<pgNow, s>>
      BY <1>1, <2>2 DEF PgKey
    <3> QED
      BY <3>1, <3>2 DEF PgOlder
  <2>5. \A t \in PgSeen \ {s} : PgKey(t)' = PgKey(t)
    BY <1>1, <2>1 DEF PgKey, PgSeen
  <2>6. PgExisting \subseteq PgSeen
    BY DEF PgExisting, PgSeen
  <2> QED
    BY <2>3, <2>4, <2>5, <2>6 DEF PgMoves
<1>6. pgShown'.rows \subseteq PgSeen'
  <2>1. s \in PgSeen /\ PgSeen \subseteq PgSeen'
    BY <1>1, <1>5 DEF PgSeen, PgMoves
  <2> QED
    BY <1>1, <1>2, <2>1 DEF PgNamed, PgNames
<1> QED
  BY <1>2, <1>3, <1>4, <1>5, <1>6, PgTableStep DEF PgIInv

LEMMA PgDeleteKeeps ==
    ASSUME PgIInv, NEW s \in PgIds, NEW here \in BOOLEAN, PgDelete(s, here) PROVE PgIInv'
<1>1. /\ PgShapes /\ PgNamed /\ pgKind = "sessions" /\ pgKind' = "sessions"
      /\ pgSession[s].live /\ pgNow' = pgNow /\ pgAsk' = pgAsk
      /\ pgSession' = [pgSession EXCEPT ![s].live = FALSE, ![s].at = 0]
  BY DEF PgIInv, PgDelete, PgWrite, PgShapes
<1>2. /\ pgShown' \in PgLists
      /\ pgShown'.cursor = pgShown.cursor /\ pgShown'.more = pgShown.more
      /\ pgShown'.held = pgShown.held
      /\ pgShown'.rows = IF here THEN pgShown.rows \ {s} ELSE pgShown.rows
  <2>1. pgShown \in PgLists
    BY <1>1 DEF PgShapes
  <2> QED
    BY <2>1 DEF PgDelete, PgLists
<1>3. /\ pgSession' \in [PgIds -> [at : 0..pgNow, live : BOOLEAN]]
      /\ ~pgSession'[s].live /\ pgSession'[s].at = 0
      /\ \A t \in PgIds \ {s} : pgSession'[t] = pgSession[t]
  <2>1. 0 \in 0..pgNow
    BY <1>1, PagingAssumption DEF PgShapes
  <2> QED
    BY <1>1, <2>1 DEF PgShapes
<1>4. PgShapes'
  BY <1>1, <1>2, <1>3 DEF PgShapes, PgDelete
<1>5. PgMoves({})
  BY <1>1, <1>3 DEF PgMoves, PgSeen, PgExisting, PgKey
<1>6. pgShown'.rows \subseteq PgSeen' /\ s \notin PgExisting'
  BY <1>1, <1>2, <1>3, <1>5 DEF PgNamed, PgNames, PgMoves, PgExisting
<1> QED
  BY <1>1, <1>2, <1>4, <1>5, <1>6, PgTableStep DEF PgIInv

-----------------------------------------------------------------------------
(* The queries and the page.                                               *)

LEMMA PgTablesSame ==
    ASSUME PgTablesStay
    PROVE  PgSeen' = PgSeen /\ PgExisting' = PgExisting /\ \A r : PgKey(r)' = PgKey(r)
BY DEF PgTablesStay, PgSeen, PgExisting, PgKey

\* The fields of a request that changes.
LEMMA PgRequestIs ==
    ASSUME PgShapes, NEW a \in PgAsks
    PROVE  /\ pgAsk[a] \in PgRequests /\ pgAsk[a].answer \in PgLists
           /\ pgShown \in PgLists
BY DEF PgShapes, PgRequests

LEMMA PgAskSet ==
    ASSUME PgShapes, PgTablesStay, NEW a \in PgAsks, NEW request \in PgRequests,
           pgAsk' = [pgAsk EXCEPT ![a] = request], pgShown' \in PgLists
    PROVE  /\ PgShapes' /\ pgAsk'[a] = request
           /\ \A b \in PgAsks \ {a} : pgAsk'[b] = pgAsk[b]
BY DEF PgShapes, PgTablesStay

LEMMA PgNoneIs ==
    /\ PgNone \in PgRequests /\ PgNone.pc = "idle" /\ PgNone.answer = PgRows /\ ~PgNone.late
    /\ PgRows \in PgLists /\ PgRows.held = {} /\ PgRows.rows = {} /\ PgRows.cursor = 0
BY DEF PgNone, PgRows, PgRequests, PgLists

LEMMA PgFirstPageKeeps == ASSUME PgIInv, PgFirstPage PROVE PgIInv'
<1> DEFINE first == pgAsk["first"]
           page == PgPage(PgExisting)
           answer == [page EXCEPT !.held = PgExisting]
           second == [first EXCEPT !.pc = "answered", !.answer = answer]
<1>1. /\ PgShapes /\ PgNamed /\ PgAsked /\ PgGoesOn /\ PgComplete
      /\ PgTablesStay /\ pgShown' = pgShown
      /\ pgAsk' = [pgAsk EXCEPT !["first"] = second]
  BY DEF PgIInv, PgFirstPage
<1>2. first \in PgRequests /\ pgShown \in PgLists
  BY <1>1, PgRequestIs DEF PgAsks
<1>3. /\ page \in PgLists /\ page.rows \subseteq PgExisting /\ page.cursor \in PgExisting \cup {0}
      /\ \A r \in PgExisting :
           ~page.more \/ (page.cursor \in PgExisting /\ ~PgOlder(PgKey(r), PgKey(page.cursor)))
             => r \in page.rows
  BY <1>1, PgPageCovers
<1>4. PgExisting \subseteq PgSeen /\ PgExisting \subseteq Nat
  BY <1>1, PgExistingIs
<1>5. /\ answer \in PgLists /\ answer.rows = page.rows /\ answer.cursor = page.cursor
      /\ answer.more = page.more /\ answer.held = PgExisting
  <2> HIDE DEF page
  <2> QED
    BY <1>3, <1>4 DEF PgLists
<1>6. second \in PgRequests /\ second.answer = answer
  <2> HIDE DEF answer
  <2> QED
    BY <1>2, <1>5 DEF PgRequests
<1> HIDE DEF page, answer, second
<1>7. PgShapes' /\ pgAsk'["first"] = second /\ pgAsk'["next"] = pgAsk["next"]
  BY <1>1, <1>2, <1>6, PgAskSet DEF PgAsks
<1>8. PgNamed'
  BY <1>1, <1>3, <1>4, <1>5, <1>6, <1>7, PgTablesSame DEF PgNamed, PgNames, PgAsks
<1>9. PgAsked'
  BY <1>1, <1>3, <1>5, <1>6, <1>7, PgTablesSame DEF PgAsked, PgCovers
<1>10. PgGoesOn' /\ PgComplete'
  BY <1>1, <1>7, PgTablesSame DEF PgGoesOn, PgComplete, PgCovers
<1> QED
  BY <1>7, <1>8, <1>9, <1>10 DEF PgIInv

\* What a move of the next request has to keep.
LEMMA PgNextMoves ==
    ASSUME PgIInv, PgTablesStay, pgShown' = pgShown, NEW request \in PgRequests,
           pgAsk' = [pgAsk EXCEPT !["next"] = request],
           PgNames(request.answer), request.answer.held = {},
           request.pc # "answered" => request.answer.rows = {}
    PROVE  /\ PgShapes' /\ PgNamed' /\ PgAsked' /\ PgComplete'
           /\ pgAsk'["next"] = request /\ (PgGoesOn' => PgIInv')
<1>1. PgShapes /\ PgNamed /\ PgAsked /\ PgComplete /\ pgShown \in PgLists
  BY DEF PgIInv, PgShapes
<1>2. PgShapes' /\ pgAsk'["next"] = request /\ pgAsk'["first"] = pgAsk["first"]
  BY <1>1, PgAskSet DEF PgAsks
<1>3. PgNamed'
  BY <1>1, <1>2, PgTablesSame DEF PgNamed, PgNames, PgAsks
<1>4. PgAsked' /\ PgComplete'
  BY <1>1, <1>2, PgTablesSame DEF PgAsked, PgComplete, PgCovers
<1> QED
  BY <1>2, <1>3, <1>4 DEF PgIInv

LEMMA PgReadCursorKeeps == ASSUME PgIInv, PgReadCursor PROVE PgIInv'
<1> DEFINE next == pgAsk["next"]
           anchor == next.after
           request == IF anchor \in PgExisting
                      THEN [next EXCEPT !.pc = "select", !.key = PgKey(anchor)]
                      ELSE [next EXCEPT !.pc = "answered"]
<1>1. /\ PgShapes /\ PgNamed /\ PgAsked /\ PgGoesOn /\ PgComplete
      /\ PgTablesStay /\ pgShown' = pgShown /\ next.pc = "asked"
      /\ pgAsk' = [pgAsk EXCEPT !["next"] = request]
  <2>1. pgAsk \in [PgAsks -> PgRequests]
    BY DEF PgIInv, PgShapes
  <2> QED
    BY <2>1 DEF PgIInv, PgReadCursor
<1>2. next \in PgRequests /\ pgShown \in PgLists
  BY <1>1, PgRequestIs DEF PgAsks
<1>3. anchor \in PgExisting => PgKey(anchor) \in Nat \X Nat
  BY <1>1, PgExistingIs, PgKeysAre
<1>4. /\ request \in PgRequests /\ request.answer = next.answer
      /\ request.late = next.late /\ request.pc \in {"select", "answered"}
      /\ request.pc = "select" =>
           request.key = PgKey(anchor) /\ anchor \in PgExisting /\ request.after = anchor
  BY <1>2, <1>3 DEF PgRequests
<1> HIDE DEF request
<1>5. PgNames(next.answer) /\ next.answer.held = {} /\ next.answer.rows = {}
  BY <1>1 DEF PgNamed, PgAsks, PgAsked
<1>6. pgAsk'["next"] = request /\ (PgGoesOn' => PgIInv')
  BY <1>1, <1>4, <1>5, PgNextMoves
<1>7. ASSUME ~next.late, request.pc = "select", NEW r \in pgShown.held \cap PgExisting,
             ~PgOlder(PgKey(r), request.key)
      PROVE  r \in pgShown.rows
  <2>1. pgShown.cursor = anchor /\ pgShown.more
    BY <1>1, <1>7 DEF PgGoesOn
  <2> QED
    BY <1>1, <1>4, <1>7, <2>1 DEF PgComplete, PgCovers
<1>8. ~next.late => pgShown.held = {} \/ (pgShown.cursor = anchor /\ pgShown.more)
  BY <1>1 DEF PgGoesOn
<1>9. PgGoesOn'
  BY <1>1, <1>4, <1>5, <1>6, <1>7, <1>8, PgTablesSame DEF PgGoesOn
<1> QED
  BY <1>6, <1>9

LEMMA PgSelectKeeps == ASSUME PgIInv, PgSelect PROVE PgIInv'
<1> DEFINE next == pgAsk["next"]
           older == {r \in PgExisting : PgAfter(r, next.key)}
           page == PgPage(older)
           request == [next EXCEPT !.pc = "answered", !.answer = page]
<1>1. /\ PgShapes /\ PgNamed /\ PgAsked /\ PgGoesOn /\ PgComplete
      /\ PgTablesStay /\ pgShown' = pgShown /\ next.pc = "select"
      /\ pgAsk' = [pgAsk EXCEPT !["next"] = request]
  <2>1. pgAsk \in [PgAsks -> PgRequests]
    BY DEF PgIInv, PgShapes
  <2> QED
    BY <2>1 DEF PgIInv, PgSelect
<1>2. next \in PgRequests /\ pgShown \in PgLists
  BY <1>1, PgRequestIs DEF PgAsks
<1>3. older \subseteq PgExisting
  OBVIOUS
<1>4. /\ page \in PgLists /\ page.rows \subseteq older /\ page.cursor \in older \cup {0} /\ page.held = {}
      /\ \A r \in older :
           ~page.more \/ (page.cursor \in PgExisting /\ ~PgOlder(PgKey(r), PgKey(page.cursor)))
             => r \in page.rows
  <2> HIDE DEF older
  <2> QED
    BY <1>1, <1>3, PgPageCovers
<1>5. /\ request \in PgRequests /\ request.answer = page /\ request.pc = "answered"
      /\ request.late = next.late
  <2> HIDE DEF page
  <2> QED
    BY <1>2, <1>4 DEF PgRequests
<1>6. PgNames(page)
  BY <1>1, <1>3, <1>4, PgExistingIs DEF PgNames
<1> HIDE DEF page, request
<1>7. pgAsk'["next"] = request /\ (PgGoesOn' => PgIInv')
  BY <1>1, <1>4, <1>5, <1>6, PgNextMoves
<1>8. ASSUME ~next.late, NEW r \in pgShown.held \cap PgExisting,
             ~page.more \/ (page.cursor \in PgExisting /\ ~PgOlder(PgKey(r), PgKey(page.cursor)))
      PROVE  r \in pgShown.rows \cup page.rows
  <2>1. CASE PgOlder(PgKey(r), next.key)
    <3>1. r \in older
      BY <2>1 DEF PgAfter
    <3> QED
      BY <1>4, <1>8, <3>1
  <2>2. CASE ~PgOlder(PgKey(r), next.key)
    BY <1>1, <1>8, <2>2 DEF PgGoesOn
  <2> QED
    BY <2>1, <2>2
<1> HIDE DEF older
<1>9. PgGoesOn'
  BY <1>1, <1>5, <1>7, <1>8, PgTablesSame DEF PgGoesOn, PgCovers
<1> QED
  BY <1>7, <1>9

LEMMA PgRefreshKeeps == ASSUME PgIInv, PgRefresh PROVE PgIInv'
<1> DEFINE first == pgAsk["first"]
           second == [first EXCEPT !.pc = "asked"]
<1>1. /\ PgShapes /\ PgNamed /\ PgAsked /\ PgGoesOn /\ PgComplete
      /\ PgTablesStay /\ pgShown' = pgShown
      /\ pgAsk' = [pgAsk EXCEPT !["first"] = second]
  BY DEF PgIInv, PgRefresh
<1>2. first \in PgRequests /\ pgShown \in PgLists
  BY <1>1, PgRequestIs DEF PgAsks
<1>3. second \in PgRequests /\ second.answer = first.answer
  BY <1>2 DEF PgRequests
<1> HIDE DEF second
<1>4. PgShapes' /\ pgAsk'["first"] = second /\ pgAsk'["next"] = pgAsk["next"]
  BY <1>1, <1>2, <1>3, PgAskSet DEF PgAsks
<1>5. PgNamed'
  BY <1>1, <1>3, <1>4, PgTablesSame DEF PgNamed, PgNames, PgAsks
<1>6. PgAsked' /\ PgGoesOn' /\ PgComplete'
  BY <1>1, <1>3, <1>4, PgTablesSame DEF PgAsked, PgGoesOn, PgComplete, PgCovers
<1> QED
  BY <1>4, <1>5, <1>6 DEF PgIInv

LEMMA PgMoreKeeps == ASSUME PgIInv, PgMore PROVE PgIInv'
<1> DEFINE next == pgAsk["next"]
           request == [next EXCEPT !.pc = "asked", !.after = pgShown.cursor]
<1>1. /\ PgShapes /\ PgNamed /\ PgAsked /\ PgTablesStay /\ pgShown' = pgShown
      /\ next.pc = "idle" /\ pgShown.more
      /\ pgAsk' = [pgAsk EXCEPT !["next"] = request]
  <2>1. pgAsk \in [PgAsks -> PgRequests]
    BY DEF PgIInv, PgShapes
  <2> QED
    BY <2>1 DEF PgIInv, PgMore
<1>2. next \in PgRequests /\ pgShown \in PgLists /\ pgShown.cursor \in Nat
  BY <1>1, PgRequestIs DEF PgAsks, PgLists
<1>3. /\ request \in PgRequests /\ request.answer = next.answer
      /\ request.pc = "asked" /\ request.after = pgShown.cursor
  BY <1>2 DEF PgRequests
<1> HIDE DEF request
<1>4. PgNames(next.answer) /\ next.answer.held = {} /\ next.answer.rows = {}
  BY <1>1 DEF PgNamed, PgAsks, PgAsked
<1>5. pgAsk'["next"] = request /\ (PgGoesOn' => PgIInv')
  BY <1>1, <1>3, <1>4, PgNextMoves
<1>6. PgGoesOn'
  BY <1>1, <1>3, <1>5 DEF PgGoesOn
<1> QED
  BY <1>5, <1>6

LEMMA PgShowFirstKeeps == ASSUME PgIInv, PgShowFirst PROVE PgIInv'
<1> DEFINE first == pgAsk["first"]
           next == pgAsk["next"]
           request == [next EXCEPT !.late = next.pc # "idle"]
<1>1. /\ PgShapes /\ PgNamed /\ PgAsked /\ PgTablesStay /\ pgShown' = first.answer
      /\ pgAsk' = [pgAsk EXCEPT !["first"] = PgNone, !["next"].late = next.pc # "idle"]
  BY DEF PgIInv, PgShowFirst
<1>2. /\ next \in PgRequests /\ first \in PgRequests /\ first.answer \in PgLists
      /\ pgAsk \in [PgAsks -> PgRequests]
  BY <1>1, PgRequestIs DEF PgAsks, PgShapes
<1>3. /\ request \in PgRequests /\ request.answer = next.answer
      /\ request.pc = next.pc /\ request.late = (next.pc # "idle")
  BY <1>2 DEF PgRequests
<1>4. pgAsk' = [pgAsk EXCEPT !["first"] = PgNone, !["next"] = request]
  BY <1>1, <1>2 DEF PgAsks
<1> HIDE DEF request
<1>5. pgAsk' \in [PgAsks -> PgRequests] /\ pgAsk'["first"] = PgNone /\ pgAsk'["next"] = request
  BY <1>2, <1>3, <1>4, PgNoneIs DEF PgAsks
<1>6. PgShapes'
  BY <1>1, <1>2, <1>5 DEF PgShapes, PgTablesStay
<1>7. PgNamed'
  BY <1>1, <1>3, <1>5, PgNoneIs, PgTablesSame DEF PgNamed, PgNames, PgAsks
<1>8. PgAsked' /\ PgComplete'
  BY <1>1, <1>3, <1>5, PgNoneIs, PgTablesSame DEF PgAsked, PgComplete, PgCovers
<1>9. PgGoesOn'
  BY <1>3, <1>5 DEF PgGoesOn
<1> QED
  BY <1>6, <1>7, <1>8, <1>9 DEF PgIInv

LEMMA PgShowNextKeeps == ASSUME PgIInv, PgShowNext PROVE PgIInv'
<1> DEFINE next == pgAsk["next"]
           dropped == next.late \/ next.answer.rows = {}
<1>1. /\ PgShapes /\ PgNamed /\ PgAsked /\ PgGoesOn /\ PgTablesStay /\ next.pc = "answered"
      /\ pgShown' = [next.answer EXCEPT !.rows = @ \cup pgShown.rows,
                                       !.held = IF dropped THEN {} ELSE pgShown.held]
      /\ pgAsk' = [pgAsk EXCEPT !["next"] = PgNone]
  BY DEF PgIInv, PgShowNext
<1>2. next.answer \in PgLists /\ pgShown \in PgLists
  BY <1>1, PgRequestIs DEF PgAsks
<1> HIDE DEF dropped
<1>3. /\ pgShown' \in PgLists
      /\ pgShown'.rows = next.answer.rows \cup pgShown.rows
      /\ pgShown'.cursor = next.answer.cursor /\ pgShown'.more = next.answer.more
      /\ pgShown'.held = IF dropped THEN {} ELSE pgShown.held
  BY <1>1, <1>2 DEF PgLists
<1>4. PgShapes' /\ pgAsk'["next"] = PgNone /\ pgAsk'["first"] = pgAsk["first"]
  BY <1>1, <1>3, PgNoneIs, PgAskSet DEF PgAsks
<1>5. PgNamed'
  BY <1>1, <1>3, <1>4, PgNoneIs, PgTablesSame DEF PgNamed, PgNames, PgAsks
<1>6. PgAsked'
  BY <1>1, <1>4, PgNoneIs, PgTablesSame DEF PgAsked, PgCovers
<1>7. PgGoesOn'
  BY <1>4, PgNoneIs DEF PgGoesOn
<1>8. PgComplete'
  BY <1>1, <1>3, PgTablesSame DEF PgGoesOn, PgComplete, PgCovers, dropped
<1> QED
  BY <1>4, <1>5, <1>6, <1>7, <1>8 DEF PgIInv

LEMMA PgFailsKeeps == ASSUME PgIInv, NEW a \in PgAsks, PgFails(a) PROVE PgIInv'
<1>1. /\ PgShapes /\ PgNamed /\ PgAsked /\ PgGoesOn /\ PgComplete /\ PgTablesStay
      /\ pgAsk' = [pgAsk EXCEPT ![a] = PgNone]
      /\ pgShown' = pgShown \/ (pgShown' = PgRows /\ a = "first")
  BY DEF PgIInv, PgFails
<1>2. PgShapes' /\ pgAsk'[a] = PgNone /\ \A b \in PgAsks \ {a} : pgAsk'[b] = pgAsk[b]
  BY <1>1, PgNoneIs, PgRequestIs, PgAskSet
<1>3. PgNamed'
  BY <1>1, <1>2, PgNoneIs, PgTablesSame DEF PgNamed, PgNames
<1>4. PgComplete'
  BY <1>1, PgNoneIs, PgTablesSame DEF PgComplete, PgCovers
<1>5. PgAsked'
  BY <1>1, <1>2, PgNoneIs, PgTablesSame DEF PgAsked, PgCovers, PgAsks
<1>6. PgGoesOn'
  BY <1>1, <1>2, PgNoneIs, PgTablesSame DEF PgGoesOn, PgCovers, PgAsks
<1> QED
  BY <1>2, <1>3, <1>4, <1>5, <1>6 DEF PgIInv

-----------------------------------------------------------------------------
LEMMA PgInitially == PgInit => PgIInv
<1> SUFFICES ASSUME PgInit PROVE PgIInv
  OBVIOUS
<1>1. PgShapes
  BY PagingAssumption, PgNoneIs DEF PgInit, PgShapes
<1>2. PgNamed /\ PgAsked /\ PgGoesOn /\ PgComplete
  BY PgNoneIs DEF PgInit, PgNamed, PgNames, PgAsked, PgGoesOn, PgComplete, PgCovers, PgAsks
<1> QED
  BY <1>1, <1>2 DEF PgIInv

LEMMA PgStep == PgIInv /\ [PgNext]_pgVars => PgIInv'
<1> SUFFICES ASSUME PgIInv, [PgNext]_pgVars PROVE PgIInv'
  OBVIOUS
<1>1. CASE UNCHANGED pgVars
  BY <1>1 DEF pgVars, PgIInv, PgShapes, PgNamed, PgNames, PgAsked, PgGoesOn, PgComplete, PgCovers,
              PgSeen, PgExisting, PgKey
<1>2. ASSUME NEW s \in PgIds, NEW here \in BOOLEAN, PgTouch(s, here) \/ PgDelete(s, here)
      PROVE  PgIInv'
  BY <1>2, PgTouchKeeps, PgDeleteKeeps
<1>3. CASE PgTick \/ PgCreate \/ PgInsert
  BY <1>3, PgTickKeeps, PgCreateKeeps, PgInsertKeeps
<1>4. CASE PgFirstPage \/ PgReadCursor \/ PgSelect
  BY <1>4, PgFirstPageKeeps, PgReadCursorKeeps, PgSelectKeeps
<1>5. CASE PgRefresh \/ PgMore \/ PgShowFirst \/ PgShowNext
  BY <1>5, PgRefreshKeeps, PgMoreKeeps, PgShowFirstKeeps, PgShowNextKeeps
<1>6. ASSUME NEW a \in PgAsks, PgFails(a) PROVE PgIInv'
  BY <1>6, PgFailsKeeps
<1> QED
  BY <1>1, <1>2, <1>3, <1>4, <1>5, <1>6 DEF PgNext

LEMMA PgInductive == PgSpec => []PgIInv
BY PgInitially, PgStep, PTL DEF PgSpec

LEMMA PgTypes == PgIInv => PgTypeOK
<1> SUFFICES ASSUME PgIInv PROVE PgTypeOK
  OBVIOUS
<1>1. PgShapes /\ PgNamed
  BY DEF PgIInv
<1>2. pgShown.rows \subseteq IF pgKind = "sessions" THEN PgIds ELSE DOMAIN pgMessage
  BY <1>1 DEF PgNamed, PgNames, PgSeen
<1>3. \A m \in DOMAIN pgMessage : pgMessage[m] \in 0..pgNow
  BY <1>1 DEF PgShapes
<1>4. \A a \in PgAsks : pgAsk[a].pc \in {"idle", "asked", "select", "answered"}
  BY <1>1 DEF PgShapes, PgRequests
<1> QED
  BY <1>1, <1>2, <1>3, <1>4 DEF PgTypeOK, PgShapes

(***************************************************************************)
(* The lists name only sessions and messages that there are, and the times *)
(* of the rows are never ahead of the clock.                               *)
(***************************************************************************)
THEOREM PgTypeCorrect == PgSpec => []PgTypeOK
BY PgInductive, PgTypes, PTL

(***************************************************************************)
(* Page after page, listSessions and getMessagesBefore leave no hole among *)
(* the rows that stay in place, for any number of rows, any limit and any  *)
(* writes between the query for the anchor, the query for the page and the *)
(* answer.                                                                 *)
(***************************************************************************)
THEOREM PgListsHaveNoHoles == PgSpec => []PgNoHoles
<1>1. PgIInv => PgNoHoles
  BY DEF PgIInv, PgComplete, PgCovers, PgNoHoles, PgDue
<1> QED
  BY <1>1, PgInductive, PTL
================================================================================
