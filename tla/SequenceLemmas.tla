--------------------------- MODULE SequenceLemmas ---------------------------
(***************************************************************************)
(* What the proofs about queues need of sequences: which items are in them,  *)
(* and that they are distinct, when one is appended or taken off.           *)
(***************************************************************************)
EXTENDS Naturals, Integers, Sequences, Functions, SequenceTheorems, TLAPS

LEMMA RangeHeadTail ==
  ASSUME NEW S, NEW s \in Seq(S), s # <<>>, NEW x
  PROVE  x \in Range(s) <=> x = Head(s) \/ x \in Range(Tail(s))
<1>1. Head(s) = s[1] /\ Tail(s) \in Seq(S) /\ Len(Tail(s)) = Len(s) - 1
      /\ Len(s) \in Nat \ {0}
      /\ \A i \in 1 .. Len(Tail(s)) : Tail(s)[i] = s[i+1]
  BY HeadTailProperties, EmptySeq
<1>2. DOMAIN s = 1 .. Len(s) /\ DOMAIN Tail(s) = 1 .. (Len(s) - 1)
  BY <1>1, LenProperties
<1>3. ASSUME x \in Range(s), x # Head(s) PROVE x \in Range(Tail(s))
  <2>1. PICK i \in 1 .. Len(s) : x = s[i]
    BY <1>2, <1>3 DEF Range
  <2>2. i - 1 \in 1 .. (Len(s) - 1) /\ Tail(s)[i - 1] = x
    BY <1>1, <1>3, <2>1
  <2>3. QED
    BY <1>2, <2>2 DEF Range
<1>4. ASSUME x = Head(s) \/ x \in Range(Tail(s)) PROVE x \in Range(s)
  <2>1. CASE x = Head(s)
    BY <1>1, <1>2, <2>1 DEF Range
  <2>2. CASE x \in Range(Tail(s))
    <3>1. PICK i \in 1 .. (Len(s) - 1) : x = Tail(s)[i]
      BY <1>2, <2>2 DEF Range
    <3>2. i + 1 \in 1 .. Len(s) /\ x = s[i + 1]
      BY <1>1, <3>1
    <3>3. QED
      BY <1>2, <3>2 DEF Range
  <2>3. QED
    BY <1>4, <2>1, <2>2
<1>5. QED
  BY <1>3, <1>4

\* An item appended to a sequence of distinct items.
LEMMA AppendKeepsInjective ==
  ASSUME NEW S, NEW s \in Seq(S), NEW i \in S, IsInjective(s), i \notin Range(s)
  PROVE  IsInjective(s \o <<i>>) /\ Range(s \o <<i>>) = Range(s) \cup {i}
<1> DEFINE r == s \o <<i>>
           n == Len(s)
<1>1. n \in Nat /\ DOMAIN s = 1 .. n /\ r \in Seq(S) /\ Len(r) = n + 1
      /\ DOMAIN r = 1 .. (n + 1) /\ r[n + 1] = i /\ \A j \in 1 .. n : r[j] = s[j]
  BY LenProperties, ConcatProperties
<1> HIDE DEF r, n
<1>2. Range(r) = Range(s) \cup {i}
  <2>1. ASSUME NEW x \in Range(r) PROVE x \in Range(s) \cup {i}
    <3>1. PICK j \in 1 .. (n + 1) : x = r[j]
      BY <1>1 DEF Range
    <3>2. j = n + 1 \/ j \in 1 .. n
      BY <1>1
    <3>3. QED
      BY <1>1, <3>1, <3>2 DEF Range
  <2>2. i \in Range(r)
    <3>1. n + 1 \in 1 .. (n + 1)
      BY <1>1
    <3>2. QED
      BY <1>1, <3>1 DEF Range
  <2>3. ASSUME NEW x \in Range(s) PROVE x \in Range(r)
    <3>1. PICK j \in 1 .. n : x = s[j]
      BY <1>1 DEF Range
    <3>2. j \in 1 .. (n + 1)
      BY <1>1
    <3>3. QED
      BY <1>1, <3>1, <3>2 DEF Range
  <2>4. QED
    BY <2>1, <2>2, <2>3
<1>3. IsInjective(r)
  <2>1. SUFFICES ASSUME NEW j \in 1 .. (n + 1), NEW k \in 1 .. (n + 1), r[j] = r[k] PROVE j = k
    BY <1>1 DEF IsInjective
  <2>2. \A m \in 1 .. n : r[m] # i
    BY <1>1 DEF Range
  <2>3. (j = n + 1 \/ j \in 1 .. n) /\ (k = n + 1 \/ k \in 1 .. n)
    BY <1>1
  <2>4. CASE j \in 1 .. n /\ k \in 1 .. n
    BY <1>1, <2>1, <2>4 DEF IsInjective
  <2>5. QED
    BY <1>1, <2>1, <2>2, <2>3, <2>4
<1>4. IsInjective(s \o <<i>>)
  BY <1>3 DEF r
<1>5. Range(s \o <<i>>) = Range(s) \cup {i}
  BY <1>2 DEF r
<1>6. QED
  BY <1>4, <1>5

LEMMA LessOrEqual == ASSUME NEW x \in Nat, NEW y \in Nat, x <= y PROVE x < y \/ x = y
OBVIOUS

\* Taking the first of a sequence of distinct items.
LEMMA TailInjective ==
  ASSUME NEW S, NEW s \in Seq(S), s # <<>>, IsInjective(s)
  PROVE  IsInjective(Tail(s)) /\ Head(s) \notin Range(Tail(s))
<1>1. PICK n \in Nat \ {0} : n = Len(s)
  BY EmptySeq, LenProperties
<1>2. /\ DOMAIN s = 1 .. n /\ Head(s) = s[1] /\ DOMAIN Tail(s) = 1 .. (n - 1)
      /\ \A i \in 1 .. (n - 1) : Tail(s)[i] = s[i + 1]
  BY <1>1, HeadTailProperties, LenProperties
<1>3. IsInjective(Tail(s))
  <2>1. SUFFICES ASSUME NEW j \in 1 .. (n - 1), NEW k \in 1 .. (n - 1), Tail(s)[j] = Tail(s)[k]
                 PROVE  j = k
    BY <1>2 DEF IsInjective
  <2>2. j + 1 \in 1 .. n /\ k + 1 \in 1 .. n /\ s[j + 1] = s[k + 1]
    BY <1>2, <2>1
  <2>3. j + 1 = k + 1
    BY <1>2, <2>2 DEF IsInjective
  <2>4. QED
    BY <2>3
<1>4. Head(s) \notin Range(Tail(s))
  <2>1. SUFFICES ASSUME NEW j \in 1 .. (n - 1), Head(s) = Tail(s)[j] PROVE FALSE
    BY <1>2 DEF Range
  <2>2. 1 \in 1 .. n /\ j + 1 \in 1 .. n /\ s[1] = s[j + 1] /\ 1 # j + 1
    BY <1>2, <2>1
  <2>3. QED
    BY <1>2, <2>2 DEF IsInjective
<1>5. QED
  BY <1>3, <1>4

\* Cutting a sequence of distinct items in two.
LEMMA SplitInjective ==
  ASSUME NEW S, NEW s \in Seq(S), IsInjective(s), NEW n \in 0 .. Len(s)
  PROVE  LET a == SubSeq(s, 1, n)
             b == SubSeq(s, n + 1, Len(s))
         IN /\ IsInjective(a) /\ IsInjective(b) /\ Range(a) \cap Range(b) = {}
            /\ Range(a) \cup Range(b) = Range(s)
<1> DEFINE a == SubSeq(s, 1, n)
           b == SubSeq(s, n + 1, Len(s))
           m == Len(s)
<1>1. m \in Nat /\ n \in Nat /\ n <= m /\ DOMAIN s = 1 .. m
  BY LenProperties
<1>2. Len(a) = n /\ a \in Seq(S) /\ \A j \in 1 .. n : a[j] = s[j]
  BY <1>1, SubSeqProperties
<1>3. Len(b) = m - n /\ b \in Seq(S) /\ \A j \in 1 .. (m - n) : b[j] = s[n + j]
  <2>1. n + 1 \in Int /\ m \in Int /\ \A i \in (n + 1) .. m : s[i] \in S
    BY <1>1
  <2>2. /\ b \in Seq(S) /\ Len(b) = IF n + 1 <= m THEN m - (n + 1) + 1 ELSE 0
        /\ \A j \in 1 .. (m - (n + 1) + 1) : b[j] = s[(n + 1) + j - 1]
    BY <2>1, SubSeqProperties
  <2>3. Len(b) = m - n /\ m - (n + 1) + 1 = m - n
    <3>1. m - (n + 1) + 1 = m - n
      BY <1>1
    <3>2. CASE n < m
      <4>1. n + 1 <= m
        BY <1>1, <3>2
      <4>2. QED
        BY <2>2, <3>1, <4>1
    <3>3. CASE n = m
      <4>1. ~(n + 1 <= m) /\ m - n = 0
        BY <1>1, <3>3
      <4>2. QED
        BY <2>2, <3>1, <4>1
    <3>4. n < m \/ n = m
      BY <1>1, LessOrEqual
    <3>5. QED
      BY <3>1, <3>2, <3>3, <3>4
  <2>4. \A j \in 1 .. (m - n) : (n + 1) + j - 1 = n + j
    BY <1>1
  <2>5. QED
    BY <2>2, <2>3, <2>4
<1>4. DOMAIN a = 1 .. n /\ DOMAIN b = 1 .. (m - n)
  BY <1>2, <1>3, LenProperties
<1> HIDE DEF a, b, m
<1>5. IsInjective(a)
  <2>1. SUFFICES ASSUME NEW j \in 1 .. n, NEW k \in 1 .. n, a[j] = a[k] PROVE j = k
    BY <1>4 DEF IsInjective
  <2>2. j \in 1 .. m /\ k \in 1 .. m /\ s[j] = s[k]
    BY <1>1, <1>2, <2>1
  <2>3. QED
    BY <1>1, <2>2 DEF IsInjective
<1>6. IsInjective(b)
  <2>1. SUFFICES ASSUME NEW j \in 1 .. (m - n), NEW k \in 1 .. (m - n), b[j] = b[k] PROVE j = k
    BY <1>4 DEF IsInjective
  <2>2. n + j \in 1 .. m /\ n + k \in 1 .. m /\ s[n + j] = s[n + k]
    BY <1>1, <1>3, <2>1
  <2>3. n + j = n + k
    BY <1>1, <2>2 DEF IsInjective
  <2>4. QED
    BY <1>1, <2>3
<1>7. Range(a) \cap Range(b) = {}
  <2>1. SUFFICES ASSUME NEW j \in 1 .. n, NEW k \in 1 .. (m - n), a[j] = b[k] PROVE FALSE
    BY <1>4 DEF Range
  <2>2. j \in 1 .. m /\ n + k \in 1 .. m /\ s[j] = s[n + k] /\ j # n + k
    BY <1>1, <1>2, <1>3, <2>1
  <2>3. QED
    BY <1>1, <2>2 DEF IsInjective
<1>8. Range(a) \cup Range(b) = Range(s)
  <2>1. ASSUME NEW x \in Range(a) PROVE x \in Range(s)
    <3>1. PICK j \in 1 .. n : x = a[j]
      BY <1>4 DEF Range
    <3>2. j \in 1 .. m /\ x = s[j]
      BY <1>1, <1>2, <3>1
    <3>3. QED
      BY <1>1, <3>2 DEF Range
  <2>2. ASSUME NEW x \in Range(b) PROVE x \in Range(s)
    <3>1. PICK j \in 1 .. (m - n) : x = b[j]
      BY <1>4 DEF Range
    <3>2. n + j \in 1 .. m /\ x = s[n + j]
      BY <1>1, <1>3, <3>1
    <3>3. QED
      BY <1>1, <3>2 DEF Range
  <2>3. ASSUME NEW x \in Range(s) PROVE x \in Range(a) \cup Range(b)
    <3>1. PICK j \in 1 .. m : x = s[j]
      BY <1>1 DEF Range
    <3>2. CASE j \in 1 .. n
      BY <1>2, <1>4, <3>1, <3>2 DEF Range
    <3>3. CASE j \notin 1 .. n
      <4>1. j - n \in 1 .. (m - n) /\ n + (j - n) = j
        BY <1>1, <3>3
      <4>2. x = b[j - n]
        BY <1>3, <3>1, <4>1
      <4>3. QED
        BY <1>4, <4>1, <4>2 DEF Range
    <3>4. QED
      BY <3>2, <3>3
  <2>4. QED
    BY <2>1, <2>2, <2>3
<1>9. QED
  BY <1>5, <1>6, <1>7, <1>8 DEF a, b, m

LEMMA EmptyRange == Range(<<>>) = {} /\ IsInjective(<<>>)
BY DEF Range, IsInjective

LEMMA SingleRange == ASSUME NEW i PROVE Range(<<i>>) = {i} /\ IsInjective(<<i>>)
BY DEF Range, IsInjective

\* A sequence taken apart where two others were put together.
LEMMA Unconcat ==
  ASSUME NEW S, NEW a \in Seq(S), NEW b \in Seq(S)
  PROVE  /\ SubSeq(a \o b, 1, Len(a)) = a
         /\ SubSeq(a \o b, Len(a) + 1, Len(a \o b)) = b
<1> DEFINE s == a \o b
           n == Len(a)
           m == Len(b)
<1>1. n \in Nat /\ m \in Nat /\ s \in Seq(S) /\ Len(s) = n + m
  BY LenProperties, ConcatProperties
<1>2. \A i \in 1 .. n + m : s[i] = (IF i <= n THEN a[i] ELSE b[i - n]) /\ s[i] \in S
  BY <1>1, ConcatProperties, LenProperties
<1> HIDE DEF s, n, m
<1>3. SubSeq(s, 1, n) = a
  <2>1. SubSeq(s, 1, n) \in Seq(S) /\ Len(SubSeq(s, 1, n)) = n
        /\ \A i \in 1 .. n : SubSeq(s, 1, n)[i] = s[i]
    <3>1. 1 \in Int /\ n \in Int /\ \A i \in 1 .. n : s[i] \in S
      BY <1>1, <1>2
    <3>2. /\ SubSeq(s, 1, n) \in Seq(S)
          /\ Len(SubSeq(s, 1, n)) = IF 1 <= n THEN n - 1 + 1 ELSE 0
          /\ \A i \in 1 .. n - 1 + 1 : SubSeq(s, 1, n)[i] = s[1 + i - 1]
      BY <3>1, SubSeqProperties
    <3>3. QED
      BY <1>1, <3>2
  <2>2. \A i \in 1 .. n : s[i] = a[i]
    BY <1>1, <1>2
  <2>3. QED
    BY <2>1, <2>2, SeqEqual DEF n
<1>4. SubSeq(s, n + 1, n + m) = b
  <2>1. SubSeq(s, n + 1, n + m) \in Seq(S) /\ Len(SubSeq(s, n + 1, n + m)) = m
        /\ \A i \in 1 .. m : SubSeq(s, n + 1, n + m)[i] = s[n + i]
    <3>1. PICK k \in Int, l \in Int : k = n + 1 /\ l = n + m
      BY <1>1
    <3>2. \A i \in k .. l : s[i] \in S
      BY <1>1, <1>2, <3>1
    <3>3. /\ SubSeq(s, k, l) \in Seq(S)
          /\ Len(SubSeq(s, k, l)) = IF k <= l THEN l - k + 1 ELSE 0
          /\ \A i \in 1 .. l - k + 1 : SubSeq(s, k, l)[i] = s[k + i - 1]
      BY <3>2, SubSeqProperties
    <3>4. l - k + 1 = m /\ (k <= l <=> m # 0) /\ \A i \in 1 .. m : k + i - 1 = n + i
      BY <1>1, <3>1
    <3>5. QED
      BY <1>1, <3>1, <3>3, <3>4
  <2>2. \A i \in 1 .. m : s[n + i] = b[i]
    BY <1>1, <1>2
  <2>3. QED
    BY <2>1, <2>2, SeqEqual DEF m
<1>5. QED
  BY <1>1, <1>3, <1>4 DEF s, n, m

\* The last item, taken off and put back.
LEMMA LastItem ==
  ASSUME NEW S, NEW s \in Seq(S), Len(s) > 0
  PROVE  s[Len(s)] \in S /\ SubSeq(s, 1, Len(s) - 1) \o <<s[Len(s)]>> = s
<1>1. Len(s) \in Nat /\ Len(s) \in 1 .. Len(s) /\ 1 \in 1 .. Len(s) /\ s \in [1 .. Len(s) -> S]
  BY LenProperties
<1>2. SubSeq(s, 1, Len(s)) = SubSeq(s, 1, Len(s) - 1) \o <<s[Len(s)]>>
  BY <1>1, SubSeqRecursiveSecond
<1>3. QED
  BY <1>1, <1>2, SubSeqFull

\* Cutting n items off the front of all but the last.
LEMMA CutBeforeLast ==
  ASSUME NEW S, NEW s \in Seq(S), NEW n \in Nat, n < Len(s)
  PROVE  LET r == SubSeq(s, n + 1, Len(s))
         IN /\ r \in Seq(S) /\ Len(r) = Len(s) - n /\ r[Len(r)] = s[Len(s)]
            /\ SubSeq(s, 1, n) \o SubSeq(r, 1, Len(r) - 1) = SubSeq(s, 1, Len(s) - 1)
<1> DEFINE r == SubSeq(s, n + 1, Len(s))
           m == Len(s)
<1>1. m \in Nat /\ s \in [1 .. m -> S] /\ n < m
  BY LenProperties
<1> HIDE DEF m
<1>2. /\ r \in Seq(S) /\ Len(r) = m - n /\ \A i \in 1 .. m - n : r[i] = s[n + i]
  <2>1. n + 1 \in Int /\ m \in Int /\ \A i \in n + 1 .. m : s[i] \in S
    BY <1>1
  <2>2. /\ r \in Seq(S) /\ Len(r) = IF n + 1 <= m THEN m - (n + 1) + 1 ELSE 0
        /\ \A i \in 1 .. m - (n + 1) + 1 : r[i] = s[(n + 1) + i - 1]
    BY <2>1, SubSeqProperties DEF m
  <2>3. QED
    BY <1>1, <2>2
<1>3. r[m - n] = s[m]
  BY <1>1, <1>2
<1>4. SubSeq(r, 1, m - n - 1) = SubSeq(s, n + 1, m - 1)
  <2>1. CASE n + 1 = m
    <3>1. m - n - 1 \in Int /\ m - n - 1 < 1 /\ n + 1 \in Int /\ m - 1 \in Int /\ m - 1 < n + 1
      BY <1>1, <2>1
    <3>2. QED
      BY <3>1, SubSeqEmpty
  <2>2. CASE n + 1 # m
    <3>1. /\ n + 1 \in 1 .. m /\ m \in 1 .. m
          /\ 1 \in 1 .. m - (n + 1) + 1 /\ m - n - 1 \in 1 .. m - (n + 1) + 1
          /\ (n + 1) + 1 - 1 = n + 1 /\ (n + 1) + (m - n - 1) - 1 = m - 1
      BY <1>1, <2>2
    <3>2. SubSeq(SubSeq(s, n + 1, m), 1, m - n - 1)
            = SubSeq(s, (n + 1) + 1 - 1, (n + 1) + (m - n - 1) - 1)
      BY <3>1, SubSeqOfSubSeq DEF m
    <3>3. QED
      BY <3>1, <3>2 DEF m
  <2>3. QED
    BY <2>1, <2>2
<1>5. SubSeq(s, 1, n) \o SubSeq(s, n + 1, m - 1) = SubSeq(s, 1, m - 1)
  <2>1. 1 \in 1 .. Len(s) + 1 /\ n \in 1 - 1 .. Len(s) /\ m - 1 \in n .. Len(s)
    BY <1>1 DEF m
  <2>2. QED
    BY <2>1, ConcatAdjacentSubSeq
<1>6. QED
  BY <1>2, <1>3, <1>4, <1>5 DEF m
=============================================================================
