----------------------------- MODULE SeqLemmas ------------------------------
(***************************************************************************)
(* Facts about the operators on sequences the models of the library's      *)
(* linked lists are built from: unlinking an element (RemoveAt), linking   *)
(* one in (InsertAt), pushing and popping an activation (Append, Front).   *)
(* And about those that are defined by recursion, FlattenSeq and FoldLeft: *)
(* induction is the principle of the least number, for sets of numbers.    *)
(***************************************************************************)
EXTENDS Integers, SequencesExt, SequenceTheorems, WellFoundedInduction, TLAPS

(* A non-empty set of naturals has a least element, the one Min chooses.   *)
LEMMA MinOfNaturals ==
    ASSUME NEW I \in SUBSET Nat, I # {}
    PROVE  /\ Min(I) \in I
           /\ \A i \in I : Min(I) <= i
<1>1. \E x \in I : \A y \in I : ~ (<<y, x>> \in OpToRel(<, Nat))
  BY WFMin, NatLessThanWellFounded, Zenon
<1>2. PICK x \in I : \A y \in I : ~ (<<y, x>> \in OpToRel(<, Nat))
  BY <1>1
<1>3. \A y \in I : x <= y
  <2>1. SUFFICES ASSUME NEW y \in I PROVE x <= y
    OBVIOUS
  <2>2. ~ (y < x)
    BY <1>2, Zenon DEF OpToRel
  <2>3. QED
    BY <2>2
<1>4. QED
  BY <1>3, Zenon DEF Min

(* Unlinking the element at k closes the gap and changes nothing else.     *)
LEMMA RemoveAtProperties ==
    ASSUME NEW S, NEW s \in Seq(S), NEW k \in 1..Len(s)
    PROVE  /\ RemoveAt(s, k) \in Seq(S)
           /\ Len(RemoveAt(s, k)) = Len(s) - 1
           /\ \A i \in 1..(Len(s) - 1) :
                 RemoveAt(s, k)[i] = IF i < k THEN s[i] ELSE s[i + 1]
<1> DEFINE a == SubSeq(s, 1, k - 1)
           b == SubSeq(s, k + 1, Len(s))
<1>1. /\ a \in Seq(S)
      /\ Len(a) = k - 1
      /\ \A i \in 1..(k - 1) : a[i] = s[i]
  OBVIOUS
<1>2. /\ b \in Seq(S)
      /\ Len(b) = Len(s) - k
      /\ \A i \in 1..(Len(s) - k) : b[i] = s[k + i]
  OBVIOUS
<1>3. /\ a \o b \in Seq(S)
      /\ Len(a \o b) = Len(a) + Len(b)
      /\ \A i \in 1..(Len(a) + Len(b)) :
            (a \o b)[i] = IF i <= Len(a) THEN a[i] ELSE b[i - Len(a)]
  BY <1>1, <1>2, ConcatProperties
<1> DEFINE c == a \o b
           n == Len(s)
<1>4. RemoveAt(s, k) = c
  BY DEF RemoveAt
<1>5. n \in Nat /\ k \in 1..n
  OBVIOUS
<1> HIDE DEF a, b, c, n
<1>6. Len(c) = n - 1 /\ Len(a) = k - 1 /\ Len(b) = n - k
  BY <1>1, <1>2, <1>3, <1>5 DEF c, n
<1>7. ASSUME NEW i \in 1..(n - 1)
      PROVE  c[i] = IF i < k THEN s[i] ELSE s[i + 1]
  <2>1. c[i] = IF i <= k - 1 THEN a[i] ELSE b[i - (k - 1)]
    BY <1>3, <1>5, <1>6 DEF c
  <2>2. CASE i < k
    <3>1. i \in 1..(k - 1) /\ i <= k - 1
      BY <1>5, <2>2
    <3>2. QED
      BY <1>1, <2>1, <2>2, <3>1
  <2>3. CASE ~ (i < k)
    <3>1. /\ i - (k - 1) \in 1..(n - k) /\ ~ (i <= k - 1)
          /\ k + (i - (k - 1)) = i + 1
      BY <1>5, <2>3
    <3>2. b[i - (k - 1)] = s[k + (i - (k - 1))]
      BY <1>2, <3>1 DEF n
    <3>3. QED
      BY <2>1, <2>3, <3>1, <3>2
  <2>4. QED
    BY <2>2, <2>3
<1>8. c \in Seq(S)
  BY <1>3 DEF c
<1>9. QED
  BY <1>4, <1>6, <1>7, <1>8, Zenon DEF n

(* Linking e in at k shifts the elements from k on and changes no other.   *)
LEMMA InsertAtProperties ==
    ASSUME NEW S, NEW s \in Seq(S), NEW e \in S, NEW k \in 1..(Len(s) + 1)
    PROVE  /\ InsertAt(s, k, e) \in Seq(S)
           /\ Len(InsertAt(s, k, e)) = Len(s) + 1
           /\ \A i \in 1..(Len(s) + 1) :
                 InsertAt(s, k, e)[i] = IF i < k THEN s[i]
                                        ELSE IF i = k THEN e ELSE s[i - 1]
<1> DEFINE a == SubSeq(s, 1, k - 1)
           b == SubSeq(s, k, Len(s))
           c == a \o <<e>>
<1>1. /\ a \in Seq(S)
      /\ Len(a) = k - 1
      /\ \A i \in 1..(k - 1) : a[i] = s[i]
  OBVIOUS
<1>2. /\ b \in Seq(S)
      /\ Len(b) = Len(s) + 1 - k
      /\ \A i \in 1..(Len(s) + 1 - k) : b[i] = s[k + i - 1]
  OBVIOUS
<1>3. /\ <<e>> \in Seq(S)
      /\ Len(<<e>>) = 1
      /\ <<e>>[1] = e
  OBVIOUS
<1>4. /\ c \in Seq(S)
      /\ Len(c) = k
      /\ \A i \in 1..k : c[i] = IF i < k THEN s[i] ELSE e
  <2>1. /\ c \in Seq(S)
        /\ Len(c) = Len(a) + Len(<<e>>)
        /\ \A i \in 1..(Len(a) + Len(<<e>>)) :
              c[i] = IF i <= Len(a) THEN a[i] ELSE <<e>>[i - Len(a)]
    BY <1>1, <1>3, ConcatProperties
  <2> HIDE DEF a, c
  <2>2. QED
    BY <1>1, <1>3, <2>1
<1>5. /\ c \o b \in Seq(S)
      /\ Len(c \o b) = Len(c) + Len(b)
      /\ \A i \in 1..(Len(c) + Len(b)) :
            (c \o b)[i] = IF i <= Len(c) THEN c[i] ELSE b[i - Len(c)]
  <2> HIDE DEF b, c
  <2>1. b \in Seq(S) /\ c \in Seq(S)
    BY <1>2, <1>4
  <2>2. QED
    BY <2>1, ConcatProperties, ZenonT(30)
<1>6. InsertAt(s, k, e) = c \o b
  BY DEF InsertAt
<1> HIDE DEF a, b, c
<1>7. /\ Len(c \o b) = Len(s) + 1
      /\ \A i \in 1..(Len(s) + 1) :
            (c \o b)[i] = IF i < k THEN s[i]
                          ELSE IF i = k THEN e ELSE s[i - 1]
  BY <1>2, <1>4, <1>5
<1>8. QED
  BY <1>5, <1>6, <1>7, Zenon

(* The stack below its top, and the top itself.                            *)
LEMMA FrontProperties ==
    ASSUME NEW S, NEW s \in Seq(S), s # <<>>
    PROVE  /\ Len(s) \in Nat /\ Len(s) >= 1
           /\ Front(s) \in Seq(S)
           /\ Len(Front(s)) = Len(s) - 1
           /\ \A i \in 1..(Len(s) - 1) : Front(s)[i] = s[i]
           /\ Last(s) = s[Len(s)] /\ Last(s) \in S
<1> DEFINE n == Len(s)
           f == SubSeq(s, 1, n - 1)
<1>1. n \in Nat /\ n >= 1 /\ \A i \in 1..n : s[i] \in S
  OBVIOUS
<1> HIDE DEF n
<1>2. \A i \in 1..(n - 1) : s[i] \in S
  BY <1>1
<1>3. /\ f \in Seq(S)
      /\ Len(f) = IF 1 <= n - 1 THEN n - 1 - 1 + 1 ELSE 0
      /\ \A i \in 1..(n - 1 - 1 + 1) : f[i] = s[1 + i - 1]
  BY <1>1, <1>2, SubSeqProperties
<1> HIDE DEF f
<1>4. /\ f \in Seq(S)
      /\ Len(f) = n - 1
      /\ \A i \in 1..(n - 1) : f[i] = s[i]
  BY <1>1, <1>3
<1>5. Front(s) = f /\ Last(s) = s[n] /\ Len(s) = n
  BY Zenon DEF Front, Last, f, n
<1>6. s[n] \in S
  BY <1>1
<1>7. QED
  BY <1>1, <1>4, <1>5, <1>6, Zenon

(* Replacing the top of a stack.                                           *)
LEMMA ReplaceTopProperties ==
    ASSUME NEW S, NEW s \in Seq(S), s # <<>>, NEW e \in S
    PROVE  /\ Front(s) \o <<e>> \in Seq(S)
           /\ Len(Front(s) \o <<e>>) = Len(s)
           /\ \A i \in 1..(Len(s) - 1) : (Front(s) \o <<e>>)[i] = s[i]
           /\ (Front(s) \o <<e>>)[Len(s)] = e
<1>1. /\ Front(s) \in Seq(S)
      /\ Len(s) \in Nat /\ Len(s) >= 1
      /\ Len(Front(s)) = Len(s) - 1
      /\ \A i \in 1..(Len(s) - 1) : Front(s)[i] = s[i]
  BY FrontProperties
<1>2. /\ <<e>> \in Seq(S)
      /\ Len(<<e>>) = 1
      /\ <<e>>[1] = e
  OBVIOUS
<1>3. /\ Front(s) \o <<e>> \in Seq(S)
      /\ Len(Front(s) \o <<e>>) = Len(Front(s)) + Len(<<e>>)
      /\ \A i \in 1..(Len(Front(s)) + Len(<<e>>)) :
            (Front(s) \o <<e>>)[i] = IF i <= Len(Front(s)) THEN Front(s)[i]
                                     ELSE <<e>>[i - Len(Front(s))]
  BY <1>1, <1>2, ConcatProperties
<1>4. QED
  BY <1>1, <1>2, <1>3

(* Pushing onto the head of a list.                                        *)
LEMMA ConsProperties ==
    ASSUME NEW S, NEW s \in Seq(S), NEW e \in S
    PROVE  /\ <<e>> \o s \in Seq(S)
           /\ Len(<<e>> \o s) = Len(s) + 1
           /\ (<<e>> \o s)[1] = e
           /\ \A i \in 1..Len(s) : (<<e>> \o s)[i + 1] = s[i]
<1> DEFINE c == <<e>> \o s
<1>1. /\ <<e>> \in Seq(S)
      /\ Len(<<e>>) = 1
      /\ <<e>>[1] = e
      /\ Len(s) \in Nat
  OBVIOUS
<1>2. /\ c \in Seq(S)
      /\ Len(c) = Len(<<e>>) + Len(s)
      /\ \A i \in 1..(Len(<<e>>) + Len(s)) :
            c[i] = IF i <= Len(<<e>>) THEN <<e>>[i] ELSE s[i - Len(<<e>>)]
  BY <1>1, ConcatProperties
<1> HIDE DEF c
<1>3. /\ c \in Seq(S)
      /\ Len(c) = Len(s) + 1
      /\ c[1] = e
      /\ \A i \in 1..Len(s) : c[i + 1] = s[i]
  BY <1>1, <1>2
<1>4. QED
  BY <1>3, Zenon DEF c

(* A list without the element at k: what is left, and where it was.        *)
LEMMA RemoveAtContents ==
    ASSUME NEW S, NEW s \in Seq(S), NEW k \in 1..Len(s),
           NEW i \in 1..Len(s), i # k
    PROVE  \E j \in 1..Len(RemoveAt(s, k)) : RemoveAt(s, k)[j] = s[i]
<1> DEFINE r == RemoveAt(s, k)
<1>1. /\ Len(r) = Len(s) - 1
      /\ \A j \in 1..(Len(s) - 1) : r[j] = IF j < k THEN s[j] ELSE s[j + 1]
      /\ Len(s) \in Nat
  BY RemoveAtProperties
<1> HIDE DEF r
<1>2. CASE i < k
  <2>1. i \in 1..Len(r) /\ r[i] = s[i]
    BY <1>1, <1>2
  <2>2. QED
    BY <2>1 DEF r
<1>3. CASE ~(i < k)
  <2>1. i - 1 \in 1..Len(r) /\ r[i - 1] = s[i]
    BY <1>1, <1>3
  <2>2. QED
    BY <2>1 DEF r
<1>4. QED
  BY <1>2, <1>3


-----------------------------------------------------------------------------
(* Unlinking the first occurrence of an element, if there is one.          *)
LEMMA RemoveFirstCases ==
    ASSUME NEW S, NEW s \in Seq(S), NEW e
    PROVE  \/ RemoveFirst(s, e) = s
           \/ \E k \in 1..Len(s) : s[k] = e /\ RemoveFirst(s, e) = RemoveAt(s, k)
<1>1. CASE ~ (\E k \in 1..Len(s) : s[k] = e)
  BY <1>1, Zenon DEF RemoveFirst
<1>2. CASE \E k \in 1..Len(s) : s[k] = e
  <2> DEFINE I == {k \in 1..Len(s) : s[k] = e}
  <2>1. I \in SUBSET Nat /\ I # {}
    BY <1>2
  <2>2. Min(I) \in I
    BY <2>1, MinOfNaturals, Zenon
  <2>3. QED
    BY <1>2, <2>2, Zenon DEF RemoveFirst, SelectInSeq
<1>3. QED
  BY <1>1, <1>2

(* Removing an element leaves a sequence over the same set.                *)
LEMMA RemoveFirstType ==
    ASSUME NEW S, NEW s \in Seq(S), NEW e
    PROVE  RemoveFirst(s, e) \in Seq(S)
<1>1. CASE ~ (\E k \in 1..Len(s) : s[k] = e)
  BY <1>1, Zenon DEF RemoveFirst
<1>2. CASE \E k \in 1..Len(s) : s[k] = e
  <2> DEFINE I == {k \in 1..Len(s) : s[k] = e}
  <2>1. Min(I) \in I
    <3>1. I \in SUBSET Nat /\ I # {}
      BY <1>2
    <3>2. QED
      BY <3>1, MinOfNaturals, Zenon
  <2>2. PICK k \in 1..Len(s) : RemoveFirst(s, e) = RemoveAt(s, k)
    BY <1>2, <2>1, Zenon DEF RemoveFirst, SelectInSeq
  <2>3. QED
    BY <2>2, RemoveAtProperties, Zenon
<1>3. QED
  BY <1>1, <1>2

(* Lists without repetitions: what unlinking, linking and splitting keep,  *)
(* and which elements the results contain.                                 *)
LEMMA RemoveFirstInjective ==
    ASSUME NEW S, NEW s \in Seq(S), IsInjective(s), NEW e
    PROVE  /\ RemoveFirst(s, e) \in Seq(S)
           /\ IsInjective(RemoveFirst(s, e))
           /\ \A x : Contains(RemoveFirst(s, e), x) <=> Contains(s, x) /\ x # e
<1>1. CASE ~ (\E k \in 1..Len(s) : s[k] = e)
  BY <1>1, Zenon DEF RemoveFirst, Contains
<1>2. CASE \E k \in 1..Len(s) : s[k] = e
  <2> DEFINE I == {k \in 1..Len(s) : s[k] = e}
  <2>1. Min(I) \in I
    <3>1. I \in SUBSET Nat /\ I # {}
      BY <1>2
    <3>2. QED
      BY <3>1, MinOfNaturals, Zenon
  <2>2. PICK k \in 1..Len(s) : s[k] = e /\ RemoveFirst(s, e) = RemoveAt(s, k)
    BY <1>2, <2>1, Zenon DEF RemoveFirst, SelectInSeq
  <2> DEFINE r == RemoveAt(s, k)
  <2>3. /\ r \in Seq(S)
        /\ Len(r) = Len(s) - 1
        /\ \A i \in 1..(Len(s) - 1) : r[i] = IF i < k THEN s[i] ELSE s[i + 1]
    BY RemoveAtProperties
  <2>4. /\ DOMAIN r = 1..(Len(s) - 1) /\ Len(s) \in Nat
        /\ DOMAIN s = 1..Len(s)
        /\ \A i, j \in 1..Len(s) : s[i] = s[j] => i = j
    BY <2>3 DEF IsInjective
  <2>5. \A x : \A i \in 1..Len(s) : s[i] = x /\ x # e =>
                  \E j \in 1..Len(r) : r[j] = x
    BY <2>2, RemoveAtContents
  <2> HIDE DEF r
  <2>6. ASSUME NEW i \in 1..Len(r)
        PROVE  \E a \in 1..Len(s) : /\ r[i] = s[a] /\ a # k
                                    /\ a = (IF i < k THEN i ELSE i + 1)
    BY <2>3, <2>4
  <2>7. ASSUME NEW i \in DOMAIN r, NEW j \in DOMAIN r, r[i] = r[j]
        PROVE  i = j
    <3>1. i \in 1..Len(r) /\ j \in 1..Len(r)
      BY <2>3, <2>4
    <3>2. PICK a \in 1..Len(s) : r[i] = s[a] /\ a = (IF i < k THEN i ELSE i + 1)
      BY <2>6, <3>1
    <3>3. PICK b \in 1..Len(s) : r[j] = s[b] /\ b = (IF j < k THEN j ELSE j + 1)
      BY <2>6, <3>1
    <3>4. a = b
      BY <2>4, <2>7, <3>2, <3>3
    <3>5. QED
      BY <2>4, <3>2, <3>3, <3>4
  <2>8. \A x : Contains(r, x) <=> Contains(s, x) /\ x # e
    <3>1. ASSUME NEW x, Contains(r, x) PROVE Contains(s, x) /\ x # e
      <4>1. PICK i \in 1..Len(r) : r[i] = x
        BY <3>1 DEF Contains
      <4>2. PICK a \in 1..Len(s) : r[i] = s[a] /\ a # k
        BY <2>6
      <4>3. s[a] # s[k]
        BY <2>4, <4>2
      <4>4. QED
        BY <2>2, <4>1, <4>2, <4>3 DEF Contains
    <3>2. ASSUME NEW x, Contains(s, x), x # e PROVE Contains(r, x)
      BY <2>5, <3>2 DEF Contains
    <3>3. QED
      BY <3>1, <3>2
  <2>9. IsInjective(r)
    BY <2>7 DEF IsInjective
  <2>10. QED
    BY <2>2, <2>3, <2>8, <2>9, Zenon DEF r
<1>3. QED
  BY <1>1, <1>2

(* Inserting an element that is not there keeps the elements distinct, and *)
(* adds that one alone.                                                    *)
LEMMA InsertAtInjective ==
    ASSUME NEW S, NEW s \in Seq(S), IsInjective(s), NEW e \in S,
           ~ Contains(s, e), NEW k \in 1..(Len(s) + 1)
    PROVE  /\ InsertAt(s, k, e) \in Seq(S)
           /\ IsInjective(InsertAt(s, k, e))
           /\ \A x : Contains(InsertAt(s, k, e), x) <=> Contains(s, x) \/ x = e
<1> DEFINE r == InsertAt(s, k, e)
<1>1. /\ r \in Seq(S)
      /\ Len(r) = Len(s) + 1
      /\ \A i \in 1..(Len(s) + 1) :
            r[i] = IF i < k THEN s[i] ELSE IF i = k THEN e ELSE s[i - 1]
  BY InsertAtProperties
<1>2. /\ DOMAIN r = 1..(Len(s) + 1) /\ Len(s) \in Nat /\ DOMAIN s = 1..Len(s)
      /\ \A i, j \in 1..Len(s) : s[i] = s[j] => i = j
      /\ \A i \in 1..Len(s) : s[i] # e
  BY <1>1 DEF IsInjective, Contains
<1> HIDE DEF r
<1>3. ASSUME NEW i \in 1..Len(r), i # k
      PROVE  \E a \in 1..Len(s) : /\ r[i] = s[a]
                                  /\ a = (IF i < k THEN i ELSE i - 1)
  BY <1>1, <1>2, <1>3
<1>4. ASSUME NEW i \in DOMAIN r, NEW j \in DOMAIN r, r[i] = r[j]
      PROVE  i = j
  <2>1. i \in 1..Len(r) /\ j \in 1..Len(r) /\ r[k] = e
    BY <1>1, <1>2
  <2>2. CASE i = k \/ j = k
    BY <1>2, <1>3, <1>4, <2>1, <2>2
  <2>3. CASE i # k /\ j # k
    <3>1. PICK a \in 1..Len(s) : r[i] = s[a] /\ a = (IF i < k THEN i ELSE i - 1)
      BY <1>3, <2>1, <2>3
    <3>2. PICK b \in 1..Len(s) : r[j] = s[b] /\ b = (IF j < k THEN j ELSE j - 1)
      BY <1>3, <2>1, <2>3
    <3>3. a = b
      BY <1>2, <1>4, <3>1, <3>2
    <3>4. QED
      BY <1>2, <2>3, <3>1, <3>2, <3>3
  <2>4. QED
    BY <2>2, <2>3
<1>5. \A x : Contains(r, x) <=> Contains(s, x) \/ x = e
  <2>1. ASSUME NEW x, Contains(r, x) PROVE Contains(s, x) \/ x = e
    BY <1>1, <1>3, <2>1 DEF Contains
  <2>2. ASSUME NEW i \in 1..Len(s) PROVE \E j \in 1..Len(r) : r[j] = s[i]
    <3>1. CASE i < k
      <4>1. i \in 1..Len(r) /\ r[i] = s[i]
        BY <1>1, <1>2, <3>1
      <4>2. QED
        BY <4>1
    <3>2. CASE ~(i < k)
      <4>1. i + 1 \in 1..Len(r) /\ r[i + 1] = s[i]
        BY <1>1, <1>2, <3>2
      <4>2. QED
        BY <4>1
    <3>3. QED
      BY <3>1, <3>2
  <2>3. k \in 1..Len(r) /\ r[k] = e
    BY <1>1, <1>2
  <2>4. QED
    BY <2>1, <2>2, <2>3 DEF Contains
<1>6. QED
  BY <1>1, <1>4, <1>5, Zenon DEF r, IsInjective

(* A list cut in two.                                                      *)
LEMMA SplitInjective ==
    ASSUME NEW S, NEW s \in Seq(S), IsInjective(s), NEW k \in 0..Len(s)
    PROVE  /\ SubSeq(s, 1, k) \in Seq(S) /\ SubSeq(s, k + 1, Len(s)) \in Seq(S)
           /\ IsInjective(SubSeq(s, 1, k))
           /\ IsInjective(SubSeq(s, k + 1, Len(s)))
           /\ \A x : Contains(s, x) <=> \/ Contains(SubSeq(s, 1, k), x)
                                        \/ Contains(SubSeq(s, k + 1, Len(s)), x)
           /\ \A x : ~ (/\ Contains(SubSeq(s, 1, k), x)
                        /\ Contains(SubSeq(s, k + 1, Len(s)), x))
<1> DEFINE a == SubSeq(s, 1, k)
           b == SubSeq(s, k + 1, Len(s))
<1>1. /\ a \in Seq(S)
      /\ Len(a) = k
      /\ \A i \in 1..k : a[i] = s[i]
  OBVIOUS
<1>2. /\ b \in Seq(S)
      /\ Len(b) = Len(s) - k
      /\ \A i \in 1..(Len(s) - k) : b[i] = s[k + i]
  OBVIOUS
<1>3. /\ DOMAIN a = 1..k /\ DOMAIN b = 1..(Len(s) - k)
      /\ Len(s) \in Nat /\ DOMAIN s = 1..Len(s)
      /\ \A i, j \in 1..Len(s) : s[i] = s[j] => i = j
  BY <1>1, <1>2 DEF IsInjective
<1> HIDE DEF a, b
<1>4. IsInjective(a)
  BY <1>1, <1>3 DEF IsInjective
<1>5. \A i \in 1..(Len(s) - k) : k + i \in 1..Len(s)
  BY <1>3
<1>6. IsInjective(b)
  <2>1. SUFFICES ASSUME NEW i \in 1..(Len(s) - k), NEW j \in 1..(Len(s) - k),
                        b[i] = b[j]
                 PROVE  i = j
    BY <1>3 DEF IsInjective
  <2>2. k + i = k + j
    BY <1>2, <1>3, <1>5, <2>1
  <2>3. QED
    BY <2>2
<1>7. \A x : Contains(s, x) <=> Contains(a, x) \/ Contains(b, x)
  <2>1. ASSUME NEW i \in 1..Len(s)
        PROVE  (\E j \in 1..Len(a) : a[j] = s[i]) \/ (\E j \in 1..Len(b) : b[j] = s[i])
    <3>1. CASE i <= k
      BY <1>1, <3>1
    <3>2. CASE ~(i <= k)
      <4>1. i - k \in 1..Len(b) /\ b[i - k] = s[i]
        BY <1>2, <1>3, <3>2
      <4>2. QED
        BY <4>1
    <3>3. QED
      BY <3>1, <3>2
  <2>2. \A j \in 1..Len(a) : j \in 1..Len(s) /\ a[j] = s[j]
    BY <1>1, <1>3
  <2>3. \A j \in 1..Len(b) : k + j \in 1..Len(s) /\ b[j] = s[k + j]
    BY <1>2, <1>5
  <2>4. ASSUME NEW x, Contains(s, x)
        PROVE  Contains(a, x) \/ Contains(b, x)
    <3>1. PICK i \in 1..Len(s) : s[i] = x
      BY <2>4, Zenon DEF Contains
    <3>2. QED
      BY <2>1, <3>1, Zenon DEF Contains
  <2>5. ASSUME NEW x, Contains(a, x)
        PROVE  Contains(s, x)
    BY <2>2, <2>5, Zenon DEF Contains
  <2>6. ASSUME NEW x, Contains(b, x)
        PROVE  Contains(s, x)
    BY <2>3, <2>6, Zenon DEF Contains
  <2>7. QED
    BY <2>4, <2>5, <2>6, Zenon
<1>8. \A x : ~ (Contains(a, x) /\ Contains(b, x))
  <2>1. SUFFICES ASSUME NEW i \in 1..k, NEW j \in 1..(Len(s) - k), a[i] = b[j]
                 PROVE  FALSE
    BY <1>1, <1>2 DEF Contains
  <2>2. i = k + j
    BY <1>1, <1>2, <1>3, <1>5, <2>1
  <2>3. QED
    BY <2>2
<1>9. QED
  BY <1>1, <1>2, <1>4, <1>6, <1>7, <1>8, Zenon DEF a, b

(* A list without its head.                                                *)
LEMMA TailInjective ==
    ASSUME NEW S, NEW s \in Seq(S), IsInjective(s), s # <<>>
    PROVE  /\ Tail(s) \in Seq(S)
           /\ IsInjective(Tail(s))
           /\ Head(s) \in S
           /\ \A x : Contains(Tail(s), x) <=> Contains(s, x) /\ x # Head(s)
<1> DEFINE t == Tail(s)
<1>1. /\ t \in Seq(S)
      /\ Len(t) = Len(s) - 1
      /\ \A i \in 1..(Len(s) - 1) : t[i] = s[i + 1]
      /\ Head(s) = s[1] /\ Head(s) \in S
      /\ Len(s) \in Nat /\ Len(s) >= 1
  OBVIOUS
<1>2. /\ DOMAIN t = 1..(Len(s) - 1) /\ DOMAIN s = 1..Len(s)
      /\ \A i, j \in 1..Len(s) : s[i] = s[j] => i = j
  BY <1>1 DEF IsInjective
<1> HIDE DEF t
<1>3. \A i \in 1..(Len(s) - 1) : i + 1 \in 1..Len(s) /\ i + 1 # 1
  BY <1>1
<1>4. IsInjective(t)
  <2>1. SUFFICES ASSUME NEW i \in 1..(Len(s) - 1), NEW j \in 1..(Len(s) - 1),
                        t[i] = t[j]
                 PROVE  i = j
    BY <1>2 DEF IsInjective
  <2>2. i + 1 = j + 1
    BY <1>1, <1>2, <1>3, <2>1
  <2>3. QED
    BY <2>2
<1>5. ASSUME NEW x, Contains(t, x) PROVE Contains(s, x) /\ x # s[1]
  <2>1. PICK i \in 1..(Len(s) - 1) : t[i] = x
    BY <1>1, <1>5 DEF Contains
  <2>2. i + 1 \in 1..Len(s) /\ s[i + 1] = x /\ i + 1 # 1 /\ 1 \in 1..Len(s)
    BY <1>1, <1>3, <2>1
  <2>3. s[1] # s[i + 1]
    BY <1>2, <2>2
  <2>4. QED
    BY <2>2, <2>3 DEF Contains
<1>6. ASSUME NEW x, Contains(s, x), x # s[1] PROVE Contains(t, x)
  <2>1. PICK i \in 1..Len(s) : s[i] = x
    BY <1>6 DEF Contains
  <2>2. i - 1 \in 1..Len(t) /\ t[i - 1] = x
    BY <1>1, <1>6, <2>1
  <2>3. QED
    BY <2>2 DEF Contains
<1>7. QED
  BY <1>1, <1>4, <1>5, <1>6, Zenon DEF t

(* A new head.                                                             *)
LEMMA ConsInjective ==
    ASSUME NEW S, NEW s \in Seq(S), IsInjective(s), NEW e \in S, ~ Contains(s, e)
    PROVE  /\ IsInjective(<<e>> \o s)
           /\ \A x : Contains(<<e>> \o s, x) <=> Contains(s, x) \/ x = e
<1> DEFINE c == <<e>> \o s
<1>1. /\ c \in Seq(S) /\ Len(c) = Len(s) + 1 /\ c[1] = e
      /\ \A i \in 1..Len(s) : c[i + 1] = s[i]
  BY ConsProperties
<1> HIDE DEF c
<1>2. DOMAIN c = 1..(Len(s) + 1) /\ DOMAIN s = 1..Len(s) /\ Len(s) \in Nat
  BY <1>1
<1>3. ASSUME NEW i \in DOMAIN c, i # 1 PROVE i - 1 \in DOMAIN s /\ c[i] = s[i - 1]
  <2>1. i - 1 \in 1..Len(s) /\ (i - 1) + 1 = i
    BY <1>2, <1>3
  <2>2. QED
    BY <1>1, <1>2, <2>1
<1>4. \A i \in DOMAIN s : s[i] # e
  BY DEF Contains
<1>5. ASSUME NEW i \in DOMAIN c, NEW j \in DOMAIN c, c[i] = c[j]
      PROVE  i = j
  <2>1. CASE i = 1 \/ j = 1
    BY <1>1, <1>3, <1>4, <1>5, <2>1
  <2>2. CASE i # 1 /\ j # 1
    <3>1. i - 1 \in DOMAIN s /\ j - 1 \in DOMAIN s /\ s[i - 1] = s[j - 1]
      BY <1>3, <1>5, <2>2
    <3>2. i - 1 = j - 1
      BY <3>1 DEF IsInjective
    <3>3. QED
      BY <1>2, <3>2
  <2>3. QED
    BY <2>1, <2>2
<1>6. ASSUME NEW x PROVE Contains(c, x) <=> Contains(s, x) \/ x = e
  <2>1. ASSUME NEW i \in DOMAIN c, c[i] = x PROVE Contains(s, x) \/ x = e
    BY <1>1, <1>3, <2>1 DEF Contains
  <2>2. ASSUME NEW i \in DOMAIN s, s[i] = x PROVE Contains(c, x)
    <3>1. i + 1 \in DOMAIN c /\ c[i + 1] = x
      BY <1>1, <1>2, <2>2
    <3>2. QED
      BY <3>1 DEF Contains
  <2>3. x = e => Contains(c, x)
    BY <1>1, <1>2 DEF Contains
  <2>4. QED
    BY <2>1, <2>2, <2>3 DEF Contains
<1>7. QED
  BY <1>5, <1>6 DEF IsInjective, c

(* Removing what is there makes a sequence one shorter.                    *)
LEMMA RemoveFirstShortens ==
    ASSUME NEW S, NEW s \in Seq(S), IsInjective(s), NEW e, Contains(s, e)
    PROVE  Len(s) >= 1 /\ Len(RemoveFirst(s, e)) = Len(s) - 1
<1>1. RemoveFirst(s, e) # s
  BY RemoveFirstInjective
<1>2. PICK k \in 1..Len(s) : RemoveFirst(s, e) = RemoveAt(s, k)
  BY <1>1, RemoveFirstCases
<1>3. Len(RemoveAt(s, k)) = Len(s) - 1 /\ Len(s) \in Nat
  BY RemoveAtProperties
<1>4. QED
  BY <1>2, <1>3

(* The first n elements, and the last n.                                   *)
LEMMA FirstElements ==
    ASSUME NEW S, NEW s \in Seq(S), NEW n \in 0..Len(s)
    PROVE  /\ SubSeq(s, 1, n) \in Seq(S)
           /\ Len(SubSeq(s, 1, n)) = n
           /\ \A i \in 1..n : SubSeq(s, 1, n)[i] = s[i]
<1>1. n \in Nat /\ \A i \in 1..n : s[i] \in S
  OBVIOUS
<1> DEFINE p == SubSeq(s, 1, n)
<1>2. /\ p \in Seq(S) /\ Len(p) = IF 1 <= n THEN n - 1 + 1 ELSE 0
      /\ \A i \in 1..(n - 1 + 1) : p[i] = s[1 + i - 1]
  BY <1>1, SubSeqProperties
<1> HIDE DEF p
<1>3. p \in Seq(S) /\ Len(p) = n /\ \A i \in 1..n : p[i] = s[i]
  BY <1>1, <1>2
<1>4. QED
  BY <1>3 DEF p

(* The last n elements of a sequence, by their places.                     *)
LEMMA LastElements ==
    ASSUME NEW S, NEW s \in Seq(S), NEW n \in 0..Len(s)
    PROVE  /\ SubSeq(s, Len(s) - n + 1, Len(s)) \in Seq(S)
           /\ Len(SubSeq(s, Len(s) - n + 1, Len(s))) = n
           /\ \A i \in 1..n : SubSeq(s, Len(s) - n + 1, Len(s))[i] = s[Len(s) - n + i]
<1> DEFINE m == Len(s)
           p == SubSeq(s, m - n + 1, m)
<1>1. m \in Nat /\ n \in Nat /\ n <= m /\ \A i \in (m - n + 1)..m : s[i] \in S
  OBVIOUS
<1> HIDE DEF m
<1>2. /\ p \in Seq(S) /\ Len(p) = IF m - n + 1 <= m THEN m - (m - n + 1) + 1 ELSE 0
      /\ \A i \in 1..(m - (m - n + 1) + 1) : p[i] = s[(m - n + 1) + i - 1]
  BY <1>1, SubSeqProperties
<1> HIDE DEF p
<1>3. p \in Seq(S) /\ Len(p) = n /\ \A i \in 1..n : p[i] = s[m - n + i]
  BY <1>1, <1>2
<1>4. QED
  BY <1>3 DEF m, p

-----------------------------------------------------------------------------
(* The minimum of two numbers is one of them and below both.               *)
LEMMA MinOfTwo ==
    ASSUME NEW a \in Nat, NEW b \in Nat
    PROVE  Min({a, b}) \in {a, b} /\ Min({a, b}) <= a /\ Min({a, b}) <= b
<1>1. {a, b} \in SUBSET Nat /\ {a, b} # {}
  OBVIOUS
<1>2. QED
  BY <1>1, MinOfNaturals

(* What is left of a sequence behind its first n elements.                 *)
LEMMA LaterElements ==
    ASSUME NEW S, NEW s \in Seq(S), NEW n \in Nat, NEW r, r = SubSeq(s, n + 1, Len(s))
    PROVE  /\ r \in Seq(S)
           /\ Len(r) = IF n <= Len(s) THEN Len(s) - n ELSE 0
           /\ \A i \in 1..Len(r) : r[i] = s[n + i]
<1>1. PICK m \in Nat : m = Len(s)
  OBVIOUS
<1>2. \A i \in (n + 1)..m : s[i] \in S
  BY <1>1
<1>3. r = SubSeq(s, n + 1, m)
  BY <1>1
<1>4. /\ r \in Seq(S) /\ Len(r) = IF n + 1 <= m THEN m - (n + 1) + 1 ELSE 0
      /\ \A i \in 1..(m - (n + 1) + 1) : r[i] = s[n + 1 + i - 1]
  BY <1>1, <1>2, <1>3, SubSeqProperties
<1>5. Len(r) = IF n <= m THEN m - n ELSE 0
  BY <1>4
<1>6. ASSUME NEW i \in 1..Len(r) PROVE r[i] = s[n + i]
  <2>1. i \in 1..(m - (n + 1) + 1) /\ n + 1 + i - 1 = n + i
    BY <1>5, <1>6
  <2>2. QED
    BY <1>4, <2>1
<1>7. QED
  BY <1>1, <1>4, <1>5, <1>6

-----------------------------------------------------------------------------
(* Induction, for a set: what holds of 0, and of n + 1 if it holds of n.   *)
LEMMA NaturalsIn ==
    ASSUME NEW T, 0 \in T, \A n \in Nat : n \in T => n + 1 \in T
    PROVE  \A n \in Nat : n \in T
<1> DEFINE I == Nat \ T
<1>1. SUFFICES ASSUME I # {} PROVE FALSE
  OBVIOUS
<1>2. I \in SUBSET Nat
  OBVIOUS
<1> HIDE DEF I
<1>3. PICK m \in I : \A i \in I : m <= i
  BY <1>1, <1>2, MinOfNaturals
<1>4. m \in Nat /\ m \notin T /\ m # 0
  BY <1>3 DEF I
<1>5. m - 1 \in Nat /\ (m - 1) + 1 = m /\ ~ (m <= m - 1)
  BY <1>4
<1>6. m - 1 \in T
  BY <1>3, <1>5 DEF I
<1>7. QED
  BY <1>4, <1>5, <1>6

-----------------------------------------------------------------------------
(* FlattenSeq is defined by a recursive function.                          *)
Flattens(f, s, n) ==
    f = [i \in 1..n |-> IF i = 1 THEN s[i] ELSE f[i - 1] \o s[i]]

(* There is a function that joins the first n sequences, for every n: the  *)
(* definition of FlattenSeq describes something.                           *)
LEMMA FlattenExists ==
    ASSUME NEW s
    PROVE  \A n \in Nat : \E f : Flattens(f, s, n)
<1> DEFINE T == {n \in Nat : \E f : Flattens(f, s, n)}
<1>1. 0 \in T
  <2>1. Flattens([i \in 1..0 |-> 0], s, 0)
    BY DEF Flattens
  <2>2. QED
    BY <2>1
<1>2. ASSUME NEW n \in Nat, n \in T
      PROVE  n + 1 \in T
  <2>1. PICK f : Flattens(f, s, n)
    BY <1>2
  <2> DEFINE new == IF n = 0 THEN s[1] ELSE f[n] \o s[n + 1]
             g == [i \in 1..(n + 1) |-> IF i = n + 1 THEN new ELSE f[i]]
  <2>2. ASSUME NEW i \in 1..(n + 1)
        PROVE  g[i] = IF i = 1 THEN s[i] ELSE g[i - 1] \o s[i]
    <3>1. CASE i = n + 1
      <4>1. CASE n = 0
        BY <3>1, <4>1
      <4>2. CASE n # 0
        <5>1. i - 1 = n /\ n \in 1..(n + 1) /\ n # n + 1 /\ i # 1
          BY <3>1, <4>2
        <5>2. g[i - 1] = f[n] /\ g[i] = new
          BY <3>1, <5>1
        <5>3. new = f[n] \o s[n + 1]
          BY <4>2
        <5> HIDE DEF new, g
        <5>4. QED
          BY <3>1, <5>1, <5>2, <5>3
      <4>3. QED
        BY <4>1, <4>2
    <3>2. CASE i # n + 1
      <4>1. i \in 1..n /\ g[i] = f[i]
        BY <3>2
      <4>2. f[i] = IF i = 1 THEN s[i] ELSE f[i - 1] \o s[i]
        BY <2>1, <4>1 DEF Flattens
      <4>3. i # 1 => i - 1 \in 1..(n + 1) /\ i - 1 # n + 1
        BY <4>1
      <4>4. i # 1 => g[i - 1] = f[i - 1]
        BY <4>3
      <4> HIDE DEF g
      <4>5. QED
        BY <4>1, <4>2, <4>4
    <3>3. QED
      BY <3>1, <3>2
  <2> HIDE DEF new
  <2>3. g = [i \in 1..(n + 1) |-> IF i = 1 THEN s[i] ELSE g[i - 1] \o s[i]]
    <3>1. g = [i \in 1..(n + 1) |-> g[i]]
      OBVIOUS
    <3> HIDE DEF g
    <3>2. QED
      BY <2>2, <3>1
  <2> HIDE DEF g
  <2>4. Flattens(g, s, n + 1)
    BY <2>3 DEF Flattens
  <2>5. QED
    BY <2>4
<1> HIDE DEF T
<1>3. \A n \in Nat : n \in T
  BY <1>1, <1>2, NaturalsIn
<1>4. QED
  BY <1>3 DEF T

(* Two such functions agree, also one of a sequence that begins alike.     *)
LEMMA FlattenUnique ==
    ASSUME NEW s, NEW t, NEW m \in Nat, NEW n \in Nat, m <= n,
           \A i \in 1..m : s[i] = t[i],
           NEW f, Flattens(f, s, m), NEW g, Flattens(g, t, n)
    PROVE  \A i \in 1..m : f[i] = g[i]
<1> DEFINE T == {k \in Nat : k \in 1..m => f[k] = g[k]}
<1>1. 0 \in T
  OBVIOUS
<1>2. ASSUME NEW k \in Nat, k \in T
      PROVE  k + 1 \in T
  <2>1. SUFFICES ASSUME k + 1 \in 1..m PROVE f[k + 1] = g[k + 1]
    OBVIOUS
  <2>2. k + 1 \in 1..n
    BY <2>1
  <2>3. f[k + 1] = IF k + 1 = 1 THEN s[k + 1] ELSE f[(k + 1) - 1] \o s[k + 1]
    BY <2>1 DEF Flattens
  <2>4. g[k + 1] = IF k + 1 = 1 THEN t[k + 1] ELSE g[(k + 1) - 1] \o t[k + 1]
    BY <2>2 DEF Flattens
  <2>5. s[k + 1] = t[k + 1]
    BY <2>1
  <2>6. k + 1 # 1 => f[(k + 1) - 1] = g[(k + 1) - 1]
    <3>1. k + 1 # 1 => k \in 1..m
      BY <2>1
    <3>2. (k + 1) - 1 = k
      OBVIOUS
    <3>3. QED
      BY <1>2, <3>1, <3>2
  <2>7. QED
    BY <2>3, <2>4, <2>5, <2>6, Zenon
<1> HIDE DEF T
<1>3. \A k \in Nat : k \in T
  BY <1>1, <1>2, NaturalsIn
<1>4. QED
  BY <1>3 DEF T

(* What FlattenSeq chooses is such a function.                             *)
LEMMA FlattenValue ==
    ASSUME NEW s, NEW n \in Nat, Len(s) = n, n # 0
    PROVE  \E f : Flattens(f, s, n) /\ FlattenSeq(s) = f[n]
<1> DEFINE c == CHOOSE f : Flattens(f, s, n)
<1>1. Flattens(c, s, n)
  BY FlattenExists
<1>2. FlattenSeq(s) = c[n]
  BY DEF FlattenSeq, Flattens
<1>3. QED
  BY <1>1, <1>2

(* The concatenation of one sequence more.                                 *)
LEMMA FlattenLast ==
    ASSUME NEW s, NEW t, NEW n \in Nat
    PROVE  /\ n # 0 /\ Len(s) = n /\ Len(t) = n + 1
           /\ \A i \in 1..n : s[i] = t[i]
           => FlattenSeq(t) = FlattenSeq(s) \o t[n + 1]
<1>1. n + 1 \in Nat /\ n <= n + 1 /\ n + 1 # 0
  OBVIOUS
<1>2. ASSUME \A i \in 1..n : s[i] = t[i]
      PROVE  \A f, g : Flattens(f, s, n) /\ Flattens(g, t, n + 1) =>
                         \A i \in 1..n : f[i] = g[i]
  BY <1>1, <1>2, FlattenUnique
<1>3. SUFFICES ASSUME n # 0, Len(s) = n, Len(t) = n + 1, \A i \in 1..n : s[i] = t[i]
               PROVE  FlattenSeq(t) = FlattenSeq(s) \o t[n + 1]
  OBVIOUS
<1>4. PICK f : Flattens(f, s, n) /\ FlattenSeq(s) = f[n]
  BY <1>3, FlattenValue
<1>5. PICK g : Flattens(g, t, n + 1) /\ FlattenSeq(t) = g[n + 1]
  BY <1>1, <1>3, FlattenValue
<1>6. \A i \in 1..n : f[i] = g[i]
  BY <1>2, <1>3, <1>4, <1>5
<1>7. n + 1 \in 1..(n + 1) /\ n \in 1..n /\ (n + 1) - 1 = n /\ n + 1 # 1
  BY <1>3
<1>8. g[n + 1] = IF n + 1 = 1 THEN t[n + 1] ELSE g[(n + 1) - 1] \o t[n + 1]
  BY <1>5, <1>7 DEF Flattens
<1>9. QED
  BY <1>4, <1>5, <1>6, <1>7, <1>8

(* Joining one more sequence puts its elements at the end.                 *)
LEMMA FlattenAppend ==
    ASSUME NEW S, NEW s \in Seq(Seq(S)), NEW e \in Seq(S)
    PROVE  FlattenSeq(Append(s, e)) = FlattenSeq(s) \o e
<1>1. PICK t : t = Append(s, e)
  OBVIOUS
<1>2. Len(t) = Len(s) + 1 /\ t[Len(s) + 1] = e /\ \A i \in 1..Len(s) : s[i] = t[i]
  BY <1>1
<1>3. CASE s = <<>>
  <2>1. FlattenSeq(s) = <<>>
    BY <1>3 DEF FlattenSeq
  <2>2. Len(t) = 1 /\ t[1] = e
    BY <1>2, <1>3
  <2>3. PICK g : Flattens(g, t, 1) /\ FlattenSeq(t) = g[1]
    <3>1. 1 \in Nat /\ 1 # 0
      OBVIOUS
    <3>2. QED
      BY <2>2, <3>1, FlattenValue
  <2>4. FlattenSeq(t) = e
    BY <2>2, <2>3 DEF Flattens
  <2>5. QED
    BY <1>1, <2>1, <2>4
<1>4. CASE s # <<>>
  <2>1. Len(s) \in Nat /\ Len(s) # 0
    BY <1>4
  <2>2. FlattenSeq(t) = FlattenSeq(s) \o t[Len(s) + 1]
    BY <1>2, <2>1, FlattenLast
  <2>3. QED
    BY <1>1, <1>2, <2>2
<1>5. QED
  BY <1>3, <1>4

(* The first n of a sequence of sequences, one after the other.            *)
LEMMA FlattenFirst ==
    ASSUME NEW S, NEW s \in Seq(Seq(S)), NEW n \in Nat, n < Len(s)
    PROVE  FlattenSeq([i \in 1..(n + 1) |-> s[i]]) =
             FlattenSeq([i \in 1..n |-> s[i]]) \o s[n + 1]
<1> DEFINE p == [i \in 1..n |-> s[i]]
           q == [i \in 1..(n + 1) |-> s[i]]
<1>1. \A i \in 1..(n + 1) : s[i] \in Seq(S)
  OBVIOUS
<1>2. p \in Seq(Seq(S)) /\ Len(p) = n /\ s[n + 1] \in Seq(S)
  BY <1>1
<1>3. q = Append(p, s[n + 1])
  <2>1. \A i \in 1..(n + 1) : q[i] = IF i <= n THEN p[i] ELSE s[n + 1]
    OBVIOUS
  <2> HIDE DEF p, q
  <2>2. DOMAIN q = 1..(n + 1)
    BY DEF q
  <2>3. Append(p, s[n + 1]) = [i \in 1..(n + 1) |-> IF i <= n THEN p[i] ELSE s[n + 1]]
    BY <1>2
  <2>4. q = [i \in 1..(n + 1) |-> q[i]]
    BY DEF q
  <2>5. QED
    BY <2>1, <2>3, <2>4
<1> HIDE DEF p, q
<1>4. FlattenSeq(q) = FlattenSeq(p) \o s[n + 1]
  BY <1>2, <1>3, FlattenAppend
<1>5. QED
  BY <1>4 DEF p, q

(* Joined sequences over a set are a sequence over that set.               *)
LEMMA FlattenType ==
    ASSUME NEW S, NEW s \in Seq(Seq(S))
    PROVE  \A n \in 0..Len(s) : FlattenSeq([i \in 1..n |-> s[i]]) \in Seq(S)
<1> DEFINE F(n) == FlattenSeq([i \in 1..n |-> s[i]])
           T == {n \in Nat : n <= Len(s) => F(n) \in Seq(S)}
<1>1. 0 \in T
  <2>1. F(0) = <<>>
    BY DEF FlattenSeq
  <2>2. F(0) \in Seq(S)
    <3>1. <<>> \in Seq(S)
      OBVIOUS
    <3> HIDE DEF F
    <3>2. QED
      BY <2>1, <3>1
  <2> HIDE DEF F
  <2>3. QED
    BY <2>2
<1>2. ASSUME NEW n \in Nat, n \in T
      PROVE  n + 1 \in T
  <2>1. SUFFICES ASSUME n + 1 <= Len(s) PROVE F(n + 1) \in Seq(S)
    OBVIOUS
  <2>2. n < Len(s) /\ n <= Len(s) /\ s[n + 1] \in Seq(S)
    BY <2>1
  <2>3. F(n + 1) = F(n) \o s[n + 1]
    BY <2>2, FlattenFirst
  <2>4. F(n) \in Seq(S)
    BY <1>2, <2>2
  <2>5. PICK a, b : a = F(n) /\ b = s[n + 1]
    OBVIOUS
  <2>6. a \o b \in Seq(S)
    BY <2>2, <2>4, <2>5
  <2> HIDE DEF F
  <2>7. QED
    BY <2>3, <2>5, <2>6
<1> HIDE DEF T
<1>3. \A n \in Nat : n \in T
  BY <1>1, <1>2, NaturalsIn
<1>4. QED
  BY <1>3 DEF T

-----------------------------------------------------------------------------
(* FoldLeft is defined by a recursive function on sets of places.          *)
LEMMA MaxOfPlaces ==
    ASSUME NEW n \in Nat, NEW t \in SUBSET (1..n), t # {}
    PROVE  Max(t) \in t /\ \A i \in t : Max(t) >= i
<1> DEFINE I == {n - i : i \in t}
<1>1. I \in SUBSET Nat /\ I # {}
  <2>1. \A i \in t : n - i \in Nat
    OBVIOUS
  <2>2. QED
    BY <2>1
<1> HIDE DEF I
<1>2. PICK m \in I : \A i \in I : m <= i
  BY <1>1, MinOfNaturals
<1>3. PICK x \in t : m = n - x
  BY <1>2 DEF I
<1>4. \A i \in t : x >= i
  <2>1. SUFFICES ASSUME NEW i \in t PROVE x >= i
    OBVIOUS
  <2>2. n - x <= n - i
    BY <1>2, <1>3 DEF I
  <2>3. QED
    BY <2>2
<1>5. QED
  BY <1>4, Zenon DEF Max

(* n + 1 is the greatest of a set of places up to n + 1.                   *)
LEMMA LastPlace ==
    ASSUME NEW n \in Nat, NEW t \in SUBSET (1..(n + 1)), n + 1 \in t
    PROVE  Max(t) = n + 1
<1>1. Max(t) \in t /\ \A i \in t : Max(t) >= i
  <2>1. n + 1 \in Nat /\ t # {}
    OBVIOUS
  <2>2. QED
    BY <2>1, MaxOfPlaces
<1>2. Max(t) \in 1..(n + 1) /\ Max(t) >= n + 1
  BY <1>1
<1>3. PICK m : m = Max(t)
  OBVIOUS
<1>4. m \in 1..(n + 1) /\ m >= n + 1
  BY <1>2, <1>3
<1>5. m = n + 1
  BY <1>4
<1>6. QED
  BY <1>3, <1>5

(* A fold whose steps stay in a set is such a function.                    *)
StepsFrom(f, b, h, n) ==
    \A t \in SUBSET (1..n) :
       f[t] = IF t = {} THEN b ELSE h[<<f[t \ {Max(t)}], Max(t)>>]

(* There is a function that folds over the sets of places up to n.         *)
LEMMA FoldExists ==
    ASSUME NEW T, NEW b \in T, NEW n \in Nat, NEW h \in [T \X (1..n) -> T]
    PROVE  \E f \in [SUBSET (1..n) -> T] : StepsFrom(f, b, h, n)
<1> DEFINE Some(m) == \E f \in [SUBSET (1..m) -> T] : StepsFrom(f, b, h, m)
           K == {m \in Nat : m <= n => Some(m)}
<1>1. 0 \in K
  <2> DEFINE f == [t \in SUBSET (1..0) |-> b]
  <2>1. f \in [SUBSET (1..0) -> T]
    OBVIOUS
  <2>2. \A t \in SUBSET (1..0) : t = {} /\ f[t] = b
    OBVIOUS
  <2> HIDE DEF f
  <2>3. StepsFrom(f, b, h, 0)
    BY <2>2, Zenon DEF StepsFrom
  <2>4. QED
    BY <2>1, <2>3
<1>2. ASSUME NEW m \in Nat, m \in K
      PROVE  m + 1 \in K
  <2>0. m + 1 \in Nat
    OBVIOUS
  <2>1. SUFFICES ASSUME m + 1 <= n
                 PROVE  Some(m + 1)
    <3> HIDE DEF Some
    <3>1. QED
      BY <2>0
  <2>2. m + 1 \in 1..n /\ m <= n
    BY <2>1
  <2>3. PICK f \in [SUBSET (1..m) -> T] : StepsFrom(f, b, h, m)
    BY <1>2, <2>2
  <2> DEFINE g == [t \in SUBSET (1..(m + 1)) |->
                     IF m + 1 \in t THEN h[<<f[t \ {m + 1}], m + 1>>] ELSE f[t]]
  <2>4. \A t \in SUBSET (1..(m + 1)) : t \ {m + 1} \in SUBSET (1..m)
    OBVIOUS
  <2>5. ASSUME NEW t \in SUBSET (1..(m + 1))
        PROVE  /\ g[t] \in T
               /\ g[t] = IF t = {} THEN b ELSE h[<<g[t \ {Max(t)}], Max(t)>>]
    <3>1. CASE m + 1 \in t
      <4>1. Max(t) = m + 1
        BY <3>1, LastPlace
      <4>2. t \ {m + 1} \in SUBSET (1..(m + 1)) /\ m + 1 \notin t \ {m + 1}
        OBVIOUS
      <4>3. g[t \ {m + 1}] = f[t \ {m + 1}]
        BY <4>2
      <4>4. f[t \ {m + 1}] \in T
        BY <2>3, <2>4
      <4>5. g[t] = h[<<f[t \ {m + 1}], m + 1>>]
        BY <3>1
      <4>6. h[<<f[t \ {m + 1}], m + 1>>] \in T
        BY <2>2, <4>4
      <4> HIDE DEF g
      <4>7. QED
        BY <3>1, <4>1, <4>3, <4>5, <4>6
    <3>2. CASE m + 1 \notin t
      <4>1. t \in SUBSET (1..m) /\ t \ {Max(t)} \in SUBSET (1..(m + 1))
            /\ m + 1 \notin t \ {Max(t)}
        BY <2>4, <3>2
      <4>2. g[t] = f[t] /\ g[t \ {Max(t)}] = f[t \ {Max(t)}]
        BY <3>2, <4>1
      <4>3. f[t] \in T
        BY <2>3, <4>1
      <4>4. f[t] = IF t = {} THEN b ELSE h[<<f[t \ {Max(t)}], Max(t)>>]
        BY <2>3, <4>1 DEF StepsFrom
      <4> HIDE DEF g
      <4>5. QED
        BY <4>2, <4>3, <4>4
    <3>3. QED
      BY <3>1, <3>2
  <2>6. g = [t \in SUBSET (1..(m + 1)) |-> g[t]]
    OBVIOUS
  <2> HIDE DEF g
  <2>7. g \in [SUBSET (1..(m + 1)) -> T]
    BY <2>5, <2>6
  <2>8. StepsFrom(g, b, h, m + 1)
    BY <2>5 DEF StepsFrom
  <2>9. QED
    BY <2>7, <2>8
<1> HIDE DEF K
<1>3. \A m \in Nat : m \in K
  BY <1>1, <1>2, NaturalsIn
<1>4. n \in K /\ n <= n
  BY <1>3
<1>5. QED
  BY <1>4 DEF K

(* What is kept from one beginning of a sequence to the next holds of all. *)
LEMMA FoldedIn ==
    ASSUME NEW T, NEW n \in Nat, NEW f, f[{}] \in T,
           \A t \in SUBSET (1..n) : t # {} /\ f[t \ {Max(t)}] \in T => f[t] \in T
    PROVE  f[1..n] \in T
<1> DEFINE K == {m \in Nat : m <= n => f[1..m] \in T}
<1>1. 0 \in K
  <2>1. 1..0 = {}
    OBVIOUS
  <2>2. QED
    BY <2>1
<1>2. ASSUME NEW m \in Nat, m \in K
      PROVE  m + 1 \in K
  <2>1. SUFFICES ASSUME m + 1 <= n PROVE f[1..(m + 1)] \in T
    OBVIOUS
  <2>2. f[1..m] \in T
    BY <1>2, <2>1
  <2>3. 1..(m + 1) \in SUBSET (1..n) /\ m + 1 \in 1..(m + 1)
    BY <2>1
  <2>4. Max(1..(m + 1)) = m + 1
    BY <2>3, LastPlace
  <2>5. (1..(m + 1)) \ {m + 1} = 1..m
    OBVIOUS
  <2>6. QED
    BY <2>2, <2>3, <2>4, <2>5
<1> HIDE DEF K
<1>3. \A m \in Nat : m \in K
  BY <1>1, <1>2, NaturalsIn
<1>4. n \in K /\ n <= n
  BY <1>3
<1>5. QED
  BY <1>4 DEF K
=============================================================================
