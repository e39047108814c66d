-------------------------- MODULE AppfClientProofs --------------------------
(***************************************************************************)
(* Theorems about the telnet client of appf_client.c, for every prompt,    *)
(* every alphabet, every size of its buffers and every use of its reads:   *)
(* types, and that prompt detection, which sees the stream in pieces and   *)
(* keeps back only the beginning of a prompt, is exact for the stream as a *)
(* whole.                                                                  *)
(***************************************************************************)
EXTENDS AppfClient, SeqLemmas

USE PromptAssumption, ClientAssumption

-----------------------------------------------------------------------------
(* The ends of a stream that are beginnings of the prompt.                 *)

(* The last k bytes of x are the first k of the prompt. *)
Ends(k, x) ==
  k <= Len(x) /\ \A i \in 1..k : x[Len(x) - k + i] = Prompt[i]

(* h is the longest end of s that is a proper beginning of the prompt. *)
Longest(h, s) ==
  \E n \in 0..(Len(Prompt) - 1) :
    /\ Ends(n, s) /\ h = SubSeq(Prompt, 1, n)
    /\ \A k \in (n + 1)..(Len(Prompt) - 1) : ~ Ends(k, s)

(* A beginning of the prompt. *)
LEMMA Beginning ==
    ASSUME NEW n \in 0..Len(Prompt)
    PROVE  /\ SubSeq(Prompt, 1, n) \in Seq(Byte)
           /\ Len(SubSeq(Prompt, 1, n)) = n
           /\ \A i \in 1..n : SubSeq(Prompt, 1, n)[i] = Prompt[i]
BY FirstElements

(* The bytes of a sequence in the opposite order, one for one.             *)
LEMMA ReverseProperties ==
    ASSUME NEW s \in Seq(Byte)
    PROVE  /\ Stream!Reverse(s) \in Seq(Byte)
           /\ Len(Stream!Reverse(s)) = Len(s)
           /\ \A i \in 1..Len(s) : Stream!Reverse(s)[i] = s[Len(s) - i + 1]
<1> DEFINE n == Len(s)
           r == [i \in 1..n |-> s[n - i + 1]]
<1>1. n \in Nat /\ \A i \in 1..n : s[n - i + 1] \in Byte
  OBVIOUS
<1>2. Stream!Reverse(s) = r
  BY DEF Stream!Reverse
<1> HIDE DEF n
<1>3. r \in Seq(Byte) /\ Len(r) = n /\ \A i \in 1..n : r[i] = s[n - i + 1]
  BY <1>1
<1>4. QED
  BY <1>2, <1>3 DEF n

(* What IsSuffix says, without reversing. *)
LEMMA SuffixMeaning ==
    ASSUME NEW s \in Seq(Byte), NEW x \in Seq(Byte)
    PROVE  Stream!IsSuffix(s, x) <=>
             /\ Len(s) <= Len(x)
             /\ \A i \in 1..Len(s) : x[Len(x) - Len(s) + i] = s[i]
<1> DEFINE n == Len(s)
           m == Len(x)
           r == Stream!Reverse(s)
           q == Stream!Reverse(x)
<1>1. /\ n \in Nat /\ m \in Nat /\ r \in Seq(Byte) /\ q \in Seq(Byte)
      /\ Len(r) = n /\ Len(q) = m
      /\ \A i \in 1..n : r[i] = s[n - i + 1]
      /\ \A i \in 1..m : q[i] = x[m - i + 1]
  BY ReverseProperties
<1>2. Stream!IsSuffix(s, x) <=> n <= m /\ SubSeq(r, 1, n) = SubSeq(q, 1, n)
  BY <1>1 DEF Stream!IsSuffix, Stream!IsPrefix
<1> HIDE DEF n, m, r, q
<1>3. ASSUME n <= m
      PROVE  (SubSeq(r, 1, n) = SubSeq(q, 1, n)) <=> \A i \in 1..n : x[m - n + i] = s[i]
  <2> DEFINE a == SubSeq(r, 1, n)
             b == SubSeq(q, 1, n)
  <2>1. /\ a \in Seq(Byte) /\ b \in Seq(Byte) /\ Len(a) = n /\ Len(b) = n
        /\ \A i \in 1..n : a[i] = r[i] /\ b[i] = q[i]
    <3>1. n \in 0..Len(r) /\ n \in 0..Len(q)
      BY <1>1, <1>3
    <3>2. QED
      BY <1>1, <3>1, FirstElements
  <2> HIDE DEF a, b
  <2>2. (a = b) <=> \A i \in 1..n : r[i] = q[i]
    <3>1. ASSUME \A i \in 1..n : r[i] = q[i] PROVE a = b
      BY <2>1, <3>1, SeqEqual
    <3>2. QED
      BY <2>1, <3>1
  <2>3. ASSUME \A i \in 1..n : r[i] = q[i], NEW i \in 1..n PROVE x[m - n + i] = s[i]
    <3>1. n - i + 1 \in 1..n /\ n - i + 1 \in 1..m
      BY <1>1, <1>3
    <3>2. r[n - i + 1] = s[n - (n - i + 1) + 1] /\ q[n - i + 1] = x[m - (n - i + 1) + 1]
      BY <1>1, <3>1
    <3>3. n - (n - i + 1) + 1 = i /\ m - (n - i + 1) + 1 = m - n + i
      BY <1>1
    <3>4. QED
      BY <2>3, <3>1, <3>2, <3>3
  <2>4. ASSUME \A i \in 1..n : x[m - n + i] = s[i], NEW i \in 1..n PROVE r[i] = q[i]
    <3>1. n - i + 1 \in 1..n /\ i \in 1..m /\ m - n + (n - i + 1) = m - i + 1
      BY <1>1, <1>3
    <3>2. x[m - n + (n - i + 1)] = s[n - i + 1]
      BY <2>4, <3>1
    <3>3. QED
      BY <1>1, <3>1, <3>2
  <2>5. QED
    BY <2>2, <2>3, <2>4 DEF a, b
<1>4. QED
  BY <1>2, <1>3 DEF n, m

(* The first k bytes of the prompt are a suffix of x exactly when x ends   *)
(* with them, byte by byte.                                                *)
LEMMA SuffixIsEnd ==
    ASSUME NEW k \in 0..Len(Prompt), NEW x \in Seq(Byte)
    PROVE  Stream!IsSuffix(SubSeq(Prompt, 1, k), x) <=> Ends(k, x)
<1> DEFINE p == SubSeq(Prompt, 1, k)
<1>1. p \in Seq(Byte) /\ Len(p) = k /\ \A i \in 1..k : p[i] = Prompt[i]
  BY Beginning
<1> HIDE DEF p
<1>2. Stream!IsSuffix(p, x) <=> Ends(k, x)
  BY <1>1, SuffixMeaning DEF Ends
<1>3. QED
  BY <1>2 DEF p

(* The same of the whole prompt.                                           *)
LEMMA PromptIsEnd ==
    ASSUME NEW x \in Seq(Byte)
    PROVE  Stream!IsSuffix(Prompt, x) <=> Ends(Len(Prompt), x)
BY SuffixMeaning DEF Ends

-----------------------------------------------------------------------------
(* What _af_client_prompt_detect finds.                                    *)
LEMMA WindowProperties ==
    ASSUME NEW b \in Seq(Byte)
    PROVE  /\ Window(b) \in Seq(Byte)
           /\ Len(Window(b)) \in 0..Len(Prompt) /\ Len(Window(b)) <= Len(b)
           /\ Len(Window(b)) = Len(Prompt) \/ Len(Window(b)) = Len(b)
           /\ \A i \in 1..Len(Window(b)) :
                 Window(b)[i] = b[Len(b) - Len(Window(b)) + i]
<1> DEFINE n == IF Len(b) >= Len(Prompt) THEN Len(Prompt) ELSE Len(b)
           w == SubSeq(b, Len(b) - n + 1, Len(b))
<1>1. Window(b) = w
  BY DEF Window, LastOf
<1>2. /\ n \in 0..Len(b) /\ n \in 0..Len(Prompt)
      /\ n = Len(Prompt) \/ n = Len(b)
  OBVIOUS
<1> HIDE DEF n
<1>3. w \in Seq(Byte) /\ Len(w) = n /\ \A i \in 1..n : w[i] = b[Len(b) - n + i]
  BY <1>2, LastElements
<1> HIDE DEF w
<1>4. QED
  BY <1>1, <1>2, <1>3

(* The outer loop stops at the longest end that matches. *)
LEMMA FirstMatchProperties ==
    ASSUME NEW w \in Seq(Byte)
    PROVE  /\ FirstMatch(w) \in 0..Len(w)
           /\ MatchesFrom(w, FirstMatch(w))
           /\ \A j \in 0..(FirstMatch(w) - 1) : ~ MatchesFrom(w, j)
<1> DEFINE I == {k \in 0..Len(w) : MatchesFrom(w, k)}
<1>1. Len(w) \in Nat
  OBVIOUS
<1>2. Len(w) \in I
  BY <1>1 DEF MatchesFrom
<1>3. I \in SUBSET Nat /\ I # {}
  BY <1>1, <1>2
<1>4. Min(I) \in I /\ \A i \in I : Min(I) <= i
  BY <1>3, MinOfNaturals, Zenon
<1> DEFINE m == Min(I)
<1>5. m \in 0..Len(w) /\ MatchesFrom(w, m) /\ \A i \in I : m <= i
  BY <1>4
<1> HIDE DEF m
<1>6. \A j \in 0..(m - 1) : ~ MatchesFrom(w, j)
  <2>1. SUFFICES ASSUME NEW j \in 0..(m - 1), MatchesFrom(w, j) PROVE FALSE
    OBVIOUS
  <2>2. j \in 0..Len(w) /\ j < m
    BY <1>1, <1>5
  <2>3. j \in I
    BY <2>1, <2>2
  <2>4. m <= j
    BY <1>5, <2>3
  <2>5. QED
    BY <1>1, <1>5, <2>2, <2>4
<1>7. \E k \in 0..Len(w) : MatchesFrom(w, k) /\ \A j \in 0..(k - 1) : ~ MatchesFrom(w, j)
  BY <1>5, <1>6
<1>8. QED
  BY <1>7, Zenon DEF FirstMatch

(* A match at k of the window is an end of the buffer. *)
LEMMA MatchIsEnd ==
    ASSUME NEW b \in Seq(Byte), NEW k \in 0..Len(Window(b))
    PROVE  MatchesFrom(Window(b), k) <=> Ends(Len(Window(b)) - k, b)
<1> DEFINE w == Window(b)
           n == Len(w)
<1>1. /\ n \in Nat /\ Len(b) \in Nat /\ n <= Len(b) /\ k \in 0..n
      /\ \A i \in 1..n : w[i] = b[Len(b) - n + i]
  BY WindowProperties
<1> HIDE DEF w
<1>2. \A i \in 1..(n - k) : k + i \in 1..n /\ w[k + i] = b[Len(b) - (n - k) + i]
  <2>1. SUFFICES ASSUME NEW i \in 1..(n - k)
                 PROVE  k + i \in 1..n /\ w[k + i] = b[Len(b) - (n - k) + i]
    OBVIOUS
  <2> HIDE DEF n
  <2>2. k + i \in 1..n /\ Len(b) - n + (k + i) = Len(b) - (n - k) + i
    BY <1>1
  <2>3. QED
    BY <1>1, <2>2
<1>3. n - k <= Len(b)
  BY <1>1
<1>4. QED
  BY <1>2, <1>3 DEF MatchesFrom, Ends, w

(* What the matcher decides: found is the whole prompt at the end of the   *)
(* data, otherwise the longest partial prompt is saved.                    *)
LEMMA DetectProperties ==
    ASSUME NEW b \in Seq(Byte)
    PROVE  /\ Detect(b).found <=> Ends(Len(Prompt), b)
           /\ Detect(b).found => Detect(b).saved = <<>>
           /\ ~ Detect(b).found => Longest(Detect(b).saved, b)
<1> DEFINE w == Window(b)
           n == Len(w)
           k == FirstMatch(w)
           m == Len(Prompt)
<1>1. /\ w \in Seq(Byte) /\ n \in Nat /\ m \in Nat /\ Len(b) \in Nat
      /\ n <= m /\ n <= Len(b) /\ (n = m \/ n = Len(b))
      /\ \A i \in 1..n : w[i] = b[Len(b) - n + i]
  BY WindowProperties
<1>2. k \in 0..n /\ MatchesFrom(w, k) /\ \A j \in 0..(k - 1) : ~ MatchesFrom(w, j)
  BY <1>1, FirstMatchProperties
<1>3. Ends(n - k, b) /\ \A j \in 0..(k - 1) : ~ Ends(n - j, b)
  <2>1. \A j \in 0..n : MatchesFrom(w, j) <=> Ends(n - j, b)
    BY MatchIsEnd
  <2>2. \A j \in 0..(k - 1) : j \in 0..n
    BY <1>1, <1>2
  <2>3. QED
    BY <1>2, <2>1, <2>2
<1> DEFINE whole == k = 0 /\ n = m
           kept == LastOf(w, n - k)
<1>4. Detect(b) = [found |-> whole, saved |-> IF whole THEN <<>> ELSE kept]
  BY DEF Detect
<1>5. Detect(b).found = whole /\ Detect(b).saved = (IF whole THEN <<>> ELSE kept)
  BY <1>4
<1>6. kept \in Seq(Byte) /\ Len(kept) = n - k
      /\ \A i \in 1..(n - k) : kept[i] = w[n - (n - k) + i]
  <2> HIDE DEF w, k
  <2>1. n - k \in 0..Len(w)
    BY <1>1, <1>2
  <2>2. QED
    BY <1>1, <2>1, LastElements DEF LastOf
<1> HIDE DEF w, n, k, m, kept
<1>7. ASSUME NEW j \in Nat, j <= m, n - k < j PROVE ~ Ends(j, b)
  <2>1. CASE j <= n
    <3>1. n \in Nat /\ k \in Nat /\ k <= n
      BY <1>1, <1>2
    <3>2. n - j \in 0..(k - 1) /\ n - (n - j) = j
      BY <1>7, <2>1, <3>1
    <3>3. QED
      BY <1>3, <3>2
  <2>2. CASE ~ (j <= n)
    <3>1. j > Len(b)
      BY <1>1, <1>7, <2>2
    <3>2. QED
      BY <1>1, <3>1 DEF Ends
  <2>3. QED
    BY <2>1, <2>2
<1>8. whole <=> Ends(m, b)
  <2>1. CASE n - k = m
    BY <1>1, <1>2, <1>3, <2>1
  <2>2. CASE n - k # m
    BY <1>1, <1>2, <1>7, <2>2
  <2>3. QED
    BY <2>1, <2>2
<1>9. ASSUME ~ whole PROVE Longest(kept, b)
  <2> DEFINE l == n - k
  <2>1. l \in 0..(m - 1)
    BY <1>1, <1>2, <1>9
  <2>2. kept = SubSeq(Prompt, 1, l)
    <3> DEFINE p == SubSeq(Prompt, 1, l)
    <3>1. p \in Seq(Byte) /\ Len(p) = l /\ \A i \in 1..l : p[i] = Prompt[i]
      BY <1>1, <2>1, Beginning DEF m
    <3> HIDE DEF p
    <3>2. ASSUME NEW i \in 1..l PROVE kept[i] = Prompt[i]
      <4>1. n - l + i \in 1..n /\ Len(b) - n + (n - l + i) = Len(b) - l + i
        BY <1>1, <1>2
      <4>2. kept[i] = w[n - l + i]
        BY <1>6
      <4>3. w[n - l + i] = b[Len(b) - n + (n - l + i)]
        BY <1>1, <4>1
      <4>4. b[Len(b) - l + i] = Prompt[i]
        BY <1>3 DEF Ends
      <4>5. QED
        BY <4>1, <4>2, <4>3, <4>4
    <3>3. kept = p
      BY <1>6, <3>1, <3>2, SeqEqual
    <3>4. QED
      BY <3>3 DEF p
  <2>3. \A j \in (l + 1)..(m - 1) : ~ Ends(j, b)
    BY <1>1, <1>2, <1>7
  <2>4. QED
    BY <1>3, <2>1, <2>2, <2>3 DEF Longest, m
<1>10. QED
  BY <1>5, <1>8, <1>9 DEF m

-----------------------------------------------------------------------------
(* Pieces of a stream.  What is kept back of it is as good as all of it:   *)
(* with more bytes behind, both end with the same beginnings of a prompt.  *)
KeptOf(h, s) == (h = <<>> /\ s = <<>>) \/ Longest(h, s)

(* What was kept back stands for the whole stream: with new bytes behind   *)
(* it, it ends with a part of the prompt when the stream does.             *)
LEMMA EndsAgree ==
    ASSUME NEW h \in Seq(Byte), NEW s \in Seq(Byte), NEW t \in Seq(Byte), t # <<>>,
           NEW k \in 0..Len(Prompt), KeptOf(h, s)
    PROVE  Ends(k, h \o t) <=> Ends(k, s \o t)
<1>1. CASE h = <<>> /\ s = <<>>
  BY <1>1
<1>2. CASE Longest(h, s)
  <2> DEFINE m == Len(Prompt)
             a == h \o t
             b == s \o t
             nt == Len(t)
             ns == Len(s)
  <2>1. PICK n \in 0..(m - 1) :
           /\ Ends(n, s) /\ h = SubSeq(Prompt, 1, n)
           /\ \A j \in (n + 1)..(m - 1) : ~ Ends(j, s)
    BY <1>2 DEF Longest
  <2>2. Len(h) = n /\ \A i \in 1..n : h[i] = Prompt[i]
    BY <2>1, Beginning
  <2>3. n <= ns /\ \A i \in 1..n : s[ns - n + i] = Prompt[i]
    BY <2>1 DEF Ends
  <2>4. /\ Len(a) = n + nt /\ Len(b) = ns + nt
        /\ \A i \in 1..(n + nt) : a[i] = IF i <= n THEN h[i] ELSE t[i - n]
        /\ \A i \in 1..(ns + nt) : b[i] = IF i <= ns THEN s[i] ELSE t[i - ns]
    BY <2>2, ConcatProperties
  <2>5. m \in Nat /\ nt \in Nat /\ nt >= 1 /\ ns \in Nat /\ k \in Nat /\ k <= m
    OBVIOUS
  <2> HIDE DEF m, a, b, nt, ns
  (* What is kept is the end of the stream, so a is the end of b.          *)
  <2>6. \A i \in 1..(n + nt) : b[ns - n + i] = a[i]
    <3>1. SUFFICES ASSUME NEW i \in 1..(n + nt) PROVE b[ns - n + i] = a[i]
      OBVIOUS
    <3>2. ns - n + i \in 1..(ns + nt)
      BY <2>1, <2>3, <2>5
    <3>3. CASE i <= n
      <4>1. i \in 1..n /\ ns - n + i <= ns
        BY <2>1, <2>5, <3>3
      <4>2. b[ns - n + i] = s[ns - n + i] /\ a[i] = h[i]
        BY <2>4, <3>2, <4>1
      <4>3. QED
        BY <2>2, <2>3, <4>1, <4>2
    <3>4. CASE ~ (i <= n)
      <4>1. ~ (ns - n + i <= ns) /\ (ns - n + i) - ns = i - n
        BY <2>1, <2>5, <3>4
      <4>2. b[ns - n + i] = t[(ns - n + i) - ns] /\ a[i] = t[i - n]
        BY <2>4, <3>2, <3>4, <4>1
      <4>3. QED
        BY <4>1, <4>2
    <3>5. QED
      BY <3>3, <3>4
  <2>7. ASSUME k <= n + nt
        PROVE  Ends(k, a) <=> Ends(k, b)
    <3>1. k <= Len(a) /\ k <= Len(b)
      BY <2>1, <2>3, <2>4, <2>5, <2>7
    <3>2. \A i \in 1..k : b[Len(b) - k + i] = a[Len(a) - k + i]
      <4>1. SUFFICES ASSUME NEW i \in 1..k PROVE b[Len(b) - k + i] = a[Len(a) - k + i]
        OBVIOUS
      <4>2. Len(a) - k + i \in 1..(n + nt) /\ ns - n + (Len(a) - k + i) = Len(b) - k + i
        BY <2>1, <2>4, <2>5, <2>7
      <4>3. QED
        BY <2>6, <4>2
    <3>3. QED
      BY <3>1, <3>2 DEF Ends
  <2>8. ASSUME ~ (k <= n + nt)
        PROVE  ~ Ends(k, a) /\ ~ Ends(k, b)
    <3>1. ~ Ends(k, a)
      BY <2>4, <2>8 DEF Ends
    <3>2. ASSUME Ends(k, b) PROVE FALSE
      <4>1. k - nt \in (n + 1)..(m - 1)
        BY <2>1, <2>5, <2>8
      <4>2. Len(b) = ns + nt /\ k <= Len(b) /\ \A i \in 1..k : b[Len(b) - k + i] = Prompt[i]
        BY <2>4, <3>2 DEF Ends
      <4>3. ASSUME NEW i \in 1..(k - nt)
            PROVE  s[ns - (k - nt) + i] = Prompt[i]
        <5> DEFINE p == ns - (k - nt) + i
        <5>1. k \in Nat /\ nt \in Nat /\ nt >= 1 /\ ns \in Nat /\ k <= ns + nt /\ k - nt >= 1
          <6>1. n + 1 >= 1 /\ k - nt >= n + 1
            BY <2>1, <2>5, <4>1
          <6>2. QED
            BY <2>5, <4>2, <6>1
        <5>2. i \in 1..k /\ ns + nt - k + i = p /\ p \in 1..(ns + nt) /\ p <= ns
          BY <5>1
        <5> HIDE DEF p
        <5>3. b[p] = Prompt[i]
          <6>1. Len(b) - k + i = p
            BY <4>2, <5>1, <5>2
          <6>2. b[Len(b) - k + i] = Prompt[i]
            BY <4>2, <5>2
          <6>3. QED
            BY <6>1, <6>2
        <5>4. b[p] = s[p]
          BY <2>4, <5>2
        <5>5. QED
          BY <5>3, <5>4 DEF p
      <4>4. Ends(k - nt, s)
        <5>1. k - nt <= ns
          BY <2>5, <4>2
        <5>2. QED
          BY <4>3, <5>1 DEF Ends, ns
      <4>5. QED
        BY <2>1, <4>1, <4>4
    <3>3. QED
      BY <3>1, <3>2
  <2>9. QED
    BY <2>7, <2>8 DEF a, b
<1>3. QED
  BY <1>1, <1>2 DEF KeptOf

(* The longest end is the one PromptStream speaks of. *)
LEMMA LongestIsPartial ==
    ASSUME NEW x \in Seq(Byte), NEW h, Longest(h, x)
    PROVE  h = Stream!Partial(x)
<1> DEFINE m == Len(Prompt)
           K == {k \in 0..(m - 1) : Stream!IsSuffix(SubSeq(Prompt, 1, k), x)}
<1>1. m \in Nat
  OBVIOUS
<1>2. PICK n \in 0..(m - 1) :
         /\ Ends(n, x) /\ h = SubSeq(Prompt, 1, n)
         /\ \A j \in (n + 1)..(m - 1) : ~ Ends(j, x)
  BY DEF Longest
<1>3. \A k \in 0..(m - 1) : k \in K <=> Ends(k, x)
  <2>1. \A k \in 0..(m - 1) : k \in 0..m
    BY <1>1
  <2>2. QED
    BY <2>1, SuffixIsEnd
<1>4. K \subseteq Nat
  OBVIOUS
<1>5. Stream!Partial(x) = SubSeq(Prompt, 1, Stream!Max(K))
  BY DEF Stream!Partial
<1>6. n \in K /\ \A k \in K : k <= n
  <2>1. ASSUME NEW k \in K, ~ (k <= n) PROVE FALSE
    <3>1. k \in (n + 1)..(m - 1) /\ Ends(k, x)
      BY <1>1, <1>3, <2>1
    <3>2. QED
      BY <1>2, <3>1
  <2>2. QED
    BY <1>2, <1>3, <2>1
<1> HIDE DEF m, K
<1>7. Stream!Max(K) = n
  <2>1. \A y \in K : n >= y
    BY <1>4, <1>6
  <2>2. Stream!Max(K) \in K /\ \A y \in K : Stream!Max(K) >= y
    BY <1>6, <2>1, Zenon DEF Stream!Max
  <2> DEFINE x0 == Stream!Max(K)
  <2>3. x0 \in K /\ x0 >= n
    BY <1>6, <2>2
  <2> HIDE DEF x0
  <2>4. x0 \in Nat /\ x0 <= n /\ n \in Nat
    BY <1>4, <1>6, <2>3
  <2>5. x0 = n
    BY <2>3, <2>4
  <2>6. QED
    BY <2>5 DEF x0
<1>8. QED
  BY <1>2, <1>5, <1>7

(* _af_client_prompt_detect, given what was kept back and the new bytes,   *)
(* says of the stream what PromptStream says of it.                        *)
LEMMA DetectsStream ==
    ASSUME NEW h \in Seq(Byte), NEW s \in Seq(Byte), NEW t \in Seq(Byte), t # <<>>,
           KeptOf(h, s)
    PROVE  /\ Detect(h \o t).found <=> Stream!IsSuffix(Prompt, s \o t)
           /\ Detect(h \o t).found => Detect(h \o t).saved = <<>>
           /\ ~ Detect(h \o t).found => Longest(Detect(h \o t).saved, s \o t)
<1>1. h \o t \in Seq(Byte) /\ s \o t \in Seq(Byte) /\ Len(Prompt) \in Nat
  OBVIOUS
<1>2. \A k \in 0..Len(Prompt) : Ends(k, h \o t) <=> Ends(k, s \o t)
  BY EndsAgree
<1>3. Detect(h \o t).found <=> Stream!IsSuffix(Prompt, s \o t)
  <2>1. Len(Prompt) \in 0..Len(Prompt)
    BY <1>1
  <2>2. QED
    BY <1>1, <1>2, <2>1, DetectProperties, PromptIsEnd
<1>4. ASSUME NEW g, Longest(g, h \o t) PROVE Longest(g, s \o t)
  <2>1. \A k \in 0..(Len(Prompt) - 1) : k \in 0..Len(Prompt)
    BY <1>1
  <2>2. \A n \in 0..(Len(Prompt) - 1) : \A k \in (n + 1)..(Len(Prompt) - 1) :
           k \in 0..(Len(Prompt) - 1)
    BY <1>1
  <2>3. QED
    BY <1>2, <1>4, <2>1, <2>2 DEF Longest
<1>5. QED
  BY <1>1, <1>3, <1>4, DetectProperties

-----------------------------------------------------------------------------
(* Type correctness.  TypeOK says of a read in progress what it holds;     *)
(* that it is a record of these parts and no others is needed to follow    *)
(* its changes.                                                            *)
CallType ==
  [active : {TRUE}, raw : Raw, user : Buffers, len : Nat, timeout : Timeouts,
   to : Positive, then : 0..(TicksPerSec - 1), el : Nat, waited : Nat]

ReturnType == [rc : ReturnCodes \cup {"none"}, len : Nat, user : BOOLEAN]

TypeInv == TypeOK /\ call \in {NoCall} \cup CallType /\ ret \in ReturnType

(* A second has at least one tick.                                         *)
LEMMA TicksPositive == TicksPerSec \in Nat /\ TicksPerSec >= 1
BY DEF TicksPerSec, Positive

(* A read in progress, as TypeOK wants it. *)
CallTyped(c) == c \in CallType /\ c.waited <= c.to * TicksPerMs

(* The fields of a read in progress have their types.                      *)
LEMMA CallTypes ==
    ASSUME NEW c
    PROVE  CallTyped(c) =>
             /\ c.active /\ c.raw \in Raw /\ c.user \in Buffers
             /\ c.timeout \in Timeouts
             /\ c.to \in Positive /\ c.waited \in 0..(c.to * TicksPerMs)
             /\ c.then \in 0..(TicksPerSec - 1)
             /\ c.len \in Nat /\ c.el \in Nat
<1>1. SUFFICES ASSUME CallTyped(c)
               PROVE  c.waited \in 0..(c.to * TicksPerMs)
  BY DEF CallTyped, CallType
<1>2. c.to * TicksPerMs \in Nat /\ c.waited \in Nat
  BY <1>1 DEF CallTyped, CallType, Positive
<1>3. QED
  BY <1>1, <1>2 DEF CallTyped

(* A read in progress is one that CallTyped describes.                     *)
LEMMA ActiveTyped ==
    ASSUME TypeInv, call.active
    PROVE  CallTyped(call)
<1>1. call # NoCall
  BY DEF NoCall
<1>2. call \in CallType
  BY <1>1 DEF TypeInv
<1>3. call.waited <= call.to * TicksPerMs
  <2>1. call.waited \in 0..(call.to * TicksPerMs)
    BY <1>1, Zenon DEF TypeInv, TypeOK
  <2>2. call.to * TicksPerMs \in Nat
    BY <1>2 DEF CallType, Positive
  <2>3. QED
    BY <2>1, <2>2
<1>4. QED
  BY <1>2, <1>3 DEF CallTyped

(* How a read may go on, or end. *)
CallStep == \/ call' = NoCall /\ ret' \in ReturnType
            \/ CallTyped(call') /\ ret' = ret

(* A read that returns leaves no read behind and a typed result.           *)
LEMMA ReturnStep ==
    ASSUME TypeInv, call.active, NEW rc \in ReturnCodes, NEW len \in Nat, Return(rc, len)
    PROVE  CallStep
<1>1. call.user \in BOOLEAN
  BY ActiveTyped DEF CallTyped, CallType
<1>2. QED
  BY <1>1 DEF Return, ReturnType, CallStep

(* A read that looks at the time goes on or returns.                       *)
LEMMA TimeTestStep ==
    ASSUME TypeInv, call.active, NEW len \in Nat, TimeTest(len)
    PROVE  CallStep
<1> DEFINE stale == timediff <= 0
           tdiff == IF stale THEN 0 ELSE timediff
           to == call.timeout - tdiff
           then == IF stale THEN (call.then + call.el) % TicksPerSec ELSE call.then
           el == IF stale THEN 0 ELSE call.el
           next == IF to <= 0 THEN 1 ELSE to
<1>1. CallTyped(call)
  BY ActiveTyped
<1>2. CASE Return(IF call.timeout # 0 THEN "AF_TIMEOUT" ELSE "AF_OK", len)
  <2>1. (IF call.timeout # 0 THEN "AF_TIMEOUT" ELSE "AF_OK") \in ReturnCodes
    BY DEF ReturnCodes
  <2>2. QED
    BY <1>2, <2>1, ReturnStep
<1>3. CASE /\ call' = [call EXCEPT !.len = len, !.then = then, !.el = el,
                                   !.to = next, !.waited = 0]
           /\ ret' = ret
  <2>1. call.then \in Nat /\ call.el \in Nat /\ TicksPerSec \in Nat /\ TicksPerSec >= 1
    BY <1>1, TicksPositive DEF CallTyped, CallType
  <2>2. then \in 0..(TicksPerSec - 1) /\ el \in Nat
    <3>1. (call.then + call.el) % TicksPerSec \in 0..(TicksPerSec - 1)
      BY <2>1
    <3>2. QED
      BY <1>1, <2>1, <3>1 DEF CallTyped, CallType
  <2>3. timediff \in Int
    <3> DEFINE now == call.then + call.el
               a == (now % TicksPerSec) - call.then
    <3>1. now \in Nat /\ now \div TicksPerSec \in Int /\ now % TicksPerSec \in Int
      <4>1. now \in Nat
        BY <2>1
      <4> HIDE DEF now
      <4>2. QED
        BY <2>1, <4>1
    <3>2. a \in Int /\ TicksPerMs \in Nat /\ TicksPerMs >= 1 /\ MsPerSec \in Nat
      BY <2>1, <3>1 DEF Positive
    <3> HIDE DEF a
    <3>3. Truncated(a, TicksPerMs) \in Int
      BY <3>2 DEF Truncated
    <3>4. (now \div TicksPerSec) * MsPerSec \in Int
      BY <3>1, <3>2
    <3>5. timediff = (now \div TicksPerSec) * MsPerSec + Truncated(a, TicksPerMs)
      BY DEF timediff, a
    <3> HIDE DEF now
    <3>6. QED
      BY <3>3, <3>4, <3>5
  <2>4. next \in Positive
    <3>1. call.timeout \in Nat
      BY <1>1 DEF CallTyped, CallType
    <3>2. QED
      BY <2>3, <3>1 DEF Positive
  <2> HIDE DEF then, el, next
  <2>5. call \in CallType
    BY <1>1 DEF CallTyped
  <2>6. call' \in CallType /\ call'.waited = 0 /\ call'.to = next
    BY <1>3, <2>2, <2>4, <2>5 DEF CallType
  <2>7. 0 <= next * TicksPerMs
    BY <2>4 DEF Positive
  <2>8. QED
    BY <1>3, <2>6, <2>7 DEF CallTyped, CallStep
<1>4. QED
  BY <1>2, <1>3 DEF TimeTest

(* Either way the read and its result keep their types.                    *)
LEMMA CallStepTypes ==
    ASSUME CallStep, TypeInv
    PROVE  /\ call' \in {NoCall} \cup CallType /\ ret' \in ReturnType
           /\ call' # NoCall => CallTyped(call')
BY DEF CallStep, TypeInv, CallTyped

(* The bytes a read takes, and those it leaves. *)
LEMMA RestElements ==
    ASSUME NEW s \in Seq(Byte), NEW n \in Nat
    PROVE  /\ SubSeq(s, n + 1, Len(s)) \in Seq(Byte)
           /\ Len(SubSeq(s, n + 1, Len(s))) = IF n <= Len(s) THEN Len(s) - n ELSE 0
<1> DEFINE m == Len(s)
           r == SubSeq(s, n + 1, m)
<1>1. m \in Nat /\ \A i \in (n + 1)..m : s[i] \in Byte
  OBVIOUS
<1> HIDE DEF m
<1>2. r \in Seq(Byte) /\ Len(r) = IF n + 1 <= m THEN m - (n + 1) + 1 ELSE 0
  BY <1>1, SubSeqProperties
<1> HIDE DEF r
<1>3. Len(r) = IF n <= m THEN m - n ELSE 0
  BY <1>1, <1>2
<1>4. QED
  BY <1>2, <1>3 DEF m, r

(* A read takes at least one byte, all of them from the front of the wire, *)
(* and the rest still fits on it.                                          *)
LEMMA TakenProperties ==
    ASSUME TypeInv, wire # <<>>
    PROVE  /\ Taken \in Seq(Byte) /\ Taken # <<>> /\ Taken \in Stream!Piece
           /\ SubSeq(wire, Len(Taken) + 1, Len(wire)) \in Seq(Byte)
           /\ Len(SubSeq(wire, Len(Taken) + 1, Len(wire))) <= MaxWire
<1> DEFINE n == Least(Len(wire), ReadLimit - Len(saved))
           p == SubSeq(wire, 1, n)
<1>1. wire \in Seq(Byte) /\ Len(wire) <= MaxWire /\ saved \in Seq(Byte)
      /\ Len(saved) <= Len(Prompt)
  BY DEF TypeInv, TypeOK
<1>2. Len(wire) \in Nat /\ Len(wire) >= 1 /\ MaxWire \in Nat /\ Len(saved) \in Nat
      /\ Len(Prompt) \in Nat
  BY <1>1 DEF Positive
<1>3. ReadLimit - Len(saved) \in Int /\ ReadLimit - Len(saved) >= 1
  BY <1>1, <1>2 DEF ReadLimit
<1>4. n \in Nat /\ n >= 1 /\ n <= Len(wire)
  BY <1>2, <1>3 DEF Least
<1>5. Taken = p
  BY DEF Taken
<1> HIDE DEF n
<1>6. p \in Seq(Byte) /\ Len(p) = n
  <2>1. n \in 0..Len(wire)
    BY <1>2, <1>4
  <2>2. QED
    BY <1>1, <2>1, FirstElements
<1> HIDE DEF p
<1>7. p # <<>> /\ p \in Stream!Piece
  <2>1. p \in [1..n -> Byte] /\ n \in 1..MaxWire
    BY <1>1, <1>2, <1>4, <1>6
  <2>2. QED
    BY <1>4, <1>6, <2>1 DEF Stream!Piece
<1>8. /\ SubSeq(wire, n + 1, Len(wire)) \in Seq(Byte)
      /\ Len(SubSeq(wire, n + 1, Len(wire))) = Len(wire) - n
  BY <1>1, <1>4, RestElements
<1>9. QED
  BY <1>1, <1>2, <1>4, <1>5, <1>6, <1>7, <1>8

(* The length of the data in front of a prompt is a natural number.        *)
LEMMA DataLengthType ==
    ASSUME NEW b \in Seq(Byte)
    PROVE  DataLength(b, Detect(b)) \in Nat
<1>1. Len(b) \in Nat /\ Len(Prompt) \in Nat
  OBVIOUS
<1>2. CASE Detect(b).found
  <2>1. Len(Prompt) <= Len(b)
    BY <1>2, DetectProperties DEF Ends
  <2>2. QED
    BY <1>1, <1>2, <2>1 DEF DataLength
<1>3. CASE ~ Detect(b).found
  <2>1. PICK n \in 0..(Len(Prompt) - 1) : n <= Len(b) /\ Detect(b).saved = SubSeq(Prompt, 1, n)
    BY <1>3, DetectProperties DEF Longest, Ends
  <2>2. n \in 0..Len(Prompt) /\ n \in Nat
    BY <1>1, <2>1
  <2>3. Len(Detect(b).saved) = n
    BY <2>1, <2>2, Beginning
  <2>4. QED
    BY <1>1, <1>3, <2>1, <2>2, <2>3 DEF DataLength
<1>4. QED
  BY <1>2, <1>3

(* Bytes are looked at for a prompt, or passed on with nothing kept back. *)
LEMMA ReadPromptEffect ==
    ASSUME TypeInv, ReadPrompt
    PROVE  /\ Taken \in Seq(Byte) /\ Taken # <<>> /\ Taken \in Stream!Piece
           /\ wire' \in Seq(Byte) /\ Len(wire') <= MaxWire
           /\ numprompts' \in 0..MaxPrompts
           /\ CallStep /\ UNCHANGED <<conn, buf, fault>>
           /\ \/ /\ saved' = Detect(saved \o Taken).saved
                 /\ stream' = Unfinished \o Taken
                 /\ found' = Detect(saved \o Taken).found
              \/ saved' = <<>> /\ stream' = <<>> /\ found' = FALSE
<1> DEFINE bytes == saved \o Taken
           d == Detect(bytes)
           full == Len(bytes) >= ReadLimit - 1 - Len(Prompt)
           Rest(len) == \/ full /\ Return("AF_BUFFER", len)
                        \/ ~full /\ TimeTest(len)
<1>1. call.active /\ wire # <<>> /\ wire' = SubSeq(wire, Len(Taken) + 1, Len(wire))
  BY DEF ReadPrompt, ReadSound, InRead
<1>2. saved \in Seq(Byte) /\ numprompts \in 0..MaxPrompts /\ call.len \in Nat
  BY <1>1, ActiveTyped DEF TypeInv, TypeOK, CallTyped, CallType
<1>3. bytes \in Seq(Byte)
  BY <1>1, <1>2, TakenProperties
<1>4. DataLength(bytes, d) \in Nat
  BY <1>3, DataLengthType
<1>5. \/ /\ numprompts > 0 /\ d.found
         /\ Return("AF_OK", call.len + DataLength(bytes, d))
         /\ numprompts' = numprompts - 1
         /\ saved' = d.saved
         /\ stream' = Unfinished \o Taken /\ found' = TRUE
      \/ /\ numprompts > 0 /\ ~d.found
         /\ Rest(call.len + DataLength(bytes, d))
         /\ saved' = d.saved
         /\ stream' = Unfinished \o Taken /\ found' = FALSE
         /\ UNCHANGED numprompts
      \/ /\ numprompts = 0
         /\ Rest(call.len)
         /\ saved' = <<>>
         /\ stream' = <<>> /\ found' = FALSE
         /\ UNCHANGED numprompts
  BY Zenon DEF ReadPrompt
<1>6. UNCHANGED <<conn, buf, fault>>
  BY DEF ReadPrompt
<1> HIDE DEF bytes, d, full
<1>7. ASSUME NEW len \in Nat, Rest(len) PROVE CallStep
  <2>1. "AF_BUFFER" \in ReturnCodes
    BY DEF ReturnCodes
  <2>2. QED
    BY <1>1, <1>7, <2>1, ReturnStep, TimeTestStep
<1>8. call.len + DataLength(bytes, d) \in Nat
  BY <1>2, <1>4
<1> HIDE DEF Rest
<1>9. CallStep
  <2>1. "AF_OK" \in ReturnCodes
    BY DEF ReturnCodes
  <2>2. ASSUME Return("AF_OK", call.len + DataLength(bytes, d)) PROVE CallStep
    BY <1>1, <1>8, <2>1, <2>2, ReturnStep
  <2>3. QED
    BY <1>2, <1>5, <1>7, <1>8, <2>2
<1>10. numprompts' \in 0..MaxPrompts
  BY <1>2, <1>5
<1>11. d.found \in BOOLEAN
  BY DEF d, Detect
<1>12. \/ saved' = d.saved /\ stream' = Unfinished \o Taken /\ found' = d.found
       \/ saved' = <<>> /\ stream' = <<>> /\ found' = FALSE
  <2>1. CASE saved' = d.saved /\ stream' = Unfinished \o Taken /\ d.found /\ found' = TRUE
    BY <1>11, <2>1
  <2>2. CASE saved' = d.saved /\ stream' = Unfinished \o Taken /\ ~ d.found /\ found' = FALSE
    BY <1>11, <2>2
  <2>3. QED
    BY <1>5, <2>1, <2>2
<1>13. QED
  BY <1>1, <1>6, <1>9, <1>10, <1>12, TakenProperties DEF bytes, d

(* A raw read moves bytes from the wire to the buffer and touches neither  *)
(* the connection nor the count of prompts.                                *)
LEMMA ReadRawEffect ==
    ASSUME TypeInv, ReadRaw
    PROVE  /\ wire' \in Seq(Byte) /\ Len(wire') <= MaxWire
           /\ buf' \in Seq(Byte) /\ Len(buf') <= UserSize
           /\ saved' = <<>> /\ stream' = <<>> /\ found' = FALSE
           /\ CallStep /\ UNCHANGED <<conn, numprompts, fault>>
<1> DEFINE n == Least(Len(wire), UserSize)
           bytes == SubSeq(wire, 1, n)
           rest == SubSeq(buf, Len(bytes) + 1, Len(buf))
<1>1. /\ call.active /\ wire' = SubSeq(wire, Len(bytes) + 1, Len(wire))
      /\ buf' = bytes \o rest
      /\ saved' = <<>> /\ stream' = <<>> /\ found' = FALSE
      /\ TimeTest(Len(bytes) + Len(saved))
      /\ UNCHANGED <<conn, numprompts, fault>>
  BY DEF ReadRaw, ReadSound, InRead
<1>2. /\ wire \in Seq(Byte) /\ Len(wire) <= MaxWire /\ saved \in Seq(Byte)
      /\ buf \in Seq(Byte) /\ Len(buf) <= UserSize
  BY DEF TypeInv, TypeOK
<1>3. Len(wire) \in Nat /\ Len(buf) \in Nat /\ Len(saved) \in Nat
      /\ UserSize \in Nat /\ MaxWire \in Nat
  BY <1>2 DEF Positive
<1>4. n \in 0..Len(wire) /\ n \in Nat /\ n <= UserSize
  BY <1>3 DEF Least
<1> HIDE DEF n
<1>5. bytes \in Seq(Byte) /\ Len(bytes) = n
  BY <1>2, <1>4, FirstElements
<1> HIDE DEF bytes
<1>6. rest \in Seq(Byte) /\ Len(rest) = IF n <= Len(buf) THEN Len(buf) - n ELSE 0
  BY <1>2, <1>4, <1>5, RestElements
<1> HIDE DEF rest
<1>7. buf' \in Seq(Byte) /\ Len(buf') = n + Len(rest)
  <2>1. bytes \o rest \in Seq(Byte) /\ Len(bytes \o rest) = Len(bytes) + Len(rest)
    BY <1>5, <1>6, ConcatProperties
  <2>2. QED
    BY <1>1, <1>5, <2>1
<1>8. Len(buf') <= UserSize
  BY <1>2, <1>3, <1>4, <1>6, <1>7
<1>9. wire' \in Seq(Byte) /\ Len(wire') = Len(wire) - n
  <2>1. wire' = SubSeq(wire, n + 1, Len(wire))
    BY <1>1, <1>5
  <2>2. n <= Len(wire)
    BY <1>3, <1>4
  <2>3. QED
    BY <1>2, <1>4, <2>1, <2>2, RestElements
<1>10. Len(wire') <= MaxWire
  BY <1>2, <1>3, <1>4, <1>9
<1>11. CallStep
  <2>1. Len(bytes) + Len(saved) \in Nat
    BY <1>3, <1>4, <1>5
  <2>2. QED
    BY <1>1, <2>1, TimeTestStep
<1>12. QED
  BY <1>1, <1>7, <1>8, <1>9, <1>10, <1>11

(* What is kept back is shorter than the prompt. *)
LEMMA KeptType ==
    ASSUME NEW h, NEW s, Longest(h, s)
    PROVE  h \in Seq(Byte) /\ Len(h) <= Len(Prompt)
<1>1. Len(Prompt) \in Nat
  OBVIOUS
<1>2. PICK n \in 0..(Len(Prompt) - 1) : h = SubSeq(Prompt, 1, n)
  BY DEF Longest
<1>3. n \in 0..Len(Prompt) /\ n <= Len(Prompt)
  BY <1>1
<1>4. QED
  BY <1>2, <1>3, Beginning

(* The empty sequence fits wherever bytes are kept.                        *)
LEMMA NothingFits ==
    /\ <<>> \in Seq(Byte) /\ Len(<<>>) <= MaxWire /\ Len(<<>>) <= UserSize
    /\ Len(<<>>) <= Len(Prompt)
<1>1. Len(<<>>) = 0 /\ <<>> \in Seq(Byte)
  OBVIOUS
<1>2. MaxWire \in Nat /\ UserSize \in Nat /\ Len(Prompt) \in Nat
  BY DEF Positive
<1>3. QED
  BY <1>1, <1>2

(* The initial states are typed.                                           *)
LEMMA TypeInit == Init => TypeInv
<1>1. NoReturn \in ReturnType /\ NoReturn.rc = "none" /\ NoReturn.len = 0
  BY DEF NoReturn, ReturnType
<1>2. 0 \in 0..MaxPrompts
  OBVIOUS
<1>3. ASSUME Init PROVE TypeInv
  <2>1. /\ wire \in Seq(Byte) /\ Len(wire) <= MaxWire
        /\ saved \in Seq(Byte) /\ Len(saved) <= Len(Prompt)
        /\ buf \in Seq(Byte) /\ Len(buf) <= UserSize
        /\ stream \in Seq(Byte) /\ found \in BOOLEAN
    BY <1>3, NothingFits DEF Init
  <2>2. /\ conn = "none" /\ numprompts = 0 /\ call = NoCall /\ ret = NoReturn
        /\ fault = "none"
    BY <1>3 DEF Init
  <2>3. ret.rc = "none" /\ ret.len = 0
    BY <1>1, <2>2
  <2>4. QED
    BY <1>1, <1>2, <2>1, <2>2, <2>3 DEF TypeInv, TypeOK
<1>4. QED
  BY <1>3

(* Steps outside a read, and the passing of time. *)
LEMMA PeerTypes ==
    ASSUME TypeInv, PeerSend \/ PeerCloses
    PROVE  TypeInv'
<1>1. CASE PeerSend
  <2>1. PICK b \in Byte : wire' = Append(wire, b)
    BY <1>1 DEF PeerSend
  <2>2. wire' \in Seq(Byte) /\ Len(wire') <= MaxWire
    <3>1. wire \in Seq(Byte)
      BY DEF TypeInv, TypeOK
    <3>2. Append(wire, b) \in Seq(Byte)
      BY <3>1
    <3>3. Len(wire') <= MaxWire
      BY <1>1 DEF PeerSend
    <3>4. QED
      BY <2>1, <3>2, <3>3
  <2>3. UNCHANGED <<conn, numprompts, saved, call, buf, ret, stream, found, fault>>
    BY <1>1 DEF PeerSend
  <2>4. QED
    BY <2>2, <2>3 DEF TypeInv, TypeOK
<1>2. CASE PeerCloses
  <2>1. /\ conn' \in {"shut", "reset"} /\ wire' \in {wire, <<>>}
        /\ UNCHANGED <<numprompts, saved, call, buf, ret, stream, found, fault>>
    BY <1>2 DEF PeerCloses
  <2>2. wire' \in Seq(Byte) /\ Len(wire') <= MaxWire
    BY <2>1, NothingFits DEF TypeInv, TypeOK
  <2>3. QED
    BY <2>1, <2>2 DEF TypeInv, TypeOK
<1>3. QED
  BY <1>1, <1>2

(* Connecting, disconnecting and expecting prompts preserve the types.     *)
LEMMA ConnectionTypes ==
    ASSUME TypeInv, af_client_connect \/ af_client_disconnect \/ ExpectPrompts
    PROVE  TypeInv'
<1>1. /\ conn' \in {"none", "tried", "up", "shut", "reset"}
      /\ wire' \in {wire, <<>>} /\ saved' \in {saved, <<>>}
      /\ stream' \in {stream, <<>>} /\ found' \in {found, FALSE}
      /\ numprompts' \in {numprompts} \cup 0..MaxPrompts
      /\ UNCHANGED <<call, buf, ret, fault>>
  BY DEF af_client_connect, af_client_disconnect, ExpectPrompts, TypeInv, TypeOK
<1>2. /\ wire' \in Seq(Byte) /\ Len(wire') <= MaxWire
      /\ saved' \in Seq(Byte) /\ Len(saved') <= Len(Prompt)
      /\ stream' \in Seq(Byte) /\ found' \in BOOLEAN /\ numprompts' \in 0..MaxPrompts
  BY <1>1, NothingFits DEF TypeInv, TypeOK
<1>3. QED
  BY <1>1, <1>2 DEF TypeInv, TypeOK

(* The start of a read preserves the types.                                *)
LEMMA ReadBeginTypes ==
    ASSUME TypeInv, NEW raw \in Raw, NEW user \in Buffers, NEW timeout \in Timeouts,
           ReadBegin(raw, user, timeout)
    PROVE  TypeInv'
<1>1. PICK now \in 0..(TicksPerSec - 1) :
         call' = [active |-> TRUE, raw |-> raw, user |-> user,
                  len |-> IF raw THEN UserSize ELSE 0,
                  timeout |-> timeout, to |-> IF timeout <= 0 THEN 1 ELSE timeout,
                  then |-> now, el |-> 0, waited |-> 0]
  BY DEF ReadBegin
<1>2. (IF timeout <= 0 THEN 1 ELSE timeout) \in Positive
  BY DEF Positive
<1>3. (IF raw THEN UserSize ELSE 0) \in Nat
  BY DEF Positive
<1>4. call' \in CallType /\ call'.waited = 0 /\ call'.to \in Positive
  BY <1>1, <1>2, <1>3 DEF CallType
<1>5. 0 <= call'.to * TicksPerMs
  BY <1>4 DEF Positive
<1>6. CallTyped(call')
  BY <1>4, <1>5 DEF CallTyped
<1>7. buf' = <<>> /\ ret' = NoReturn
      /\ UNCHANGED <<conn, wire, numprompts, saved, stream, found, fault>>
  BY DEF ReadBegin
<1>8. ret' \in ReturnType
  BY <1>7 DEF NoReturn, ReturnType
<1>9. buf' \in Seq(Byte) /\ Len(buf') <= UserSize
  BY <1>7 DEF Positive
<1>10. QED
  BY <1>4, <1>6, <1>7, <1>8, <1>9, CallTypes DEF TypeInv, TypeOK, ReturnType

(* The passing of time preserves the types.                                *)
LEMMA TickTypes ==
    ASSUME TypeInv, Tick
    PROVE  TypeInv'
<1>1. /\ call.active /\ call.waited < call.to * TicksPerMs
      /\ call' = [call EXCEPT !.el = @ + 1, !.waited = @ + 1]
      /\ UNCHANGED <<conn, wire, numprompts, saved, buf, ret, stream, found, fault>>
  BY DEF Tick, InRead
<1>2. call \in CallType
  BY <1>1, ActiveTyped DEF CallTyped
<1>3. call' \in CallType /\ call'.waited = call.waited + 1 /\ call'.to = call.to
  <2>1. call.el + 1 \in Nat /\ call.waited + 1 \in Nat
    BY <1>2 DEF CallType
  <2>2. QED
    BY <1>1, <1>2, <2>1 DEF CallType
<1>4. call.to * TicksPerMs \in Nat /\ call.waited \in Nat
  BY <1>2 DEF CallType, Positive
<1>5. call'.waited <= call'.to * TicksPerMs
  BY <1>1, <1>3, <1>4
<1>6. QED
  BY <1>1, <1>3, <1>5, CallTypes DEF CallTyped, TypeInv, TypeOK

(* Every step preserves the types.                                         *)
LEMMA TypeStep == TypeInv /\ [Next]_clientVars => TypeInv'
<1> SUFFICES ASSUME TypeInv, [Next]_clientVars PROVE TypeInv'
  OBVIOUS
<1>1. CASE UNCHANGED clientVars
  BY <1>1 DEF clientVars, TypeInv, TypeOK
<1>2. CASE Application
  BY <1>2, ConnectionTypes, ReadBeginTypes DEF Application
<1>3. ASSUME CallStep, UNCHANGED <<conn, fault>>,
             wire' \in Seq(Byte), Len(wire') <= MaxWire,
             numprompts' \in 0..MaxPrompts,
             saved' \in Seq(Byte), Len(saved') <= Len(Prompt),
             buf' \in Seq(Byte), Len(buf') <= UserSize,
             stream' \in Seq(Byte), found' \in BOOLEAN
      PROVE  TypeInv'
  <2>1. /\ call' \in {NoCall} \cup CallType /\ ret' \in ReturnType
        /\ call' # NoCall => CallTyped(call')
    BY <1>3, CallStepTypes
  <2>2. ret'.rc \in ReturnCodes \cup {"none"} /\ ret'.len \in Nat
    BY <2>1 DEF ReturnType
  <2>3. QED
    BY <1>3, <2>1, <2>2, CallTypes DEF TypeInv, TypeOK
<1>4. CASE PollTimeout \/ PollError \/ ReadEnd
  <2>1. call.active /\ UNCHANGED <<conn, wire, numprompts, saved, buf, stream, found, fault>>
    BY <1>4 DEF PollTimeout, PollError, ReadEnd, ReadSound, InRead
  <2>2. call.len \in Nat
    BY <2>1, ActiveTyped DEF CallTyped, CallType
  <2>3. \A rc \in {"AF_ERRNO", "AF_SOCKET"} : rc \in ReturnCodes
    BY DEF ReturnCodes
  <2>4. TimeTest(call.len) \/ \E rc \in {"AF_ERRNO", "AF_SOCKET"} : Return(rc, call.len)
    BY <1>4 DEF PollTimeout, PollError, ReadEnd
  <2>5. CallStep
    BY <2>1, <2>2, <2>3, <2>4, ReturnStep, TimeTestStep
  <2>6. QED
    BY <1>3, <2>1, <2>5 DEF TypeInv, TypeOK
<1>5. CASE ReadFault
  <2>1. fault' \in {"none", "null length", "left frame", "null comport"}
    BY <1>5 DEF ReadFault
  <2>2. UNCHANGED <<conn, wire, numprompts, saved, call, buf, ret, stream, found>>
    BY <1>5 DEF ReadFault
  <2>3. QED
    BY <2>1, <2>2 DEF TypeInv, TypeOK
<1>6. CASE ReadPrompt
  <2>1. /\ saved \in Seq(Byte) /\ stream \in Seq(Byte)
        /\ buf \in Seq(Byte) /\ Len(buf) <= UserSize
    BY DEF TypeInv, TypeOK
  <2>2. Taken \in Seq(Byte) /\ saved \o Taken \in Seq(Byte)
        /\ Unfinished \o Taken \in Seq(Byte)
    BY <1>6, <2>1, ReadPromptEffect DEF Unfinished
  <2>3. /\ Detect(saved \o Taken).saved \in Seq(Byte)
        /\ Len(Detect(saved \o Taken).saved) <= Len(Prompt)
        /\ Detect(saved \o Taken).found \in BOOLEAN
    <3>1. Detect(saved \o Taken).found \in BOOLEAN
      BY DEF Detect
    <3>2. CASE Detect(saved \o Taken).found
      <4>1. Detect(saved \o Taken).saved = <<>>
        BY <2>2, <3>2, DetectProperties
      <4>2. QED
        BY <3>1, <4>1, NothingFits
    <3>3. CASE ~ Detect(saved \o Taken).found
      <4>1. Longest(Detect(saved \o Taken).saved, saved \o Taken)
        BY <2>2, <3>3, DetectProperties
      <4>2. QED
        BY <3>1, <4>1, KeptType
    <3>4. QED
      BY <3>2, <3>3
  <2>4. saved' \in Seq(Byte) /\ Len(saved') <= Len(Prompt)
        /\ stream' \in Seq(Byte) /\ found' \in BOOLEAN
    <3>1. \/ /\ saved' = Detect(saved \o Taken).saved
             /\ stream' = Unfinished \o Taken
             /\ found' = Detect(saved \o Taken).found
          \/ saved' = <<>> /\ stream' = <<>> /\ found' = FALSE
      BY <1>6, ReadPromptEffect
    <3>2. QED
      BY <2>2, <2>3, <3>1, NothingFits
  <2>5. QED
    BY <1>3, <1>6, <2>1, <2>4, ReadPromptEffect
<1>7. CASE ReadRaw
  <2>1. saved' \in Seq(Byte) /\ Len(saved') <= Len(Prompt)
        /\ stream' \in Seq(Byte) /\ found' \in BOOLEAN /\ numprompts' \in 0..MaxPrompts
    <3>1. saved' = <<>> /\ stream' = <<>> /\ found' = FALSE /\ numprompts' = numprompts
      BY <1>7, ReadRawEffect
    <3>2. QED
      BY <3>1, NothingFits DEF TypeInv, TypeOK
  <2>2. QED
    BY <1>3, <1>7, <2>1, ReadRawEffect
<1>8. QED
  BY <1>1, <1>2, <1>4, <1>5, <1>6, <1>7, PeerTypes, TickTypes DEF Next, ReadStep

(* The types hold throughout.                                              *)
LEMMA TypeInvCorrect == Spec => []TypeInv
BY TypeInit, TypeStep, PTL DEF Spec

(* The variables of the client have their types, and no wait exceeds its   *)
(* time, whatever the prompt, the timeouts and the sizes are.              *)
THEOREM TypeCorrect == Spec => []TypeOK
<1>1. TypeInv => TypeOK
  BY DEF TypeInv
<1>2. QED
  BY <1>1, TypeInvCorrect, PTL

-----------------------------------------------------------------------------
(* The refinement.  What is kept back is the longest partial prompt the    *)
(* stream ends with, or nothing; without a connection nothing is left of   *)
(* the last one.                                                           *)
KeptInv ==
  /\ found => saved = <<>>
  /\ ~ found => KeptOf(saved, stream)
  /\ conn \in {"none", "tried"} =>
       saved = <<>> /\ stream = <<>> /\ ~ found /\ wire = <<>>

(* A step that forgets what was kept back is the abstract stream starting  *)
(* over.                                                                   *)
LEMMA NothingKept ==
    ASSUME saved' = <<>>, stream' = <<>>, found' = FALSE,
           conn' \in {"none", "tried"} => wire' = <<>>
    PROVE  Stream!StartOver /\ KeptInv'
BY DEF Stream!StartOver, KeptInv, KeptOf

(* A read for the prompt is a step of the abstract stream.                 *)
LEMMA ReadPromptStream ==
    ASSUME TypeInv, KeptInv, ReadPrompt
    PROVE  Stream!Next /\ KeptInv'
<1> DEFINE t == Taken
           s == Unfinished
           d == Detect(saved \o t)
<1>1. t \in Seq(Byte) /\ t # <<>> /\ t \in Stream!Piece /\ conn' = conn
  BY ReadPromptEffect
<1>2. saved \in Seq(Byte) /\ s \in Seq(Byte) /\ found \in BOOLEAN /\ s \o t \in Seq(Byte)
  <2>1. saved \in Seq(Byte) /\ s \in Seq(Byte) /\ found \in BOOLEAN
    BY NothingFits, Zenon DEF TypeInv, TypeOK, Unfinished
  <2> HIDE DEF s, t
  <2>2. QED
    BY <1>1, <2>1
<1>3. KeptOf(saved, s)
  BY <1>2 DEF KeptInv, KeptOf, Unfinished
<1>4. conn \notin {"none", "tried"}
  BY DEF ReadPrompt, KeptInv
<1>5. /\ d.found <=> Stream!IsSuffix(Prompt, s \o t)
      /\ d.found => d.saved = <<>>
      /\ ~ d.found => Longest(d.saved, s \o t)
  <2> HIDE DEF s, t
  <2>1. QED
    BY <1>1, <1>2, <1>3, DetectsStream
<1>6. CASE saved' = d.saved /\ stream' = s \o t /\ found' = d.found
  <2>1. d.found \in BOOLEAN /\ Stream!IsSuffix(Prompt, s \o t) \in BOOLEAN
    BY DEF Detect, Stream!IsSuffix, Stream!IsPrefix
  <2>2. found' = Stream!IsSuffix(Prompt, stream')
    BY <1>5, <1>6, <2>1
  <2>3. saved' = IF found' THEN <<>> ELSE Stream!Partial(stream')
    <3>1. CASE d.found
      BY <1>5, <1>6, <3>1
    <3>2. CASE ~ d.found
      <4>1. Longest(d.saved, s \o t)
        BY <1>5, <3>2
      <4>2. d.saved = Stream!Partial(s \o t)
        BY <1>2, <4>1, LongestIsPartial
      <4>3. QED
        BY <1>6, <3>2, <4>2
    <3>3. QED
      BY <3>1, <3>2
  <2>4. Stream!Receive(t)
    BY <1>6, <2>2, <2>3 DEF Stream!Receive, Unfinished
  <2>5. Stream!Next
    BY <1>1, <2>4 DEF Stream!Next
  <2>6. KeptInv'
    BY <1>1, <1>4, <1>5, <1>6, <2>1 DEF KeptInv, KeptOf
  <2>7. QED
    BY <2>5, <2>6
<1>7. CASE saved' = <<>> /\ stream' = <<>> /\ found' = FALSE
  BY <1>1, <1>4, <1>7, NothingKept DEF Stream!Next
<1>8. QED
  BY <1>6, <1>7, ReadPromptEffect

(* Every step of the client is a step of the abstract stream or leaves it  *)
(* alone.                                                                  *)
LEMMA StreamStep ==
    ASSUME ~ Reconnect, TypeInv, KeptInv, [Next]_clientVars
    PROVE  [Stream!Next]_(Stream!vars) /\ KeptInv'
<1>1. ASSUME UNCHANGED <<saved, stream, found>>,
             \/ conn' = conn /\ wire' = wire
             \/ conn' \notin {"none", "tried"}
      PROVE  [Stream!Next]_(Stream!vars) /\ KeptInv'
  BY <1>1 DEF KeptInv, KeptOf, Stream!vars
<1>2. ASSUME saved' = <<>>, stream' = <<>>, found' = FALSE,
             conn' \in {"none", "tried"} => wire' = <<>>
      PROVE  [Stream!Next]_(Stream!vars) /\ KeptInv'
  BY <1>2, NothingKept DEF Stream!Next
<1>3. CASE UNCHANGED clientVars
  BY <1>1, <1>3 DEF clientVars
<1>4. CASE PeerSend \/ PeerCloses
  BY <1>1, <1>4 DEF PeerSend, PeerCloses
<1>5. CASE af_client_connect
  BY <1>2, <1>5 DEF af_client_connect, KeptInv
<1>6. CASE af_client_disconnect
  BY <1>2, <1>6 DEF af_client_disconnect
<1>7. CASE ExpectPrompts
  BY <1>1, <1>7 DEF ExpectPrompts
<1>8. ASSUME NEW raw \in Raw, NEW user \in Buffers, NEW timeout \in Timeouts,
             ReadBegin(raw, user, timeout)
      PROVE  [Stream!Next]_(Stream!vars) /\ KeptInv'
  BY <1>1, <1>8 DEF ReadBegin
<1>9. CASE Tick \/ PollTimeout \/ PollError \/ ReadEnd \/ ReadFault
  BY <1>1, <1>9 DEF Tick, PollTimeout, PollError, ReadEnd, ReadFault
<1>10. CASE ReadPrompt
  BY <1>10, ReadPromptStream
<1>11. CASE ReadRaw
  <2>1. conn' \notin {"none", "tried"}
    BY <1>11 DEF ReadRaw, KeptInv
  <2>2. QED
    BY <1>2, <1>11, <2>1, ReadRawEffect
<1>12. CASE Application
  BY <1>5, <1>6, <1>7, <1>8, <1>12 DEF Application
<1>13. QED
  BY <1>3, <1>4, <1>9, <1>10, <1>11, <1>12 DEF Next, ReadStep

(* However the stream is cut into reads and whatever time-outs, errors and *)
(* raw reads come in between, _af_client_prompt_detect finds the prompt    *)
(* when the stream ends with it and only then, and keeps back exactly the  *)
(* partial prompt it ends with.  A client that is connected again would    *)
(* begin with the bytes kept back from its last connection.                *)
THEOREM StreamImplemented ==
    ASSUME ~ Reconnect
    PROVE  Spec => ImplementsStream
<1>1. Init => KeptInv /\ Stream!Init
  BY DEF Init, KeptInv, KeptOf, Stream!Init
<1>2. TypeInv /\ KeptInv /\ [Next]_clientVars => [Stream!Next]_(Stream!vars) /\ KeptInv'
  BY StreamStep
<1>3. QED
  BY <1>1, <1>2, TypeInvCorrect, PTL DEF Spec, ImplementsStream, Stream!Spec
=============================================================================
