----------------------------- MODULE TcliProofs -----------------------------
(***************************************************************************)
(* Proofs about tcli.c, for every number of commands, every device, every  *)
(* prompt and every cutting of what is received.                           *)
(*                                                                         *)
(* 1. The codec: a packet laid out as send_NetLink_command lays one out is *)
(*    accepted by decode_NetLink_command and read as it was meant,         *)
(*    wherever in a record it stands and whatever bytes are around it.     *)
(* 2. Only one command is ever under way.  The proof goes through the      *)
(*    instances of AppfClient: a read that looks for a prompt finds none,  *)
(*    as nobody expects one, and a read whose timeout is not zero does not *)
(*    end with AF_OK by its time.                                          *)
(* 3. Types, of the program and of the client it uses in its two ways.     *)
(* 4. The packets of a record are acted on in order, each once: what is in *)
(*    memory is the part of the stream of the device that the last read    *)
(*    received, and the packets acted on are the first ones of that part.  *)
(***************************************************************************)
EXTENDS Tcli, SeqLemmas

(* The length byte holds the length of a packet that is not too long.      *)
Fits(p) == Len(p.data) + 3 < ByteMod

(* A packet in memory, behind some bytes and before others. *)
Laid(p, mem, x, y) == mem = x \o Encode(p) \o y

(* A number below the modulus is its own remainder.                        *)
LEMMA SmallMod ==
  ASSUME NEW a \in Nat, NEW b \in Nat, a < b
  PROVE  a % b = a
OBVIOUS

(* The two parts of a concatenation, by their places.                      *)
LEMMA ConcatParts ==
  ASSUME NEW S, NEW f \in Seq(S), NEW d \in Seq(S), NEW s, s = f \o d,
         NEW m \in Nat, m = Len(f)
  PROVE  /\ s \in Seq(S)
         /\ Len(s) = m + Len(d)
         /\ \A i \in 1..m : s[i] = f[i]
         /\ \A i \in 1..Len(d) : s[m + i] = d[i]
<1>1. s \in Seq(S)
  OBVIOUS
<1>2. Len(s) = m + Len(d)
  OBVIOUS
<1>3. \A i \in 1..m : s[i] = f[i]
  OBVIOUS
<1>4. \A i \in 1..Len(d) : s[m + i] = d[i]
  OBVIOUS
<1>5. QED
  BY <1>1, <1>2, <1>3, <1>4

(* Five bytes and those behind them. *)
LEMMA FiveBefore ==
  ASSUME NEW S, NEW a1 \in S, NEW a2 \in S, NEW a3 \in S, NEW a4 \in S, NEW a5 \in S,
         NEW d \in Seq(S), NEW s, s = <<a1, a2, a3, a4, a5>> \o d
  PROVE  /\ s \in Seq(S)
         /\ Len(s) = 5 + Len(d)
         /\ s[1] = a1 /\ s[2] = a2 /\ s[3] = a3 /\ s[4] = a4 /\ s[5] = a5
         /\ \A i \in 1..Len(d) : s[5 + i] = d[i]
<1>1. <<a1, a2, a3, a4, a5>> \in Seq(S)
  OBVIOUS
<1>2. PICK f \in Seq(S) : f = <<a1, a2, a3, a4, a5>>
  BY <1>1
<1>3. /\ Len(f) = 5
      /\ f[1] = a1 /\ f[2] = a2 /\ f[3] = a3 /\ f[4] = a4 /\ f[5] = a5
  BY <1>2
<1>4. PICK m \in Nat : m = 5
  OBVIOUS
<1>5. s = f \o d
  BY <1>2
<1>6. /\ s \in Seq(S)
      /\ Len(s) = m + Len(d)
      /\ \A i \in 1..m : s[i] = f[i]
      /\ \A i \in 1..Len(d) : s[m + i] = d[i]
  BY <1>3, <1>4, <1>5, ConcatParts
<1>7. QED
  BY <1>3, <1>4, <1>6

(* Two bytes behind others. *)
LEMMA TwoBehind ==
  ASSUME NEW S, NEW a1 \in S, NEW a2 \in S, NEW d \in Seq(S), NEW s, s = d \o <<a1, a2>>
  PROVE  /\ s \in Seq(S)
         /\ Len(s) = Len(d) + 2
         /\ \A i \in 1..Len(d) : s[i] = d[i]
         /\ s[Len(d) + 1] = a1 /\ s[Len(d) + 2] = a2
<1>1. <<a1, a2>> \in Seq(S)
  OBVIOUS
<1>2. PICK f \in Seq(S) : f = <<a1, a2>>
  BY <1>1
<1>3. Len(f) = 2 /\ f[1] = a1 /\ f[2] = a2
  BY <1>2
<1>4. PICK m \in Nat : m = Len(d)
  OBVIOUS
<1>5. s = d \o f
  BY <1>2
<1>6. /\ s \in Seq(S)
      /\ Len(s) = m + Len(f)
      /\ \A i \in 1..m : s[i] = d[i]
      /\ \A i \in 1..Len(f) : s[m + i] = f[i]
  BY <1>4, <1>5, ConcatParts
<1>7. QED
  BY <1>3, <1>4, <1>6

(* Packets are bytes. *)
LEMMA ByteProperties ==
  /\ Byte \subseteq Nat /\ HeaderByte \in Byte /\ TailByte \in Byte
  /\ \A n \in Nat : n % ByteMod \in Byte /\ n % SumMod \in Byte
<1>1. ByteMod \in Nat /\ ByteMod >= 16
  BY NetLinkAssumption
<1>2. SumMod \in Nat /\ SumMod >= 1 /\ SumMod <= ByteMod
  BY <1>1 DEF SumMod
<1>3. \A n \in Nat : n % ByteMod \in Byte
  BY <1>1 DEF Byte
<1>4. \A n \in Nat : n % SumMod \in Byte
  BY <1>1, <1>2 DEF Byte
<1>5. QED
  BY <1>1, <1>3, <1>4 DEF Byte, HeaderByte, TailByte

(* The checksum is a sum of numbers. *)
LEMMA SumType ==
  ASSUME NEW s \in Seq(Byte)
  PROVE  Sum(s) \in Nat
<1>1. PICK n \in Nat : n = Len(s) /\ DOMAIN s = 1..n
  OBVIOUS
<1> DEFINE next(f, t) == IF t = {} THEN 0 ELSE f[t \ {Max(t)}] + s[Max(t)]
           Q(f) == f = [t \in SUBSET (DOMAIN s) |-> next(f, t)]
           h == [p \in Nat \X (1..n) |-> p[1] + s[p[2]]]
<1>2. Sum(s) = (CHOOSE f : Q(f))[DOMAIN s]
  BY DEF Sum, FoldLeft, MapThenFoldSet
<1>3. \A i \in 1..n : s[i] \in Nat
  <2>1. \A i \in 1..n : s[i] \in Byte
    BY <1>1
  <2>2. QED
    BY <2>1, ByteProperties
<1>4. h \in [Nat \X (1..n) -> Nat]
  BY <1>3
<1>5. \A v \in Nat, i \in 1..n : h[<<v, i>>] = v + s[i]
  OBVIOUS
<1> HIDE DEF h
<1>6. PICK f \in [SUBSET (1..n) -> Nat] : StepsFrom(f, 0, h, n)
  <2>1. 0 \in Nat
    OBVIOUS
  <2>2. QED
    BY <1>4, <2>1, FoldExists
<1>7. Q(f)
  <2>1. ASSUME NEW t \in SUBSET (1..n) PROVE f[t] = next(f, t)
    <3>1. CASE t = {}
      BY <1>6, <3>1 DEF StepsFrom
    <3>2. CASE t # {}
      <4>1. Max(t) \in 1..n
        BY <3>2, MaxOfPlaces
      <4>2. f[t \ {Max(t)}] \in Nat
        BY <1>6
      <4>3. f[t] = h[<<f[t \ {Max(t)}], Max(t)>>]
        BY <1>6, <3>2 DEF StepsFrom
      <4>4. QED
        BY <1>5, <3>2, <4>1, <4>2, <4>3
    <3>3. QED
      BY <3>1, <3>2
  <2>2. f = [t \in SUBSET (1..n) |-> f[t]]
    BY <1>6
  <2> HIDE DEF next
  <2>3. QED
    BY <1>1, <2>1, <2>2
<1>8. PICK c : Q(c) /\ Sum(s) = c[1..n]
  BY <1>1, <1>2, <1>7
<1>9. c[{}] \in Nat
  BY <1>1, <1>8
<1>10. ASSUME NEW t \in SUBSET (1..n), t # {}, c[t \ {Max(t)}] \in Nat
       PROVE  c[t] \in Nat
  <2>1. Max(t) \in 1..n
    BY <1>10, MaxOfPlaces
  <2>2. c[t] = c[t \ {Max(t)}] + s[Max(t)]
    BY <1>1, <1>8, <1>10
  <2>3. QED
    BY <1>3, <1>10, <2>1, <2>2
<1> HIDE DEF Q
<1>11. c[1..n] \in Nat
  BY <1>9, <1>10, FoldedIn
<1>12. QED
  BY <1>8, <1>11

(* An encoded packet is its data and seven bytes more.                     *)
LEMMA EncodeType ==
  ASSUME NEW p \in Packet
  PROVE  /\ Encode(p) \in Seq(Byte) /\ Len(Encode(p)) = Len(p.data) + 7
         /\ Sum(Body(p)) % SumMod \in Byte /\ Len(p.data) \in Nat
<1>1. PICK S : S = Byte
  OBVIOUS
<1>2. PICK d \in Seq(S) : d = p.data
  BY <1>1 DEF Packet
<1>3. PICK l \in S : l = (Len(d) + 3) % ByteMod
  <2>1. Len(d) + 3 \in Nat
    OBVIOUS
  <2>2. QED
    BY <1>1, <2>1, ByteProperties
<1>4. PICK a1 \in S, a3 \in S, a4 \in S, a5 \in S, t \in S :
        a1 = HeaderByte /\ t = TailByte /\ a3 = p.dest /\ a4 = p.command /\ a5 = p.sub
  <2>1. HeaderByte \in S /\ TailByte \in S
    BY <1>1, ByteProperties
  <2>2. p.dest \in S /\ p.command \in S /\ p.sub \in S
    BY <1>1 DEF Packet
  <2>3. QED
    BY <2>1, <2>2
<1>6. PICK b : b = Body(p)
  OBVIOUS
<1>7. b = <<a1, l, a3, a4, a5>> \o d
  BY <1>2, <1>3, <1>4, <1>6 DEF Body
<1>8. b \in Seq(S) /\ Len(b) = 5 + Len(d)
  BY <1>7, FiveBefore
<1>9. PICK c \in S : c = Sum(b) % SumMod
  <2>1. Sum(b) \in Nat
    BY <1>1, <1>8, SumType
  <2>2. QED
    BY <1>1, <2>1, ByteProperties
<1>11. PICK e : e = Encode(p)
  OBVIOUS
<1>12. e = b \o <<c, t>>
  BY <1>4, <1>6, <1>9, <1>11 DEF Encode
<1>13. e \in Seq(S) /\ Len(e) = Len(b) + 2
  BY <1>8, <1>12, TwoBehind
<1>14. Len(e) = Len(d) + 7
  BY <1>8, <1>13
<1>15. QED
  BY <1>1, <1>2, <1>6, <1>9, <1>11, <1>13, <1>14

-----------------------------------------------------------------------------
(* The bytes of the first packets of s, one after the other, and where the *)
(* next one begins.                                                        *)
Bytes(s, i) == FlattenSeq([k \in 1..i |-> Encode(s[k])])
Place(s, i) == Len(Bytes(s, i))

(* The stream of n + 1 packets is that of n, and the next one encoded.     *)
LEMMA BytesStep ==
  ASSUME NEW s \in Seq(Packet)
  PROVE  /\ Bytes(s, 0) = <<>>
         /\ \A n \in 0..Len(s) : Bytes(s, n) \in Seq(Byte)
         /\ \A n \in Nat : n < Len(s) =>
              Bytes(s, n + 1) = Bytes(s, n) \o Encode(s[n + 1])
<1>1. PICK S : S = Byte
  OBVIOUS
<1>2. \A k \in 1..Len(s) : Encode(s[k]) \in Seq(S)
  BY <1>1, EncodeType
<1>3. PICK t : t = [k \in 1..Len(s) |-> Encode(s[k])]
  OBVIOUS
<1>4. t \in Seq(Seq(S)) /\ Len(t) = Len(s)
  BY <1>2, <1>3
<1>5. \A n \in 0..Len(s) : Bytes(s, n) = FlattenSeq([k \in 1..n |-> t[k]])
  <2>1. TAKE n \in 0..Len(s)
  <2>2. \A k \in 1..n : t[k] = Encode(s[k])
    BY <1>3
  <2>3. [k \in 1..n |-> t[k]] = [k \in 1..n |-> Encode(s[k])]
    BY <2>2
  <2>4. QED
    BY <2>3 DEF Bytes
<1>6. Bytes(s, 0) = <<>>
  BY DEF Bytes, FlattenSeq
<1>7. \A n \in 0..Len(s) : Bytes(s, n) \in Seq(S)
  <2>1. \A n \in 0..Len(t) : FlattenSeq([k \in 1..n |-> t[k]]) \in Seq(S)
    BY <1>4, FlattenType
  <2>2. QED
    BY <1>4, <1>5, <2>1
<1>8. ASSUME NEW n \in Nat, n < Len(s)
      PROVE  Bytes(s, n + 1) = Bytes(s, n) \o Encode(s[n + 1])
  <2>1. FlattenSeq([k \in 1..(n + 1) |-> t[k]]) =
          FlattenSeq([k \in 1..n |-> t[k]]) \o t[n + 1]
    BY <1>4, <1>8, FlattenFirst
  <2>2. n \in 0..Len(s) /\ n + 1 \in 0..Len(s) /\ n + 1 \in 1..Len(s)
    BY <1>8
  <2>3. t[n + 1] = Encode(s[n + 1])
    BY <1>3, <2>2
  <2>4. QED
    BY <1>5, <2>1, <2>2, <2>3
<1>9. QED
  BY <1>1, <1>6, <1>7, <1>8

(* A packet is at its place in the bytes of all. *)
LEMMA BytesNext ==
  ASSUME NEW s \in Seq(Packet), NEW n \in Nat, n < Len(s)
  PROVE  /\ Place(s, n) \in Nat /\ Len(s[n + 1].data) \in Nat
         /\ Place(s, n + 1) = Place(s, n) + (Len(s[n + 1].data) + 7)
         /\ \A k \in 1..Place(s, n) : Bytes(s, n + 1)[k] = Bytes(s, n)[k]
         /\ \A k \in 1..(Len(s[n + 1].data) + 7) :
              Bytes(s, n + 1)[Place(s, n) + k] = Encode(s[n + 1])[k]
<1>1. PICK S : S = Byte
  OBVIOUS
<1>2. n \in 0..Len(s) /\ s[n + 1] \in Packet
  OBVIOUS
<1>3. PICK b \in Seq(S) : b = Bytes(s, n)
  BY <1>1, <1>2, BytesStep
<1>4. PICK e \in Seq(S) : e = Encode(s[n + 1]) /\ Len(e) = Len(s[n + 1].data) + 7
  BY <1>1, <1>2, EncodeType
<1>5. PICK c : c = Bytes(s, n + 1)
  OBVIOUS
<1>6. c = b \o e
  BY <1>3, <1>4, <1>5, BytesStep
<1>7. PICK m \in Nat : m = Len(b)
  OBVIOUS
<1>8. /\ Len(c) = m + Len(e)
      /\ \A i \in 1..m : c[i] = b[i]
      /\ \A i \in 1..Len(e) : c[m + i] = e[i]
  BY <1>6, <1>7, ConcatParts
<1>9. Len(s[n + 1].data) \in Nat
  BY <1>2, EncodeType
<1>10. QED
  BY <1>3, <1>4, <1>5, <1>7, <1>8, <1>9 DEF Place

(* Later packets change nothing of what is before them. *)
LEMMA BytesGrow ==
  ASSUME NEW s \in Seq(Packet), NEW i \in 0..Len(s)
  PROVE  \A j \in i..Len(s) :
           /\ Place(s, i) \in Nat /\ Place(s, j) \in Nat
           /\ Place(s, i) <= Place(s, j)
           /\ \A k \in 1..Place(s, i) : Bytes(s, j)[k] = Bytes(s, i)[k]
<1> DEFINE Grown(j) == /\ Place(s, j) \in Nat /\ Place(s, i) <= Place(s, j)
                       /\ \A k \in 1..Place(s, i) : Bytes(s, j)[k] = Bytes(s, i)[k]
           T == {d \in Nat : i + d <= Len(s) => Grown(i + d)}
<1>1. Place(s, i) \in Nat
  BY BytesStep DEF Place
<1>2. 0 \in T
  <2>1. Grown(i)
    BY <1>1
  <2> HIDE DEF Grown
  <2>2. i + 0 = i
    OBVIOUS
  <2>3. QED
    BY <2>1, <2>2
<1>3. ASSUME NEW d \in Nat, d \in T PROVE d + 1 \in T
  <2>1. SUFFICES ASSUME i + (d + 1) <= Len(s) PROVE Grown(i + (d + 1))
    <3> HIDE DEF Grown
    <3>1. d + 1 \in Nat
      OBVIOUS
    <3>2. QED
      BY <3>1
  <2>2. PICK n \in Nat : n = i + d /\ n + 1 = i + (d + 1) /\ n < Len(s) /\ n <= Len(s)
    BY <2>1
  <2>3. Grown(n)
    BY <1>3, <2>2
  <2>4. Grown(n + 1)
    <3>1. Place(s, n + 1) \in Nat /\ Place(s, n) <= Place(s, n + 1)
      BY <2>2, BytesNext
    <3>2. \A k \in 1..Place(s, i) : Bytes(s, n + 1)[k] = Bytes(s, i)[k]
      <4>1. TAKE k \in 1..Place(s, i)
      <4>2. k \in 1..Place(s, n)
        BY <1>1, <2>3
      <4>3. QED
        BY <2>2, <2>3, <4>2, BytesNext
    <3>3. QED
      BY <1>1, <2>3, <3>1, <3>2
  <2> HIDE DEF Grown
  <2>5. QED
    BY <2>2, <2>4
<1> HIDE DEF T
<1>4. \A d \in Nat : d \in T
  BY <1>2, <1>3, NaturalsIn
<1>5. TAKE j \in i..Len(s)
<1>6. PICK d \in Nat : j = i + d /\ i + d <= Len(s)
  <2>1. j - i \in Nat /\ j = i + (j - i)
    OBVIOUS
  <2>2. QED
    BY <2>1
<1> HIDE DEF Grown
<1>7. Grown(j)
  BY <1>4, <1>6 DEF T
<1>8. QED
  BY <1>1, <1>7 DEF Grown

(* Where in the bytes of j packets the one behind the first i is. *)
LEMMA BytesAt ==
  ASSUME NEW s \in Seq(Packet), NEW j \in 0..Len(s), NEW i \in Nat, i < j
  PROVE  /\ i + 1 \in 1..Len(s) /\ s[i + 1] \in Packet
         /\ Len(s[i + 1].data) \in Nat /\ Place(s, i) \in Nat /\ Place(s, j) \in Nat
         /\ Place(s, i + 1) = Place(s, i) + (Len(s[i + 1].data) + 7)
         /\ Place(s, i + 1) <= Place(s, j)
         /\ \A k \in 1..(Len(s[i + 1].data) + 7) :
              Bytes(s, j)[Place(s, i) + k] = Encode(s[i + 1])[k]
<1>1. i < Len(s) /\ i + 1 \in 0..Len(s) /\ j \in (i + 1)..Len(s)
  OBVIOUS
<1>2. i + 1 \in 1..Len(s) /\ s[i + 1] \in Packet
  BY <1>1
<1>3. /\ Place(s, j) \in Nat /\ Place(s, i + 1) <= Place(s, j)
      /\ \A k \in 1..Place(s, i + 1) : Bytes(s, j)[k] = Bytes(s, i + 1)[k]
  BY <1>1, BytesGrow
<1>4. /\ Place(s, i) \in Nat /\ Len(s[i + 1].data) \in Nat
      /\ Place(s, i + 1) = Place(s, i) + (Len(s[i + 1].data) + 7)
      /\ \A k \in 1..(Len(s[i + 1].data) + 7) :
           Bytes(s, i + 1)[Place(s, i) + k] = Encode(s[i + 1])[k]
  BY <1>1, BytesNext
<1>5. \A k \in 1..(Len(s[i + 1].data) + 7) : Place(s, i) + k \in 1..Place(s, i + 1)
  BY <1>4
<1>6. QED
  BY <1>2, <1>3, <1>4, <1>5

(* A packet more. *)
LEMMA BytesAppend ==
  ASSUME NEW s \in Seq(Packet), NEW p \in Packet
  PROVE  LET t == Append(s, p)
         IN  /\ t \in Seq(Packet) /\ Len(t) = Len(s) + 1
             /\ \A i \in 1..Len(s) : t[i] = s[i]
             /\ \A i \in 0..Len(s) : Bytes(t, i) = Bytes(s, i)
             /\ Place(t, Len(s) + 1) > Place(s, Len(s))
<1> DEFINE t == Append(s, p)
<1>1. t \in Seq(Packet) /\ Len(t) = Len(s) + 1 /\ \A i \in 1..Len(s) : t[i] = s[i]
  OBVIOUS
<1> HIDE DEF t
<1>2. \A i \in 0..Len(s) : Bytes(t, i) = Bytes(s, i)
  <2>1. TAKE i \in 0..Len(s)
  <2>2. \A k \in 1..i : Encode(t[k]) = Encode(s[k])
    BY <1>1
  <2>3. [k \in 1..i |-> Encode(t[k])] = [k \in 1..i |-> Encode(s[k])]
    BY <2>2
  <2>4. QED
    BY <2>3 DEF Bytes
<1>3. Place(t, Len(s) + 1) > Place(s, Len(s))
  <2>1. Len(s) \in Nat /\ Len(s) < Len(t)
    BY <1>1
  <2>2. /\ Place(t, Len(s)) \in Nat /\ Len(t[Len(s) + 1].data) \in Nat
        /\ Place(t, Len(s) + 1) = Place(t, Len(s)) + (Len(t[Len(s) + 1].data) + 7)
    BY <1>1, <2>1, BytesNext
  <2>3. Place(t, Len(s)) = Place(s, Len(s))
    BY <1>2, <2>1 DEF Place
  <2>4. QED
    BY <2>2, <2>3
<1>4. QED
  BY <1>1, <1>2, <1>3 DEF t
(* A packet as a function on its places. *)
LEMMA EncodedBytes ==
  ASSUME NEW p \in Packet, Fits(p), NEW S, Byte \subseteq S, Sum(Body(p)) % SumMod \in S
  PROVE  /\ Encode(p) \in Seq(S) /\ Body(p) \in Seq(S)
         /\ Len(Body(p)) = Len(p.data) + 5
         /\ Len(Encode(p)) = Len(p.data) + 7
         /\ \A i \in 1..(Len(p.data) + 5) : Encode(p)[i] = Body(p)[i]
         /\ Encode(p)[1] = HeaderByte /\ Encode(p)[2] = Len(p.data) + 3
         /\ Encode(p)[3] = p.dest /\ Encode(p)[4] = p.command /\ Encode(p)[5] = p.sub
         /\ \A i \in 1..Len(p.data) : Encode(p)[5 + i] = p.data[i]
         /\ Encode(p)[Len(p.data) + 6] = Sum(Body(p)) % SumMod
         /\ Encode(p)[Len(p.data) + 7] = TailByte
<1>1. p.data \in Seq(Byte) /\ Len(p.data) \in Nat /\ ByteMod \in Nat /\ ByteMod >= 16
  BY NetLinkAssumption DEF Packet
<1>2. PICK d \in Seq(S), n \in Nat : d = p.data /\ n = Len(d)
  BY <1>1
<1>3. (n + 3) % ByteMod = n + 3
  <2>1. n + 3 \in Nat /\ n + 3 < ByteMod
    BY <1>2 DEF Fits
  <2>2. QED
    BY <1>1, <2>1, SmallMod
<1>4. n + 3 \in Byte
  BY <1>1, <1>2 DEF Fits, Byte
<1>5. /\ HeaderByte \in S /\ TailByte \in S
      /\ p.dest \in S /\ p.command \in S /\ p.sub \in S
  BY <1>1 DEF HeaderByte, TailByte, Byte, Packet
<1>6. PICK a1 \in S, a2 \in S, a3 \in S, a4 \in S, a5 \in S :
        /\ a1 = HeaderByte /\ a2 = n + 3 /\ a3 = p.dest /\ a4 = p.command /\ a5 = p.sub
  BY <1>4, <1>5
<1>7. PICK c \in S, t \in S : c = Sum(Body(p)) % SumMod /\ t = TailByte
  BY <1>5, Zenon
<1>8. PICK b : b = Body(p)
  OBVIOUS
<1>9. b = <<a1, a2, a3, a4, a5>> \o d
  BY <1>2, <1>3, <1>6, <1>8 DEF Body
<1>10. /\ b \in Seq(S) /\ Len(b) = 5 + n
       /\ b[1] = a1 /\ b[2] = a2 /\ b[3] = a3 /\ b[4] = a4 /\ b[5] = a5
       /\ \A i \in 1..n : b[5 + i] = d[i]
  <2>1. /\ b \in Seq(S) /\ Len(b) = 5 + Len(d)
        /\ b[1] = a1 /\ b[2] = a2 /\ b[3] = a3 /\ b[4] = a4 /\ b[5] = a5
        /\ \A i \in 1..Len(d) : b[5 + i] = d[i]
    BY <1>9, FiveBefore
  <2>2. QED
    BY <1>2, <2>1
<1>11. PICK e : e = Encode(p)
  OBVIOUS
<1>12. e = b \o <<c, t>>
  BY <1>7, <1>8, <1>11 DEF Encode
<1>13. /\ e \in Seq(S)
       /\ Len(e) = Len(b) + 2
       /\ \A i \in 1..Len(b) : e[i] = b[i]
       /\ e[Len(b) + 1] = c /\ e[Len(b) + 2] = t
  BY <1>10, <1>12, TwoBehind
<1>14. /\ e[1] = a1 /\ e[2] = a2 /\ e[3] = a3 /\ e[4] = a4 /\ e[5] = a5
       /\ \A i \in 1..n : e[5 + i] = d[i]
       /\ e[n + 6] = c /\ e[n + 7] = t
  <2>1. Len(b) = n + 5
    BY <1>2, <1>10
  <2>2. \A i \in 1..(n + 5) : e[i] = b[i]
    BY <1>13, <2>1
  <2>3. e[n + 6] = c /\ e[n + 7] = t
    BY <1>2, <1>13, <2>1
  <2>4. e[1] = a1 /\ e[2] = a2 /\ e[3] = a3 /\ e[4] = a4 /\ e[5] = a5
    <3>1. \A i \in {1, 2, 3, 4, 5} : e[i] = b[i]
      BY <1>2, <2>2
    <3>2. QED
      BY <1>10, <3>1
  <2>5. \A i \in 1..n : e[5 + i] = d[i]
    BY <1>2, <1>10, <2>2
  <2>6. QED
    BY <2>3, <2>4, <2>5
<1>15. QED
  BY <1>2, <1>6, <1>7, <1>8, <1>10, <1>11, <1>13, <1>14

(* What is in memory at the places of a piece of it. *)
LEMMA AtWithin ==
  ASSUME NEW S, NEW x \in Seq(S), NEW e \in Seq(S), NEW y \in Seq(S)
  PROVE  \A k \in Len(x)..(Len(x) + Len(e) - 1) :
           At((x \o e) \o y, k) = e[k - Len(x) + 1]
<1>1. PICK xe, mem : xe = x \o e /\ mem = xe \o y
  OBVIOUS
<1>2. PICK m \in Nat, n \in Nat : m = Len(x) /\ n = Len(e)
  OBVIOUS
<1>3. /\ xe \in Seq(S) /\ Len(xe) = m + n
      /\ \A j \in 1..n : xe[m + j] = e[j]
  BY <1>1, <1>2, ConcatParts
<1>4. PICK l \in Nat : l = Len(xe) /\ l = m + n
  BY <1>2, <1>3
<1>5. /\ mem \in Seq(S) /\ Len(mem) = l + Len(y)
      /\ \A j \in 1..l : mem[j] = xe[j]
  <2>1. mem = xe \o y
    BY <1>1
  <2>2. QED
    BY <1>3, <1>4, <2>1, ConcatParts
<1>6. ASSUME NEW k \in m..(m + n - 1) PROVE At(mem, k) = e[k - m + 1]
  <2>1. PICK j \in 1..n : j = k - m + 1
    <3>1. m \in Nat /\ n \in Nat
      BY <1>2
    <3>2. k - m + 1 \in 1..n
      BY <3>1
    <3>3. QED
      BY <3>2
  <2>2. k + 1 = m + j /\ k + 1 \in 1..l
    BY <1>2, <1>4, <2>1
  <2>3. k + 1 \in DOMAIN mem /\ mem[k + 1] = xe[m + j]
    BY <1>4, <1>5, <2>2
  <2>4. xe[m + j] = e[j]
    BY <1>3, <2>1
  <2>5. QED
    BY <2>1, <2>3, <2>4 DEF At
<1>7. QED
  BY <1>1, <1>2, <1>6, Zenon

(* decode_NetLink_command on memory that holds a packet at a place.        *)
Holds(mem, at, p) == \A i \in 0..(Len(p.data) + 6) : At(mem, at + i) = Encode(p)[i + 1]

(* A packet that lies whole in the buffer, with no remainder too short for *)
(* it, is decoded as it was sent, and the next place is behind it.         *)
LEMMA PacketAt ==
  ASSUME NEW p \in Packet, Fits(p), NEW at \in Nat, NEW n \in Nat, n = Len(p.data),
         NEW length \in Int, ~TooShort(length), NEW mem, Holds(mem, at, p)
  PROVE  /\ ~Bad(mem, at, length)
         /\ Decoded(mem, at) = p
         /\ NextPlace(mem, at) = at + (n + 7)
         /\ At(mem, at + 1) = n + 3 /\ At(mem, at + 3) = p.command
         /\ p.data # <<>> => Envelope(mem, at) = Head(p.data)
<1>1. PICK S : S = Byte
  OBVIOUS
<1>2. Byte \subseteq S /\ Sum(Body(p)) % SumMod \in S
  BY <1>1, EncodeType
<1>e. PICK e : e = Encode(p)
  OBVIOUS
<1>3. /\ e \in Seq(S) /\ Body(p) \in Seq(S) /\ Len(Body(p)) = n + 5 /\ Len(e) = n + 7
      /\ \A i \in 1..(n + 5) : e[i] = Body(p)[i]
      /\ e[1] = HeaderByte /\ e[2] = n + 3
      /\ e[3] = p.dest /\ e[4] = p.command /\ e[5] = p.sub
      /\ \A i \in 1..n : e[5 + i] = p.data[i]
      /\ e[n + 6] = Sum(Body(p)) % SumMod /\ e[n + 7] = TailByte
  BY <1>2, <1>e, EncodedBytes
<1>0. \A i \in 0..(n + 6) : At(mem, at + i) = e[i + 1]
  BY <1>e DEF Holds
<1>4. \A k \in at..(at + n + 6) : At(mem, k) = e[k - at + 1]
  <2>1. TAKE k \in at..(at + n + 6)
  <2>2. PICK i \in 0..(n + 6) : i = k - at
    OBVIOUS
  <2>3. k = at + i /\ k - at + 1 = i + 1
    BY <2>2
  <2>4. QED
    BY <1>0, <2>3
<1>5. /\ At(mem, at) = HeaderByte /\ At(mem, at + 1) = n + 3
      /\ At(mem, at + 2) = p.dest /\ At(mem, at + 3) = p.command
      /\ At(mem, at + 4) = p.sub
  <2>1. \A i \in {0, 1, 2, 3, 4} : At(mem, at + i) = e[i + 1]
    <3>1. \A i \in {0, 1, 2, 3, 4} : i \in 0..(n + 6)
      OBVIOUS
    <3>2. QED
      BY <1>0, <3>1
  <2>2. QED
    BY <1>3, <2>1
<1>6. /\ At(mem, at + (n + 5)) = Sum(Body(p)) % SumMod
      /\ At(mem, at + (n + 5) + 1) = TailByte
  <2>1. PICK i \in at..(at + n + 6), j \in at..(at + n + 6) :
          i = at + (n + 5) /\ j = i + 1
    <3>1. at + (n + 5) \in at..(at + n + 6) /\ at + (n + 5) + 1 \in at..(at + n + 6)
      OBVIOUS
    <3>2. QED
      BY <3>1, Zenon
  <2>2. i - at + 1 = n + 6 /\ j - at + 1 = n + 7
    BY <2>1
  <2>3. At(mem, i) = e[n + 6] /\ At(mem, j) = e[n + 7]
    BY <1>4, <2>2
  <2>4. QED
    BY <1>3, <2>1, <2>3
<1>7. SumPlace(mem, at) = n + 5
  BY <1>5 DEF SumPlace
<1>8. Piece(mem, at, n + 5) = Body(p)
  <2>1. \A k \in 1..(n + 5) : At(mem, at + k - 1) = Body(p)[k]
    <3>1. TAKE k \in 1..(n + 5)
    <3>2. At(mem, at + k - 1) = e[k]
      <4>1. PICK i \in 0..(n + 6) : i = k - 1
        OBVIOUS
      <4>2. at + k - 1 = at + i /\ i + 1 = k
        BY <4>1
      <4>3. QED
        BY <1>0, <4>1, <4>2
    <3>3. QED
      BY <1>3, <3>2
  <2>2. Body(p) = [k \in 1..(n + 5) |-> Body(p)[k]]
    BY <1>3
  <2>3. QED
    BY <2>1, <2>2 DEF Piece
<1>9. Piece(mem, at + 5, n) = p.data
  <2>1. \A k \in 1..n : At(mem, (at + 5) + k - 1) = p.data[k]
    <3>1. TAKE k \in 1..n
    <3>2. At(mem, (at + 5) + k - 1) = e[5 + k]
      <4>1. PICK i \in at..(at + n + 6) : i = (at + 5) + k - 1
        <5>1. (at + 5) + k - 1 \in at..(at + n + 6)
          OBVIOUS
        <5>2. QED
          BY <5>1
      <4>2. i - at + 1 = 5 + k
        BY <4>1
      <4>3. QED
        BY <1>4, <4>1, <4>2
    <3>3. QED
      BY <1>3, <3>2
  <2>2. QED
    BY <2>1 DEF Piece, Packet
<1>10. ~Bad(mem, at, length)
  BY <1>5, <1>6, <1>7, <1>8 DEF Bad
<1>11. Decoded(mem, at) = p
  BY <1>5, <1>9 DEF Decoded, Packet
<1>12. NextPlace(mem, at) = at + (n + 7)
  BY <1>7 DEF NextPlace
<1>13. ASSUME p.data # <<>> PROVE Envelope(mem, at) = Head(p.data)
  <2>1. 1 \in 1..n /\ Head(p.data) = p.data[1]
    BY <1>13 DEF Packet
  <2>2. At(mem, at + 5) = e[6]
    <3>1. at + 5 \in at..(at + n + 6) /\ (at + 5) - at + 1 = 6
      OBVIOUS
    <3>2. QED
      BY <1>4, <3>1
  <2>3. e[5 + 1] = p.data[1]
    BY <1>3, <2>1
  <2>4. QED
    BY <2>1, <2>2, <2>3 DEF Envelope
<1>14. QED
  BY <1>5, <1>10, <1>11, <1>12, <1>13

(* decode_NetLink_command accepts what send_NetLink_command has laid out,  *)
(* reads every field as it was meant and finds where the next packet is.   *)
(* The packet may stand anywhere in memory, behind and before any bytes,   *)
(* if its length fits the length byte and the record is not given as       *)
(* shorter than a packet can be.                                           *)
THEOREM PacketsUnderstood ==
  ASSUME NEW p \in Packet, Fits(p), NEW x \in Seq(Byte), NEW y \in Seq(Byte),
         NEW length \in Int, ~TooShort(length),
         NEW mem, Laid(p, mem, x, y)
  PROVE  /\ ~Bad(mem, Len(x), length)
         /\ Decoded(mem, Len(x)) = p
         /\ NextPlace(mem, Len(x)) = Len(x) + Len(Encode(p))
<1>1. PICK S : S = Byte
  OBVIOUS
<1>2. PICK at \in Nat, n \in Nat : at = Len(x) /\ n = Len(p.data)
  BY DEF Packet
<1>3. PICK e \in Seq(S) : e = Encode(p) /\ Len(e) = n + 7
  BY <1>1, <1>2, EncodeType
<1>4. \A k \in at..(at + n + 6) : At(mem, k) = e[k - at + 1]
  <2>1. x \in Seq(S) /\ y \in Seq(S)
    BY <1>1
  <2>2. \A k \in Len(x)..(Len(x) + Len(e) - 1) :
           At((x \o e) \o y, k) = e[k - Len(x) + 1]
    BY <1>3, <2>1, AtWithin, Zenon
  <2>3. mem = (x \o e) \o y
    BY <1>3 DEF Laid
  <2>4. at + Len(e) - 1 = at + n + 6
    BY <1>2, <1>3
  <2>5. QED
    BY <1>2, <2>2, <2>3, <2>4, Zenon
<1>5. ~Bad(mem, at, length) /\ Decoded(mem, at) = p /\ NextPlace(mem, at) = at + (n + 7)
  <2>1. Holds(mem, at, p)
    <3>1. ASSUME NEW i \in 0..(n + 6) PROVE At(mem, at + i) = e[i + 1]
      <4>1. PICK k \in at..(at + n + 6) : k = at + i /\ k - at + 1 = i + 1
        <5>1. at + i \in at..(at + n + 6) /\ (at + i) - at + 1 = i + 1
          OBVIOUS
        <5>2. QED
          BY <5>1
      <4>2. QED
        BY <1>4, <4>1
    <3>2. QED
      BY <1>2, <1>3, <3>1 DEF Holds
  <2>2. QED
    <3>1. n = Len(p.data)
      BY <1>2
    <3>2. QED
      BY <2>1, <3>1, PacketAt
<1>6. QED
  BY <1>2, <1>3, <1>5

-----------------------------------------------------------------------------
(* A read under way is a record with a timeout. *)
IsCall(c) == DOMAIN c = DOMAIN [active |-> TRUE, raw |-> TRUE, user |-> TRUE, len |-> 0,
                                timeout |-> 0, to |-> 0, then |-> 0, el |-> 0, waited |-> 0]

(* Nobody expects a prompt; the read of an event has a timeout, and has    *)
(* not ended with AF_OK when it has ended.                                 *)
EventRead ==
  /\ call.active => call.timeout # 0
  /\ ~call.active => ret.rc # "AF_OK"

CommandInv ==
  /\ numprompts = 0
  /\ call.active => IsCall(call)
  /\ pc = "event" => EventRead
  /\ OneCommand

-----------------------------------------------------------------------------
(* The initial states satisfy the invariant of the first command.          *)
LEMMA CommandInit == Init => CommandInv
BY DEF Init, CommandInv, EventRead, OneCommand, InLoop, NetRead!Init, NetRead!NoCall

(* What a step of a read leaves as it was, and how it ends. *)
ReadKept ==
  /\ numprompts' = 0
  /\ call'.active => IsCall(call')
  /\ call.timeout # 0 => EventRead'

(* A test of the time keeps the read of an event one that has a timeout or *)
(* an error;                                                               *)
LEMMA NetTimeTest ==
  ASSUME NEW n, call.active, IsCall(call), NetRead!TimeTest(n)
  PROVE  (call'.active => IsCall(call')) /\ (call.timeout # 0 => EventRead')
<1> DEFINE stale == NetRead!timediff <= 0
           left == call.timeout - (IF stale THEN 0 ELSE NetRead!timediff)
           th == IF stale THEN (call.then + call.el) % NetRead!TicksPerSec ELSE call.then
           e == IF stale THEN 0 ELSE call.el
           t == IF left <= 0 THEN 1 ELSE left
<1>1. \/ call' = [call EXCEPT !.len = n, !.then = th, !.el = e, !.to = t, !.waited = 0]
      \/ NetRead!Return(IF call.timeout # 0 THEN "AF_TIMEOUT" ELSE "AF_OK", n)
  BY DEF NetRead!TimeTest
<1> HIDE DEF th, e, t
<1>2. CASE call' = [call EXCEPT !.len = n, !.then = th, !.el = e, !.to = t, !.waited = 0]
  <2>1. IsCall(call') /\ call'.timeout = call.timeout /\ call'.active = call.active
    BY <1>2 DEF IsCall
  <2>2. QED
    BY <2>1 DEF EventRead
<1>3. CASE NetRead!Return(IF call.timeout # 0 THEN "AF_TIMEOUT" ELSE "AF_OK", n)
  BY <1>3 DEF NetRead!Return, NetRead!NoCall, EventRead
<1>4. QED
  BY <1>1, <1>2, <1>3

(* The two instances test the time alike. *)
LEMMA PromptTimeTest ==
  ASSUME NEW n, call.active, IsCall(call), PromptRead!TimeTest(n)
  PROVE  (call'.active => IsCall(call')) /\ (call.timeout # 0 => EventRead')
<1>1. NetRead!TimeTest(n)
  BY DEF PromptRead!TimeTest, NetRead!TimeTest, PromptRead!timediff, NetRead!timediff,
         PromptRead!TicksPerSec, NetRead!TicksPerSec, PromptRead!Truncated,
         NetRead!Truncated, PromptRead!Return, NetRead!Return, PromptRead!NoCall,
         NetRead!NoCall
<1>2. QED
  BY <1>1, NetTimeTest

(* so does a return with an error, when bytes are read,                    *)
LEMMA NetReturn ==
  ASSUME NEW rc, NEW n, rc # "AF_OK", NetRead!Return(rc, n)
  PROVE  (call'.active => IsCall(call')) /\ EventRead'
BY DEF NetRead!Return, NetRead!NoCall, EventRead

(* and when a prompt is.                                                   *)
LEMMA PromptReturn ==
  ASSUME NEW rc, NEW n, rc # "AF_OK", PromptRead!Return(rc, n)
  PROVE  (call'.active => IsCall(call')) /\ EventRead'
BY DEF PromptRead!Return, PromptRead!NoCall, EventRead

(* A step of a read of a device. *)
LEMMA NetReadStep ==
  ASSUME numprompts = 0, call.active, IsCall(call), NetRead!ReadStep
  PROVE  ReadKept
<1>1. CASE NetRead!PollTimeout
  BY <1>1, NetTimeTest DEF NetRead!PollTimeout, ReadKept
<1>2. CASE NetRead!ReadFault
  BY <1>2 DEF NetRead!ReadFault, ReadKept, EventRead
<1>3. CASE NetRead!ReadEnd
  BY <1>3, NetReturn DEF NetRead!ReadEnd, ReadKept
<1>4. CASE NetRead!ReadPrompt
  BY <1>4, NetReturn, NetTimeTest DEF NetRead!ReadPrompt, ReadKept
<1>5. CASE NetRead!ReadRaw
  BY <1>5, NetTimeTest DEF NetRead!ReadRaw, ReadKept
<1>6. QED
  BY <1>1, <1>2, <1>3, <1>4, <1>5 DEF NetRead!ReadStep

(* A step of a read that looks for a prompt. *)
LEMMA PromptReadStep ==
  ASSUME numprompts = 0, call.active, IsCall(call), PromptRead!ReadStep
  PROVE  ReadKept
<1>1. CASE PromptRead!PollTimeout
  BY <1>1, PromptTimeTest DEF PromptRead!PollTimeout, ReadKept
<1>2. CASE PromptRead!ReadFault
  BY <1>2 DEF PromptRead!ReadFault, ReadKept, EventRead
<1>3. CASE PromptRead!ReadEnd
  BY <1>3, PromptReturn DEF PromptRead!ReadEnd, ReadKept
<1>4. CASE PromptRead!ReadPrompt
  BY <1>4, PromptReturn, PromptTimeTest DEF PromptRead!ReadPrompt, ReadKept
<1>5. CASE PromptRead!ReadRaw
  BY <1>5, PromptTimeTest DEF PromptRead!ReadRaw, ReadKept
<1>6. QED
  BY <1>1, <1>2, <1>3, <1>4, <1>5 DEF PromptRead!ReadStep

-----------------------------------------------------------------------------
(* The steps of the program and of those around it. *)
LEMMA CommandStep ==
  ASSUME CommandInv, [Next]_vars
  PROVE  CommandInv'
<1> USE DEF CommandInv, OneCommand, InLoop
<1>1. CASE UNCHANGED vars
  BY <1>1 DEF vars, clientVars, tcliVars, EventRead
<1>2. CASE DeviceSends
  BY <1>2 DEF DeviceSends, clientVars, EventRead
<1>3. CASE Deliver
  BY <1>3 DEF Deliver, tcliVars, EventRead
<1>4. CASE DeviceCloses
  BY <1>4 DEF DeviceCloses, NetRead!PeerCloses, tcliVars, EventRead
<1>5. CASE Connect
  BY <1>5 DEF Connect, NetRead!af_client_connect
<1>6. CASE send_NetLink_login
  BY <1>6 DEF send_NetLink_login, Send, clientVars
<1>7. CASE af_client_get_prompt
  BY <1>7 DEF af_client_get_prompt, PromptRead!ReadBegin, IsCall
<1>8. CASE PromptResult
  BY <1>8 DEF PromptResult, Send, clientVars
<1>9. CASE ReadStep
  <2>1. ReadKept
    BY <1>9, NetReadStep, PromptReadStep DEF ReadStep, Reading
  <2>2. QED
    BY <1>9, <2>1 DEF ReadStep, Reading, ReadKept, EventRead
<1>10. CASE Tick
  <2>1. call' = [call EXCEPT !.el = @ + 1, !.waited = @ + 1] /\ UNCHANGED <<ret, numprompts>>
    BY <1>10 DEF Tick, NetRead!Tick
  <2>2. IsCall(call) /\ call.active
    BY <1>10 DEF Tick, Reading
  <2>3. IsCall(call') /\ call'.timeout = call.timeout /\ call'.active = call.active
    BY <2>1, <2>2 DEF IsCall
  <2>4. QED
    BY <1>10, <2>1, <2>2, <2>3 DEF Tick, tcliVars, EventRead
<1>11. CASE Signal
  <2>1. CASE UNCHANGED clientVars
    BY <1>11, <2>1 DEF Signal, clientVars, EventRead
  <2>2. CASE ~bailout /\ NetRead!PollError /\ pc' = pc
    BY <1>11, <2>2, NetReturn DEF Signal, NetRead!PollError
  <2>3. QED
    BY <1>11, <2>1, <2>2 DEF Signal
<1>12. CASE Event
  BY <1>12 DEF Event, NetRead!ReadBegin, PromptRead!ReadBegin, IsCall, EventRead
<1>13. CASE EventResult
  BY <1>13 DEF EventResult, EventRead, clientVars
<1>14. CASE DropRecord
  BY <1>14 DEF DropRecord, Processing, clientVars
<1>15. CASE HandlePacket
  BY <1>15 DEF HandlePacket, Processing, clientVars
<1>16. CASE MainLoopTurn
  BY <1>16 DEF MainLoopTurn, MayTurn, clientVars, Send
<1>17. QED
  BY <1>1, <1>2, <1>3, <1>4, <1>5, <1>6, <1>7, <1>8, <1>9, <1>10, <1>11, <1>12, <1>13,
     <1>14, <1>15, <1>16 DEF Next, Program

(* Whatever the device sends, however it is cut, and whatever the prompt:  *)
(* once main_loop has begun a command stays under way, so that the first   *)
(* is the only one sent and the program never ends with status 0.          *)
THEOREM FirstCommandOnly == Spec => []OneCommand
<1>1. CommandInv => OneCommand
  BY DEF CommandInv
<1>2. QED
  BY <1>1, CommandInit, CommandStep, PTL DEF Spec

-----------------------------------------------------------------------------
(* The stream of the device.                                               *)
LEMMA StreamType ==
  ASSUME sent \in Seq(DevicePackets)
  PROVE  /\ sent \in Seq(Packet) /\ Len(sent) \in Nat
         /\ DeviceStream = Bytes(sent, Len(sent)) /\ DeviceStream \in Seq(Byte)
         /\ Len(DeviceStream) = Place(sent, Len(sent)) /\ Len(DeviceStream) \in Nat
<1>1. sent \in Seq(Packet) /\ Len(sent) \in Nat
  BY TcliAssumption
<1>2. DeviceStream = Bytes(sent, Len(sent))
  BY <1>1 DEF DeviceStream, Bytes
<1>3. Bytes(sent, Len(sent)) \in Seq(Byte)
  <2>1. Len(sent) \in 0..Len(sent)
    BY <1>1
  <2>2. QED
    BY <1>1, <2>1, BytesStep
<1>4. PICK d \in Seq(Byte) : d = DeviceStream
  BY <1>2, <1>3
<1>5. Len(d) \in Nat
  OBVIOUS
<1>6. QED
  BY <1>1, <1>2, <1>3, <1>4, <1>5 DEF Place

(* What arrives is what comes next in the stream.                          *)
LEMMA Delivered ==
  ASSUME sent \in Seq(DevicePackets), taken \in Nat, wire \in Seq(Byte), Deliver
  PROVE  /\ wire' \in Seq(Byte) /\ Len(wire') <= MaxWire
         /\ Len(wire') \in Nat /\ Len(wire) <= Len(wire')
         /\ taken + Len(wire') <= Len(DeviceStream)
         /\ \A k \in 1..Len(wire') :
               wire'[k] = IF k <= Len(wire) THEN wire[k] ELSE DeviceStream[taken + k]
<1>1. PICK S : S = Byte
  OBVIOUS
<1>2. PICK d \in Seq(S) : d = DeviceStream
  BY <1>1, StreamType
<1>3. PICK w \in Seq(S) : w = wire
  BY <1>1
<1>4. PICK m \in Nat, l \in Nat : m = Len(w) /\ l = Len(d)
  OBVIOUS
<1>5a. PICK b \in Nat : b = taken + m
  OBVIOUS
<1>5. PICK u : u = SubSeq(d, b + 1, Len(d))
  OBVIOUS
<1>6. u = Undelivered
  BY <1>2, <1>3, <1>4, <1>5a, <1>5 DEF Undelivered
<1>7. /\ u \in Seq(S)
      /\ Len(u) = IF b <= l THEN l - b ELSE 0
      /\ \A i \in 1..Len(u) : u[i] = d[b + i]
  <2>1. u = SubSeq(d, b + 1, Len(d))
    BY <1>5
  <2>2. /\ u \in Seq(S)
        /\ Len(u) = IF b <= Len(d) THEN Len(d) - b ELSE 0
        /\ \A i \in 1..Len(u) : u[i] = d[b + i]
    BY <2>1, LaterElements
  <2>3. QED
    BY <1>4, <2>2
<1>8. PICK h \in Nat : h = Len(u)
  <2>1. u \in Seq(S)
    BY <1>7
  <2>2. QED
    BY <2>1
<1>9. u # <<>> /\ Len(wire') <= MaxWire
  BY <1>6 DEF Deliver
<1>10. h # 0
  BY <1>7, <1>8, <1>9
<1>11. PICK n \in Segments : wire' = w \o SubSeq(u, 1, Min({n, h}))
  BY <1>3, <1>6, <1>8 DEF Deliver
<1>12. PICK c \in Nat : c = Min({n, h}) /\ c <= h
  <2>1. n \in Nat
    BY TcliAssumption
  <2>2. Min({n, h}) \in {n, h} /\ Min({n, h}) <= h
    BY <2>1, MinOfTwo
  <2>3. QED
    BY <2>1, <2>2
<1>13. PICK p \in Seq(S) : p = SubSeq(u, 1, c) /\ Len(p) = c /\ \A i \in 1..c : p[i] = u[i]
  <2>1. PICK v \in Seq(S) : v = u
    BY <1>7
  <2>2. c \in 0..Len(v)
    BY <1>8, <1>12, <2>1
  <2>3. /\ SubSeq(v, 1, c) \in Seq(S) /\ Len(SubSeq(v, 1, c)) = c
        /\ \A i \in 1..c : SubSeq(v, 1, c)[i] = v[i]
    BY <2>2, FirstElements
  <2>4. QED
    BY <2>1, <2>3
<1>14. PICK x : x = wire'
  OBVIOUS
<1>15. x = w \o p
  BY <1>11, <1>12, <1>13, <1>14
<1>16. /\ x \in Seq(S) /\ Len(x) = m + Len(p)
       /\ \A i \in 1..m : x[i] = w[i]
       /\ \A i \in 1..Len(p) : x[m + i] = p[i]
  BY <1>4, <1>15, ConcatParts
<1>17. Len(x) = m + c /\ taken + m <= l /\ taken + Len(x) <= l
  BY <1>5a, <1>7, <1>8, <1>10, <1>12, <1>13, <1>16
<1>18. ASSUME NEW k \in 1..(m + c) PROVE x[k] = IF k <= m THEN w[k] ELSE d[taken + k]
  <2>1. CASE k <= m
    BY <1>16, <2>1
  <2>2. CASE ~ (k <= m)
    <3>1. PICK i \in 1..c : i = k - m /\ k = m + i
      <4>1. k - m \in 1..c /\ k = m + (k - m)
        BY <1>4, <2>2
      <4>2. QED
        BY <4>1
    <3>2. i \in 1..Len(p) /\ i \in 1..Len(u)
      BY <1>8, <1>12, <1>13, <3>1
    <3>2a. b + i = taken + k
      BY <1>4, <1>5a, <3>1
    <3>3. x[k] = p[i] /\ p[i] = u[i] /\ u[i] = d[taken + k]
      BY <1>7, <1>13, <1>16, <3>1, <3>2, <3>2a
    <3>4. QED
      BY <2>2, <3>3
  <2>3. QED
    BY <2>1, <2>2
<1>19. x \in Seq(Byte) /\ Len(x) <= MaxWire /\ Len(x) \in Nat
  BY <1>1, <1>4, <1>9, <1>12, <1>14, <1>16, <1>17
<1>20. taken + Len(x) <= Len(DeviceStream)
  BY <1>2, <1>4, <1>17
<1>21. \A k \in 1..Len(x) : x[k] = IF k <= Len(wire) THEN wire[k] ELSE DeviceStream[taken + k]
  <2>1. Len(x) = m + c /\ Len(wire) = m
    BY <1>3, <1>4, <1>17
  <2>2. QED
    BY <1>2, <1>3, <1>18, <2>1
<1>22. Len(wire) <= Len(x)
  BY <1>3, <1>4, <1>12, <1>17
<1>23. QED
  BY <1>14, <1>19, <1>20, <1>21, <1>22

(* What one recv takes from the wire and stores in the buffer.             *)
LEMMA RawReceives ==
  ASSUME wire \in Seq(Byte), buf \in Seq(Byte), Len(buf) <= UserSize, NetRead!ReadRaw
  PROVE  \E n \in 1..Len(wire) :
           /\ saved = <<>> => NetRead!TimeTest(n)
           /\ wire' \in Seq(Byte) /\ Len(wire') = Len(wire) - n
           /\ \A k \in 1..Len(wire') : wire'[k] = wire[n + k]
           /\ buf' \in Seq(Byte) /\ n <= Len(buf') /\ Len(buf') <= UserSize
           /\ \A k \in 1..n : buf'[k] = wire[k]
<1>1. PICK S : S = Byte
  OBVIOUS
<1>2. PICK w \in Seq(S), b \in Seq(S) : w = wire /\ b = buf
  BY <1>1
<1>3. PICK m \in Nat : m = Len(w) /\ m # 0
  <2>1. w # <<>>
    BY <1>2 DEF NetRead!ReadRaw
  <2>2. QED
    BY <2>1
<1>4. PICK n \in 1..m : n = NetRead!Least(m, UserSize)
  <2>1. UserSize \in Nat \ {0}
    BY TcliAssumption
  <2>2. QED
    BY <1>3, <2>1 DEF NetRead!Least
<1>5. PICK p \in Seq(S) : p = SubSeq(w, 1, n) /\ Len(p) = n /\ \A i \in 1..n : p[i] = w[i]
  <2>1. n \in 0..Len(w)
    BY <1>3
  <2>2. QED
    BY <2>1, FirstElements
<1>6. PICK x, y : x = wire' /\ y = buf'
  OBVIOUS
<1>7. /\ x = SubSeq(w, n + 1, Len(w))
      /\ y = p \o SubSeq(b, n + 1, Len(b))
      /\ NetRead!TimeTest(n + Len(saved))
  BY <1>2, <1>3, <1>4, <1>5, <1>6 DEF NetRead!ReadRaw
<1>8. x \in Seq(S) /\ Len(x) = m - n /\ \A i \in 1..Len(x) : x[i] = w[n + i]
  <2>1. PICK c \in Nat : c = n /\ c <= m
    OBVIOUS
  <2>2. x = SubSeq(w, c + 1, Len(w))
    BY <1>7, <2>1
  <2>3. /\ x \in Seq(S)
        /\ Len(x) = IF c <= Len(w) THEN Len(w) - c ELSE 0
        /\ \A i \in 1..Len(x) : x[i] = w[c + i]
    BY <2>2, LaterElements
  <2>4. QED
    BY <1>3, <2>1, <2>3
<1>9. PICK z \in Seq(S) :
         z = SubSeq(b, n + 1, Len(b)) /\ Len(z) = IF n <= Len(b) THEN Len(b) - n ELSE 0
  <2>1. PICK c \in Nat : c = n
    OBVIOUS
  <2>2. PICK v : v = SubSeq(b, c + 1, Len(b))
    OBVIOUS
  <2>3. v \in Seq(S) /\ Len(v) = IF c <= Len(b) THEN Len(b) - c ELSE 0
    BY <2>2, LaterElements
  <2>4. QED
    BY <2>1, <2>2, <2>3
<1>10. y \in Seq(S) /\ Len(y) = n + Len(z) /\ \A i \in 1..n : y[i] = p[i]
  <2>1. y = p \o z /\ n \in Nat
    BY <1>7, <1>9
  <2>2. QED
    BY <1>5, <2>1, ConcatParts
<1>11. n <= Len(y) /\ Len(y) <= UserSize
  <2>1. Len(z) \in Nat /\ Len(b) \in Nat /\ Len(b) <= UserSize
    BY <1>2
  <2>2. n <= UserSize /\ UserSize \in Nat
    BY <1>3, <1>4, TcliAssumption DEF NetRead!Least
  <2>3. QED
    BY <1>9, <1>10, <2>1, <2>2
<1>12. saved = <<>> => NetRead!TimeTest(n)
  <2>1. saved = <<>> => n + Len(saved) = n
    OBVIOUS
  <2>2. QED
    BY <1>7, <2>1
<1>13. QED
  BY <1>1, <1>2, <1>3, <1>5, <1>6, <1>8, <1>10, <1>11, <1>12

(* buf in its place in memory.                                             *)
LEMMA MemoryType ==
  ASSUME buf \in Seq(Byte), Len(buf) <= UserSize,
         frame \in Seq(Byte), Len(frame) <= UserSize
  PROVE  /\ Memory \in Seq(Byte) /\ Len(Memory) <= UserSize /\ Len(buf) <= Len(Memory)
         /\ \A i \in 1..Len(buf) : Memory[i] = buf[i]
<1>1. PICK S : S = Byte
  OBVIOUS
<1>2. PICK b \in Seq(S), f \in Seq(S) : b = buf /\ f = frame
  BY <1>1
<1>3. PICK m \in Nat, n \in Nat : m = Len(b) /\ n = Len(f)
  OBVIOUS
<1>4. PICK z : z = SubSeq(f, m + 1, Len(f))
  OBVIOUS
<1>5. z \in Seq(S) /\ Len(z) = IF m <= n THEN n - m ELSE 0
  BY <1>3, <1>4, LaterElements
<1>6. PICK y : y = Memory
  OBVIOUS
<1>7. y = b \o z
  BY <1>2, <1>3, <1>4, <1>6 DEF Memory
<1>8. y \in Seq(S) /\ Len(y) = m + Len(z) /\ \A i \in 1..m : y[i] = b[i]
  <2>1. z \in Seq(S)
    BY <1>5
  <2>2. m = Len(b)
    BY <1>3
  <2>3. QED
    BY <1>7, <2>1, <2>2, ConcatParts
<1>9. m <= UserSize /\ n <= UserSize /\ UserSize \in Nat
  BY <1>2, <1>3, TcliAssumption
<1>10. Len(y) <= UserSize /\ m <= Len(y)
  BY <1>5, <1>8, <1>9
<1>11. QED
  BY <1>1, <1>2, <1>3, <1>6, <1>8, <1>10

(* What is decoded from memory is a packet.                                *)
LEMMA DecodedType ==
  ASSUME NEW mem \in Seq(Byte), NEW at \in Nat
  PROVE  Decoded(mem, at) \in Packet /\ NextPlace(mem, at) \in Nat
<1>1. \A i : At(mem, i) \in Byte /\ At(mem, i) \in Nat
  <2>1. 0 \in Byte
    BY NetLinkAssumption DEF Byte
  <2>2. \A i : At(mem, i) \in Byte
    BY <2>1 DEF At
  <2>3. QED
    BY <2>2, ByteProperties
<1>2. \A i : \A n \in Int : Piece(mem, i, n) \in Seq(Byte)
  <2>1. TAKE i
  <2>2. TAKE n \in Int
  <2>3. PICK m \in Nat : 1..n = 1..m
    <3>1. CASE n \in Nat
      BY <3>1
    <3>2. CASE n \notin Nat
      <4>1. 1..n = 1..0
        BY <3>2
      <4>2. QED
        BY <4>1
    <3>3. QED
      BY <3>1, <3>2
  <2> DEFINE piece == [k \in 1..m |-> At(mem, i + k - 1)]
  <2>4. piece \in Seq(Byte)
    BY <1>1
  <2>5. Piece(mem, i, n) = piece
    BY <2>3 DEF Piece
  <2> HIDE DEF piece
  <2>6. QED
    BY <2>4, <2>5
<1>3. At(mem, at + 1) - 3 \in Int
  BY <1>1
<1>4. Decoded(mem, at) \in Packet
  BY <1>1, <1>2, <1>3 DEF Decoded, Packet
<1>5. NextPlace(mem, at) \in Nat
  BY <1>1 DEF NextPlace, SumPlace
<1>6. QED
  BY <1>4, <1>5

Uplink == {"framed", "fragment", "garbled"}

(* What the answers to a ping leave on the way to the device. *)
LEMMA AfterType ==
  ASSUME NEW up \in Uplink, NEW n \in Nat, NEW rcs \in [1..n -> SendCodes]
  PROVE  FoldLeft(After, up, rcs) \in Uplink
<1>1. DOMAIN rcs = 1..n
  OBVIOUS
<1> DEFINE next(f, t) == IF t = {} THEN up ELSE After(f[t \ {Max(t)}], rcs[Max(t)])
           Q(f) == f = [t \in SUBSET (DOMAIN rcs) |-> next(f, t)]
           h == [p \in Uplink \X (1..n) |-> After(p[1], rcs[p[2]])]
<1>2. FoldLeft(After, up, rcs) = (CHOOSE f : Q(f))[DOMAIN rcs]
  BY DEF FoldLeft, MapThenFoldSet
<1>3. \A v \in Uplink : \A rc : After(v, rc) \in Uplink
  BY DEF After, Uplink
<1>4. h \in [Uplink \X (1..n) -> Uplink]
  BY <1>3
<1>5. \A v \in Uplink, i \in 1..n : h[<<v, i>>] = After(v, rcs[i])
  OBVIOUS
<1> HIDE DEF h
<1>6. PICK f \in [SUBSET (1..n) -> Uplink] : StepsFrom(f, up, h, n)
  BY <1>4, FoldExists
<1>7. Q(f)
  <2>1. ASSUME NEW t \in SUBSET (1..n) PROVE f[t] = next(f, t)
    <3>1. CASE t = {}
      BY <1>6, <3>1 DEF StepsFrom
    <3>2. CASE t # {}
      <4>1. Max(t) \in 1..n
        BY <3>2, MaxOfPlaces
      <4>2. f[t \ {Max(t)}] \in Uplink
        BY <1>6
      <4>3. f[t] = h[<<f[t \ {Max(t)}], Max(t)>>]
        BY <1>6, <3>2 DEF StepsFrom
      <4>4. QED
        BY <1>5, <3>2, <4>1, <4>2, <4>3
    <3>3. QED
      BY <3>1, <3>2
  <2>2. f = [t \in SUBSET (1..n) |-> f[t]]
    BY <1>6
  <2> HIDE DEF next
  <2>3. QED
    BY <1>1, <2>1, <2>2
<1>8. PICK c : Q(c) /\ FoldLeft(After, up, rcs) = c[1..n]
  BY <1>1, <1>2, <1>7
<1>9. c[{}] \in Uplink
  BY <1>1, <1>8
<1>10. ASSUME NEW t \in SUBSET (1..n), t # {}, c[t \ {Max(t)}] \in Uplink
       PROVE  c[t] \in Uplink
  <2>1. c[t] = After(c[t \ {Max(t)}], rcs[Max(t)])
    BY <1>1, <1>8, <1>10
  <2>2. QED
    BY <1>3, <1>10, <2>1
<1> HIDE DEF Q
<1>11. c[1..n] \in Uplink
  BY <1>9, <1>10, FoldedIn
<1>12. QED
  BY <1>8, <1>11

-----------------------------------------------------------------------------
(* Types.  Both instances of the client have the same variables and tell   *)
(* the time alike; what differs is the reads that are made of them.        *)
Positive == Nat \ {0}
TicksPerSec == TicksPerMs * MsPerSec
Conns == {"none", "tried", "up", "shut", "reset"}
Faults == {"none", "null length", "left frame", "null comport"}
Codes == {"AF_OK", "AF_TIMEOUT", "AF_ERRNO", "AF_SOCKET", "AF_BUFFER", "none"}
Timeouts == {1} \cup ConnectTimos
NoCall == [active |-> FALSE]

CallType ==
  [active : {TRUE}, raw : BOOLEAN, user : BOOLEAN, len : Nat, timeout : Timeouts,
   to : Positive, then : 0..(TicksPerSec - 1), el : Nat, waited : Nat]
ReturnType == [rc : Codes, len : Nat, user : BOOLEAN]

(* A read, and one that the program makes in a mode. *)
ReadTyped(c) == c \in CallType /\ c.waited <= c.to * TicksPerMs
ReadOf(c, m) ==
  /\ ReadTyped(c)
  /\ IF m = "netlink" THEN c.raw /\ c.user /\ c.timeout = 1 ELSE ~c.raw

ClientTyped ==
  /\ conn \in Conns /\ fault \in Faults
  /\ wire \in Seq(Byte) /\ Len(wire) <= MaxWire
  /\ buf \in Seq(Byte) /\ Len(buf) <= UserSize
  /\ saved = <<>> /\ stream = <<>> /\ found = FALSE
  /\ ret \in ReturnType
  /\ call = NoCall \/ ReadOf(call, mode)

(* The constants the reads count with are numbers.                         *)
LEMMA Numbers ==
  /\ TicksPerMs \in Positive /\ MsPerSec \in Positive /\ TicksPerSec \in Positive
  /\ UserSize \in Positive /\ MaxWire \in Positive /\ Timeouts \subseteq Nat
<1>1. /\ TicksPerMs \in Positive /\ MsPerSec \in Positive
      /\ UserSize \in Positive /\ MaxWire \in Positive
  BY TcliAssumption DEF Positive
<1>2. TicksPerMs * MsPerSec \in Positive
  BY <1>1 DEF Positive
<1>3. QED
  BY <1>1, <1>2, TcliAssumption DEF TicksPerSec, Timeouts

(* A read in progress is one of the mode the terminal is in.               *)
LEMMA ActiveRead ==
  ASSUME ClientTyped, call.active
  PROVE  ReadOf(call, mode) /\ call # NoCall
BY DEF ClientTyped, NoCall

(* How a read goes on, or ends. *)
GoesOn(n) == ReadOf(call', mode) /\ call'.len = n /\ ret' = ret
Returns(rc, n) ==
  call' = NoCall /\ ret' \in ReturnType /\ ret'.rc = rc /\ ret'.len = n

(* A read that returns has a typed result.                                 *)
LEMMA ReturnTypes ==
  ASSUME ClientTyped, call.active, NEW rc \in Codes, NEW n \in Nat, NetRead!Return(rc, n)
  PROVE  Returns(rc, n)
<1>1. call.user \in BOOLEAN
  BY ActiveRead DEF ReadOf, ReadTyped, CallType
<1>2. ret' = [rc |-> rc, len |-> n, user |-> call.user] /\ call' = NoCall
  BY DEF NetRead!Return, NetRead!NoCall, NoCall
<1>3. QED
  BY <1>1, <1>2 DEF ReturnType, Returns

(* A read that looks at the time goes on or returns.                       *)
LEMMA TimeTestTypes ==
  ASSUME ClientTyped, call.active, NEW n \in Nat, NetRead!TimeTest(n)
  PROVE  GoesOn(n) \/ Returns("AF_TIMEOUT", n) \/ Returns("AF_OK", n)
<1> DEFINE stale == NetRead!timediff <= 0
           tdiff == IF stale THEN 0 ELSE NetRead!timediff
           left == call.timeout - tdiff
           th == IF stale THEN (call.then + call.el) % TicksPerSec ELSE call.then
           e == IF stale THEN 0 ELSE call.el
           next == IF left <= 0 THEN 1 ELSE left
<1>0. NetRead!TicksPerSec = TicksPerSec
  BY DEF NetRead!TicksPerSec, TicksPerSec
<1>1. ReadOf(call, mode)
  BY ActiveRead
<1>2. call \in CallType
  BY <1>1 DEF ReadOf, ReadTyped
<1>3. CASE NetRead!Return(IF call.timeout # 0 THEN "AF_TIMEOUT" ELSE "AF_OK", n)
  BY <1>3, ReturnTypes DEF Codes
<1>4. CASE /\ call' = [call EXCEPT !.len = n, !.then = th, !.el = e, !.to = next, !.waited = 0]
           /\ ret' = ret
  <2>1. call.then \in Nat /\ call.el \in Nat /\ TicksPerSec \in Nat /\ TicksPerSec >= 1
    BY <1>2, Numbers DEF CallType, Positive
  <2>2. th \in 0..(TicksPerSec - 1) /\ e \in Nat
    <3>1. (call.then + call.el) % TicksPerSec \in 0..(TicksPerSec - 1)
      BY <2>1
    <3>2. QED
      BY <1>2, <2>1, <3>1 DEF CallType
  <2>3. NetRead!timediff \in Int
    <3> DEFINE now == call.then + call.el
               a == (now % TicksPerSec) - call.then
    <3>1. now \in Nat /\ now \div TicksPerSec \in Int /\ now % TicksPerSec \in Int
      <4>1. now \in Nat
        BY <2>1
      <4> HIDE DEF now
      <4>2. QED
        BY <2>1, <4>1
    <3>2. a \in Int /\ TicksPerMs \in Nat /\ TicksPerMs >= 1 /\ MsPerSec \in Nat
      BY <2>1, <3>1, Numbers DEF Positive
    <3> HIDE DEF a
    <3>3. NetRead!Truncated(a, TicksPerMs) \in Int
      BY <3>2 DEF NetRead!Truncated
    <3>4. (now \div TicksPerSec) * MsPerSec \in Int
      BY <3>1, <3>2
    <3>5. NetRead!timediff = (now \div TicksPerSec) * MsPerSec
                               + NetRead!Truncated(a, TicksPerMs)
      BY <1>0 DEF NetRead!timediff, a
    <3> HIDE DEF now
    <3>6. QED
      BY <3>3, <3>4, <3>5
  <2>4. next \in Positive
    <3>1. call.timeout \in Nat
      BY <1>2, Numbers DEF CallType
    <3>2. QED
      BY <2>3, <3>1 DEF Positive
  <2> HIDE DEF th, e, next
  <2>5. /\ call' \in CallType /\ call'.waited = 0 /\ call'.to = next /\ call'.len = n
        /\ call'.raw = call.raw /\ call'.user = call.user /\ call'.timeout = call.timeout
    BY <1>2, <1>4, <2>2, <2>4 DEF CallType
  <2>6. 0 <= next * TicksPerMs
    BY <2>4, Numbers DEF Positive
  <2>7. ReadOf(call', mode)
    BY <1>1, <2>5, <2>6 DEF ReadOf, ReadTyped
  <2>8. QED
    BY <1>4, <2>5, <2>7 DEF GoesOn
<1>5. QED
  BY <1>0, <1>3, <1>4 DEF NetRead!TimeTest

(* Looking at the time and returning are the same for both kinds of read.  *)
LEMMA SameRead ==
  /\ \A n : PromptRead!TimeTest(n) => NetRead!TimeTest(n)
  /\ \A rc, n : PromptRead!Return(rc, n) => NetRead!Return(rc, n)
BY DEF PromptRead!TimeTest, NetRead!TimeTest, PromptRead!timediff, NetRead!timediff,
       PromptRead!TicksPerSec, NetRead!TicksPerSec, PromptRead!Truncated,
       NetRead!Truncated, PromptRead!Return, NetRead!Return, PromptRead!NoCall,
       NetRead!NoCall

-----------------------------------------------------------------------------
(* The steps of a read: it waits in vain, uses a null pointer, hears of    *)
(* the end of the connection, or receives.  One that looks for a prompt    *)
(* receives nothing: it uses a null pointer first.                         *)
WaitsInVain ==
  /\ ~NetRead!Ready
  /\ GoesOn(call.len) \/ Returns("AF_TIMEOUT", call.len) \/ Returns("AF_OK", call.len)
Fails == fault' \in Faults \ {"none"} /\ UNCHANGED <<call, ret>>
Loses == \E rc \in {"AF_ERRNO", "AF_SOCKET"} : Returns(rc, call.len)
Receives(n) == 
  /\ GoesOn(n) \/ Returns("AF_TIMEOUT", n) \/ Returns("AF_OK", n)
  /\ Len(wire') = Len(wire) - n
  /\ \A k \in 1..Len(wire') : wire'[k] = wire[n + k]
  /\ n <= Len(buf')
  /\ \A k \in 1..n : buf'[k] = wire[k]

StepOfRead ==
  \/ /\ WaitsInVain \/ Fails \/ Loses
     /\ UNCHANGED <<wire, buf>>
  \/ mode = "netlink" /\ \E n \in 1..Len(wire) : Receives(n)

(* In text mode a read receives nothing: bytes on the wire take it to the  *)
(* port that tcli has not set.                                             *)
LEMMA PromptReceivesNothing ==
  ASSUME ClientTyped, call.active, mode # "netlink"
  PROVE  ~ PromptRead!ReadPrompt /\ ~ PromptRead!ReadRaw
<1>1. ~call.raw
  BY ActiveRead DEF ReadOf
<1>2. QED
  BY <1>1 DEF PromptRead!ReadPrompt, PromptRead!ReadRaw, PromptRead!ReadSound,
              PromptRead!NullComport

(* What a step of a read may change, and how it ends.                      *)
LEMMA ReadSteps ==
  ASSUME ClientTyped, ReadStep
  PROVE  /\ StepOfRead
         /\ UNCHANGED <<conn, numprompts, saved, stream, found>>
         /\ fault' \in Faults
         /\ wire' \in Seq(Byte) /\ Len(wire') <= MaxWire
         /\ buf' \in Seq(Byte) /\ Len(buf') <= UserSize
<1>0. call.active /\ ReadOf(call, mode)
  BY ActiveRead DEF ReadStep, Reading
<1>1. call.len \in Nat
  BY <1>0 DEF ReadOf, ReadTyped, CallType
<1>2. /\ wire \in Seq(Byte) /\ Len(wire) <= MaxWire /\ buf \in Seq(Byte) /\ Len(buf) <= UserSize
      /\ saved = <<>> /\ stream = <<>> /\ found = FALSE /\ fault \in Faults
  BY DEF ClientTyped
<1>3. CASE UNCHANGED <<wire, buf, saved, stream, found>> /\ (WaitsInVain \/ Fails \/ Loses)
           /\ fault' \in Faults /\ UNCHANGED <<conn, numprompts>>
  BY <1>2, <1>3 DEF StepOfRead
<1>4. CASE mode = "netlink" /\ NetRead!ReadRaw
  <2>1. PICK n \in 1..Len(wire) :
           /\ saved = <<>> => NetRead!TimeTest(n)
           /\ wire' \in Seq(Byte) /\ Len(wire') = Len(wire) - n
           /\ \A k \in 1..Len(wire') : wire'[k] = wire[n + k]
           /\ buf' \in Seq(Byte) /\ n <= Len(buf') /\ Len(buf') <= UserSize
           /\ \A k \in 1..n : buf'[k] = wire[k]
    BY <1>2, <1>4, RawReceives
  <2>2. n \in Nat
    BY <1>2
  <2>3. Receives(n)
    BY <1>0, <1>2, <2>1, <2>2, TimeTestTypes DEF Receives
  <2>4. Len(wire') <= MaxWire
    <3>1. Len(wire) \in Nat /\ MaxWire \in Nat
      BY <1>2, Numbers DEF Positive
    <3>2. QED
      BY <1>2, <2>1, <2>2, <3>1
  <2>5. /\ UNCHANGED <<conn, numprompts, fault>>
        /\ saved' = <<>> /\ stream' = <<>> /\ found' = FALSE
    BY <1>4 DEF NetRead!ReadRaw
  <2>6. QED
    BY <1>2, <1>4, <2>1, <2>3, <2>4, <2>5 DEF StepOfRead
<1>5. CASE mode = "netlink" /\ NetRead!ReadStep
  <2>1. call.raw
    BY <1>0, <1>5 DEF ReadOf
  <2>2. CASE NetRead!PollTimeout
    <3>1. ~NetRead!Ready /\ NetRead!TimeTest(call.len)
          /\ UNCHANGED <<conn, wire, numprompts, saved, buf, stream, found, fault>>
      BY <2>2 DEF NetRead!PollTimeout
    <3>2. WaitsInVain
      BY <1>0, <1>1, <3>1, TimeTestTypes DEF WaitsInVain
    <3>3. QED
      BY <1>2, <1>3, <3>1, <3>2
  <2>3. CASE NetRead!ReadFault
    <3>1. fault' # "none" /\ fault' \in Faults
      BY <2>3 DEF NetRead!ReadFault, Faults
    <3>2. UNCHANGED <<conn, wire, numprompts, saved, call, buf, ret, stream, found>>
      BY <2>3 DEF NetRead!ReadFault
    <3>3. QED
      BY <1>3, <3>1, <3>2 DEF Fails
  <2>4. CASE NetRead!ReadEnd
    <3>1. PICK rc \in {"AF_ERRNO", "AF_SOCKET"} : NetRead!Return(rc, call.len)
      BY <2>4 DEF NetRead!ReadEnd
    <3>2. Returns(rc, call.len)
      BY <1>0, <1>1, <3>1, ReturnTypes DEF Codes
    <3>3. UNCHANGED <<conn, wire, numprompts, saved, buf, stream, found, fault>>
      BY <2>4 DEF NetRead!ReadEnd
    <3>4. QED
      BY <1>2, <1>3, <3>2, <3>3 DEF Loses
  <2>5. ~ NetRead!ReadPrompt
    BY <2>1 DEF NetRead!ReadPrompt
  <2>6. QED
    BY <1>4, <1>5, <2>2, <2>3, <2>4, <2>5 DEF NetRead!ReadStep
<1>6. CASE mode = "prompt" /\ PromptRead!ReadStep
  <2>1. CASE PromptRead!PollTimeout
    <3>1. ~PromptRead!Ready /\ PromptRead!TimeTest(call.len)
          /\ UNCHANGED <<conn, wire, numprompts, saved, buf, stream, found, fault>>
      BY <2>1 DEF PromptRead!PollTimeout
    <3>2. ~NetRead!Ready
      BY <3>1 DEF PromptRead!Ready, NetRead!Ready
    <3>3. NetRead!TimeTest(call.len)
      BY <3>1, SameRead
    <3>4. WaitsInVain
      BY <1>0, <1>1, <3>2, <3>3, TimeTestTypes DEF WaitsInVain
    <3>5. QED
      BY <1>2, <1>3, <3>1, <3>4
  <2>2. CASE PromptRead!ReadFault
    <3>1. fault' # "none" /\ fault' \in Faults
      BY <2>2 DEF PromptRead!ReadFault, Faults
    <3>2. UNCHANGED <<conn, wire, numprompts, saved, call, buf, ret, stream, found>>
      BY <2>2 DEF PromptRead!ReadFault
    <3>3. QED
      BY <1>3, <3>1, <3>2 DEF Fails
  <2>3. CASE PromptRead!ReadEnd
    <3>1. PICK rc \in {"AF_ERRNO", "AF_SOCKET"} : PromptRead!Return(rc, call.len)
      BY <2>3 DEF PromptRead!ReadEnd
    <3>2. Returns(rc, call.len)
      BY <1>0, <1>1, <3>1, ReturnTypes, SameRead DEF Codes
    <3>3. UNCHANGED <<conn, wire, numprompts, saved, buf, stream, found, fault>>
      BY <2>3 DEF PromptRead!ReadEnd
    <3>4. QED
      BY <1>2, <1>3, <3>2, <3>3 DEF Loses
  <2>4. ~ PromptRead!ReadPrompt /\ ~ PromptRead!ReadRaw
    BY <1>0, <1>6, PromptReceivesNothing
  <2>5. QED
    BY <1>6, <2>1, <2>2, <2>3, <2>4 DEF PromptRead!ReadStep
<1>7. QED
  BY <1>5, <1>6 DEF ReadStep

-----------------------------------------------------------------------------
(* The other steps of the client. *)
LEMMA ClientInit == ASSUME Init PROVE ClientTyped
BY Numbers DEF Init, NetRead!Init, NetRead!NoCall, NetRead!NoReturn, ClientTyped, Conns,
               Faults, ReturnType, Codes, NoCall, Positive

(* A step that leaves the client alone preserves its types.                *)
LEMMA ClientSame ==
  ASSUME ClientTyped, UNCHANGED clientVars, mode' = mode
  PROVE  ClientTyped'
BY DEF ClientTyped, clientVars, ReadOf, ReadTyped, CallType

(* Connecting preserves the types of the client,                           *)
LEMMA ConnectTypes ==
  ASSUME ClientTyped, mode' = mode, NetRead!af_client_connect
  PROVE  ClientTyped'
<1>1. conn' \in Conns /\ wire' = <<>> /\ stream' = <<>> /\ found' = FALSE
      /\ UNCHANGED <<numprompts, saved, call, buf, ret, fault>>
  BY DEF NetRead!af_client_connect, Conns
<1>2. <<>> \in Seq(Byte) /\ Len(<<>>) <= MaxWire
  BY Numbers DEF Positive
<1>3. QED
  BY <1>1, <1>2 DEF ClientTyped, ReadOf, ReadTyped, CallType

(* so does the end of the connection by the device,                        *)
LEMMA PeerTypes ==
  ASSUME ClientTyped, mode' = mode, NetRead!PeerCloses
  PROVE  ClientTyped'
<1>1. conn' \in Conns /\ (wire' = wire \/ wire' = <<>>)
      /\ UNCHANGED <<numprompts, saved, call, buf, ret, stream, found, fault>>
  BY DEF NetRead!PeerCloses, Conns
<1>2. <<>> \in Seq(Byte) /\ Len(<<>>) <= MaxWire
  BY Numbers DEF Positive
<1>3. QED
  BY <1>1, <1>2 DEF ClientTyped, ReadOf, ReadTyped, CallType

(* the passing of time,                                                    *)
LEMMA TickTypes ==
  ASSUME ClientTyped, mode' = mode, NetRead!Tick, call.active
  PROVE  /\ ClientTyped'
         /\ call'.active /\ call'.len = call.len /\ UNCHANGED <<conn, wire, buf, ret>>
<1>1. /\ call.waited < call.to * TicksPerMs
      /\ call' = [call EXCEPT !.el = @ + 1, !.waited = @ + 1]
      /\ UNCHANGED <<conn, wire, numprompts, saved, buf, ret, stream, found, fault>>
  BY DEF NetRead!Tick
<1>2. call \in CallType /\ ReadOf(call, mode)
  BY ActiveRead DEF ReadOf, ReadTyped
<1>3. /\ call' \in CallType /\ call'.waited = call.waited + 1 /\ call'.to = call.to
      /\ call'.raw = call.raw /\ call'.user = call.user /\ call'.timeout = call.timeout
      /\ call'.len = call.len /\ call'.active
  <2>1. call.el + 1 \in Nat /\ call.waited + 1 \in Nat
    BY <1>2 DEF CallType
  <2>2. QED
    BY <1>1, <1>2, <2>1 DEF CallType
<1>4. call.to * TicksPerMs \in Nat /\ call.waited \in Nat
  BY <1>2, Numbers DEF CallType, Positive
<1>5. call'.waited <= call'.to * TicksPerMs
  BY <1>1, <1>3, <1>4
<1>6. ReadOf(call', mode')
  BY <1>2, <1>3, <1>5 DEF ReadOf, ReadTyped
<1>7. QED
  BY <1>1, <1>3, <1>6 DEF ClientTyped

(* a poll that fails,                                                      *)
LEMMA PollErrorTypes ==
  ASSUME ClientTyped, mode' = mode, NetRead!PollError
  PROVE  /\ ClientTyped'
         /\ Returns("AF_ERRNO", call.len) /\ UNCHANGED <<conn, wire, buf>> /\ call.active
<1>1. call.active /\ NetRead!Return("AF_ERRNO", call.len)
      /\ UNCHANGED <<conn, wire, numprompts, saved, buf, stream, found, fault>>
  BY DEF NetRead!PollError, NetRead!InRead
<1>2. call.len \in Nat
  BY <1>1, ActiveRead DEF ReadOf, ReadTyped, CallType
<1>3. Returns("AF_ERRNO", call.len)
  BY <1>1, <1>2, ReturnTypes DEF Codes
<1>4. ClientTyped'
  BY <1>1, <1>3 DEF ClientTyped, Returns, NoCall
<1>5. QED
  BY <1>1, <1>3, <1>4

(* The read of an event, and the one that waits for the first prompt.      *)
Begins(n) ==
  /\ ~call.active
  /\ call'.active /\ call'.len = n /\ buf' = <<>>
  /\ UNCHANGED <<conn, wire, numprompts, saved, stream, found, fault>>
  /\ ret' = [rc |-> "none", len |-> 0, user |-> FALSE]

(* the start of a read in binary mode,                                     *)
LEMMA NetBeginTypes ==
  ASSUME ClientTyped, mode' = mode, mode = "netlink", NetRead!ReadBegin(TRUE, TRUE, 1)
  PROVE  ClientTyped' /\ Begins(UserSize)
<1>1. PICK now \in 0..(TicksPerSec - 1) :
         call' = [active |-> TRUE, raw |-> TRUE, user |-> TRUE, len |-> UserSize,
                  timeout |-> 1, to |-> 1, then |-> now, el |-> 0, waited |-> 0]
  <2>1. NetRead!TicksPerSec = TicksPerSec
    BY DEF NetRead!TicksPerSec, TicksPerSec
  <2>2. PICK now \in 0..(TicksPerSec - 1) :
         call' = [active |-> TRUE, raw |-> TRUE, user |-> TRUE,
                  len |-> IF TRUE THEN UserSize ELSE 0,
                  timeout |-> 1, to |-> IF 1 <= 0 THEN 1 ELSE 1,
                  then |-> now, el |-> 0, waited |-> 0]
    BY <2>1 DEF NetRead!ReadBegin
  <2>3. QED
    BY <2>2
<1>2. UserSize \in Nat /\ 1 \in Timeouts /\ 1 \in Positive
  BY Numbers DEF Positive, Timeouts
<1>3. /\ call' \in CallType /\ call'.waited = 0 /\ call'.to = 1 /\ call'.len = UserSize
      /\ call'.raw /\ call'.user /\ call'.timeout = 1 /\ call'.active
  BY <1>1, <1>2 DEF CallType
<1>4. ReadOf(call', mode)
  <2>1. 0 <= 1 * TicksPerMs
    BY Numbers DEF Positive
  <2>2. QED
    BY <1>3, <2>1 DEF ReadOf, ReadTyped
<1>5. ~call.active /\ buf' = <<>> /\ ret' = [rc |-> "none", len |-> 0, user |-> FALSE]
      /\ UNCHANGED <<conn, wire, numprompts, saved, stream, found, fault>>
  BY DEF NetRead!ReadBegin, NetRead!AtRest, NetRead!NoReturn
<1>6. ret' \in ReturnType /\ <<>> \in Seq(Byte) /\ Len(<<>>) <= UserSize
  BY <1>5, Numbers DEF ReturnType, Codes, Positive
<1>7. QED
  BY <1>3, <1>4, <1>5, <1>6 DEF ClientTyped, Begins

(* the start of a read for the prompt,                                     *)
LEMMA PromptBeginTypes ==
  ASSUME ClientTyped, mode' = mode, mode = "prompt", NEW user \in BOOLEAN,
         NEW timeout \in Timeouts, PromptRead!ReadBegin(FALSE, user, timeout)
  PROVE  ClientTyped' /\ Begins(0)
<1>1. timeout \in Nat
  BY Numbers
<1>2. PICK to \in Positive : to = IF timeout <= 0 THEN 1 ELSE timeout
  BY <1>1 DEF Positive
<1>3. PICK now \in 0..(TicksPerSec - 1) :
         call' = [active |-> TRUE, raw |-> FALSE, user |-> user, len |-> 0,
                  timeout |-> timeout, to |-> to, then |-> now, el |-> 0, waited |-> 0]
  <2>1. PromptRead!TicksPerSec = TicksPerSec
    BY DEF PromptRead!TicksPerSec, TicksPerSec
  <2>2. QED
    BY <1>2, <2>1 DEF PromptRead!ReadBegin
<1>4. /\ call' \in CallType /\ call'.waited = 0 /\ call'.to = to /\ call'.len = 0
      /\ ~call'.raw /\ call'.active
  BY <1>2, <1>3 DEF CallType
<1>5. ReadOf(call', mode)
  <2>1. 0 <= to * TicksPerMs
    BY <1>2, Numbers DEF Positive
  <2>2. QED
    BY <1>4, <2>1 DEF ReadOf, ReadTyped
<1>6. ~call.active /\ buf' = <<>> /\ ret' = [rc |-> "none", len |-> 0, user |-> FALSE]
      /\ UNCHANGED <<conn, wire, numprompts, saved, stream, found, fault>>
  BY DEF PromptRead!ReadBegin, PromptRead!AtRest, PromptRead!NoReturn
<1>7. ret' \in ReturnType /\ <<>> \in Seq(Byte) /\ Len(<<>>) <= UserSize
  BY <1>6, Numbers DEF ReturnType, Codes, Positive
<1>8. QED
  BY <1>4, <1>5, <1>6, <1>7 DEF ClientTyped, Begins

(* and every step of a read.                                               *)
LEMMA ReadStepTypes ==
  ASSUME ClientTyped, ReadStep
  PROVE  ClientTyped'
<1>1. /\ StepOfRead
      /\ UNCHANGED <<conn, numprompts, saved, stream, found>>
      /\ fault' \in Faults
      /\ wire' \in Seq(Byte) /\ Len(wire') <= MaxWire
      /\ buf' \in Seq(Byte) /\ Len(buf') <= UserSize
  BY ReadSteps
<1>2. mode' = mode
  BY DEF ReadStep
<1>3. ret' \in ReturnType /\ (call' = NoCall \/ ReadOf(call', mode))
  <2>1. ASSUME NEW rc, NEW n, Returns(rc, n) \/ GoesOn(n)
        PROVE  ret' \in ReturnType /\ (call' = NoCall \/ ReadOf(call', mode))
    BY <2>1 DEF Returns, GoesOn, ClientTyped
  <2>2. CASE Fails
    BY <2>2 DEF Fails, ClientTyped
  <2>3. QED
    BY <1>1, <2>1, <2>2 DEF StepOfRead, WaitsInVain, Loses, Receives
<1>4. QED
  BY <1>1, <1>2, <1>3 DEF ClientTyped

-----------------------------------------------------------------------------
Places == Ended \cup InLoop \cup {"start", "connected", "prompt"}

ProgramTyped ==
  /\ mode \in {"netlink", "prompt"}
  /\ pc \in Places
  /\ busy \in BOOLEAN /\ bailout \in BOOLEAN
  /\ uplink \in Uplink
  /\ sent \in Seq(DevicePackets) /\ taken \in Nat /\ start \in 0..taken
  /\ place \in Nat /\ len \in Int
  /\ frame \in Seq(Byte) /\ Len(frame) <= UserSize
  /\ done \in Seq(Packet)

TypeInv == CommandInv /\ ClientTyped /\ ProgramTyped

(* The initial states are typed.                                           *)
LEMMA TypeInit == Init => TypeInv
<1> SUFFICES ASSUME Init PROVE TypeInv
  OBVIOUS
<1>1. <<>> \in Seq(Byte) /\ Len(<<>>) <= UserSize /\ <<>> \in Seq(DevicePackets)
      /\ <<>> \in Seq(Packet)
  BY Numbers DEF Positive
<1>2. "start" \in Places
  BY DEF Places
<1>3. ProgramTyped
  <2>1. mode \in {"netlink", "prompt"} /\ pc \in Places /\ uplink \in Uplink
        /\ busy \in BOOLEAN /\ bailout \in BOOLEAN
    BY <1>2 DEF Init, Uplink
  <2>2. taken \in Nat /\ start \in 0..taken /\ place \in Nat /\ len \in Int
    BY DEF Init
  <2>3. sent = <<>> /\ frame = <<>> /\ done = <<>>
    BY DEF Init
  <2>4. QED
    BY <1>1, <2>1, <2>2, <2>3 DEF ProgramTyped
<1>4. QED
  BY <1>3, CommandInit, ClientInit DEF TypeInv

(* The bytes of the stream that have been received.                        *)
LEMMA TakenType ==
  ASSUME TypeInv, ReadStep
  PROVE  taken' \in Nat /\ start' \in 0..taken'
<1>1. ClientTyped /\ taken \in Nat /\ start \in 0..taken
  BY DEF TypeInv, ProgramTyped
<1>2. wire \in Seq(Byte)
  BY <1>1 DEF ClientTyped
<1>3. Len(wire) \in Nat
  BY <1>2
<1>4. Len(wire') \in Nat /\ Len(wire') <= Len(wire)
  BY <1>1, <1>3, ReadSteps DEF StepOfRead, Receives
<1>5. taken' = taken + Len(wire) - Len(wire')
      /\ start' = IF taken' = taken THEN start ELSE taken
  BY DEF ReadStep
<1>6. taken' \in Nat /\ taken' >= taken
  BY <1>1, <1>3, <1>4, <1>5
<1>7. QED
  BY <1>1, <1>5, <1>6

(* What has gone out is framed, broken off or garbled, after every attempt *)
(* to send.                                                                *)
LEMMA AfterOne ==
  ASSUME uplink \in Uplink
  PROVE  \A rc : After(uplink, rc) \in Uplink
BY DEF After, Uplink

(* Bytes that arrive preserve the types of the client.                     *)
LEMMA DeliverTypes ==
  ASSUME TypeInv, Deliver
  PROVE  ClientTyped'
<1>1. ClientTyped /\ sent \in Seq(DevicePackets) /\ taken \in Nat
  BY DEF TypeInv, ProgramTyped
<1>2. wire \in Seq(Byte)
  BY <1>1 DEF ClientTyped
<1>3. wire' \in Seq(Byte) /\ Len(wire') <= MaxWire
  BY <1>1, <1>2, Delivered
<1>4. UNCHANGED <<conn, numprompts, saved, call, buf, ret, stream, found, fault, mode>>
  BY DEF Deliver, tcliVars
<1>5. QED
  BY <1>1, <1>3, <1>4 DEF ClientTyped, ReadOf, ReadTyped, CallType

(* The places of control the program goes to.                              *)
LEMMA PlacesOfControl ==
  /\ {"exit 0", "exit 1", "aborted", "loop", "event", "process", "turn"} \subseteq Places
  /\ {"start", "connected", "prompt"} \subseteq Places
BY DEF Places, Ended, InLoop

(* Handling a packet preserves the types of the program.                   *)
LEMMA HandleTypes ==
  ASSUME TypeInv, HandlePacket
  PROVE  ProgramTyped'
<1>0. ProgramTyped
  BY DEF TypeInv
<1>1. buf \in Seq(Byte) /\ Len(buf) <= UserSize /\ frame \in Seq(Byte) /\ Len(frame) <= UserSize
  BY DEF TypeInv, ClientTyped, ProgramTyped
<1>2. Memory \in Seq(Byte)
  BY <1>1, MemoryType
<1>3. place \in Nat /\ len \in Int /\ uplink \in Uplink /\ pc \in Places
  BY <1>0 DEF ProgramTyped
<1>4. Decoded(Memory, place) \in Packet /\ NextPlace(Memory, place) \in Nat
  BY <1>2, <1>3, DecodedType
<1>5. done' \in Seq(Packet)
  <2>1. done' = Append(done, Decoded(Memory, place))
    BY DEF HandlePacket
  <2>2. PICK S : S = Packet
    OBVIOUS
  <2>3. done \in Seq(S) /\ Decoded(Memory, place) \in S
    BY <1>0, <1>4, <2>2 DEF ProgramTyped
  <2>4. Append(done, Decoded(Memory, place)) \in Seq(S)
    BY <2>3
  <2>5. QED
    BY <2>1, <2>2, <2>4
<1>6. uplink' \in Uplink
  <2>1. PICK n \in Nat : n = Replies(Decoded(Memory, place))
    BY TcliAssumption DEF Replies
  <2>2. PICK rcs \in [1..n -> SendCodes] : uplink' = FoldLeft(After, uplink, rcs)
    BY <2>1 DEF HandlePacket
  <2>3. QED
    BY <1>3, <2>2, AfterType
<1>7. busy' \in BOOLEAN
  <2>1. PICK rcs : busy' = (busy \/ \E i \in DOMAIN rcs : rcs[i] = "AF_OK")
    BY DEF HandlePacket
  <2>2. QED
    BY <2>1
<1>8. pc' \in Places
  <2>1. pc' = pc \/ pc' = "turn"
    BY DEF HandlePacket
  <2>2. QED
    BY <1>3, <2>1, PlacesOfControl
<1>9. place' \in Nat /\ len' \in Int
  <2>1. \/ place' = NextPlace(Memory, place) /\ len' = len - (place' - place)
        \/ UNCHANGED <<place, len>>
    BY DEF HandlePacket
  <2>2. QED
    BY <1>3, <1>4, <2>1
<1>10. UNCHANGED <<mode, bailout, sent, taken, start, frame>>
  BY DEF HandlePacket
<1>11. QED
  BY <1>0, <1>5, <1>6, <1>7, <1>8, <1>9, <1>10 DEF ProgramTyped

(* Every step preserves the types of the program,                          *)
LEMMA ProgramTypes ==
  ASSUME TypeInv, Next
  PROVE  ProgramTyped'
<1>0. ProgramTyped
  BY DEF TypeInv
<1>1. CASE DeviceSends
  <2>1. PICK p \in DevicePackets : sent' = Append(sent, p)
    BY <1>1 DEF DeviceSends
  <2>2. sent' \in Seq(DevicePackets)
    BY <1>0, <2>1 DEF ProgramTyped
  <2>3. UNCHANGED <<mode, pc, busy, bailout, uplink, taken, start, place, len, frame, done>>
    BY <1>1 DEF DeviceSends
  <2>4. QED
    BY <1>0, <2>2, <2>3 DEF ProgramTyped
<1>2. CASE Deliver \/ DeviceCloses \/ Tick
  <2>1. UNCHANGED tcliVars
    BY <1>2 DEF Deliver, DeviceCloses, Tick
  <2>2. QED
    BY <1>0, <2>1 DEF tcliVars, ProgramTyped
<1>3. CASE Connect
  <2>1. pc' \in {"connected", "exit 1"}
    BY <1>3 DEF Connect
  <2>2. QED
    BY <1>0, <1>3, <2>1, PlacesOfControl DEF Connect, ProgramTyped
<1>4. CASE send_NetLink_login
  <2>1. /\ pc' \in {"loop", "exit 1"} /\ uplink' \in Uplink /\ busy' \in BOOLEAN
        /\ UNCHANGED <<mode, bailout, sent, taken, start, place, len, frame, done>>
    BY <1>0, <1>4, AfterOne DEF send_NetLink_login, Send, ProgramTyped
  <2>2. QED
    BY <1>0, <2>1, PlacesOfControl DEF ProgramTyped
<1>5. CASE af_client_get_prompt
  BY <1>0, <1>5, PlacesOfControl DEF af_client_get_prompt, ProgramTyped
<1>6. CASE PromptResult
  <2>1. /\ pc' \in {"loop", "exit 1"} /\ uplink' \in Uplink /\ busy' \in BOOLEAN
        /\ UNCHANGED <<mode, bailout, sent, taken, start, place, len, frame, done>>
    BY <1>0, <1>6, AfterOne DEF PromptResult, Send, ProgramTyped
  <2>2. QED
    BY <1>0, <2>1, PlacesOfControl DEF ProgramTyped
<1>7. CASE ReadStep
  BY <1>0, <1>7, TakenType DEF ReadStep, ProgramTyped
<1>8. CASE Event
  <2>1. buf \in Seq(Byte) /\ Len(buf) <= UserSize /\ frame \in Seq(Byte) /\ Len(frame) <= UserSize
    BY DEF TypeInv, ClientTyped, ProgramTyped
  <2>2. Memory \in Seq(Byte) /\ Len(Memory) <= UserSize
    BY <2>1, MemoryType
  <2>3. <<>> \in Seq(Byte) /\ Len(<<>>) <= UserSize
    BY Numbers DEF Positive
  <2>4. frame' = Memory \/ frame' = <<>>
    BY <1>8 DEF Event
  <2>5. frame' \in Seq(Byte) /\ Len(frame') <= UserSize
    BY <2>2, <2>3, <2>4
  <2>6. pc' = "event"
        /\ UNCHANGED <<mode, busy, bailout, uplink, sent, taken, start, place, len, done>>
    BY <1>8 DEF Event
  <2>7. pc' \in Places
    BY <2>6, PlacesOfControl
  <2>8. /\ mode' \in {"netlink", "prompt"} /\ busy' \in BOOLEAN /\ bailout' \in BOOLEAN
        /\ uplink' \in Uplink /\ sent' \in Seq(DevicePackets) /\ taken' \in Nat
        /\ start' \in 0..taken' /\ place' \in Nat /\ len' \in Int /\ done' \in Seq(Packet)
    BY <1>0, <2>6 DEF ProgramTyped
  <2>9. QED
    BY <2>5, <2>7, <2>8 DEF ProgramTyped
<1>9. CASE EventResult
  <2>1. ret.len \in Nat
    BY DEF TypeInv, ClientTyped, ReturnType
  <2>2. pc' \in {"process", "turn"} /\ len' \in Int /\ bailout' \in BOOLEAN
        /\ busy' \in BOOLEAN
    BY <1>0, <1>9, <2>1 DEF EventResult, ProgramTyped
  <2>3. UNCHANGED <<mode, uplink, sent, taken, start, place, frame, done>>
    BY <1>9 DEF EventResult
  <2>4. QED
    BY <1>0, <2>2, <2>3, PlacesOfControl DEF ProgramTyped
<1>10. CASE DropRecord
  BY <1>0, <1>10, PlacesOfControl DEF DropRecord, ProgramTyped
<1>11. CASE HandlePacket
  BY <1>11, HandleTypes
<1>12. CASE MainLoopTurn
  <2>1. busy' \in BOOLEAN /\ uplink' \in Uplink /\ pc' \in {"exit 0", "exit 1", "loop"}
    BY <1>0, <1>12, AfterOne DEF MainLoopTurn, Send, ProgramTyped
  <2>2. pc' \in Places
    BY <2>1, PlacesOfControl
  <2>3. /\ place' = 0 /\ len' = 0 /\ done' = <<>> /\ start' = taken
        /\ UNCHANGED <<mode, bailout, sent, taken, frame>>
    BY <1>12 DEF MainLoopTurn
  <2>4. done' \in Seq(Packet) /\ taken' \in Nat /\ start' \in 0..taken' /\ place' \in Nat
        /\ len' \in Int
    BY <1>0, <2>3 DEF ProgramTyped
  <2>5. /\ mode' \in {"netlink", "prompt"} /\ bailout' \in BOOLEAN
        /\ sent' \in Seq(DevicePackets) /\ frame' \in Seq(Byte) /\ Len(frame') <= UserSize
    BY <1>0, <2>3 DEF ProgramTyped
  <2>6. QED
    BY <2>1, <2>2, <2>4, <2>5 DEF ProgramTyped
<1>13. CASE Signal
  <2>1. /\ pc' \in {pc, "aborted"} /\ bailout' \in BOOLEAN
        /\ UNCHANGED <<mode, busy, uplink, sent, taken, start, place, len, frame, done>>
    BY <1>0, <1>13 DEF Signal, ProgramTyped
  <2>2. QED
    BY <1>0, <2>1, PlacesOfControl DEF ProgramTyped
<1>14. QED
  BY <1>1, <1>2, <1>3, <1>4, <1>5, <1>6, <1>7, <1>8, <1>9, <1>10, <1>11, <1>12, <1>13
     DEF Next, Program

(* and those of the client.                                                *)
LEMMA ClientTypes ==
  ASSUME TypeInv, Next
  PROVE  ClientTyped'
<1>0. ClientTyped
  BY DEF TypeInv
<1>1. CASE UNCHANGED clientVars /\ mode' = mode
  BY <1>0, <1>1, ClientSame
<1>2. CASE \/ DeviceSends \/ send_NetLink_login \/ PromptResult \/ EventResult
           \/ DropRecord \/ HandlePacket \/ MainLoopTurn
  <2>1. UNCHANGED clientVars /\ mode' = mode
    BY <1>2 DEF DeviceSends, send_NetLink_login, PromptResult, EventResult, DropRecord,
                HandlePacket, MainLoopTurn
  <2>2. QED
    BY <1>1, <2>1
<1>3. CASE Deliver
  BY <1>3, DeliverTypes
<1>4. CASE DeviceCloses
  BY <1>0, <1>4, PeerTypes DEF DeviceCloses, tcliVars
<1>5. CASE Connect
  BY <1>0, <1>5, ConnectTypes DEF Connect
<1>6. CASE af_client_get_prompt
  <2>1. PICK timo \in ConnectTimos : PromptRead!ReadBegin(FALSE, FALSE, timo)
    BY <1>6 DEF af_client_get_prompt
  <2>2. mode = "prompt" /\ mode' = mode /\ timo \in Timeouts
    BY <1>6 DEF af_client_get_prompt, Timeouts
  <2>3. QED
    BY <1>0, <2>1, <2>2, PromptBeginTypes
<1>7. CASE ReadStep
  BY <1>0, <1>7, ReadStepTypes
<1>8. CASE Tick
  BY <1>0, <1>8, TickTypes DEF Tick, Reading, tcliVars
<1>9. CASE Event
  <2>1. mode' = mode
    BY <1>9 DEF Event
  <2>2. CASE mode = "netlink" /\ NetRead!ReadBegin(TRUE, TRUE, 1)
    BY <1>0, <2>1, <2>2, NetBeginTypes
  <2>3. CASE mode = "prompt" /\ PromptRead!ReadBegin(FALSE, TRUE, 1)
    <3>1. 1 \in Timeouts
      BY DEF Timeouts
    <3>2. QED
      BY <1>0, <2>1, <2>3, <3>1, PromptBeginTypes
  <2>4. QED
    BY <1>9, <2>2, <2>3 DEF Event
<1>10. CASE Signal
  <2>1. mode' = mode /\ (UNCHANGED clientVars \/ NetRead!PollError)
    BY <1>10 DEF Signal
  <2>2. QED
    BY <1>0, <1>1, <2>1, PollErrorTypes
<1>11. QED
  BY <1>2, <1>3, <1>4, <1>5, <1>6, <1>7, <1>8, <1>9, <1>10 DEF Next, Program

(* Every step preserves the types.                                         *)
LEMMA TypeStep == TypeInv /\ [Next]_vars => TypeInv'
<1> SUFFICES ASSUME TypeInv, [Next]_vars PROVE TypeInv'
  OBVIOUS
<1>1. CommandInv'
  BY CommandStep DEF TypeInv
<1>2. CASE UNCHANGED vars
  <2>1. ClientTyped'
    BY <1>2, ClientSame DEF vars, tcliVars, TypeInv
  <2>2. ProgramTyped'
    BY <1>2 DEF vars, tcliVars, TypeInv, ProgramTyped
  <2>3. QED
    BY <1>1, <2>1, <2>2 DEF TypeInv
<1>3. CASE Next
  BY <1>1, <1>3, ClientTypes, ProgramTypes DEF TypeInv
<1>4. QED
  BY <1>2, <1>3

(* The types hold throughout.                                              *)
LEMMA TypeInvCorrect == Spec => []TypeInv
BY TypeInit, TypeStep, PTL DEF Spec

(* The fields of a read in progress have their types.                      *)
LEMMA ActiveTypes ==
  ASSUME NEW c, ReadTyped(c)
  PROVE  /\ c.active /\ c.to \in Positive /\ c.waited \in 0..(c.to * TicksPerMs)
         /\ c.then \in 0..(TicksPerSec - 1) /\ c.len \in Nat /\ c.el \in Nat
         /\ c.user \in BOOLEAN /\ c.timeout \in Timeouts
<1>1. /\ c.active /\ c.to \in Positive /\ c.then \in 0..(TicksPerSec - 1)
      /\ c.len \in Nat /\ c.el \in Nat /\ c.user \in BOOLEAN /\ c.timeout \in Timeouts
      /\ c.waited \in Nat
  BY DEF ReadTyped, CallType
<1>2. c.to * TicksPerMs \in Nat
  BY <1>1, Numbers DEF Positive
<1>3. c.waited <= c.to * TicksPerMs
  BY DEF ReadTyped
<1>4. c.waited \in 0..(c.to * TicksPerMs)
  BY <1>1, <1>2, <1>3
<1>5. QED
  BY <1>1, <1>4

(* The variables of the program, and those of the client it uses, have     *)
(* their types, whatever the device sends and however long its packets     *)
(* are: no field decoded behind the end of a record is anything but bytes, *)
(* and the buffer of an event is never overrun.                            *)
THEOREM TypeCorrect == Spec => []TypeOK
<1>1. TypeInv => TypeOK
  <2>1. SUFFICES ASSUME TypeInv PROVE TypeOK
    OBVIOUS
  <2>2. ClientTyped /\ ProgramTyped /\ current = 0 /\ numprompts = 0
    BY <2>1 DEF TypeInv, CommandInv, OneCommand
  <2>3. /\ conn \in {"none", "tried", "up", "shut", "reset"}
        /\ wire \in Seq(Byte) /\ Len(wire) <= MaxWire /\ numprompts \in 0..0
        /\ buf \in Seq(Byte) /\ Len(buf) <= UserSize
        /\ stream \in Seq(Byte) /\ found \in BOOLEAN
        /\ fault \in {"none", "null length", "left frame", "null comport"}
    <3>1. conn \in Conns /\ fault \in Faults /\ stream = <<>> /\ found = FALSE
          /\ wire \in Seq(Byte) /\ Len(wire) <= MaxWire
          /\ buf \in Seq(Byte) /\ Len(buf) <= UserSize
      BY <2>2 DEF ClientTyped
    <3>2. stream \in Seq(Byte) /\ numprompts \in 0..0
      BY <2>2, <3>1
    <3>3. found \in BOOLEAN
      BY <3>1
    <3>4. QED
      BY <3>1, <3>2, <3>3 DEF Conns, Faults
  <2>4. saved \in Seq(Byte) /\ Len(saved) <= Len(<<>>) /\ Len(saved) <= Len(Prompt)
    <3>1. Len(Prompt) \in Nat /\ Len(<<>>) = 0 /\ saved = <<>>
      BY <2>2, TcliAssumption DEF ClientTyped
    <3>2. QED
      BY <3>1
  <2>5. ret.rc \in Codes /\ ret.len \in Nat
    BY <2>2 DEF ClientTyped, ReturnType
  <2>6. CASE mode = "netlink"
    <3>1. Codes = NetRead!ReturnCodes \cup {"none"}
      BY DEF Codes, NetRead!ReturnCodes
    <3>2. NetRead!NoCall = NoCall /\ NetRead!TicksPerSec = TicksPerSec
          /\ NetRead!Positive = Positive
      BY DEF NetRead!NoCall, NoCall, NetRead!TicksPerSec, TicksPerSec, NetRead!Positive, Positive
    <3>3. call = NoCall \/ ReadOf(call, mode)
      BY <2>2 DEF ClientTyped
    <3>4. ASSUME ReadOf(call, mode)
          PROVE  /\ call.active /\ call.raw \in {TRUE} /\ call.user \in {TRUE}
                 /\ call.timeout \in {1}
                 /\ call.to \in Positive /\ call.waited \in 0..(call.to * TicksPerMs)
                 /\ call.then \in 0..(TicksPerSec - 1) /\ call.len \in Nat /\ call.el \in Nat
      <4>1. ReadTyped(call) /\ call.raw /\ call.user /\ call.timeout = 1
        BY <2>6, <3>4 DEF ReadOf
      <4>2. call.raw \in BOOLEAN /\ call.user \in BOOLEAN
        BY <4>1 DEF ReadTyped, CallType
      <4>3. QED
        BY <4>1, <4>2, ActiveTypes
    <3>5. NetRead!TypeOK
      BY <2>3, <2>4, <2>5, <3>1, <3>2, <3>3, <3>4 DEF NetRead!TypeOK
    <3>6. QED
      BY <2>2, <3>5, TcliAssumption DEF TypeOK, ProgramTyped, Uplink, Places
  <2>7. CASE mode = "prompt"
    <3>1. Codes = PromptRead!ReturnCodes \cup {"none"}
      BY DEF Codes, PromptRead!ReturnCodes
    <3>2. PromptRead!NoCall = NoCall /\ PromptRead!TicksPerSec = TicksPerSec
          /\ PromptRead!Positive = Positive
      BY DEF PromptRead!NoCall, NoCall, PromptRead!TicksPerSec, TicksPerSec,
             PromptRead!Positive, Positive
    <3>3. call = NoCall \/ ReadOf(call, mode)
      BY <2>2 DEF ClientTyped
    <3>4. ASSUME ReadOf(call, mode)
          PROVE  /\ call.active /\ call.raw \in {FALSE} /\ call.user \in BOOLEAN
                 /\ call.timeout \in {1} \cup ConnectTimos
                 /\ call.to \in Positive /\ call.waited \in 0..(call.to * TicksPerMs)
                 /\ call.then \in 0..(TicksPerSec - 1) /\ call.len \in Nat /\ call.el \in Nat
      <4>1. ReadTyped(call) /\ ~call.raw
        BY <2>7, <3>4 DEF ReadOf
      <4>2. call.raw \in BOOLEAN
        BY <4>1 DEF ReadTyped, CallType
      <4>3. QED
        BY <4>1, <4>2, ActiveTypes DEF Timeouts
    <3>5. PromptRead!TypeOK
      BY <2>3, <2>4, <2>5, <3>1, <3>2, <3>3, <3>4 DEF PromptRead!TypeOK
    <3>6. QED
      BY <2>2, <3>5, TcliAssumption DEF TypeOK, ProgramTyped, Uplink, Places
  <2>8. QED
    BY <2>2, <2>6, <2>7 DEF ProgramTyped
<1>2. QED
  BY <1>1, TypeInvCorrect, PTL

-----------------------------------------------------------------------------
(* Records.  What is on the wire is what comes next in the stream of the   *)
(* device; a read holds the n bytes behind start.                          *)
WireInv ==
  /\ taken + Len(wire) <= Len(DeviceStream)
  /\ \A k \in 1..Len(wire) : wire[k] = DeviceStream[taken + k]

Stored(n) == n <= Len(buf) /\ \A k \in 1..n : buf[k] = DeviceStream[start + k]
Held(n) == n = taken - start /\ n > 0 /\ Stored(n)

ModeInv ==
  /\ mode = "prompt" => ret.len = 0 /\ (call.active => call.len = 0)
  /\ pc \in {"start", "connected", "loop", "process", "turn"} => ~call.active

(* A read begins when there is something to read, so it does not end       *)
(* without it.                                                             *)
EventInv ==
  pc = "event" /\ mode = "netlink" =>
    /\ call.active => Held(call.len) \/ NetRead!Ready
    /\ ~call.active => ret.rc \in {"AF_SOCKET", "AF_ERRNO"} \/ Held(ret.len)

DoneInv ==
  /\ pc \in {"start", "connected", "prompt", "loop", "event"} => place = 0 /\ done = <<>>
  /\ pc = "process" => mode = "netlink"

(* Of a record from packet i + 1 to packet j, k packets are acted on.      *)
ActedOn(i, j, k) ==
  /\ Len(done) = k /\ \A m \in 1..k : done[m] = sent[i + m]
  /\ pc = "process" =>
       k < j - i /\ place = Place(sent, i + k) - start /\ len = taken - Place(sent, i + k)
  /\ pc = "turn" /\ k < j - i =>
       \/ ~Understood(sent[i + k + 1])
       \/ (taken - Place(sent, i + k)) % ByteMod = 0

Aligned(i, j) == i < j /\ Place(sent, i) = start /\ Place(sent, j) = taken

ProcessInv ==
  pc \in {"process", "turn"} /\ len # 0 =>
    /\ Stored(taken - start)
    /\ \A i, j \in 0..Len(sent) : Aligned(i, j) => \E k \in 0..(j - i) : ActedOn(i, j, k)

RecordInv == WireInv /\ ModeInv /\ EventInv /\ DoneInv /\ ProcessInv

-----------------------------------------------------------------------------
(* The stream as it was when a packet is added to it.                      *)
LEMMA StreamNumbers ==
  ASSUME ProgramTyped
  PROVE  /\ sent \in Seq(Packet) /\ Len(sent) \in Nat /\ taken \in Nat /\ start \in 0..taken
         /\ Len(DeviceStream) \in Nat /\ Len(DeviceStream) = Place(sent, Len(sent))
         /\ DeviceStream = Bytes(sent, Len(sent))
BY StreamType DEF ProgramTyped

(* The stream, when nothing is sent.                                       *)
LEMMA StreamSame ==
  ASSUME sent' = sent
  PROVE  /\ DeviceStream' = DeviceStream
         /\ \A i : Place(sent, i)' = Place(sent, i)
         /\ \A i : Place(sent', i) = Place(sent, i)
BY DEF DeviceStream, Place, Bytes

(* The stream, when a packet is sent: longer, and the same up to its old   *)
(* end.                                                                    *)
LEMMA StreamGrows ==
  ASSUME ProgramTyped, DeviceSends
  PROVE  /\ Len(DeviceStream) <= Len(DeviceStream') /\ Len(DeviceStream') \in Nat
         /\ \A k \in 1..Len(DeviceStream) : DeviceStream'[k] = DeviceStream[k]
         /\ Len(sent') = Len(sent) + 1
         /\ \A i \in 1..Len(sent) : sent'[i] = sent[i]
         /\ \A i \in 0..Len(sent) : Place(sent', i) = Place(sent, i)
         /\ Place(sent', Len(sent')) > Len(DeviceStream)
<1>1. PICK p \in DevicePackets : sent' = Append(sent, p)
  BY DEF DeviceSends
<1>2. p \in Packet
  BY TcliAssumption
<1>3. PICK s \in Seq(Packet) : s = sent
  BY StreamNumbers
<1>4. PICK t : t = Append(s, p)
  OBVIOUS
<1>5. /\ t \in Seq(Packet) /\ Len(t) = Len(s) + 1
      /\ \A i \in 1..Len(s) : t[i] = s[i]
      /\ \A i \in 0..Len(s) : Bytes(t, i) = Bytes(s, i)
      /\ Place(t, Len(s) + 1) > Place(s, Len(s))
  BY <1>2, <1>4, BytesAppend
<1>6. sent' = t
  BY <1>1, <1>3, <1>4
<1>7. DeviceStream = Bytes(s, Len(s)) /\ Len(DeviceStream) = Place(s, Len(s))
      /\ Len(s) \in Nat
  BY <1>3, StreamNumbers
<1>8. DeviceStream' = Bytes(t, Len(t))
  BY <1>6 DEF DeviceStream, Bytes
<1>9. /\ Place(t, Len(s)) \in Nat /\ Place(t, Len(t)) \in Nat
      /\ Place(t, Len(s)) <= Place(t, Len(t))
      /\ \A k \in 1..Place(t, Len(s)) : Bytes(t, Len(t))[k] = Bytes(t, Len(s))[k]
  <2>1. Len(s) \in 0..Len(t) /\ Len(t) \in Len(s)..Len(t)
    BY <1>5, <1>7
  <2>2. QED
    BY <1>5, <2>1, BytesGrow
<1>10. \A i \in 0..Len(s) : Place(t, i) = Place(s, i)
  BY <1>5 DEF Place
<1>11. Bytes(t, Len(s)) = Bytes(s, Len(s)) /\ Place(t, Len(s)) = Place(s, Len(s))
  BY <1>5, <1>7, <1>10
<1>12. Len(DeviceStream') = Place(t, Len(t))
  BY <1>8 DEF Place
<1>13. \A k \in 1..Len(DeviceStream) : DeviceStream'[k] = DeviceStream[k]
  BY <1>7, <1>8, <1>9, <1>11
<1>14. QED
  BY <1>3, <1>5, <1>6, <1>7, <1>9, <1>10, <1>11, <1>12, <1>13

(* What was taken stays what it was. *)
LEMMA StoredStays ==
  ASSUME ProgramTyped, WireInv, Len(wire) \in Nat,
         DeviceSends \/ sent' = sent, UNCHANGED <<taken, start, buf>>,
         NEW n \in Nat, n <= taken - start, Stored(n)
  PROVE  Stored(n)'
<1>1. /\ taken \in Nat /\ start \in 0..taken /\ Len(DeviceStream) \in Nat
      /\ taken + Len(wire) <= Len(DeviceStream)
  BY StreamNumbers DEF WireInv
<1>2. \A k \in 1..n : start + k \in 1..Len(DeviceStream)
  BY <1>1
<1>3. \A k \in 1..Len(DeviceStream) : DeviceStream'[k] = DeviceStream[k]
  BY StreamGrows, StreamSame
<1>4. \A k \in 1..n : DeviceStream'[start + k] = DeviceStream[start + k]
  BY <1>2, <1>3
<1>5. QED
  BY <1>4 DEF Stored

-----------------------------------------------------------------------------
(* The lengths that are compared are numbers.                              *)
LEMMA WireNumbers ==
  ASSUME TypeInv
  PROVE  /\ wire \in Seq(Byte) /\ Len(wire) \in Nat /\ Len(buf) \in Nat /\ ret.len \in Nat
         /\ (call.active => call.len \in Nat) /\ UserSize \in Nat /\ UserSize > 0
<1>1. ClientTyped
  BY DEF TypeInv
<1>2. wire \in Seq(Byte) /\ buf \in Seq(Byte) /\ ret.len \in Nat
  BY <1>1 DEF ClientTyped, ReturnType
<1>3. call.active => call.len \in Nat
  BY <1>1, ActiveRead DEF ReadOf, ReadTyped, CallType
<1>4. QED
  BY <1>2, <1>3, Numbers DEF Positive

(* A step of a read, of the stream. *)
LEMMA ReadTakes ==
  ASSUME TypeInv, WireInv, ReadStep
  PROVE  \/ /\ WaitsInVain \/ Fails \/ Loses
            /\ UNCHANGED <<wire, buf, taken, start, sent>>
         \/ \E n \in Nat :
              /\ GoesOn(n) \/ Returns("AF_TIMEOUT", n) \/ Returns("AF_OK", n)
              /\ mode = "netlink" /\ sent' = sent
              /\ n > 0 /\ n <= Len(wire) /\ Len(wire') = Len(wire) - n
              /\ taken' = taken + n /\ start' = taken
              /\ \A k \in 1..Len(wire') : wire'[k] = wire[n + k]
              /\ n <= Len(buf')
              /\ \A k \in 1..n : buf'[k] = DeviceStream[taken + k]
<1>1. ClientTyped /\ taken \in Nat
  BY DEF TypeInv, ProgramTyped
<1>2. /\ taken' = taken + Len(wire) - Len(wire') /\ sent' = sent
      /\ start' = IF taken' = taken THEN start ELSE taken
  BY DEF ReadStep
<1>3. Len(wire) \in Nat
  BY WireNumbers
<1>4. CASE (WaitsInVain \/ Fails \/ Loses) /\ UNCHANGED <<wire, buf>>
  BY <1>1, <1>2, <1>3, <1>4
<1>5. ASSUME mode = "netlink", NEW n \in 1..Len(wire), Receives(n)
      PROVE  /\ GoesOn(n) \/ Returns("AF_TIMEOUT", n) \/ Returns("AF_OK", n)
             /\ n \in Nat /\ n > 0 /\ n <= Len(wire) /\ Len(wire') = Len(wire) - n
             /\ taken' = taken + n /\ start' = taken
             /\ \A k \in 1..Len(wire') : wire'[k] = wire[n + k]
             /\ n <= Len(buf')
             /\ \A k \in 1..n : buf'[k] = DeviceStream[taken + k]
  <2>1. n \in Nat /\ n > 0 /\ n <= Len(wire) /\ Len(wire') = Len(wire) - n
    BY <1>3, <1>5 DEF Receives
  <2>2. taken' = taken + n /\ start' = taken
    BY <1>1, <1>2, <1>3, <2>1
  <2>3. \A k \in 1..n : buf'[k] = wire[k] /\ k \in 1..Len(wire)
    BY <1>3, <1>5, <2>1 DEF Receives
  <2>4. \A k \in 1..n : buf'[k] = DeviceStream[taken + k]
    BY <2>3 DEF WireInv
  <2>5. QED
    BY <1>5, <2>1, <2>2, <2>4 DEF Receives
<1>6. QED
  BY <1>1, <1>2, <1>4, <1>5, ReadSteps DEF StepOfRead

(* Every step keeps the wire the next part of the stream of the device.    *)
LEMMA WireStep ==
  ASSUME TypeInv, WireInv, Next
  PROVE  WireInv'
<1>1. ProgramTyped /\ ClientTyped
  BY DEF TypeInv
<1>2. /\ taken \in Nat /\ Len(DeviceStream) \in Nat /\ Len(wire) \in Nat
      /\ taken + Len(wire) <= Len(DeviceStream)
      /\ \A k \in 1..Len(wire) : wire[k] = DeviceStream[taken + k]
  BY <1>1, StreamNumbers, WireNumbers DEF WireInv
<1>3. CASE UNCHANGED <<taken, sent>> /\ (wire' = wire \/ wire' = <<>>)
  <2>1. DeviceStream' = DeviceStream
    BY <1>3, StreamSame
  <2>2. Len(<<>>) = 0
    OBVIOUS
  <2>3. CASE wire' = wire
    BY <1>2, <1>3, <2>1, <2>3 DEF WireInv
  <2>4. CASE wire' = <<>>
    BY <1>2, <1>3, <2>1, <2>2, <2>4 DEF WireInv
  <2>5. QED
    BY <1>3, <2>3, <2>4
<1>4. CASE DeviceSends
  <2>1. UNCHANGED <<taken, wire>>
    BY <1>4 DEF DeviceSends, clientVars
  <2>2. /\ Len(DeviceStream) <= Len(DeviceStream') /\ Len(DeviceStream') \in Nat
        /\ \A k \in 1..Len(DeviceStream) : DeviceStream'[k] = DeviceStream[k]
    BY <1>1, <1>4, StreamGrows
  <2>3. \A k \in 1..Len(wire) : taken + k \in 1..Len(DeviceStream)
    BY <1>2
  <2>4. taken' + Len(wire') <= Len(DeviceStream')
    BY <1>2, <2>1, <2>2
  <2>5. QED
    BY <1>2, <2>1, <2>2, <2>3, <2>4 DEF WireInv
<1>5. CASE Deliver
  <2>1. UNCHANGED <<taken, sent>>
    BY <1>5 DEF Deliver, tcliVars
  <2>2. /\ taken + Len(wire') <= Len(DeviceStream)
        /\ \A k \in 1..Len(wire') :
              wire'[k] = IF k <= Len(wire) THEN wire[k] ELSE DeviceStream[taken + k]
    BY <1>1, <1>5, WireNumbers, Delivered DEF ProgramTyped
  <2>3. Len(wire') \in Nat
    BY <1>1, <1>5, WireNumbers, Delivered DEF ProgramTyped
  <2>4. \A k \in 1..Len(wire') : wire'[k] = DeviceStream[taken + k]
    BY <1>2, <2>2, <2>3
  <2>5. QED
    BY <2>1, <2>2, <2>4, StreamSame DEF WireInv
<1>6. CASE ReadStep
  <2>1. CASE UNCHANGED <<wire, taken, sent>>
    BY <1>3, <2>1
  <2>2. ASSUME NEW n \in Nat, sent' = sent, n <= Len(wire), Len(wire') = Len(wire) - n,
               taken' = taken + n,
               \A k \in 1..Len(wire') : wire'[k] = wire[n + k]
        PROVE  WireInv'
    <3>1. taken' + Len(wire') <= Len(DeviceStream)
      BY <1>2, <2>2
    <3>2. ASSUME NEW k \in 1..Len(wire') PROVE wire'[k] = DeviceStream[taken' + k]
      <4>1. n + k \in 1..Len(wire) /\ taken + (n + k) = taken' + k
        BY <1>2, <2>2
      <4>2. wire[n + k] = DeviceStream[taken + (n + k)]
        BY <1>2, <4>1
      <4>3. QED
        BY <2>2, <4>1, <4>2
    <3>3. QED
      BY <2>2, <3>1, <3>2, StreamSame DEF WireInv
  <2>3. QED
    BY <1>6, <2>1, <2>2, ReadTakes
<1>7. CASE DeviceCloses
  <2>1. wire' = wire \/ wire' = <<>>
    BY <1>7 DEF DeviceCloses, NetRead!PeerCloses
  <2>2. QED
    BY <1>3, <1>7, <2>1 DEF DeviceCloses, tcliVars
<1>8. CASE Connect
  <2>1. wire' = <<>>
    BY <1>8 DEF Connect, NetRead!af_client_connect
  <2>2. QED
    BY <1>3, <1>8, <2>1 DEF Connect
<1>9. CASE af_client_get_prompt
  BY <1>3, <1>9 DEF af_client_get_prompt, PromptRead!ReadBegin
<1>10. CASE Event
  BY <1>3, <1>10 DEF Event, NetRead!ReadBegin, PromptRead!ReadBegin
<1>11. CASE Tick
  BY <1>3, <1>11 DEF Tick, NetRead!Tick, tcliVars
<1>12. CASE Signal
  BY <1>3, <1>12 DEF Signal, NetRead!PollError, clientVars
<1>13. CASE \/ send_NetLink_login \/ PromptResult \/ EventResult \/ DropRecord
            \/ HandlePacket \/ MainLoopTurn
  BY <1>3, <1>13 DEF send_NetLink_login, PromptResult, EventResult, DropRecord,
                     HandlePacket, MainLoopTurn, clientVars
<1>14. QED
  BY <1>4, <1>5, <1>6, <1>7, <1>8, <1>9, <1>10, <1>11, <1>12, <1>13 DEF Next, Program

-----------------------------------------------------------------------------
(* Every step keeps the reads of the two modes apart.                      *)
LEMMA ModeStep ==
  ASSUME TypeInv, WireInv, ModeInv, Next
  PROVE  ModeInv'
<1>1. ClientTyped /\ mode \in {"netlink", "prompt"}
  BY DEF TypeInv, ProgramTyped
<1>2. CASE UNCHANGED <<call, ret, mode>> /\ (~call.active \/ pc' \in {pc, "aborted"})
  BY <1>2 DEF ModeInv
<1>3. CASE DeviceSends \/ Deliver \/ DeviceCloses
  BY <1>2, <1>3 DEF DeviceSends, Deliver, DeviceCloses, NetRead!PeerCloses, tcliVars, clientVars
<1>4. CASE Connect
  BY <1>2, <1>4 DEF Connect, NetRead!af_client_connect, NetRead!AtRest
<1>5. CASE send_NetLink_login
  BY <1>2, <1>5 DEF send_NetLink_login, clientVars, ModeInv
<1>6. CASE PromptResult
  BY <1>2, <1>6 DEF PromptResult, clientVars
<1>7. CASE EventResult
  BY <1>2, <1>7 DEF EventResult, clientVars
<1>8. CASE DropRecord \/ HandlePacket \/ MainLoopTurn
  <2>1. ~call.active
    BY <1>8 DEF DropRecord, HandlePacket, MainLoopTurn, MayTurn, Processing, ModeInv
  <2>2. QED
    BY <1>2, <1>8, <2>1 DEF DropRecord, HandlePacket, MainLoopTurn, clientVars
<1>9. CASE af_client_get_prompt
  <2>1. PICK timo \in ConnectTimos : PromptRead!ReadBegin(FALSE, FALSE, timo)
    BY <1>9 DEF af_client_get_prompt
  <2>2. mode = "prompt" /\ mode' = mode /\ timo \in Timeouts /\ pc' = "prompt"
    BY <1>9 DEF af_client_get_prompt, Timeouts
  <2>3. Begins(0)
    BY <1>1, <2>1, <2>2, PromptBeginTypes
  <2>4. QED
    BY <2>2, <2>3 DEF Begins, ModeInv
<1>10. CASE Event
  <2>1. mode' = mode /\ pc' = "event"
    BY <1>10 DEF Event
  <2>2. CASE mode = "netlink"
    BY <2>1, <2>2 DEF ModeInv
  <2>3. CASE mode = "prompt" /\ PromptRead!ReadBegin(FALSE, TRUE, 1)
    <3>1. 1 \in Timeouts
      BY DEF Timeouts
    <3>2. Begins(0)
      BY <1>1, <2>1, <2>3, <3>1, PromptBeginTypes
    <3>3. QED
      BY <2>1, <3>2 DEF Begins, ModeInv
  <2>4. QED
    BY <1>10, <2>2, <2>3 DEF Event
<1>11. CASE ReadStep
  <2>1. mode' = mode /\ pc' = pc /\ call.active
    BY <1>11 DEF ReadStep, Reading
  <2>2. pc \notin {"start", "connected", "loop", "process", "turn"}
    BY <2>1 DEF ModeInv
  <2>3. CASE mode = "netlink"
    BY <2>1, <2>2, <2>3 DEF ModeInv
  <2>4. CASE mode = "prompt"
    <3>1. WaitsInVain \/ Fails \/ Loses
      BY <1>11, <2>4, ReadTakes
    <3>2. call.len = 0 /\ ret.len = 0
      BY <2>1, <2>4 DEF ModeInv
    <3>3. ret'.len = 0 /\ (call'.active => call'.len = 0)
      BY <3>1, <3>2 DEF WaitsInVain, Fails, Loses, GoesOn, Returns, NoCall
    <3>4. QED
      BY <2>1, <2>2, <3>3 DEF ModeInv
  <2>5. QED
    BY <1>1, <2>3, <2>4
<1>12. CASE Tick
  <2>1. call'.active /\ call'.len = call.len /\ ret' = ret /\ mode' = mode /\ pc' = pc
        /\ call.active
    BY <1>1, <1>12, TickTypes DEF Tick, Reading, tcliVars
  <2>2. QED
    BY <2>1 DEF ModeInv
<1>13. CASE Signal
  <2>1. mode' = mode /\ pc' \in {pc, "aborted"} /\ (UNCHANGED clientVars \/ NetRead!PollError)
    BY <1>13 DEF Signal
  <2>2. CASE UNCHANGED clientVars
    BY <1>2, <2>1, <2>2 DEF clientVars
  <2>3. CASE NetRead!PollError
    <3>1. Returns("AF_ERRNO", call.len) /\ call.active
      BY <1>1, <2>1, <2>3, PollErrorTypes
    <3>2. QED
      BY <2>1, <3>1 DEF Returns, NoCall, ModeInv
  <2>4. QED
    BY <2>1, <2>2, <2>3
<1>14. QED
  BY <1>3, <1>4, <1>5, <1>6, <1>7, <1>8, <1>9, <1>10, <1>11, <1>12, <1>13 DEF Next, Program

(* Every step clears the packets acted on before the next record is read.  *)
LEMMA DoneStep ==
  ASSUME ModeInv, DoneInv, EventInv, Next
  PROVE  DoneInv'
<1>1. CASE UNCHANGED <<place, done, mode>> /\ pc' \in {pc, "aborted", "turn", "exit 1"}
  BY <1>1 DEF DoneInv
<1>2. CASE DeviceSends \/ Deliver \/ DeviceCloses \/ Tick \/ ReadStep \/ Signal \/ DropRecord
  BY <1>1, <1>2 DEF DeviceSends, Deliver, DeviceCloses, Tick, ReadStep, Signal, DropRecord,
                    tcliVars
<1>3. CASE Connect \/ send_NetLink_login \/ af_client_get_prompt \/ PromptResult \/ Event
  BY <1>3 DEF Connect, send_NetLink_login, af_client_get_prompt, PromptResult, Event, DoneInv
<1>4. CASE EventResult
  BY <1>4 DEF EventResult, DoneInv
<1>5. CASE HandlePacket
  BY <1>5 DEF HandlePacket, DoneInv, Processing
<1>6. CASE MainLoopTurn
  BY <1>6 DEF MainLoopTurn, DoneInv
<1>7. QED
  BY <1>2, <1>3, <1>4, <1>5, <1>6 DEF Next, Program

-----------------------------------------------------------------------------
(* The bytes of a record stay in the buffer while the device sends more.   *)
LEMMA HeldStays ==
  ASSUME TypeInv, WireInv, DeviceSends \/ sent' = sent, UNCHANGED <<taken, start, buf>>,
         NEW n, Held(n)
  PROVE  Held(n)'
<1>1. ProgramTyped /\ Len(wire) \in Nat
  BY WireNumbers DEF TypeInv
<1>2. taken \in Nat /\ start \in 0..taken
  BY <1>1 DEF ProgramTyped
<1>3. n \in Nat /\ n <= taken - start /\ Stored(n)
  BY <1>2 DEF Held
<1>4. Stored(n)'
  BY <1>1, <1>3, StoredStays
<1>5. QED
  BY <1>4 DEF Held

(* A read goes on or returns with the length it has counted.               *)
LEMMA ReadLength ==
  ASSUME NEW n, GoesOn(n) \/ Returns("AF_TIMEOUT", n) \/ Returns("AF_OK", n)
  PROVE  (call'.active => call'.len = n) /\ (~call'.active => ret'.len = n)
<1>1. CASE GoesOn(n)
  <2>1. call' \in CallType /\ call'.len = n
    BY <1>1 DEF GoesOn, ReadOf, ReadTyped
  <2>2. call'.active = TRUE
    BY <2>1 DEF CallType
  <2>3. QED
    BY <2>1, <2>2
<1>2. CASE Returns("AF_TIMEOUT", n) \/ Returns("AF_OK", n)
  <2>1. call' = [active |-> FALSE] /\ ret'.len = n
    BY <1>2 DEF Returns, NoCall
  <2>2. ~call'.active
    BY <2>1
  <2>3. QED
    BY <2>1, <2>2
<1>3. QED
  BY <1>1, <1>2

(* Every step keeps the read of an event the bytes behind start, or        *)
(* without any.                                                            *)
LEMMA EventStep ==
  ASSUME TypeInv, WireInv, ModeInv, EventInv, Next
  PROVE  EventInv'
<1> SUFFICES ASSUME pc' = "event", mode' = "netlink"
             PROVE  /\ call'.active => Held(call.len)' \/ NetRead!Ready'
                    /\ ~call'.active => ret'.rc \in {"AF_SOCKET", "AF_ERRNO"} \/ Held(ret.len)'
  BY DEF EventInv
<1>1. ClientTyped
  BY DEF TypeInv
<1>2. CASE Event
  <2>1. mode = "netlink" /\ NetRead!ReadBegin(TRUE, TRUE, 1) /\ NetRead!Ready /\ mode' = mode
    BY <1>2 DEF Event
  <2>2. Begins(UserSize)
    BY <1>1, <2>1, NetBeginTypes
  <2>3. QED
    BY <2>1, <2>2 DEF Begins, NetRead!Ready
<1>3. CASE pc = "event"
  <2>1. mode = "netlink"
    BY <1>3 DEF Next, Program, DeviceSends, Deliver, DeviceCloses, Connect,
                send_NetLink_login, af_client_get_prompt, PromptResult, ReadStep, Event,
                EventResult, DropRecord, HandlePacket, MainLoopTurn, Tick, Signal, tcliVars
  <2>2. /\ call.active => Held(call.len) \/ NetRead!Ready
        /\ ~call.active => ret.rc \in {"AF_SOCKET", "AF_ERRNO"} \/ Held(ret.len)
    BY <1>3, <2>1 DEF EventInv
  <2>3. CASE /\ DeviceSends \/ sent' = sent
             /\ UNCHANGED <<taken, start, buf, ret>> /\ call'.active = call.active
             /\ call.active => call'.len = call.len
             /\ NetRead!Ready => NetRead!Ready'
    <3>1. \A n : Held(n) => (n = taken' - start' /\ n > 0 /\ Stored(n)')
      BY <2>3, HeldStays DEF Held
    <3>2. CASE call.active
      <4>1. Held(call.len) => Held(call.len)'
        <5>1. call'.len = call.len
          BY <2>3, <3>2
        <5>2. QED
          BY <3>1, <5>1 DEF Held, Stored
      <4>2. QED
        BY <2>2, <2>3, <3>2, <4>1
    <3>3. CASE ~call.active
      <4>1. Held(ret.len) => Held(ret.len)'
        BY <2>3, <3>1 DEF Held, Stored
      <4>2. QED
        BY <2>2, <2>3, <3>3, <4>1
    <3>4. QED
      BY <3>2, <3>3
  <2>4. CASE DeviceSends
    BY <2>3, <2>4 DEF DeviceSends, clientVars, NetRead!Ready
  <2>5. CASE Deliver
    <3>1. UNCHANGED <<conn, call, buf, ret, taken, start, sent>>
      BY <2>5 DEF Deliver, tcliVars
    <3>2. wire # <<>> => wire' # <<>>
      <4>1. sent \in Seq(DevicePackets) /\ taken \in Nat /\ wire \in Seq(Byte)
        BY DEF TypeInv, ClientTyped, ProgramTyped
      <4>2. wire' \in Seq(Byte) /\ Len(wire) <= Len(wire')
        BY <2>5, <4>1, Delivered
      <4>3. QED
        BY <4>1, <4>2
    <3>3. QED
      BY <2>3, <3>1, <3>2 DEF NetRead!Ready
  <2>6. CASE DeviceCloses
    <3>1. UNCHANGED <<call, buf, ret, taken, start, sent>> /\ conn' \in {"shut", "reset"}
      BY <2>6 DEF DeviceCloses, NetRead!PeerCloses, tcliVars
    <3>2. QED
      BY <2>3, <3>1 DEF NetRead!Ready
  <2>7. CASE Tick
    <3>1. UNCHANGED <<taken, start, sent>> /\ mode' = mode /\ call.active
      BY <2>7 DEF Tick, Reading, tcliVars
    <3>2. call'.active /\ call'.len = call.len /\ UNCHANGED <<conn, wire, buf, ret>>
      BY <1>1, <2>7, <3>1, TickTypes DEF Tick
    <3>3. QED
      BY <2>3, <3>1, <3>2 DEF NetRead!Ready
  <2>8. CASE Signal
    <3>1. UNCHANGED <<taken, start, sent, mode>> /\ (UNCHANGED clientVars \/ NetRead!PollError)
      BY <2>8 DEF Signal
    <3>2. CASE UNCHANGED clientVars
      BY <2>3, <3>1, <3>2 DEF clientVars, NetRead!Ready
    <3>3. CASE NetRead!PollError
      <4>1. Returns("AF_ERRNO", call.len)
        BY <1>1, <3>1, <3>3, PollErrorTypes
      <4>2. QED
        BY <4>1 DEF Returns, NoCall
    <3>4. QED
      BY <3>1, <3>2, <3>3
  <2>9. CASE ReadStep
    <3>0. call.active /\ call.len \in Nat
      BY <2>9, WireNumbers DEF ReadStep, Reading
    <3>1. CASE WaitsInVain /\ UNCHANGED <<wire, buf, taken, start, sent>>
      <4>1. Held(call.len)
        BY <2>2, <3>0, <3>1 DEF WaitsInVain
      <4>2. PICK n \in Nat : n = call.len
        BY <3>0
      <4>3. Held(n)'
        BY <3>1, <4>1, <4>2, HeldStays
      <4>4. GoesOn(n) \/ Returns("AF_TIMEOUT", n) \/ Returns("AF_OK", n)
        BY <3>1, <4>2 DEF WaitsInVain
      <4>5. (call'.active => call'.len = n) /\ (~call'.active => ret'.len = n)
        BY <4>4, ReadLength
      <4>6. QED
        BY <4>3, <4>5 DEF Held, Stored
    <3>2. CASE Fails /\ UNCHANGED <<wire, buf, taken, start, sent>>
      <4>1. conn' = conn
        BY <1>1, <2>9, ReadSteps
      <4>2. QED
        BY <2>3, <3>2, <4>1 DEF Fails, NetRead!Ready
    <3>3. CASE Loses
      BY <3>3 DEF Loses, Returns, NoCall
    <3>4. ASSUME NEW n \in Nat,
                 GoesOn(n) \/ Returns("AF_TIMEOUT", n) \/ Returns("AF_OK", n),
                 sent' = sent, n > 0, taken' = taken + n, start' = taken, n <= Len(buf'),
                 \A k \in 1..n : buf'[k] = DeviceStream[taken + k]
          PROVE  /\ call'.active => Held(call.len)'
                 /\ ~call'.active => Held(ret.len)'
      <4>1. taken \in Nat
        BY DEF TypeInv, ProgramTyped
      <4>2. n = taken' - start'
        BY <3>4, <4>1
      <4>3. \A k \in 1..n : buf'[k] = DeviceStream'[start' + k]
        BY <3>4, StreamSame
      <4>4. (call'.active => call'.len = n) /\ (~call'.active => ret'.len = n)
        BY <3>4, ReadLength
      <4>5. QED
        BY <3>4, <4>2, <4>3, <4>4 DEF Held, Stored
    <3>5. QED
      BY <2>9, <3>1, <3>2, <3>3, <3>4, ReadTakes
  <2>10. CASE \/ Connect \/ send_NetLink_login \/ af_client_get_prompt \/ PromptResult
              \/ Event \/ EventResult \/ DropRecord \/ HandlePacket \/ MainLoopTurn
    BY <1>3, <2>10 DEF Connect, send_NetLink_login, af_client_get_prompt, PromptResult,
                       Event, EventResult, DropRecord, HandlePacket, MainLoopTurn,
                       MayTurn, Processing
  <2>11. QED
    BY <2>4, <2>5, <2>6, <2>7, <2>8, <2>9, <2>10 DEF Next, Program
<1>4. pc = "event" \/ Event
  BY DEF Next, Program, DeviceSends, Deliver, DeviceCloses, Connect,
         send_NetLink_login, af_client_get_prompt, PromptResult, ReadStep, Event,
         EventResult, DropRecord, HandlePacket, MainLoopTurn, Processing, Tick, Signal, tcliVars
<1>5. QED
  BY <1>2, <1>3, <1>4

-----------------------------------------------------------------------------
(* What is decoded of a record that begins and ends where packets do is    *)
(* the packet of the device that is next.                                  *)
LEMMA RecordPacket ==
  ASSUME TypeInv, Stored(taken - start), \A p \in DevicePackets : Fits(p), pc = "process",
         NEW i \in 0..Len(sent), NEW j \in 0..Len(sent), Aligned(i, j),
         NEW k \in 0..(j - i), ActedOn(i, j, k)
  PROVE  \E q \in Packet, n \in Nat :
           /\ q = sent[i + (k + 1)] /\ n = Len(q.data) /\ n + 3 < ByteMod
           /\ Place(sent, i + k) \in Nat /\ k < j - i
           /\ Place(sent, i + (k + 1)) = Place(sent, i + k) + (n + 7)
           /\ Place(sent, i + (k + 1)) <= taken
           /\ ~Bad(Memory, place, len)
           /\ Decoded(Memory, place) = q
           /\ NextPlace(Memory, place) = place + (n + 7)
           /\ More(Memory, place, len) <=> n + 3 # (len - 4) % ByteMod
           /\ Rejected(Memory, place) => ~Understood(q)
<1>1. ClientTyped /\ ProgramTyped
  BY DEF TypeInv
<1>2. PICK s \in Seq(Packet), l \in Nat : s = sent /\ l = Len(s) /\ DeviceStream = Bytes(s, l)
  BY <1>1, StreamNumbers
<1>3. /\ taken \in Nat /\ start \in 0..taken /\ place \in Nat
      /\ i \in Nat /\ j \in Nat /\ j <= l /\ k \in Nat
  BY <1>1, <1>2, StreamNumbers DEF ProgramTyped
<1>4. /\ k < j - i /\ place = Place(s, i + k) - start /\ len = taken - Place(s, i + k)
      /\ Place(s, i) = start /\ Place(s, j) = taken
  BY <1>2 DEF ActedOn, Aligned
<1>5. PICK a \in Nat : a = i + k /\ a < j /\ a < l /\ a + 1 = i + (k + 1)
  BY <1>3, <1>4
<1>6. /\ a + 1 \in 1..l /\ s[a + 1] \in Packet
      /\ Len(s[a + 1].data) \in Nat /\ Place(s, a) \in Nat
      /\ Place(s, a + 1) = Place(s, a) + (Len(s[a + 1].data) + 7)
      /\ \A m \in 1..(Len(s[a + 1].data) + 7) :
           Bytes(s, l)[Place(s, a) + m] = Encode(s[a + 1])[m]
  <2>1. l \in 0..Len(s)
    BY <1>2
  <2>2. /\ a + 1 \in 1..Len(s) /\ s[a + 1] \in Packet
        /\ Len(s[a + 1].data) \in Nat /\ Place(s, a) \in Nat
        /\ Place(s, a + 1) = Place(s, a) + (Len(s[a + 1].data) + 7)
        /\ \A m \in 1..(Len(s[a + 1].data) + 7) :
             Bytes(s, l)[Place(s, a) + m] = Encode(s[a + 1])[m]
    BY <1>5, <2>1, BytesAt
  <2>3. QED
    BY <1>2, <2>2, Zenon
<1>7. Place(s, a + 1) <= Place(s, j)
  <2>1. j \in 0..Len(s)
    BY <1>2, <1>3
  <2>2. QED
    BY <1>5, <2>1, BytesAt
<1>8. PICK q \in Packet, n \in Nat : q = s[a + 1] /\ n = Len(q.data)
  BY <1>6
<1>9. Fits(q) /\ n + 3 < ByteMod
  <2>1. q \in DevicePackets
    BY <1>1, <1>2, <1>6, <1>8 DEF ProgramTyped
  <2>2. QED
    BY <1>8, <2>1 DEF Fits
<1>10. PICK x \in Nat : /\ x = Place(s, a) /\ Place(s, a + 1) = x + (n + 7)
                        /\ x + (n + 7) <= taken /\ place = x - start /\ len = taken - x
  <2>1. place = Place(s, a) - start /\ len = taken - Place(s, a)
    BY <1>4, <1>5
  <2>2. Place(s, a + 1) = Place(s, a) + (n + 7) /\ Place(s, a + 1) <= taken
    BY <1>4, <1>6, <1>7, <1>8
  <2>3. QED
    BY <1>6, <2>1, <2>2
<1>19. /\ taken - x \in Nat /\ taken - x >= n + 7
       /\ \A m \in 0..(n + 6) :
            /\ (x - start) + m + 1 \in 1..(taken - start)
            /\ start + ((x - start) + m + 1) = x + (m + 1)
  <2>1. PICK t \in Nat, b \in Nat : t = taken /\ b = start /\ b \in 0..t
    BY <1>3
  <2>2. x + (n + 7) <= t /\ x - b \in Nat
    BY <1>3, <1>10, <2>1
  <2>3. /\ t - x \in Nat /\ t - x >= n + 7
        /\ \A m \in 0..(n + 6) :
             /\ (x - b) + m + 1 \in 1..(t - b)
             /\ b + ((x - b) + m + 1) = x + (m + 1)
    <3>1. t - x \in Nat /\ t - x >= n + 7
      BY <1>8, <2>2
    <3>2. ASSUME NEW m \in 0..(n + 6)
          PROVE  /\ (x - b) + m + 1 \in 1..(t - b)
                 /\ b + ((x - b) + m + 1) = x + (m + 1)
      BY <1>8, <2>2, <3>2
    <3>3. QED
      BY <3>1, <3>2
  <2>4. QED
    BY <2>1, <2>3, Zenon
<1>18. len \in Int /\ ~TooShort(len)
  <2>1. PICK d \in Nat : d = taken - x /\ d >= n + 7
    BY <1>3, <1>8, <1>19
  <2>2. ~TooShort(d)
    BY <1>8, <2>1 DEF TooShort
  <2>3. len = d
    BY <1>10, <2>1
  <2>4. QED
    BY <2>2, <2>3
<1>11. Holds(Memory, place, q)
  <2>1. PICK mem \in Seq(Byte) : mem = Memory /\ Len(buf) <= Len(mem)
          /\ \A m \in 1..Len(buf) : mem[m] = buf[m]
    BY <1>1, MemoryType DEF ClientTyped, ProgramTyped
  <2>2. taken - start <= Len(buf) /\ \A m \in 1..(taken - start) : buf[m] = DeviceStream[start + m]
    BY DEF Stored
  <2>3. Len(buf) \in Nat /\ Len(mem) \in Nat
    BY <1>1 DEF ClientTyped
  <2>4. ASSUME NEW m \in 0..(n + 6) PROVE At(mem, place + m) = Encode(q)[m + 1]
    <3>1. PICK d \in 1..(taken - start) : d = place + m + 1 /\ start + d = Place(s, a) + (m + 1)
      <4>1. place + m + 1 \in 1..(taken - start)
        BY <1>10, <1>19
      <4>2. start + (place + m + 1) = Place(s, a) + (m + 1)
        BY <1>10, <1>19
      <4>3. QED
        BY <4>1, <4>2
    <3>2. d \in 1..Len(buf) /\ d \in 1..Len(mem)
      BY <1>3, <2>1, <2>2, <2>3
    <3>3. mem[d] = Bytes(s, l)[Place(s, a) + (m + 1)]
      BY <1>2, <2>1, <2>2, <3>1, <3>2
    <3>4. m + 1 \in 1..(n + 7)
      OBVIOUS
    <3>5. mem[d] = Encode(q)[m + 1]
      BY <1>6, <1>8, <3>3, <3>4
    <3>6. QED
      BY <3>1, <3>2, <3>5 DEF At
  <2>5. QED
    BY <1>8, <2>1, <2>4 DEF Holds
<1>12. /\ ~Bad(Memory, place, len)
       /\ Decoded(Memory, place) = q
       /\ NextPlace(Memory, place) = place + (n + 7)
       /\ At(Memory, place + 1) = n + 3 /\ At(Memory, place + 3) = q.command
       /\ q.data # <<>> => Envelope(Memory, place) = Head(q.data)
  <2>1. PICK at \in Nat, length \in Int : at = place /\ length = len
    BY <1>3, <1>18
  <2>2. ~TooShort(length) /\ Holds(Memory, at, q)
    BY <1>11, <1>18, <2>1
  <2>3. n = Len(q.data) /\ Fits(q)
    BY <1>8, <1>9
  <2>4. /\ ~Bad(Memory, at, length)
        /\ Decoded(Memory, at) = q
        /\ NextPlace(Memory, at) = at + (n + 7)
        /\ At(Memory, at + 1) = n + 3 /\ At(Memory, at + 3) = q.command
        /\ q.data # <<>> => Envelope(Memory, at) = Head(q.data)
    BY <2>2, <2>3, PacketAt
  <2>5. QED
    BY <2>1, <2>4, Zenon
<1>13. More(Memory, place, len) <=> n + 3 # (len - 4) % ByteMod
  BY <1>12 DEF More
<1>14. Rejected(Memory, place) => ~Understood(q)
  BY <1>12 DEF Rejected, Understood
<1>15. Place(s, a + 1) <= taken
  BY <1>4, <1>7
<1>16. /\ q = sent[i + (k + 1)]
       /\ Place(sent, i + k) \in Nat
       /\ Place(sent, i + (k + 1)) = Place(sent, i + k) + (n + 7)
       /\ Place(sent, i + (k + 1)) <= taken
  BY <1>2, <1>5, <1>6, <1>8, <1>15
<1>17. QED
  BY <1>4, <1>8, <1>9, <1>12, <1>13, <1>14, <1>16

(* The packets of the record keep their places.                            *)
LEMMA ActedStays ==
  ASSUME sent' = sent, UNCHANGED <<taken, start, place, len, done>>, pc' = pc,
         NEW i, NEW j, NEW k, ActedOn(i, j, k)
  PROVE  ActedOn(i, j, k)'
<1>1. \A m : Place(sent, m)' = Place(sent, m)
  BY StreamSame
<1>2. \A m : sent'[m] = sent[m]
  OBVIOUS
<1>3. QED
  BY <1>1, <1>2 DEF ActedOn

(* The rest of the record behind a packet whose length byte agrees with    *)
(* the length of the record.                                               *)
LEMMA LengthsAgree ==
  ASSUME NEW l \in Nat, NEW n \in Nat, NEW b \in Nat, b > 0, l >= n + 7,
         n + 3 = (l - 4) % b
  PROVE  (l - (n + 7)) % b = 0
<1>1. PICK a \in Nat : a = l - 4
  OBVIOUS
<1>2. n + 3 = a % b /\ l - (n + 7) = a - (n + 3)
  BY <1>1
<1>3. (a - (a % b)) % b = 0
  OBVIOUS
<1>4. QED
  BY <1>2, <1>3

(* A packet more of the record.                                            *)
LEMMA HandleStep ==
  ASSUME TypeInv, RecordInv, \A p \in DevicePackets : Fits(p), HandlePacket
  PROVE  ProcessInv'
<1>1. /\ taken \in Nat /\ start \in 0..taken /\ len \in Int /\ place \in Nat
      /\ sent \in Seq(Packet) /\ Len(sent) \in Nat /\ done \in Seq(Packet)
  BY StreamNumbers DEF TypeInv, ProgramTyped
<1>2. /\ pc = "process" /\ ~Bad(Memory, place, len) /\ ~Rejected(Memory, place)
      /\ done' = Append(done, Decoded(Memory, place))
      /\ UNCHANGED <<sent, taken, start, buf>>
  BY DEF HandlePacket, Processing, clientVars
<1>3. \/ /\ More(Memory, place, len)
         /\ place' = NextPlace(Memory, place)
         /\ len' = len - (place' - place)
         /\ pc' = pc
      \/ /\ ~More(Memory, place, len)
         /\ pc' = "turn" /\ UNCHANGED <<place, len>>
  BY DEF HandlePacket
<1>4. len # 0
  BY <1>2 DEF Bad, TooShort
<1>5. /\ Stored(taken - start)
      /\ \A i, j \in 0..Len(sent) : Aligned(i, j) => \E k \in 0..(j - i) : ActedOn(i, j, k)
  BY <1>2, <1>4 DEF RecordInv, ProcessInv
<1>6. Stored(taken - start)'
  BY <1>2, <1>5, StreamSame DEF Stored
<1>7. \A m : Place(sent, m)' = Place(sent, m)
  BY <1>2, StreamSame
<1>8. ASSUME NEW i \in 0..Len(sent), NEW j \in 0..Len(sent), Aligned(i, j)'
      PROVE  \E k \in 0..(j - i) : ActedOn(i, j, k)'
  <2>1. Aligned(i, j)
    BY <1>2, <1>7, <1>8 DEF Aligned
  <2>2. PICK k \in 0..(j - i) : ActedOn(i, j, k)
    BY <1>5, <2>1
  <2>3. PICK q \in Packet, n \in Nat :
           /\ q = sent[i + (k + 1)] /\ n = Len(q.data) /\ n + 3 < ByteMod
           /\ Place(sent, i + k) \in Nat /\ k < j - i
           /\ Place(sent, i + (k + 1)) = Place(sent, i + k) + (n + 7)
           /\ Place(sent, i + (k + 1)) <= taken
           /\ ~Bad(Memory, place, len)
           /\ Decoded(Memory, place) = q
           /\ NextPlace(Memory, place) = place + (n + 7)
           /\ More(Memory, place, len) <=> n + 3 # (len - 4) % ByteMod
           /\ Rejected(Memory, place) => ~Understood(q)
    BY <1>2, <1>5, <2>1, <2>2, RecordPacket
  <2>4. PICK c \in 0..(j - i) : c = k + 1 /\ c \in Nat
    BY <1>1, <2>3
  <2>5. /\ place = Place(sent, i + k) - start /\ len = taken - Place(sent, i + k)
        /\ Len(done) = k /\ \A m \in 1..k : done[m] = sent[i + m]
    BY <1>2, <2>2 DEF ActedOn
  <2>6. Len(done') = c /\ \A m \in 1..c : done'[m] = sent'[i + m]
    <3>1. PICK d \in Seq(Packet) : d = done
      BY <1>1
    <3>2. PICK e : e = Append(d, q)
      OBVIOUS
    <3>3. Len(e) = Len(d) + 1 /\ e[Len(d) + 1] = q /\ \A m \in 1..Len(d) : e[m] = d[m]
      BY <3>1, <3>2
    <3>4. Len(e) = c
      BY <2>4, <2>5, <3>1, <3>3
    <3>5. ASSUME NEW m \in 1..c PROVE e[m] = sent[i + m]
      <4>1. CASE m = c
        BY <2>3, <2>4, <2>5, <3>1, <3>3, <4>1
      <4>2. CASE m # c
        <5>1. m \in 1..k
          BY <2>4, <4>2
        <5>2. QED
          BY <2>5, <3>1, <3>3, <5>1
      <4>3. QED
        BY <4>1, <4>2
    <3>6. done' = e
      BY <1>2, <2>3, <3>1, <3>2
    <3>7. QED
      BY <1>2, <3>4, <3>5, <3>6
  <2>7. Place(sent, j) = taken
    BY <2>1 DEF Aligned
  <2>11. PICK x \in Nat : /\ x = Place(sent, i + k) /\ Place(sent, i + c) = x + (n + 7)
                          /\ x + (n + 7) <= taken /\ place = x - start /\ len = taken - x
    BY <2>3, <2>4, <2>5
  <2>12. /\ taken - x \in Nat /\ taken - x >= n + 7
         /\ taken - (x + (n + 7)) = (taken - x) - (n + 7)
         /\ (x - start) + (n + 7) = (x + (n + 7)) - start
    <3>1. PICK t \in Nat, b \in Nat : t = taken /\ b = start /\ b \in 0..t
      BY <1>1
    <3>2. x + (n + 7) <= t /\ x - b \in Nat
      BY <1>1, <2>11, <3>1
    <3>3. /\ t - x \in Nat /\ t - x >= n + 7
          /\ t - (x + (n + 7)) = (t - x) - (n + 7)
          /\ (x - b) + (n + 7) = (x + (n + 7)) - b
      BY <2>3, <3>2
    <3>4. QED
      BY <3>1, <3>3, Zenon
  <2>8. CASE More(Memory, place, len) /\ pc' = pc
    <3>1. place' = place + (n + 7) /\ len' = len - (n + 7)
      <4>1. place' = NextPlace(Memory, place) /\ len' = len - (place' - place)
        BY <1>3, <2>8
      <4>2. place' = place + (n + 7)
        BY <2>3, <4>1
      <4>3. place' - place = n + 7
        BY <1>1, <4>2
      <4>4. QED
        BY <4>1, <4>2, <4>3
    <3>2. c # j - i
      <4>1. SUFFICES ASSUME c = j - i PROVE FALSE
        OBVIOUS
      <4>2. i + (k + 1) = j
        BY <1>1, <2>4, <4>1
      <4>3. len = n + 7
        <5>1. taken = x + (n + 7)
          BY <2>4, <2>7, <2>11, <4>1, <4>2
        <5>2. taken - x = n + 7
          <6>1. PICK e \in Nat : e = n + 7
            BY <2>3
          <6>2. (x + e) - x = e
            BY <2>11, <6>1
          <6>3. QED
            BY <5>1, <6>1, <6>2
        <5>3. QED
          BY <2>11, <5>2
      <4>4. n + 3 \in Nat /\ ByteMod \in Nat /\ len - 4 = n + 3
        BY <4>3, NetLinkAssumption
      <4>5. (n + 3) % ByteMod = n + 3
        BY <2>3, <4>4, SmallMod
      <4>6. QED
        BY <2>3, <2>8, <4>4, <4>5
    <3>3. c < j - i
      BY <1>1, <2>4, <3>2
    <3>4. /\ place' = Place(sent, i + c) - start
          /\ len' = taken - Place(sent, i + c)
      <4>1. len' = (taken - x) - (n + 7) /\ place' = (x - start) + (n + 7)
        BY <2>11, <3>1
      <4>2. QED
        BY <2>11, <2>12, <4>1
    <3>5. /\ place' = Place(sent, i + c)' - start'
          /\ len' = taken' - Place(sent, i + c)'
      BY <1>2, <1>7, <3>4
    <3>6. pc' # "turn"
      BY <1>2, <2>8
    <3>7. ActedOn(i, j, c)'
      BY <2>6, <3>3, <3>5, <3>6 DEF ActedOn
    <3>8. QED
      BY <3>7
  <2>9. CASE ~More(Memory, place, len) /\ pc' = "turn"
    <3>1. n + 3 = (len - 4) % ByteMod
      BY <2>3, <2>9
    <3>2. (taken - Place(sent, i + c)) % ByteMod = 0
      <4>1. len \in Nat /\ len >= n + 7 /\ taken - Place(sent, i + c) = len - (n + 7)
        BY <2>11, <2>12
      <4>2. ByteMod \in Nat /\ ByteMod > 0
        BY NetLinkAssumption
      <4>3. (len - (n + 7)) % ByteMod = 0
        BY <3>1, <4>1, <4>2, LengthsAgree
      <4>4. QED
        BY <4>1, <4>3
    <3>3. (taken' - Place(sent, i + c)') % ByteMod = 0
      BY <1>2, <1>7, <3>2
    <3>4. pc' # "process"
      BY <2>9
    <3>5. ActedOn(i, j, c)'
      BY <2>6, <3>3, <3>4 DEF ActedOn
    <3>6. QED
      BY <3>5
  <2>10. QED
    BY <1>3, <2>8, <2>9
<1>9. QED
  BY <1>2, <1>6, <1>8 DEF ProcessInv

-----------------------------------------------------------------------------
(* The record of a read that has ended, none of which is acted on yet.     *)
LEMMA ResultStep ==
  ASSUME TypeInv, RecordInv, EventResult
  PROVE  ProcessInv'
<1>1. /\ taken \in Nat /\ start \in 0..taken /\ Len(sent) \in Nat /\ ret.len \in Nat
      /\ mode \in {"netlink", "prompt"}
  BY StreamNumbers, WireNumbers DEF TypeInv, ProgramTyped
<1>2. /\ pc = "event" /\ ~call.active
      /\ len' = IF ret.rc \in {"AF_SOCKET", "AF_ERRNO"} THEN 0 ELSE ret.len
      /\ pc' = IF len' > 0 /\ mode = "netlink" THEN "process" ELSE "turn"
      /\ UNCHANGED <<sent, taken, start, place, done, buf>>
  BY DEF EventResult, clientVars
<1>3. place = 0 /\ Len(done) = 0
  BY <1>2 DEF RecordInv, DoneInv
<1>4. CASE len' = 0
  BY <1>4 DEF ProcessInv
<1>5. CASE len' # 0
  <2>1. len' = ret.len /\ mode = "netlink" /\ Held(ret.len)
    BY <1>1, <1>2, <1>5 DEF RecordInv, ModeInv, EventInv
  <2>2. len' = taken - start /\ len' > 0 /\ Stored(taken - start)
    BY <2>1 DEF Held
  <2>3. pc' = "process"
    BY <1>2, <2>1, <2>2
  <2>4. Stored(taken - start)'
    BY <1>2, <2>2, StreamSame DEF Stored
  <2>5. \A m : Place(sent, m)' = Place(sent, m)
    BY <1>2, StreamSame
  <2>6. ASSUME NEW i \in 0..Len(sent), NEW j \in 0..Len(sent), Aligned(i, j)'
        PROVE  \E k \in 0..(j - i) : ActedOn(i, j, k)'
    <3>1. i < j /\ Place(sent, i) = start
      BY <1>2, <2>5, <2>6 DEF Aligned
    <3>2. PICK k \in 0..(j - i) : k = 0 /\ k < j - i /\ i + k = i
      <4>1. 0 \in 0..(j - i) /\ 0 < j - i /\ i + 0 = i
        BY <1>1, <3>1
      <4>2. QED
        BY <4>1
    <3>3. Len(done)' = k /\ \A m \in 1..k : done'[m] = sent'[i + m]
      BY <1>2, <1>3, <3>2
    <3>4. place' = start - start /\ len' = taken - start
      BY <1>1, <1>2, <1>3, <2>2
    <3>5. place' = Place(sent, i + k)' - start' /\ len' = taken' - Place(sent, i + k)'
      BY <1>2, <2>5, <3>1, <3>2, <3>4
    <3>6. ActedOn(i, j, k)'
      BY <2>3, <3>2, <3>3, <3>5 DEF ActedOn
    <3>7. QED
      BY <3>6
  <2>7. QED
    BY <1>2, <2>4, <2>6 DEF ProcessInv
<1>6. QED
  BY <1>4, <1>5

(* A packet that is not understood. *)
LEMMA DropStep ==
  ASSUME TypeInv, RecordInv, \A p \in DevicePackets : Fits(p), DropRecord
  PROVE  ProcessInv'
<1>1. /\ pc = "process" /\ pc' = "turn"
      /\ Bad(Memory, place, len) \/ Rejected(Memory, place)
      /\ UNCHANGED <<sent, taken, start, place, len, done, buf>>
  BY DEF DropRecord, Processing, clientVars
<1>2. SUFFICES ASSUME len # 0 PROVE ProcessInv'
  BY <1>1 DEF ProcessInv
<1>3. /\ Stored(taken - start)
      /\ \A i, j \in 0..Len(sent) : Aligned(i, j) => \E k \in 0..(j - i) : ActedOn(i, j, k)
  BY <1>1, <1>2 DEF RecordInv, ProcessInv
<1>4. Stored(taken - start)'
  BY <1>1, <1>3, StreamSame DEF Stored
<1>5. \A m : Place(sent, m)' = Place(sent, m)
  BY <1>1, StreamSame
<1>6. ASSUME NEW i \in 0..Len(sent), NEW j \in 0..Len(sent), Aligned(i, j)'
      PROVE  \E k \in 0..(j - i) : ActedOn(i, j, k)'
  <2>1. Aligned(i, j)
    BY <1>1, <1>5, <1>6 DEF Aligned
  <2>2. PICK k \in 0..(j - i) : ActedOn(i, j, k)
    BY <1>3, <2>1
  <2>3. \E q \in Packet, n \in Nat :
          /\ q = sent[i + (k + 1)] /\ ~Bad(Memory, place, len)
          /\ Rejected(Memory, place) => ~Understood(q)
    BY <1>1, <1>3, <2>1, <2>2, RecordPacket
  <2>4. i + (k + 1) = i + k + 1
    <3>1. i \in Nat /\ k \in Nat
      BY StreamNumbers DEF TypeInv
    <3>2. QED
      BY <3>1
  <2>5. ~Understood(sent[i + k + 1])
    BY <1>1, <2>3, <2>4
  <2>6. ~Understood(sent[i + k + 1])'
    BY <1>1, <2>5 DEF Understood
  <2>7. Len(done') = k /\ \A m \in 1..k : done'[m] = sent'[i + m]
    BY <1>1, <2>2 DEF ActedOn
  <2>8. pc' # "process"
    BY <1>1
  <2>9. ActedOn(i, j, k)'
    BY <2>6, <2>7, <2>8 DEF ActedOn
  <2>10. QED
    BY <2>9
<1>7. QED
  BY <1>1, <1>4, <1>6 DEF ProcessInv

(* A packet that the device sends is no part of a record received before.  *)
LEMMA SendStep ==
  ASSUME TypeInv, RecordInv, DeviceSends
  PROVE  ProcessInv'
<1>1. /\ ProgramTyped /\ Len(sent) \in Nat /\ taken \in Nat /\ start \in 0..taken
      /\ Len(wire) \in Nat /\ taken + Len(wire) <= Len(DeviceStream)
  BY StreamNumbers, WireNumbers DEF TypeInv, RecordInv, WireInv
<1>2. UNCHANGED <<pc, taken, start, place, len, done, buf>>
  BY DEF DeviceSends, clientVars
<1>3. SUFFICES ASSUME pc \in {"process", "turn"}, len # 0 PROVE ProcessInv'
  BY <1>2 DEF ProcessInv
<1>4. /\ Stored(taken - start)
      /\ \A i, j \in 0..Len(sent) : Aligned(i, j) => \E k \in 0..(j - i) : ActedOn(i, j, k)
  BY <1>3 DEF RecordInv, ProcessInv
<1>5. Stored(taken - start)'
  <2>1. PICK n \in Nat : n = taken - start /\ n <= taken - start
    BY <1>1
  <2>2. Stored(n)'
    <3>1. Stored(n)
      BY <1>4, <2>1
    <3>2. QED
      BY <1>1, <1>2, <2>1, <3>1, StoredStays DEF RecordInv
  <2>3. QED
    BY <1>2, <2>1, <2>2 DEF Stored
<1>6. /\ Len(sent') = Len(sent) + 1 /\ Len(DeviceStream) \in Nat
      /\ \A i \in 1..Len(sent) : sent'[i] = sent[i]
      /\ \A i \in 0..Len(sent) : Place(sent', i) = Place(sent, i)
      /\ Place(sent', Len(sent')) > Len(DeviceStream)
  BY <1>1, StreamGrows, StreamNumbers
<1>7. ASSUME NEW i \in 0..Len(sent'), NEW j \in 0..Len(sent'), Aligned(i, j)'
      PROVE  \E k \in 0..(j - i) : ActedOn(i, j, k)'
  <2>1. i < j /\ Place(sent', i) = start /\ Place(sent', j) = taken
    BY <1>2, <1>7 DEF Aligned, Place, Bytes
  <2>2. j # Len(sent')
    <3>1. SUFFICES ASSUME j = Len(sent') PROVE FALSE
      OBVIOUS
    <3>2. taken > Len(DeviceStream)
      BY <1>6, <2>1, <3>1
    <3>3. QED
      BY <1>1, <1>6, <3>2
  <2>3. i \in 0..Len(sent) /\ j \in 0..Len(sent)
    BY <1>1, <1>6, <2>1, <2>2
  <2>4. Aligned(i, j)
    BY <1>6, <2>1, <2>3 DEF Aligned
  <2>5. PICK k \in 0..(j - i) : ActedOn(i, j, k)
    BY <1>4, <2>3, <2>4
  <2>6. i + k \in 0..Len(sent) /\ \A m \in 1..k : i + m \in 1..Len(sent)
    BY <1>1, <2>1, <2>3
  <2>7. Len(done') = k /\ \A m \in 1..k : done'[m] = sent'[i + m]
    BY <1>2, <1>6, <2>5, <2>6 DEF ActedOn
  <2>8. Place(sent', i + k) = Place(sent, i + k)
    BY <1>6, <2>6
  <2>9. k < j - i => sent'[i + k + 1] = sent[i + k + 1]
    <3>1. k < j - i => i + k + 1 \in 1..Len(sent)
      BY <1>1, <2>3
    <3>2. QED
      BY <1>6, <3>1
  <2>10. /\ pc' = "process" =>
              k < j - i /\ place' = Place(sent', i + k) - start'
                        /\ len' = taken' - Place(sent', i + k)
         /\ pc' = "turn" /\ k < j - i =>
              \/ ~Understood(sent'[i + k + 1])
              \/ (taken' - Place(sent', i + k)) % ByteMod = 0
    BY <1>2, <2>5, <2>8, <2>9 DEF ActedOn
  <2>11. ActedOn(i, j, k)'
    BY <2>7, <2>10 DEF ActedOn, Place, Bytes, Understood
  <2>12. QED
    BY <2>11
<1>8. QED
  BY <1>5, <1>7 DEF ProcessInv

(* Every step through a record acts on its next packet, in the order sent. *)
LEMMA ProcessStep ==
  ASSUME TypeInv, RecordInv, \A p \in DevicePackets : Fits(p), Next
  PROVE  ProcessInv'
<1>1. CASE DeviceSends
  BY <1>1, SendStep
<1>2. CASE EventResult
  BY <1>2, ResultStep
<1>3. CASE DropRecord
  BY <1>3, DropStep
<1>4. CASE HandlePacket
  BY <1>4, HandleStep
<1>5. CASE MainLoopTurn
  BY <1>5 DEF MainLoopTurn, ProcessInv
<1>6. CASE pc' \notin {"process", "turn"}
  BY <1>6 DEF ProcessInv
<1>7. CASE /\ UNCHANGED <<sent, taken, start, place, len, done, buf>>
           /\ pc' = pc
  <2>1. SUFFICES ASSUME pc \in {"process", "turn"}, len # 0 PROVE ProcessInv'
    BY <1>7 DEF ProcessInv
  <2>2. /\ Stored(taken - start)
        /\ \A i, j \in 0..Len(sent) : Aligned(i, j) => \E k \in 0..(j - i) : ActedOn(i, j, k)
    BY <2>1 DEF RecordInv, ProcessInv
  <2>3. Stored(taken - start)'
    BY <1>7, <2>2, StreamSame DEF Stored
  <2>4. \A i, j, k : ActedOn(i, j, k) => ActedOn(i, j, k)'
    BY <1>7, ActedStays
  <2>5. \A i, j : Aligned(i, j)' => Aligned(i, j)
    BY <1>7, StreamSame DEF Aligned
  <2>6. QED
    BY <1>7, <2>2, <2>3, <2>4, <2>5 DEF ProcessInv
<1>8. CASE Deliver \/ DeviceCloses
  BY <1>7, <1>8 DEF Deliver, DeviceCloses, NetRead!PeerCloses, tcliVars
<1>9. CASE Connect \/ send_NetLink_login \/ af_client_get_prompt \/ PromptResult \/ Event
  BY <1>6, <1>9 DEF Connect, send_NetLink_login, af_client_get_prompt, PromptResult, Event
<1>10. CASE ReadStep \/ Tick
  <2>1. call.active /\ pc' = pc
    BY <1>10 DEF ReadStep, Tick, Reading, tcliVars
  <2>2. pc \notin {"process", "turn"}
    BY <2>1 DEF RecordInv, ModeInv
  <2>3. QED
    BY <1>6, <2>1, <2>2
<1>11. CASE Signal
  <2>1. pc' \in {pc, "aborted"} /\ UNCHANGED <<sent, taken, start, place, len, done>>
        /\ (UNCHANGED clientVars \/ NetRead!PollError)
    BY <1>11 DEF Signal
  <2>2. buf' = buf
    BY <2>1 DEF clientVars, NetRead!PollError
  <2>3. QED
    BY <1>6, <1>7, <2>1, <2>2
<1>12. QED
  BY <1>1, <1>2, <1>3, <1>4, <1>5, <1>8, <1>9, <1>10, <1>11 DEF Next, Program

-----------------------------------------------------------------------------
(* The initial states satisfy the inductive invariant.                     *)
LEMMA RecordInit == Init => RecordInv
<1> SUFFICES ASSUME Init PROVE RecordInv
  OBVIOUS
<1>1. /\ wire = <<>> /\ taken = 0 /\ sent = <<>> /\ pc = "start" /\ place = 0 /\ done = <<>>
      /\ call.active = FALSE /\ ret.len = 0
  BY DEF Init, NetRead!Init, NetRead!NoCall, NetRead!NoReturn
<1>2. WireInv
  <2>1. ProgramTyped /\ Len(wire) = 0
    BY <1>1, TypeInit DEF TypeInv
  <2>2. Len(DeviceStream) \in Nat
    BY <2>1, StreamNumbers
  <2>3. QED
    BY <1>1, <2>1, <2>2 DEF WireInv
<1>3. QED
  BY <1>1, <1>2 DEF RecordInv, ModeInv, EventInv, DoneInv, ProcessInv

(* A stutter preserves it.                                                 *)
LEMMA RecordSame ==
  ASSUME RecordInv, UNCHANGED vars
  PROVE  RecordInv'
<1>1. UNCHANGED <<wire, taken, sent, start, buf, mode, ret, call, pc, conn, place, len, done>>
  BY DEF vars, clientVars, tcliVars
<1>2. DeviceStream' = DeviceStream
  BY <1>1, StreamSame
<1>3. WireInv' /\ ModeInv' /\ DoneInv'
  BY <1>1, <1>2 DEF RecordInv, WireInv, ModeInv, DoneInv
<1>4. EventInv'
  BY <1>1, <1>2 DEF RecordInv, EventInv, Held, Stored, NetRead!Ready
<1>5. ProcessInv'
  <2>1. SUFFICES ASSUME pc \in {"process", "turn"}, len # 0 PROVE ProcessInv'
    BY <1>1 DEF ProcessInv
  <2>2. /\ Stored(taken - start)
        /\ \A i, j \in 0..Len(sent) : Aligned(i, j) => \E k \in 0..(j - i) : ActedOn(i, j, k)
    BY <2>1 DEF RecordInv, ProcessInv
  <2>3. Stored(taken - start)'
    BY <1>1, <2>2, StreamSame DEF Stored
  <2>4. \A i, j, k : ActedOn(i, j, k) => ActedOn(i, j, k)'
    BY <1>1, ActedStays
  <2>5. \A i, j : Aligned(i, j)' => Aligned(i, j)
    BY <1>1, StreamSame DEF Aligned
  <2>6. QED
    BY <1>1, <2>2, <2>3, <2>4, <2>5 DEF ProcessInv
<1>6. QED
  BY <1>3, <1>4, <1>5 DEF RecordInv

(* Of the elements of s from i + 1 to j, d has the first k.                *)
Begun(s, i, j, k, d) ==
  /\ i \in Nat /\ j \in Nat /\ i < j /\ j <= Len(s)
  /\ k \in Nat /\ k <= j - i
  /\ Len(d) = k /\ \A m \in 1..k : d[m] = s[i + m]

(* The packets acted on are the first of the record.                       *)
LEMMA BegunPrefix ==
  ASSUME NEW s \in Seq(Packet), NEW d \in Seq(Packet), NEW i, NEW j, NEW k,
         Begun(s, i, j, k, d), NEW b, b = SubSeq(s, i + 1, j)
  PROVE  /\ IsPrefix(d, b)
         /\ k < j - i => b[k + 1] = s[i + k + 1]
<1>1. /\ i \in Nat /\ j \in Nat /\ k \in Nat /\ k <= j - i /\ Len(s) \in Nat
      /\ i < j /\ j <= Len(s) /\ Len(d) = k /\ \A m \in 1..k : d[m] = s[i + m]
  BY DEF Begun
<1>2. \A m \in (i + 1)..j : s[m] \in Packet
  BY <1>1
<1>3. /\ b \in Seq(Packet)
      /\ Len(b) = IF i + 1 <= j THEN j - (i + 1) + 1 ELSE 0
      /\ \A m \in 1..(j - (i + 1) + 1) : b[m] = s[(i + 1) + m - 1]
  BY <1>1, <1>2, SubSeqProperties
<1>4. Len(b) = j - i /\ j - (i + 1) + 1 = j - i
  BY <1>1, <1>3
<1>5. \A m \in 1..(j - i) : b[m] = s[i + m]
  <2>1. ASSUME NEW m \in 1..(j - i) PROVE b[m] = s[i + m]
    <3>1. (i + 1) + m - 1 = i + m
      BY <1>1
    <3>2. b[m] = s[(i + 1) + m - 1]
      BY <1>3, <1>4
    <3>3. QED
      BY <3>1, <3>2
  <2>2. QED
    BY <2>1
<1>6. SubSeq(d, 1, Len(d)) = d
  BY SubSeqFull
<1>7. PICK a : a = SubSeq(b, 1, k)
  OBVIOUS
<1>8. a \in Seq(Packet) /\ Len(a) = k /\ \A m \in 1..k : a[m] = b[m]
  <2>1. \A m \in 1..k : b[m] \in Packet
    <3>1. \A m \in 1..k : m \in 1..Len(b)
      BY <1>1, <1>4
    <3>2. QED
      BY <1>3, <3>1
  <2>2. /\ a \in Seq(Packet) /\ Len(a) = IF 1 <= k THEN k - 1 + 1 ELSE 0
        /\ \A m \in 1..(k - 1 + 1) : a[m] = b[1 + m - 1]
    BY <1>1, <1>7, <2>1, SubSeqProperties
  <2>3. Len(a) = k /\ k - 1 + 1 = k
    BY <1>1, <2>2
  <2>4. \A m \in 1..k : 1 + m - 1 = m
    OBVIOUS
  <2>5. QED
    BY <2>2, <2>3, <2>4
<1>9. a = d
  <2>1. \A m \in 1..k : a[m] = d[m]
    <3>1. \A m \in 1..k : m \in 1..(j - i)
      BY <1>1
    <3>2. QED
      BY <1>1, <1>5, <1>8, <3>1
  <2>2. QED
    BY <1>1, <1>8, <2>1, SeqEqual
<1>10. IsPrefix(d, b)
  BY <1>1, <1>4, <1>6, <1>7, <1>9 DEF IsPrefix
<1>11. k < j - i => b[k + 1] = s[i + k + 1]
  <2>1. k < j - i => k + 1 \in 1..(j - i) /\ i + (k + 1) = i + k + 1
    BY <1>1
  <2>2. QED
    BY <1>5, <2>1
<1>12. QED
  BY <1>10, <1>11

(* The inductive invariant implies RecordExact.                            *)
LEMMA RecordInvExact ==
  ASSUME TypeInv, RecordInv
  PROVE  RecordExact
<1>1. SUFFICES ASSUME pc \in {"process", "turn"}, len # 0,
                      NEW i \in 0..Len(sent), NEW j \in 0..Len(sent),
                      i < j, Place(sent, i) = start, Place(sent, j) = taken
               PROVE  LET batch == SubSeq(sent, i + 1, j)
                          left == j - i - Len(done)
                      IN  /\ IsPrefix(done, batch)
                          /\ pc = "turn" /\ left > 0 =>
                               \/ ~Understood(batch[Len(done) + 1])
                               \/ (taken - Place(sent, j - left)) % ByteMod = 0
  BY DEF RecordExact, StreamPlace, Place, Bytes
<1>2. PICK k \in 0..(j - i) : ActedOn(i, j, k)
  BY <1>1 DEF RecordInv, ProcessInv, Aligned
<1>3. sent \in Seq(Packet) /\ done \in Seq(Packet) /\ Len(sent) \in Nat
  BY StreamNumbers DEF TypeInv, ProgramTyped
<1>4. Len(done) = k /\ \A m \in 1..k : done[m] = sent[i + m]
  BY <1>2 DEF ActedOn
<1>5. PICK b : b = SubSeq(sent, i + 1, j)
  OBVIOUS
<1>6. IsPrefix(done, b) /\ (k < j - i => b[k + 1] = sent[i + k + 1])
  <2>1. PICK s \in Seq(Packet), d \in Seq(Packet) : s = sent /\ d = done
    BY <1>3
  <2>2. Begun(s, i, j, k, d)
    BY <1>1, <1>2, <1>3, <1>4, <2>1 DEF Begun
  <2>3. IsPrefix(d, b) /\ (k < j - i => b[k + 1] = s[i + k + 1])
    <3>1. b = SubSeq(s, i + 1, j)
      BY <1>5, <2>1
    <3>2. IsPrefix(d, b)
      BY <2>1, <2>2, <3>1, BegunPrefix, Zenon
    <3>3. k < j - i => b[k + 1] = s[i + k + 1]
      BY <2>1, <2>2, <3>1, BegunPrefix
    <3>4. QED
      BY <3>2, <3>3
  <2>4. QED
    BY <2>1, <2>3
<1>7. ASSUME pc = "turn", j - i - Len(done) > 0
      PROVE  \/ ~Understood(b[Len(done) + 1])
             \/ (taken - Place(sent, j - (j - i - Len(done)))) % ByteMod = 0
  <2>1. k < j - i /\ j - (j - i - Len(done)) = i + k
    BY <1>1, <1>3, <1>4, <1>7
  <2>2. \/ ~Understood(sent[i + k + 1])
        \/ (taken - Place(sent, i + k)) % ByteMod = 0
    BY <1>2, <1>7, <2>1 DEF ActedOn
  <2>3. QED
    BY <1>4, <1>6, <2>1, <2>2
<1>8. QED
  BY <1>5, <1>6, <1>7

(* Every step preserves it, when every packet of the device fits its       *)
(* length byte.                                                            *)
LEMMA RecordStep ==
  ASSUME \A p \in DevicePackets : Fits(p), TypeInv, RecordInv, [Next]_vars
  PROVE  RecordInv'
<1>1. CASE UNCHANGED vars
  BY <1>1, RecordSame
<1>2. CASE Next
  <2>1. WireInv' /\ ModeInv' /\ EventInv' /\ DoneInv'
    BY <1>2, WireStep, ModeStep, EventStep, DoneStep DEF RecordInv
  <2>2. ProcessInv'
    BY <1>2, ProcessStep
  <2>3. QED
    BY <2>1, <2>2 DEF RecordInv
<1>3. QED
  BY <1>1, <1>2

(* A record that begins and ends where packets do has its packets acted on *)
(* in order, each once.  The length byte of every packet must be able to   *)
(* hold its length.                                                        *)
THEOREM RecordsExact ==
  ASSUME \A p \in DevicePackets : Fits(p)
  PROVE  Spec => []RecordExact
<1>1. Init => RecordInv
  BY RecordInit
<1>2. TypeInv /\ RecordInv /\ [Next]_vars => RecordInv'
  BY RecordStep
<1>3. TypeInv /\ RecordInv => RecordExact
  BY RecordInvExact
<1>4. QED
  BY <1>1, <1>2, <1>3, TypeInvCorrect, PTL DEF Spec
=============================================================================
