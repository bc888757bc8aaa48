-------------------------- MODULE BytesCodec_proofs --------------------------
(***************************************************************************)
(* Proofs about BytesCodec, for every byte base, all lengths and any       *)
(* number of messages: the head gives its length back, and the messages    *)
(* come out of the reader as they were put in, wherever they were cut.     *)
(***************************************************************************)
EXTENDS BytesCodec, TLAPS

(* Quotient and remainder.                                                   *)
LEMMA Division ==
  ASSUME NEW x \in Nat, NEW b \in Nat, b > 0
  PROVE  /\ x \div b \in Nat /\ x % b \in 0..(b - 1)
         /\ x = b * (x \div b) + (x % b)
  OBVIOUS

(* A product that is below another with the same factor has a smaller other *)
(* factor.                                                                  *)
LEMMA Below ==
  ASSUME NEW x \in Nat, NEW b \in Nat, b > 0, NEW y \in Nat, x < b * y
  PROVE  x \div b < y
<1> DEFINE q == x \div b
<1>1. q \in Nat /\ x >= b * q
  BY Division
<1>2. ASSUME q >= y PROVE FALSE
  <2>1. b * q >= b * y
    BY <1>1, <1>2
  <2> QED BY <2>1, <1>1
<1> QED BY <1>1, <1>2

(* The quotient is the only one that leaves a remainder below the divisor.  *)
LEMMA Quotient ==
  ASSUME NEW m \in Nat, m > 0, NEW q \in Nat, NEW r \in Nat, r < m
  PROVE  (m * q + r) \div m = q
<1> DEFINE x == m * q + r
<1> DEFINE p == x \div m
<1>1. x \in Nat
  OBVIOUS
<1>2. p \in Nat /\ x % m \in 0..(m - 1) /\ x = m * p + (x % m)
  BY <1>1, Division
<1>3. m * p < m * q + m /\ m * q < m * p + m
  BY <1>2
<1>4. ASSUME p > q PROVE FALSE
  <2>1. m * p >= m * (q + 1)
    BY <1>2, <1>4
  <2> QED BY <2>1, <1>2, <1>3
<1>5. ASSUME q > p PROVE FALSE
  <2>1. m * q >= m * (p + 1)
    BY <1>2, <1>5
  <2> QED BY <2>1, <1>2, <1>3
<1> QED BY <1>2, <1>4, <1>5

(* Dividing twice is dividing by the product.                               *)
LEMMA Twice ==
  ASSUME NEW x \in Nat, NEW a \in Nat, a > 0, NEW b \in Nat, b > 0
  PROVE  x \div (a * b) = (x \div a) \div b
<1> DEFINE q == x \div a
<1> DEFINE s == q \div b
<1>1. q \in Nat /\ x % a \in 0..(a - 1) /\ x = a * q + (x % a)
  BY Division
<1>2. s \in Nat /\ q % b \in 0..(b - 1) /\ q = b * s + (q % b)
  BY <1>1, Division
<1> DEFINE r == a * (q % b) + (x % a)
<1>3. x = (a * b) * s + r
  <2>1. a * q = a * (b * s + (q % b))
    BY <1>2
  <2>2. a * (b * s + (q % b)) = (a * b) * s + a * (q % b)
    BY <1>2
  <2> HIDE DEF q, s
  <2> QED BY <2>1, <2>2, <1>1, <1>2
<1>4. r \in Nat /\ r < a * b
  <2>1. a * (q % b) <= a * (b - 1)
    BY <1>2
  <2> QED BY <2>1, <1>1, <1>2
<1>5. a * b \in Nat /\ a * b > 0
  OBVIOUS
<1> HIDE DEF r, s
<1> QED BY <1>2, <1>3, <1>4, <1>5, Quotient DEF s

(* The two low bits of a number are those of its lowest byte.               *)
LEMMA LowBits ==
  ASSUME ByteAssumption, NEW x \in Nat
  PROVE  (x % B) % 4 = x % 4
<1> DEFINE c == B \div 4
<1> DEFINE q == x \div B
<1>1. B = 4 * c /\ c \in Nat
  BY DEF ByteAssumption
<1>2. q \in Nat /\ x % B \in 0..(B - 1) /\ x = B * q + (x % B)
  BY Division DEF ByteAssumption
<1> DEFINE k == c * q
<1>3. k \in Nat /\ B * q = 4 * k
  BY <1>1, <1>2
<1> HIDE DEF k, q, c
<1> QED BY <1>2, <1>3

(* The powers of the byte base up to the fourth: they grow, and four divides *)
(* each, as the shift by two bits of the head needs.                         *)
LEMMA Bounds ==
  ASSUME ByteAssumption
  PROVE
  /\ B \in Nat /\ B > 4 /\ B % 4 = 0
  /\ B * B \in Nat /\ B * B > B /\ (B * B) % 4 = 0
  /\ B * B * B \in Nat /\ B * B * B > B * B /\ (B * B * B) % 4 = 0
  /\ B * B * B * B \in Nat /\ B * B * B * B > B * B * B /\ (B * B * B * B) % 4 = 0
<1> DEFINE c == B \div 4
<1>1. B = 4 * c /\ c \in Nat /\ B \in Nat /\ B > 4
  BY DEF ByteAssumption
<1>2. ASSUME NEW m \in Nat, m > 0, m % 4 = 0
      PROVE  m * B \in Nat /\ m * B > m /\ (m * B) % 4 = 0
  <2> DEFINE k == m * c
  <2>1. k \in Nat /\ m * B = 4 * k
    BY <1>1
  <2>2. m * B >= m * 2
    BY <1>1
  <2> HIDE DEF k
  <2> QED BY <2>1, <2>2, <1>2
<1>3. B * B \in Nat /\ B * B > B /\ (B * B) % 4 = 0
  BY <1>2 DEF ByteAssumption
<1>4. B * B * B \in Nat /\ B * B * B > B * B /\ (B * B * B) % 4 = 0
  BY <1>2, <1>3, <1>1
<1>5. B * B * B * B \in Nat /\ B * B * B * B > B * B * B /\ (B * B * B * B) % 4 = 0
  BY <1>2, <1>3, <1>4, <1>1
<1> QED BY <1>3, <1>4, <1>5 DEF ByteAssumption

(* The head of every length that can be encoded consists of bytes, says how *)
(* long it is in its first one, and gives the length back: the encoder and  *)
(* the decoder of bytes_codec.rs agree at every boundary of the four sizes. *)
THEOREM HeadInverts ==
  ASSUME ByteAssumption, NEW n \in Nat, n <= Most(4)
  PROVE  LET h == encode_head(n) IN
           /\ \A i \in DOMAIN h : h[i] \in Bytes
           /\ head_len(h) = Len(h)
           /\ length(h) = n
<1> DEFINE h == encode_head(n)
<1> DEFINE P == B * B
<1> DEFINE Q == B * B * B
<1>m. /\ Most(1) = B \div 4 - 1 /\ Most(2) = P \div 4 - 1
      /\ Most(3) = Q \div 4 - 1 /\ Most(4) = (Q * B) \div 4 - 1
  BY DEF Most
<1>b. B \in Nat /\ B > 4 /\ P \in Nat /\ P > B /\ Q \in Nat /\ Q > P /\ Q * B \in Nat /\ Q * B > Q
  BY Bounds
<1>d. B % 4 = 0 /\ P % 4 = 0 /\ Q % 4 = 0 /\ (Q * B) % 4 = 0
  BY Bounds
<1>l. Most(1) < Most(2) /\ Most(2) < Most(3)
  <2> HIDE DEF P, Q
  <2> QED BY <1>m, <1>b, <1>d
<1>1. CASE n <= Most(1)
  <2>1. h = <<4 * n>>
    BY <1>1, <1>l, <1>m, <1>b DEF encode_head
  <2>2. 4 * n \in Bytes
    BY <1>1, <1>m, <1>b, <1>d DEF Bytes
  <2>3. head_len(h) = 1 /\ length(h) = n
    BY <2>1 DEF head_len, length
  <2> QED BY <2>1, <2>2, <2>3
<1>2. CASE n > Most(1) /\ n <= Most(2)
  <2> DEFINE x == 4 * n + 1
  <2>1. h = <<x % B, x \div B>>
    BY <1>2, <1>l, <1>m, <1>b DEF encode_head
  <2>2. x \in Nat /\ x < B * B
    BY <1>2, <1>m, <1>b, <1>d
  <2>3. x \div B \in Nat /\ x % B \in 0..(B - 1) /\ x = B * (x \div B) + (x % B)
    BY <2>2, <1>b, Division
  <2>4. x \div B < B
    BY <2>2, <1>b, Below
  <2>5. (x % B) % 4 = 1
    BY <2>2, LowBits
  <2>6. x \div 4 = n
    OBVIOUS
  <2>7. x = (x % B) + B * (x \div B)
    BY <2>2, <2>3, <1>b
  <2> HIDE DEF h, x
  <2>8. head_len(h) = 2 /\ length(h) = x \div 4
    BY <2>1, <2>3, <2>5, <2>7 DEF head_len, length
  <2>9. x % B \in Bytes /\ x \div B \in Bytes
    BY <2>3, <2>4, <1>b DEF Bytes
  <2>10. \A i \in DOMAIN h : h[i] \in Bytes
    BY <2>1, <2>9
  <2>11. Len(h) = 2
    BY <2>1
  <2> QED BY <2>6, <2>8, <2>10, <2>11 DEF h
<1>3. CASE n > Most(2) /\ n <= Most(3)
  <2> DEFINE x == 4 * n + 2
  <2> DEFINE y == x \div B
  <2> DEFINE z == x \div P
  <2>1. h = <<x % B, y % B, z>>
    BY <1>3, <1>l, <1>m, <1>b DEF encode_head
  <2>2. x \in Nat /\ x < P * B
    BY <1>3, <1>m, <1>b, <1>d
  <2>3. y \in Nat /\ x % B \in 0..(B - 1) /\ x = B * y + (x % B)
    BY <2>2, <1>b, Division
  <2>4. z = y \div B
    BY <2>2, <1>b, Twice
  <2>5. z \in Nat /\ y % B \in 0..(B - 1) /\ y = B * z + (y % B)
    BY <2>3, <2>4, <1>b, Division
  <2>6. z < B
    BY <2>2, <1>b, Below
  <2>7. (x % B) % 4 = 2
    BY <2>2, LowBits
  <2>8. x \div 4 = n
    OBVIOUS
  <2> HIDE DEF h, x, y, z
  <2>9. B * y = B * (y % B) + B * B * z
    BY <2>5, <1>b
  <2>10. x = (x % B) + B * (y % B) + B * B * z
    BY <2>2, <2>3, <2>5, <2>9, <1>b
  <2>11. head_len(h) = 3 /\ length(h) = x \div 4
    BY <2>1, <2>3, <2>5, <2>7, <2>10 DEF head_len, length
  <2>12. x % B \in Bytes /\ y % B \in Bytes /\ z \in Bytes
    BY <2>3, <2>5, <2>6, <1>b DEF Bytes
  <2>13. \A i \in DOMAIN h : h[i] \in Bytes
    BY <2>1, <2>12
  <2>14. Len(h) = 3
    BY <2>1
  <2> QED BY <2>8, <2>11, <2>13, <2>14 DEF h
<1>4. CASE n > Most(3)
  <2> DEFINE x == 4 * n + 3
  <2> DEFINE y == x \div B
  <2> DEFINE z == x \div P
  <2> DEFINE w == x \div Q
  <2>1. h = <<x % B, y % B, z % B, w>>
    BY <1>4, <1>l, <1>m, <1>b DEF encode_head
  <2>2. x \in Nat /\ x < Q * B
    BY <1>4, <1>m, <1>b, <1>d
  <2>3. y \in Nat /\ x % B \in 0..(B - 1) /\ x = B * y + (x % B)
    BY <2>2, <1>b, Division
  <2>4. z = y \div B /\ w = z \div B
    BY <2>2, <1>b, Twice
  <2>5. z \in Nat /\ y % B \in 0..(B - 1) /\ y = B * z + (y % B)
    BY <2>3, <2>4, <1>b, Division
  <2>6. w \in Nat /\ z % B \in 0..(B - 1) /\ z = B * w + (z % B)
    BY <2>5, <2>4, <1>b, Division
  <2>7. w < B
    BY <2>2, <1>b, Below
  <2>8. (x % B) % 4 = 3
    BY <2>2, LowBits
  <2>9. x \div 4 = n
    OBVIOUS
  <2> HIDE DEF h, x, y, z, w
  <2>10. B * B * z = B * B * (z % B) + B * B * B * w
    BY <2>6, <1>b
  <2>11. B * y = B * (y % B) + B * B * z
    BY <2>5, <1>b
  <2>12. x = (x % B) + B * (y % B) + B * B * (z % B) + B * B * B * w
    BY <2>2, <2>3, <2>5, <2>6, <2>10, <2>11, <1>b
  <2>13. head_len(h) = 4 /\ length(h) = x \div 4
    BY <2>1, <2>3, <2>5, <2>6, <2>8, <2>12 DEF head_len, length
  <2>14. x % B \in Bytes /\ y % B \in Bytes /\ z % B \in Bytes /\ w \in Bytes
    BY <2>3, <2>5, <2>6, <2>7, <1>b DEF Bytes
  <2>15. \A i \in DOMAIN h : h[i] \in Bytes
    BY <2>1, <2>14
  <2>16. Len(h) = 4
    BY <2>1
  <2> QED BY <2>9, <2>13, <2>15, <2>16 DEF h
<1> QED
  <2>1. Most(1) \in Int /\ Most(2) \in Int /\ Most(3) \in Int
    BY <1>m, <1>b
  <2> QED BY <1>1, <1>2, <1>3, <1>4, <2>1

-----------------------------------------------------------------------------
(* The limits of the four sizes of heads grow.                              *)
LEMMA MostGrows ==
  ASSUME ByteAssumption
  PROVE  Most(1) < Most(2) /\ Most(2) < Most(3)
<1> DEFINE P == B * B
<1> DEFINE Q == B * B * B
<1>1. Most(1) = B \div 4 - 1 /\ Most(2) = P \div 4 - 1 /\ Most(3) = Q \div 4 - 1
  BY DEF Most
<1>2. /\ B \in Nat /\ P \in Nat /\ Q \in Nat /\ B < P /\ P < Q
      /\ B % 4 = 0 /\ P % 4 = 0 /\ Q % 4 = 0
  BY Bounds
<1> HIDE DEF P, Q
<1> QED BY <1>1, <1>2

(* A head is a short sequence, never empty.                                 *)
LEMMA HeadIsShort ==
  ASSUME ByteAssumption, NEW n \in Nat, n <= Most(4)
  PROVE  encode_head(n) \in Seq(Bytes) /\ Len(encode_head(n)) \in 1 .. 4
<1> DEFINE h == encode_head(n)
<1>1. \A i \in DOMAIN h : h[i] \in Bytes
  BY HeadInverts
<1>2. Most(1) \in Int /\ Most(2) \in Int /\ Most(3) \in Int
  BY Bounds DEF Most
<1>3. h \in Seq(Int) /\ Len(h) \in 1 .. 4
  <2>1. B \in Nat \ {0} /\ B * B \in Nat \ {0} /\ B * B * B \in Nat \ {0}
    BY Bounds
  <2>2. \A x \in Nat : \A b \in Nat \ {0} : x % b \in Int /\ x \div b \in Int
    OBVIOUS
  <2>3. \A x \in Nat : \A b \in Nat \ {0} : x \div b \in Nat
    BY Division
  <2>4. CASE n <= Most(1)
    BY <1>2, <2>4, MostGrows DEF encode_head
  <2>5. CASE n > Most(1) /\ n <= Most(2)
    <3>1. h = <<(4 * n + 1) % B, (4 * n + 1) \div B>>
      BY <1>2, <2>5, MostGrows DEF encode_head
    <3> QED BY <2>1, <2>2, <3>1
  <2>6. CASE n > Most(2) /\ n <= Most(3)
    <3>1. h = <<(4 * n + 2) % B, ((4 * n + 2) \div B) % B, (4 * n + 2) \div (B * B)>>
      BY <1>2, <2>6, MostGrows DEF encode_head
    <3>2. (4 * n + 2) \div B \in Nat
      BY <2>1, <2>3
    <3> QED BY <2>1, <2>2, <3>1, <3>2
  <2>7. CASE n > Most(3)
    <3>1. h = <<(4 * n + 3) % B, ((4 * n + 3) \div B) % B,
                ((4 * n + 3) \div (B * B)) % B, (4 * n + 3) \div (B * B * B)>>
      BY <1>2, <2>7, MostGrows DEF encode_head
    <3>2. (4 * n + 3) \div B \in Nat /\ (4 * n + 3) \div (B * B) \in Nat
      BY <2>1, <2>3
    <3> QED BY <2>1, <2>2, <3>1, <3>2
  <2> QED BY <1>2, <2>4, <2>5, <2>6, <2>7
<1> HIDE DEF h
<1>4. h \in Seq(Bytes)
  BY <1>1, <1>3
<1> QED BY <1>3, <1>4 DEF h

(* What the decoder finds in the head depends on the head only.             *)
LEMMA SameHead ==
  ASSUME ByteAssumption, NEW h \in Seq(Bytes), NEW s \in Seq(Bytes),
         Len(h) \in 1 .. 4, head_len(h) = Len(h), Len(h) <= Len(s),
         \A j \in 1 .. Len(h) : s[j] = h[j]
  PROVE  head_len(s) = Len(h) /\ length(s) = length(h)
<1>1. s[1] = h[1] /\ head_len(s) = Len(h)
  BY DEF head_len
<1>2. CASE Len(h) = 1
  BY <1>1, <1>2 DEF length
<1>3. CASE Len(h) = 2
  <2>1. s[2] = h[2]
    BY <1>3
  <2> QED BY <1>1, <1>3, <2>1 DEF length
<1>4. CASE Len(h) = 3
  <2>1. s[2] = h[2] /\ s[3] = h[3]
    BY <1>4
  <2> QED BY <1>1, <1>4, <2>1 DEF length
<1>5. CASE Len(h) = 4
  <2>1. s[2] = h[2] /\ s[3] = h[3] /\ s[4] = h[4]
    BY <1>5
  <2> QED BY <1>1, <1>5, <2>1 DEF length
<1> QED BY <1>2, <1>3, <1>4, <1>5

-----------------------------------------------------------------------------
(* Messages that can be sent, and the i-th of them as it travels.           *)
Sendable(ms) == ms \in Seq(Seq(Bytes)) /\ \A i \in 1 .. Len(ms) : Len(ms[i]) <= Most(4)
HeadOf(ms, i) == IF i <= Frames THEN encode_head(Len(ms[i])) ELSE <<>>
Wire(ms, i) == HeadOf(ms, i) \o ms[i]

(* Counted from the first byte ever sent: the i-th of the messages ms       *)
(* begins after pos[i], and the reader has taken base bytes.  What is left  *)
(* of every message is in the stream s, and a reader that has read k of     *)
(* them stands at the beginning of the next, or behind its head.            *)
Layout(pos, base, ms, s, at, k) ==
  /\ \A i \in 1 .. Len(ms) : pos[i + 1] = pos[i] + Len(Wire(ms, i))
  /\ \A i \in 1 .. Len(ms) + 1 : \A j \in i .. Len(ms) + 1 : pos[i] <= pos[j]
  /\ base + Len(s) = pos[Len(ms) + 1]
  /\ \A i \in 1 .. Len(ms) : \A j \in 1 .. Len(Wire(ms, i)) :
       pos[i] + j > base => s[pos[i] + j - base] = Wire(ms, i)[j]
  /\ IF at = Head_
     THEN base = pos[k + 1]
     ELSE /\ k < Len(ms)
          /\ at = Len(ms[k + 1])
          /\ base = pos[k + 1] + Len(HeadOf(ms, k + 1))

(* The inductive invariant: until the reader is raw or has given up, the    *)
(* bytes under way are laid out as the messages were put in.                *)
Typed ==
  /\ Sendable(sent) /\ out \in Seq(Seq(Bytes)) /\ Len(out) <= Len(sent)
  /\ net \in Seq(Bytes) /\ src \in Seq(Bytes)
  /\ state = Head_ \/ state \in 0 .. max_packet_length

LaidOut ==
  \E pos \in [Nat -> Nat], base \in Nat : Layout(pos, base, sent, src \o net, state, Len(out))

IInv ==
  /\ Typed
  /\ \A i \in 1 .. Len(out) : out[i] = sent[i]
  /\ failed => Len(out) < Len(sent) /\ Len(sent[Len(out) + 1]) > max_packet_length
  /\ ~raw /\ ~failed => LaidOut

(* A message that can be sent has a length that a head can tell.            *)
LEMMA Message ==
  ASSUME NEW ms, Sendable(ms), NEW i \in 1 .. Len(ms)
  PROVE  ms[i] \in Seq(Bytes) /\ Len(ms[i]) \in Nat /\ Len(ms[i]) <= Most(4)
BY DEF Sendable

(* A message on the wire: its head, then its body.                          *)
LEMMA WireParts ==
  ASSUME ByteAssumption, MessagesAssumption, NEW ms, Sendable(ms), NEW i \in 1 .. Len(ms)
  PROVE  /\ ms[i] \in Seq(Bytes) /\ HeadOf(ms, i) \in Seq(Bytes) /\ Wire(ms, i) \in Seq(Bytes)
         /\ Len(Wire(ms, i)) = Len(HeadOf(ms, i)) + Len(ms[i])
         /\ \A j \in 1 .. Len(HeadOf(ms, i)) : Wire(ms, i)[j] = HeadOf(ms, i)[j]
         /\ \A j \in 1 .. Len(ms[i]) : Wire(ms, i)[Len(HeadOf(ms, i)) + j] = ms[i][j]
<1>1. ms[i] \in Seq(Bytes) /\ Len(ms[i]) \in Nat /\ Len(ms[i]) <= Most(4)
  BY DEF Sendable
<1>2. HeadOf(ms, i) \in Seq(Bytes)
  BY <1>1, HeadIsShort DEF HeadOf
<1> QED BY <1>1, <1>2 DEF Wire

LEMMA HeadBytes ==
  ASSUME ByteAssumption, MessagesAssumption, NEW ms, Sendable(ms), NEW i \in 1 .. Len(ms)
  PROVE  HeadOf(ms, i) \in Seq(Bytes)
BY WireParts

(* WireParts, folded.                                                       *)
WireIs(ms, i) ==
  /\ Len(Wire(ms, i)) = Len(HeadOf(ms, i)) + Len(ms[i])
  /\ \A j \in 1 .. Len(HeadOf(ms, i)) : Wire(ms, i)[j] = HeadOf(ms, i)[j]

LEMMA WireFacts ==
  ASSUME ByteAssumption, MessagesAssumption, NEW ms, NEW i
  PROVE  Sendable(ms) /\ i \in 1 .. Len(ms) => WireIs(ms, i)
<1> SUFFICES ASSUME Sendable(ms), i \in 1 .. Len(ms) PROVE WireIs(ms, i)
  OBVIOUS
<1>1. i \in 1 .. Len(ms)
  OBVIOUS
<1>2. /\ Len(Wire(ms, i)) = Len(HeadOf(ms, i)) + Len(ms[i])
      /\ \A j \in 1 .. Len(HeadOf(ms, i)) : Wire(ms, i)[j] = HeadOf(ms, i)[j]
  BY <1>1, WireParts
<1> QED BY <1>2 DEF WireIs

(* What Append and \o give, for a set that the provers need not look into.  *)
LEMMA Appended ==
  ASSUME NEW S, NEW q \in Seq(S), NEW x \in S
  PROVE  /\ Len(q) \in Nat /\ Append(q, x) \in Seq(S) /\ Len(Append(q, x)) = Len(q) + 1
         /\ Append(q, x)[Len(q) + 1] = x
         /\ \A i \in 1 .. Len(q) : Append(q, x)[i] = q[i]
OBVIOUS

LEMMA Joined ==
  ASSUME NEW S, NEW q \in Seq(S), NEW r \in Seq(S)
  PROVE  /\ Len(q) \in Nat /\ Len(r) \in Nat
         /\ q \o r \in Seq(S) /\ Len(q \o r) = Len(q) + Len(r)
         /\ \A i \in 1 .. Len(q) : (q \o r)[i] = q[i]
         /\ \A i \in 1 .. Len(r) : (q \o r)[Len(q) + i] = r[i]
OBVIOUS

(* The rest of a sequence behind its first n.                               *)
LEMMA Behind ==
  ASSUME NEW S, NEW q \in Seq(S), NEW n \in 0 .. Len(q)
  PROVE  /\ SubSeq(q, n + 1, Len(q)) \in Seq(S) /\ Len(SubSeq(q, n + 1, Len(q))) = Len(q) - n
         /\ \A i \in 1 .. Len(q) - n : SubSeq(q, n + 1, Len(q))[i] = q[n + i]
         /\ SubSeq(q, 1, n) \in Seq(S) /\ Len(SubSeq(q, 1, n)) = n
         /\ \A i \in 1 .. n : SubSeq(q, 1, n)[i] = q[i]
OBVIOUS

(* A stream t that is the stream s without its first n bytes, as it is made *)
(* and as it is read.                                                       *)
TakenOff(s, t, l, n, d) ==
  /\ s \in Seq(Bytes) /\ l \in Nat /\ n \in Nat /\ d \in Nat
  /\ l = Len(s) /\ n <= l /\ d = l - n /\ t = SubSeq(s, n + 1, Len(s))
RestOf(s, t, n, d) ==
  t \in Seq(Bytes) /\ Len(t) = d /\ \A i \in 1 .. d : t[i] = s[n + i]

LEMMA LeftBehind ==
  ASSUME NEW s, NEW t, NEW l, NEW n, NEW d PROVE TakenOff(s, t, l, n, d) => RestOf(s, t, n, d)
<1> SUFFICES ASSUME s \in Seq(Bytes), l \in Nat, n \in Nat, d \in Nat,
                    l = Len(s), n <= l, d = l - n, t = SubSeq(s, n + 1, Len(s))
             PROVE  t \in Seq(Bytes) /\ Len(t) = d /\ \A i \in 1 .. d : t[i] = s[n + i]
  BY DEF TakenOff, RestOf
<1>1. n \in 0 .. Len(s)
  OBVIOUS
<1> QED BY <1>1, Behind

(* A message that may be sent makes a longer list that may be.              *)
LEMMA OneMore ==
  ASSUME NEW ms, Sendable(ms), NEW b \in Seq(Bytes), Len(b) <= Most(4)
  PROVE  LET ns == Append(ms, b) IN
         /\ Sendable(ns) /\ Len(ms) \in Nat /\ Len(ns) = Len(ms) + 1 /\ ns[Len(ns)] = b
         /\ \A i \in 1 .. Len(ms) : ns[i] = ms[i]
<1> DEFINE S == Seq(Bytes)
<1> DEFINE ns == Append(ms, b)
<1>1. ms \in Seq(S) /\ b \in S
  BY DEF Sendable
<1> HIDE DEF S
<1>2. /\ Len(ms) \in Nat /\ ns \in Seq(S) /\ Len(ns) = Len(ms) + 1 /\ ns[Len(ms) + 1] = b
      /\ \A i \in 1 .. Len(ms) : ns[i] = ms[i]
  BY <1>1, Appended
<1> HIDE DEF ns
<1>3. ASSUME NEW i \in 1 .. Len(ns) PROVE Len(ns[i]) <= Most(4)
  <2>1. CASE i = Len(ms) + 1
    BY <1>2, <2>1
  <2>2. CASE i # Len(ms) + 1
    <3>1. i \in 1 .. Len(ms)
      BY <1>2, <2>2
    <3>2. Len(ms[i]) <= Most(4)
      BY <3>1 DEF Sendable
    <3> QED BY <1>2, <3>1, <3>2
  <2> QED BY <2>1, <2>2
<1>4. Sendable(ns)
  BY <1>2, <1>3 DEF Sendable, S
<1> QED BY <1>2, <1>4 DEF ns

(* Arithmetic of positions in the stream.                                   *)
LEMMA OneMorePosition ==
  ASSUME NEW pos \in [Nat -> Nat], NEW n \in Nat, NEW x \in Nat
  PROVE  \E p \in [Nat -> Nat] : p[n + 1] = x /\ \A i \in 1 .. n : p[i] = pos[i]
<1> DEFINE p == [pos EXCEPT ![n + 1] = x]
<1>1. p \in [Nat -> Nat] /\ p[n + 1] = x /\ \A i \in 1 .. n : p[i] = pos[i]
  OBVIOUS
<1> HIDE DEF p
<1> QED BY <1>1

LEMMA Within ==
  ASSUME NEW a \in Nat, NEW n \in Nat, NEW j \in 1 .. n, NEW base \in Nat, NEW l \in Nat,
         a + j > base, a + n <= base + l
  PROVE  a + j - base \in 1 .. l
OBVIOUS

(* A message that is put in comes behind all others.                        *)
Grown(N, ms, ns, s, t, pos, base, at, k) ==
  /\ N \in Nat /\ pos \in [Nat -> Nat] /\ base \in Nat /\ k \in 0 .. N
  /\ Sendable(ms) /\ Len(ms) = N /\ Sendable(ns) /\ Len(ns) = N + 1
  /\ \A i \in 1 .. N : ns[i] = ms[i]
  /\ s \in Seq(Bytes) /\ t = s \o Wire(ns, N + 1)
  /\ Layout(pos, base, ms, s, at, k)

LEMMA Grows ==
  ASSUME ByteAssumption, MessagesAssumption, NEW N, NEW ms, NEW ns, NEW s, NEW t,
         NEW pos, NEW base, NEW at, NEW k
  PROVE  Grown(N, ms, ns, s, t, pos, base, at, k)
         => \E p \in [Nat -> Nat] : Layout(p, base, ns, t, at, k)
<1> SUFFICES ASSUME N \in Nat, pos \in [Nat -> Nat], base \in Nat, k \in 0 .. N
             PROVE  Grown(N, ms, ns, s, t, pos, base, at, k)
                    => \E p \in [Nat -> Nat] : Layout(p, base, ns, t, at, k)
  BY DEF Grown
<1>0. SUFFICES ASSUME Sendable(ms), Len(ms) = N, Sendable(ns), Len(ns) = N + 1,
                      \A i \in 1 .. N : ns[i] = ms[i],
                      s \in Seq(Bytes), t = s \o Wire(ns, N + 1),
                      Layout(pos, base, ms, s, at, k)
               PROVE  \E p \in [Nat -> Nat] : Layout(p, base, ns, t, at, k)
  BY DEF Grown
<1>1. PICK W : W = Wire(ns, N + 1) /\ W \in Seq(Bytes)
  <2>1. N + 1 \in 1 .. Len(ns)
    BY <1>0
  <2> QED BY <1>0, <2>1, WireParts
<1>2. PICK w \in Nat : w = Len(W)
  BY <1>1
<1>3. PICK l \in Nat : l = Len(s)
  BY <1>0
<1>4. \A i \in 1 .. N : Wire(ns, i) = Wire(ms, i) /\ HeadOf(ns, i) = HeadOf(ms, i)
  BY <1>0 DEF Wire, HeadOf
<1>5. \A i \in 1 .. N : Len(Wire(ms, i)) \in Nat
  BY <1>0, WireParts
<1>6. PICK p \in [Nat -> Nat] : p[N + 2] = pos[N + 1] + w /\ \A i \in 1 .. N + 1 : p[i] = pos[i]
  <2>1. PICK m \in Nat, x \in Nat : m = N + 1 /\ x = pos[N + 1] + w
    OBVIOUS
  <2>2. \E p \in [Nat -> Nat] : p[m + 1] = x /\ \A i \in 1 .. m : p[i] = pos[i]
    BY OneMorePosition
  <2>3. m + 1 = N + 2
    BY <2>1
  <2> QED BY <2>1, <2>2, <2>3
<1>7. /\ Len(t) = l + w
      /\ \A x \in 1 .. l : t[x] = s[x]
      /\ \A x \in 1 .. w : t[l + x] = W[x]
  BY <1>0, <1>1, <1>2, <1>3, Joined
<1>8. /\ \A i \in 1 .. N : pos[i + 1] = pos[i] + Len(Wire(ms, i))
      /\ \A i \in 1 .. N + 1 : \A j \in i .. N + 1 : pos[i] <= pos[j]
      /\ base + l = pos[N + 1]
      /\ \A i \in 1 .. N : \A j \in 1 .. Len(Wire(ms, i)) :
           pos[i] + j > base => s[pos[i] + j - base] = Wire(ms, i)[j]
  BY <1>0, <1>3 DEF Layout
<1>m. ASSUME NEW i \in 1 .. N PROVE pos[i + 1] <= pos[N + 1]
  <2>1. i + 1 \in 1 .. N + 1 /\ N + 1 \in i + 1 .. N + 1
    OBVIOUS
  <2> QED BY <1>8, <2>1
<1>9. ASSUME NEW i \in 1 .. N + 1 PROVE p[i + 1] = p[i] + Len(Wire(ns, i))
  <2>1. CASE i = N + 1
    BY <1>1, <1>2, <1>6, <2>1
  <2>2. CASE i # N + 1
    <3>1. i \in 1 .. N /\ i \in 1 .. N + 1 /\ i + 1 \in 1 .. N + 1
      BY <2>2
    <3>2. p[i + 1] = pos[i + 1] /\ p[i] = pos[i]
      BY <1>6, <3>1
    <3> QED BY <1>4, <1>8, <3>1, <3>2
  <2> QED BY <2>1, <2>2
<1>10. ASSUME NEW i \in 1 .. N + 2, NEW j \in i .. N + 2 PROVE p[i] <= p[j]
  <2>1. i \in Nat /\ j \in Nat /\ i <= j /\ j <= N + 2
    OBVIOUS
  <2>2. CASE i = N + 2
    <3>1. j = i
      BY <2>1, <2>2
    <3> QED BY <2>2, <1>6, <3>1
  <2>3. CASE i # N + 2 /\ j = N + 2
    <3>1. i \in 1 .. N + 1 /\ N + 1 \in i .. N + 1
      BY <2>1, <2>3
    <3>2. p[i] = pos[i] /\ pos[i] <= pos[N + 1]
      BY <1>6, <1>8, <3>1
    <3> QED BY <1>6, <2>3, <3>2
  <2>4. CASE j # N + 2
    <3>1. i \in 1 .. N + 1 /\ j \in i .. N + 1 /\ j \in 1 .. N + 1
      BY <2>1, <2>4
    <3> QED BY <1>6, <1>8, <3>1
  <2> QED BY <2>2, <2>3, <2>4
<1>11. base + Len(t) = p[N + 2]
  <2>1. base + (l + w) = (base + l) + w
    OBVIOUS
  <2> QED BY <2>1, <1>6, <1>7, <1>8
<1>12. ASSUME NEW i \in 1 .. N + 1, NEW j \in 1 .. Len(Wire(ns, i)), p[i] + j > base
       PROVE  t[p[i] + j - base] = Wire(ns, i)[j]
  <2>1. CASE i = N + 1
    <3>1. j \in 1 .. w /\ Wire(ns, i) = W
      BY <1>1, <1>2, <2>1
    <3>2. p[i] = base + l /\ p[i] + j - base = l + j
      BY <1>6, <1>8, <2>1, <3>1
    <3> QED BY <1>7, <3>1, <3>2
  <2>2. CASE i # N + 1
    <3>1. i \in 1 .. N /\ i \in 1 .. N + 1 /\ i + 1 \in 1 .. N + 1
      BY <2>2
    <3>2. Wire(ns, i) = Wire(ms, i) /\ p[i] = pos[i] /\ pos[i] \in Nat /\ Len(Wire(ms, i)) \in Nat
      BY <1>4, <1>5, <1>6, <3>1
    <3>3. pos[i] + Len(Wire(ms, i)) <= base + l
      <4>1. PICK x \in Nat, y \in Nat : x = pos[i + 1] /\ y = pos[N + 1]
        <5>1. i + 1 \in Nat /\ N + 1 \in Nat
          OBVIOUS
        <5> QED BY <5>1
      <4>2. x <= y
        BY <1>m, <3>1, <4>1
      <4>3. x = pos[i] + Len(Wire(ms, i)) /\ base + l = y
        BY <1>8, <3>1, <4>1
      <4> QED BY <4>2, <4>3
    <3>4. pos[i] + j - base \in 1 .. l
      BY <1>12, <3>2, <3>3, Within
    <3>5. j \in 1 .. Len(Wire(ms, i)) /\ pos[i] + j > base
      BY <1>12, <3>2
    <3>6. s[pos[i] + j - base] = Wire(ms, i)[j]
      BY <1>8, <3>1, <3>5
    <3> QED BY <1>7, <3>2, <3>4, <3>6
  <2> QED BY <2>1, <2>2
<1>13. (N + 1) + 1 = N + 2
  OBVIOUS
<1>14. IF at = Head_ THEN base = p[k + 1]
       ELSE /\ k < N + 1
            /\ at = Len(ns[k + 1])
            /\ base = p[k + 1] + Len(HeadOf(ns, k + 1))
  <2>1. k + 1 \in 1 .. N + 1 /\ p[k + 1] = pos[k + 1]
    BY <1>6
  <2>2. CASE at = Head_
    BY <1>0, <2>1, <2>2 DEF Layout
  <2>3. CASE at # Head_
    <3>1. k < N /\ at = Len(ms[k + 1]) /\ base = pos[k + 1] + Len(HeadOf(ms, k + 1))
      BY <1>0, <2>3 DEF Layout
    <3>2. k + 1 \in 1 .. N
      BY <3>1
    <3>3. ns[k + 1] = ms[k + 1] /\ HeadOf(ns, k + 1) = HeadOf(ms, k + 1)
      BY <1>0, <1>4, <3>2
    <3> QED BY <2>1, <2>3, <3>1, <3>3
  <2> QED BY <2>2, <2>3
<1>15. Len(ns) = N + 1
  BY <1>0
<1> QED BY <1>9, <1>10, <1>11, <1>12, <1>13, <1>14, <1>15 DEF Layout

(* The reader takes the first n bytes of the stream s, which leaves t, and  *)
(* stands as `to` and m say.                                                *)
Dropped(N, ms, s, t, n, pos, base, b, at, k, to, m) ==
  /\ N \in Nat /\ n \in Nat /\ base \in Nat /\ pos \in [Nat -> Nat] /\ b = base + n
  /\ Sendable(ms) /\ Len(ms) = N /\ s \in Seq(Bytes) /\ n <= Len(s)
  /\ t = SubSeq(s, n + 1, Len(s))
  /\ Layout(pos, base, ms, s, at, k)
  /\ IF to = Head_ THEN b = pos[m + 1]
     ELSE /\ m < N
          /\ to = Len(ms[m + 1])
          /\ b = pos[m + 1] + Len(HeadOf(ms, m + 1))

LEMMA Drops ==
  ASSUME ByteAssumption, MessagesAssumption, NEW N, NEW ms, NEW s, NEW t, NEW n,
         NEW pos, NEW base, NEW b, NEW at, NEW k, NEW to, NEW m
  PROVE  Dropped(N, ms, s, t, n, pos, base, b, at, k, to, m) => Layout(pos, b, ms, t, to, m)
<1> SUFFICES ASSUME N \in Nat, n \in Nat, pos \in [Nat -> Nat], base \in Nat
             PROVE  Dropped(N, ms, s, t, n, pos, base, b, at, k, to, m)
                    => Layout(pos, b, ms, t, to, m)
  BY DEF Dropped
<1>0. SUFFICES ASSUME Sendable(ms), Len(ms) = N, s \in Seq(Bytes), n <= Len(s),
                      t = SubSeq(s, n + 1, Len(s)),
                      Layout(pos, base, ms, s, at, k), b = base + n,
                      IF to = Head_ THEN b = pos[m + 1]
                      ELSE /\ m < N
                           /\ to = Len(ms[m + 1])
                           /\ b = pos[m + 1] + Len(HeadOf(ms, m + 1))
               PROVE  Layout(pos, b, ms, t, to, m)
  BY DEF Dropped
<1>1. PICK l \in Nat : l = Len(s)
  BY <1>0
<1>2. PICK d \in Nat : d = l - n
  <2>1. n <= l
    BY <1>0, <1>1
  <2> QED BY <2>1
<1>3. Len(t) = d /\ \A i \in 1 .. d : t[i] = s[n + i]
  <2>1. n <= l /\ s \in Seq(Bytes) /\ t = SubSeq(s, n + 1, Len(s))
    BY <1>0, <1>1
  <2>2. TakenOff(s, t, l, n, d)
    BY <1>1, <1>2, <2>1 DEF TakenOff
  <2>3. RestOf(s, t, n, d)
    BY <2>2, LeftBehind, Zenon
  <2> QED BY <2>3 DEF RestOf
<1>4. /\ \A i \in 1 .. N : pos[i + 1] = pos[i] + Len(Wire(ms, i))
      /\ \A i \in 1 .. N + 1 : \A j \in i .. N + 1 : pos[i] <= pos[j]
      /\ base + l = pos[N + 1]
      /\ \A i \in 1 .. N : \A j \in 1 .. Len(Wire(ms, i)) :
           pos[i] + j > base => s[pos[i] + j - base] = Wire(ms, i)[j]
  BY <1>0, <1>1 DEF Layout
<1>5. b + Len(t) = pos[N + 1]
  <2>1. b = base + n
    BY <1>0
  <2> QED BY <1>2, <1>3, <1>4, <2>1
<1>6. ASSUME NEW i \in 1 .. N, NEW j \in 1 .. Len(Wire(ms, i)), pos[i] + j > base + n
      PROVE  t[pos[i] + j - (base + n)] = Wire(ms, i)[j]
  <2>1. PICK w \in Nat : w = Len(Wire(ms, i))
    BY <1>0, WireParts
  <2>2. PICK a \in Nat : a = pos[i]
    OBVIOUS
  <2>3. i \in 1 .. N + 1 /\ i + 1 \in 1 .. N + 1
    OBVIOUS
  <2>4. a + w <= (base + n) + d
    BY <1>2, <1>4, <2>1, <2>2, <2>3
  <2>5. a + j - (base + n) \in 1 .. d
    <3>1. j \in 1 .. w /\ a + j > base + n /\ base + n \in Nat
      BY <1>6, <2>1, <2>2
    <3> QED BY <2>4, <3>1, Within
  <2>6. n + (a + j - (base + n)) = a + j - base /\ a + j > base
    <3>1. j \in Nat /\ a + j > base + n
      BY <1>6, <2>1, <2>2
    <3> QED BY <3>1
  <2>7. s[a + j - base] = Wire(ms, i)[j]
    BY <1>4, <2>2, <2>6
  <2> QED BY <1>3, <2>2, <2>5, <2>6, <2>7
<1>7. ASSUME NEW i \in 1 .. N, NEW j \in 1 .. Len(Wire(ms, i)), pos[i] + j > b
      PROVE  t[pos[i] + j - b] = Wire(ms, i)[j]
  BY <1>0, <1>6, <1>7
<1> QED BY <1>0, <1>4, <1>5, <1>7 DEF Layout

(* The buffer and what is under way are one stream, wherever it is cut.     *)
LEMMA Moved ==
  ASSUME NEW S, NEW q \in Seq(S), NEW r \in Seq(S), r # <<>>
  PROVE  /\ Append(q, Head(r)) \in Seq(S) /\ Tail(r) \in Seq(S)
         /\ Append(q, Head(r)) \o Tail(r) = q \o r
OBVIOUS

LEMMA Taken ==
  ASSUME NEW S, NEW q \in Seq(S), NEW r \in Seq(S), NEW n \in Nat, n <= Len(q)
  PROVE  SubSeq(q, n + 1, Len(q)) \o r = SubSeq(q \o r, n + 1, Len(q \o r))
<1> DEFINE x == SubSeq(q, n + 1, Len(q))
<1> DEFINE y == SubSeq(q \o r, n + 1, Len(q \o r))
<1>1. PICK l \in Nat, m \in Nat, d \in Nat : l = Len(q) /\ m = Len(r) /\ d = l - n
  <2>1. Len(q) \in Nat /\ Len(r) \in Nat /\ Len(q) - n \in Nat
    OBVIOUS
  <2> QED BY <2>1
<1>2. x \in Seq(S) /\ Len(x) = d /\ \A i \in 1 .. d : x[i] = q[n + i]
  <2>1. n \in 0 .. Len(q)
    BY <1>1
  <2> QED BY <1>1, <2>1, Behind
<1>3. /\ q \o r \in Seq(S) /\ Len(q \o r) = l + m
      /\ \A i \in 1 .. l : (q \o r)[i] = q[i]
      /\ \A i \in 1 .. m : (q \o r)[l + i] = r[i]
  BY <1>1, Joined
<1>4. y \in Seq(S) /\ Len(y) = d + m /\ \A i \in 1 .. d + m : y[i] = (q \o r)[n + i]
  <2>1. n \in 0 .. Len(q \o r) /\ Len(q \o r) - n = d + m
    BY <1>1, <1>3
  <2> QED BY <1>3, <2>1, Behind
<1> HIDE DEF x, y
<1>5. /\ x \o r \in Seq(S) /\ Len(x \o r) = d + m
      /\ \A i \in 1 .. d : (x \o r)[i] = x[i]
      /\ \A i \in 1 .. m : (x \o r)[d + i] = r[i]
  <2>1. /\ x \o r \in Seq(S) /\ Len(x \o r) = Len(x) + Len(r)
        /\ \A i \in 1 .. Len(x) : (x \o r)[i] = x[i]
        /\ \A i \in 1 .. Len(r) : (x \o r)[Len(x) + i] = r[i]
    <3>1. PICK z \in Seq(S) : z = x
      BY <1>2
    <3>2. /\ z \o r \in Seq(S) /\ Len(z \o r) = Len(z) + Len(r)
          /\ \A i \in 1 .. Len(z) : (z \o r)[i] = z[i]
          /\ \A i \in 1 .. Len(r) : (z \o r)[Len(z) + i] = r[i]
      BY Joined
    <3> QED BY <3>1, <3>2
  <2> QED BY <1>1, <1>2, <2>1
<1>6. ASSUME NEW i \in 1 .. d + m PROVE (x \o r)[i] = y[i]
  <2>1. CASE i <= d
    <3>1. i \in 1 .. d /\ n + i \in 1 .. l
      BY <1>1, <2>1
    <3> QED BY <1>2, <1>3, <1>4, <1>5, <3>1
  <2>2. CASE i > d
    <3>1. PICK j \in 1 .. m : i = d + j
      <4>1. i - d \in 1 .. m /\ i = d + (i - d)
        BY <2>2
      <4> QED BY <4>1
    <3>2. n + i = l + j
      BY <1>1, <3>1
    <3> QED BY <1>3, <1>4, <1>5, <3>1, <3>2
  <2>3. i <= d \/ i > d
    OBVIOUS
  <2> QED BY <2>1, <2>2, <2>3
<1>7. x \o r = y
  BY <1>4, <1>5, <1>6
<1> QED BY <1>7 DEF x, y

(* The pieces of a stream, however they are put together.                   *)
LEMMA Three ==
  ASSUME NEW S, NEW q \in Seq(S), NEW r \in Seq(S), NEW t \in Seq(S)
  PROVE  q \o (r \o t) = (q \o r) \o t
OBVIOUS

Cat(q, r) == q \o r

LEMMA CatThree ==
  ASSUME NEW q \in Seq(Bytes), NEW r \in Seq(Bytes), NEW t \in Seq(Bytes)
  PROVE  Cat(q, Cat(r, t)) = Cat(Cat(q, r), t) /\ Cat(q, r) \in Seq(Bytes)
BY DEF Cat

(* Four pieces; Cat is kept folded for the provers' sake.                   *)
LEMMA Four ==
  ASSUME NEW q \in Seq(Bytes), NEW r \in Seq(Bytes), NEW x \in Seq(Bytes), NEW y \in Seq(Bytes)
  PROVE  Cat(q, Cat(Cat(r, x), y)) = Cat(Cat(q, r), Cat(x, y))
<1>1. \A a, b, c \in Seq(Bytes) : Cat(a, Cat(b, c)) = Cat(Cat(a, b), c)
  BY CatThree
<1>2. \A a, b \in Seq(Bytes) : Cat(a, b) \in Seq(Bytes)
  BY CatThree
<1>3. Cat(Cat(r, x), y) = Cat(r, Cat(x, y))
  BY <1>1
<1>4. Cat(x, y) \in Seq(Bytes)
  BY <1>2
<1>5. Cat(q, Cat(r, Cat(x, y))) = Cat(Cat(q, r), Cat(x, y))
  BY <1>1, <1>4
<1> QED BY <1>3, <1>5

(* Nothing before or behind a stream.                                       *)
LEMMA Alone ==
  ASSUME NEW S, NEW q \in Seq(S) PROVE <<>> \o q = q /\ q \o <<>> = q
OBVIOUS

(* A reader has q of the stream, r is under way; it has read k of the N     *)
(* messages ms, the i-th is the next, and its state is at.                  *)
Reader(N, ms, q, r, at, k, i, pos, base) ==
  /\ N \in Nat /\ k \in Nat /\ i \in Nat /\ base \in Nat /\ pos \in [Nat -> Nat]
  /\ Sendable(ms) /\ Len(ms) = N /\ q \in Seq(Bytes) /\ r \in Seq(Bytes)
  /\ k <= N /\ i = k + 1
  /\ Layout(pos, base, ms, q \o r, at, k)

(* The stream begins with the head of the i-th message, or with its n bytes *)
(* of body.                                                                 *)
HasHead(N, ms, q, i, pos, base) ==
  /\ i <= N
  /\ HeadOf(ms, i) \in Seq(Bytes)
  /\ head_len(q) = Len(HeadOf(ms, i))
  /\ length(q) = Len(ms[i])
  /\ base = pos[i]

HasBody(N, ms, q, n, i, pos, base) ==
  i <= N /\ SubSeq(q, 1, n) = ms[i] /\ base + n = pos[i + 1]

(* A reader at the beginning of a message that has bytes of it, and as many *)
(* as the first of them says, has the head of that message.                 *)
LEMMA AtHead ==
  ASSUME ByteAssumption, MessagesAssumption, NEW N, NEW ms, NEW q, NEW r,
         NEW k, NEW i, NEW pos, NEW base
  PROVE  /\ Reader(N, ms, q, r, Head_, k, i, pos, base)
         /\ q # <<>> /\ head_len(q) <= Len(q) /\ k < Frames
         => HasHead(N, ms, q, i, pos, base)
<1> SUFFICES ASSUME N \in Nat, k \in Nat, i \in Nat, pos \in [Nat -> Nat], base \in Nat
             PROVE  /\ Reader(N, ms, q, r, Head_, k, i, pos, base)
                    /\ q # <<>> /\ head_len(q) <= Len(q) /\ k < Frames
                    => HasHead(N, ms, q, i, pos, base)
  BY DEF Reader
<1>0. SUFFICES ASSUME Sendable(ms), Len(ms) = N, q \in Seq(Bytes), r \in Seq(Bytes),
                      q # <<>>, head_len(q) <= Len(q), k < Frames, k <= N, i = k + 1,
                      Layout(pos, base, ms, q \o r, Head_, k)
               PROVE  HasHead(N, ms, q, i, pos, base)
  BY DEF Reader
<1>1. PICK l \in Nat, m \in Nat : l = Len(q) /\ m = Len(r) /\ l > 0
  BY <1>0
<1>2. /\ Len(q \o r) = l + m
      /\ \A x \in 1 .. l : (q \o r)[x] = q[x]
  BY <1>0, <1>1, Joined
<1>3. /\ base = pos[k + 1]
      /\ base + (l + m) = pos[N + 1]
      /\ \A x \in 1 .. N : \A j \in 1 .. Len(Wire(ms, x)) :
           pos[x] + j > base => (q \o r)[pos[x] + j - base] = Wire(ms, x)[j]
  BY <1>0, <1>2 DEF Layout
<1>4. i \in 1 .. N
  <2>1. k # N
    BY <1>1, <1>3
  <2> QED BY <1>0, <2>1
<1> DEFINE h == HeadOf(ms, i)
<1>6. ms[i] \in Seq(Bytes) /\ Len(ms[i]) \in Nat /\ Len(ms[i]) <= Most(4)
  BY <1>0, <1>4, Message
<1>7. h = encode_head(Len(ms[i]))
  <2>1. i <= Frames
    BY <1>0 DEF MessagesAssumption
  <2> QED BY <2>1 DEF HeadOf
<1>8. /\ h \in Seq(Bytes) /\ Len(h) \in 1 .. 4 /\ head_len(h) = Len(h)
      /\ length(h) = Len(ms[i])
  BY <1>6, <1>7, HeadIsShort, HeadInverts
<1>9. /\ Len(Wire(ms, i)) = Len(h) + Len(ms[i])
      /\ \A j \in 1 .. Len(h) : Wire(ms, i)[j] = h[j]
  <2>1. Sendable(ms) /\ i \in 1 .. Len(ms)
    BY <1>0, <1>4
  <2>2. WireIs(ms, i)
    BY <2>1, WireFacts, Zenon
  <2> QED BY <2>2 DEF WireIs
<1> HIDE DEF h
<1>a. PICK d \in 1 .. 4 : d = Len(h)
  BY <1>8
<1>b. d \in Nat /\ 1 <= d
  OBVIOUS
<1>d. PICK n \in Nat : n = Len(ms[i])
  BY <1>6
<1>10. ASSUME NEW j \in 1 .. d, j <= l PROVE q[j] = h[j]
  <2>1. j \in Nat /\ j > 0 /\ j \in 1 .. l /\ j \in 1 .. Len(Wire(ms, i))
    <3>1. Len(Wire(ms, i)) = d + n
      BY <1>9, <1>a, <1>b, <1>d
    <3> QED BY <1>10, <3>1
  <2>2. pos[i] + j > base /\ pos[i] + j - base = j
    <3>1. pos[i] = base
      BY <1>0, <1>3
    <3> QED BY <2>1, <3>1
  <2>3. (q \o r)[j] = Wire(ms, i)[j]
    BY <1>3, <1>4, <2>1, <2>2
  <2> QED BY <1>2, <1>9, <1>a, <1>b, <1>d, <2>1, <2>3
<1>11. head_len(q) = Len(h)
  <2>1. 1 \in 1 .. d /\ 1 <= l
    BY <1>1, <1>a, <1>b, <1>d
  <2>2. q[1] = h[1]
    BY <1>10, <2>1
  <2> QED BY <1>8, <2>2 DEF head_len
<1>12. length(q) = length(h)
  <2>1. d <= l
    BY <1>0, <1>1, <1>11, <1>a, <1>b, <1>d
  <2>2. ASSUME NEW j \in 1 .. d PROVE q[j] = h[j]
    <3>1. j <= l
      BY <2>1
    <3> QED BY <1>10, <3>1
  <2>3. Len(h) <= Len(q) /\ \A j \in 1 .. Len(h) : q[j] = h[j]
    BY <1>1, <1>a, <1>b, <1>d, <2>1, <2>2
  <2> QED BY <1>0, <1>8, <2>3, SameHead
<1>13. i <= N /\ base = pos[i]
  BY <1>0, <1>3, <1>4
<1> QED BY <1>8, <1>11, <1>12, <1>13 DEF h, HasHead

(* A reader behind a head that has as many bytes as the head says has the   *)
(* body of that message.                                                    *)
LEMMA AtBody ==
  ASSUME ByteAssumption, MessagesAssumption, NEW N, NEW ms, NEW q, NEW r,
         NEW n \in Nat, NEW k, NEW i, NEW pos, NEW base
  PROVE  Reader(N, ms, q, r, n, k, i, pos, base) /\ n <= Len(q)
         => HasBody(N, ms, q, n, i, pos, base)
<1> SUFFICES ASSUME N \in Nat, k \in Nat, i \in Nat, pos \in [Nat -> Nat], base \in Nat
             PROVE  Reader(N, ms, q, r, n, k, i, pos, base) /\ n <= Len(q)
                    => HasBody(N, ms, q, n, i, pos, base)
  BY DEF Reader
<1>0. SUFFICES ASSUME Sendable(ms), Len(ms) = N, q \in Seq(Bytes), r \in Seq(Bytes),
                      n <= Len(q), k <= N, i = k + 1, Layout(pos, base, ms, q \o r, n, k)
               PROVE  HasBody(N, ms, q, n, i, pos, base)
  BY DEF Reader
<1>1. PICK l \in Nat, m \in Nat : l = Len(q) /\ m = Len(r) /\ n <= l
  BY <1>0
<1>2. \A x \in 1 .. l : (q \o r)[x] = q[x]
  BY <1>0, <1>1, Joined
<1>3. n # Head_
  BY DEF Head_
<1>4. /\ k < N /\ n = Len(ms[k + 1]) /\ base = pos[k + 1] + Len(HeadOf(ms, k + 1))
      /\ \A x \in 1 .. N : pos[x + 1] = pos[x] + Len(Wire(ms, x))
      /\ \A x \in 1 .. N : \A j \in 1 .. Len(Wire(ms, x)) :
           pos[x] + j > base => (q \o r)[pos[x] + j - base] = Wire(ms, x)[j]
  BY <1>0, <1>3 DEF Layout
<1>5. i \in 1 .. N /\ i \in 1 .. Len(ms) /\ n = Len(ms[i])
  <2>1. i = k + 1
    BY <1>0
  <2>2. n = Len(ms[i])
    BY <1>4, <2>1
  <2>3. i \in 1 .. N
    BY <1>4, <2>1
  <2> QED BY <1>0, <2>2, <2>3
<1>6. PICK h \in Nat : h = Len(HeadOf(ms, i))
  <2>1. HeadOf(ms, i) \in Seq(Bytes)
    BY <1>0, <1>5, HeadBytes
  <2>2. Len(HeadOf(ms, i)) \in Nat
    BY <2>1
  <2> QED BY <2>2
<1>7. /\ ms[i] \in Seq(Bytes) /\ Len(Wire(ms, i)) = h + n
      /\ \A j \in 1 .. n : Wire(ms, i)[h + j] = ms[i][j]
  <2>1. /\ ms[i] \in Seq(Bytes)
        /\ Len(Wire(ms, i)) = Len(HeadOf(ms, i)) + Len(ms[i])
        /\ \A j \in 1 .. Len(ms[i]) : Wire(ms, i)[Len(HeadOf(ms, i)) + j] = ms[i][j]
    <3>1. Sendable(ms)
      BY <1>0
    <3> QED BY <1>5, <3>1, WireParts
  <2> QED BY <1>5, <1>6, <2>1
<1>8. base = pos[i] + h
  BY <1>0, <1>4, <1>6
<1>9. base + n = pos[i + 1]
  <2>1. pos[i + 1] = pos[i] + (h + n)
    BY <1>4, <1>5, <1>7
  <2> QED BY <1>8, <2>1
<1>10. ASSUME NEW j \in 1 .. n PROVE q[j] = ms[i][j]
  <2>1. j \in 1 .. l /\ j \in Nat /\ j > 0
    BY <1>1
  <2>2. h + j \in 1 .. h + n
    BY <2>1
  <2>3. pos[i] + (h + j) > base /\ pos[i] + (h + j) - base = j
    <3>1. pos[i] \in Nat
      OBVIOUS
    <3> QED BY <1>8, <2>1, <3>1
  <2>4. (q \o r)[j] = Wire(ms, i)[h + j]
    <3>1. PICK x \in Nat : x = h + j /\ x \in 1 .. Len(Wire(ms, i))
      BY <1>7, <2>2
    <3>2. pos[i] + x > base => (q \o r)[pos[i] + x - base] = Wire(ms, i)[x]
      BY <1>4, <1>5, <3>1
    <3> QED BY <2>3, <3>1, <3>2
  <2> QED BY <1>2, <1>7, <2>1, <2>4
<1> DEFINE b == SubSeq(q, 1, n)
<1>11. b \in Seq(Bytes) /\ Len(b) = n /\ \A j \in 1 .. n : b[j] = q[j]
  <2>1. n \in 0 .. Len(q)
    BY <1>1
  <2> QED BY <1>0, <2>1, Behind
<1> HIDE DEF b
<1>12. b = ms[i]
  <2>1. PICK c \in Seq(Bytes) : c = ms[i]
    BY <1>7
  <2>2. PICK a \in Seq(Bytes) : a = b
    BY <1>11
  <2>3. Len(c) = n /\ Len(a) = n /\ \A j \in 1 .. n : a[j] = c[j]
    BY <1>5, <1>10, <1>11, <2>1, <2>2
  <2>4. a = c
    BY <2>3
  <2> QED BY <2>1, <2>2, <2>4
<1>13. i <= N
  BY <1>5
<1> QED BY <1>9, <1>12, <1>13 DEF b, HasBody

-----------------------------------------------------------------------------
(* Nothing is under way to begin with.                                      *)
LEMMA InitInv ==
  ASSUME ByteAssumption, MessagesAssumption PROVE Init => IInv
<1> SUFFICES ASSUME Init PROVE IInv
  OBVIOUS
<1>1. /\ sent = <<>> /\ net = <<>> /\ src = <<>> /\ out = <<>> /\ state = Head_ /\ ~failed
  BY DEF Init
<1>2. Typed
  BY <1>1 DEF Typed, Sendable
<1>3. LaidOut
  <2> DEFINE pos == [i \in Nat |-> 0]
  <2>1. pos \in [Nat -> Nat] /\ \A i \in Nat : pos[i] = 0
    OBVIOUS
  <2>2. Len(sent) = 0 /\ Len(out) = 0 /\ Len(src \o net) = 0
    BY <1>1
  <2> HIDE DEF pos
  <2>3. Layout(pos, 0, sent, src \o net, Head_, 0)
    BY <2>1, <2>2 DEF Layout
  <2> QED BY <1>1, <2>1, <2>2, <2>3 DEF LaidOut
<1> QED BY <1>1, <1>2, <1>3 DEF IInv

(* The bytes of a message.                                                  *)
LEMMA BodyBytes ==
  ASSUME ByteAssumption, NEW k \in Nat, NEW n \in Nat
  PROVE  Body(k, n) \in Seq(Bytes) /\ Len(Body(k, n)) = n
<1>1. \A j \in 1 .. n : (k + j) % B \in Bytes
  BY Division DEF ByteAssumption, Bytes
<1> QED BY <1>1 DEF Body

(* encode: the list of messages has one more, and the stream its wire.      *)
LEMMA Encoded ==
  ASSUME ByteAssumption, MessagesAssumption, IInv, NEW n \in Lengths, encode(n)
  PROVE  /\ Sendable(sent') /\ Len(sent') = Len(sent) + 1
         /\ \A i \in 1 .. Len(sent) : sent'[i] = sent[i]
         /\ net' \in Seq(Bytes) /\ src' \o net' = (src \o net) \o Wire(sent', Len(sent) + 1)
         /\ UNCHANGED <<src, state, out, raws, failed>>
<1> DEFINE b == Body(Len(sent) + 1, n)
<1>1. PICK N \in Nat, K \in Nat : N = Len(sent) /\ K = Len(out) /\ K <= N
  <2>1. Len(sent) \in Nat /\ Len(out) \in Nat
    BY DEF IInv, Typed, Sendable
  <2> QED BY <2>1 DEF IInv, Typed
<1>2. b \in Seq(Bytes) /\ Len(b) <= Most(4)
  BY <1>1, BodyBytes DEF encode, MessagesAssumption
<1> HIDE DEF b
<1>3. /\ sent' = Append(sent, b)
      /\ net' = net \o (IF Len(sent) < Frames THEN encode_head(n) ELSE <<>>) \o b
      /\ UNCHANGED <<src, state, out, raws, failed>>
  BY DEF encode, b
<1>4. /\ Sendable(sent') /\ Len(sent') = N + 1 /\ sent'[N + 1] = b
      /\ \A i \in 1 .. N : sent'[i] = sent[i]
  BY <1>1, <1>2, <1>3, OneMore DEF IInv, Typed
<1>5. PICK H \in Seq(Bytes) : H = HeadOf(sent', N + 1) /\ H = (IF Len(sent) < Frames THEN encode_head(n) ELSE <<>>)
  <2>1. Len(b) = n
    BY <1>1, BodyBytes DEF b, MessagesAssumption
  <2>2. N + 1 <= Frames <=> N < Frames
    BY DEF MessagesAssumption
  <2>3. HeadOf(sent', N + 1) = IF N < Frames THEN encode_head(n) ELSE <<>>
    BY <1>4, <2>1, <2>2 DEF HeadOf
  <2>4. N + 1 \in 1 .. Len(sent')
    BY <1>4
  <2>5. HeadOf(sent', N + 1) \in Seq(Bytes)
    BY <1>4, <2>4, WireParts
  <2> QED BY <1>1, <2>3, <2>5
<1>6. /\ net \in Seq(Bytes) /\ src \in Seq(Bytes) /\ out \in Seq(Seq(Bytes))
      /\ state = Head_ \/ state \in 0 .. max_packet_length
  BY DEF IInv, Typed
<1>7. /\ net' \in Seq(Bytes)
      /\ src' \o net' = (src \o net) \o Wire(sent', N + 1)
  <2>1. net' = net \o H \o b
    BY <1>3, <1>5
  <2>2. Wire(sent', N + 1) = H \o b
    BY <1>4, <1>5 DEF Wire
  <2>3. net \o H \in Seq(Bytes)
    BY <1>5, <1>6, Joined
  <2>4. net \o H \o b \in Seq(Bytes)
    BY <1>2, <2>3, Joined
  <2>5. src \o (net \o H \o b) = (src \o net) \o (H \o b)
    <3>1. PICK q \in Seq(Bytes), r \in Seq(Bytes), y \in Seq(Bytes) : q = src /\ r = net /\ y = b
      BY <1>2, <1>6
    <3>2. Cat(q, Cat(Cat(r, H), y)) = Cat(Cat(q, r), Cat(H, y))
      BY Four
    <3> QED BY <3>1, <3>2 DEF Cat
  <2> QED BY <1>3, <2>1, <2>2, <2>4, <2>5
<1> QED BY <1>1, <1>3, <1>4, <1>7

(* A message that is put in keeps the layout of the stream.                 *)
LEMMA EncodeStep ==
  ASSUME ByteAssumption, MessagesAssumption, IInv, NEW n \in Lengths, encode(n)
  PROVE  IInv'
<1>1. PICK N \in Nat, K \in Nat : N = Len(sent) /\ K = Len(out) /\ K <= N
  <2>1. Len(sent) \in Nat /\ Len(out) \in Nat
    BY DEF IInv, Typed, Sendable
  <2> QED BY <2>1 DEF IInv, Typed
<1>3. UNCHANGED <<src, state, out, raws, failed>>
  BY Encoded
<1>4. /\ Sendable(sent') /\ Len(sent') = N + 1
      /\ \A i \in 1 .. N : sent'[i] = sent[i]
  BY <1>1, Encoded
<1>6. /\ net \in Seq(Bytes) /\ src \in Seq(Bytes) /\ out \in Seq(Seq(Bytes))
      /\ state = Head_ \/ state \in 0 .. max_packet_length
  BY DEF IInv, Typed
<1>7. net' \in Seq(Bytes) /\ src' \o net' = (src \o net) \o Wire(sent', N + 1)
  BY <1>1, Encoded
<1>8. Typed'
  BY <1>1, <1>3, <1>4, <1>6, <1>7 DEF Typed
<1>9. \A i \in 1 .. K : out[i] = sent'[i]
  BY <1>1, <1>4 DEF IInv
<1>10. failed => K < N + 1 /\ Len(sent'[K + 1]) > max_packet_length
  <2> SUFFICES ASSUME failed PROVE K < N + 1 /\ Len(sent'[K + 1]) > max_packet_length
    OBVIOUS
  <2>1. K < N /\ Len(sent[K + 1]) > max_packet_length
    BY <1>1 DEF IInv
  <2>2. K + 1 \in 1 .. N
    BY <2>1
  <2> QED BY <1>4, <2>1, <2>2
<1>11. ~raw /\ ~failed => LaidOut'
  <2> SUFFICES ASSUME ~raw, ~failed PROVE LaidOut'
    OBVIOUS
  <2>1. PICK pos \in [Nat -> Nat], base \in Nat : Layout(pos, base, sent, src \o net, state, K)
    BY <1>1 DEF IInv, LaidOut
  <2>2. K \in 0 .. N /\ Sendable(sent) /\ src \o net \in Seq(Bytes)
    BY <1>1, <1>6, Joined DEF IInv, Typed
  <2>3. Grown(N, sent, sent', src \o net, src' \o net', pos, base, state, K)
    BY <1>1, <1>4, <1>7, <2>1, <2>2 DEF Grown
  <2>4. \E p \in [Nat -> Nat] : Layout(p, base, sent', src' \o net', state, K)
    BY <2>3, Grows
  <2> QED BY <1>1, <1>3, <2>4 DEF LaidOut
<1>12. raw' = raw
  BY <1>3 DEF raw
<1> QED BY <1>1, <1>3, <1>4, <1>8, <1>9, <1>10, <1>11, <1>12 DEF IInv

(* arrive: a byte moves from one part of the stream to the other.           *)
LEMMA ArriveStep ==
  ASSUME ByteAssumption, MessagesAssumption, IInv, arrive PROVE IInv'
<1>1. /\ src' = Append(src, Head(net)) /\ net' = Tail(net) /\ net # <<>>
      /\ UNCHANGED <<sent, state, out, raws, failed>>
  BY DEF arrive
<1>2. net \in Seq(Bytes) /\ src \in Seq(Bytes)
  BY DEF IInv, Typed
<1>3. src' \in Seq(Bytes) /\ net' \in Seq(Bytes) /\ src' \o net' = src \o net
  BY <1>1, <1>2, Moved
<1>4. Typed'
  BY <1>1, <1>3 DEF IInv, Typed
<1>5. LaidOut' <=> LaidOut
  BY <1>1, <1>3 DEF LaidOut
<1> QED BY <1>1, <1>4, <1>5 DEF IInv, raw

(* decode_head: the reader stands behind the head, and awaits the body of  *)
(* the next message; or that one is too big.                               *)
LEMMA HeadStep ==
  ASSUME ByteAssumption, MessagesAssumption, IInv, decode_head PROVE IInv'
<1>1. PICK N \in Nat, K \in Nat : N = Len(sent) /\ K = Len(out) /\ K <= N
  <2>1. Len(sent) \in Nat /\ Len(out) \in Nat
    BY DEF IInv, Typed, Sendable
  <2> QED BY <2>1 DEF IInv, Typed
<1>2. /\ net \in Seq(Bytes) /\ src \in Seq(Bytes) /\ Sendable(sent)
  BY DEF IInv, Typed
<1>3. /\ ~raw /\ ~failed /\ state = Head_ /\ src # <<>> /\ head_len(src) <= Len(src)
      /\ UNCHANGED <<sent, net, out, raws>>
  <2>1. src[1] \in Int /\ Len(src) \in Int /\ (src[1] % 4) \in Int
    BY <1>2 DEF Bytes, decode_head, ByteAssumption
  <2> QED BY <2>1 DEF decode_head, head_len
<1>4. PICK pos \in [Nat -> Nat], base \in Nat : Layout(pos, base, sent, src \o net, Head_, K)
  BY <1>1, <1>3 DEF IInv, LaidOut
<1>5. PICK i \in Nat : i = K + 1
  OBVIOUS
<1>6. /\ i <= N
      /\ HeadOf(sent, i) \in Seq(Bytes)
      /\ head_len(src) = Len(HeadOf(sent, i))
      /\ length(src) = Len(sent[i])
      /\ base = pos[i]
  <2>1. K < Frames
    BY <1>1, <1>3 DEF raw, MessagesAssumption
  <2>2. src # <<>> /\ head_len(src) <= Len(src)
    BY <1>3
  <2>3. Reader(N, sent, src, net, Head_, K, i, pos, base)
    BY <1>1, <1>2, <1>4, <1>5 DEF Reader
  <2>4. HasHead(N, sent, src, i, pos, base)
    BY <2>1, <2>2, <2>3, AtHead
  <2> QED BY <2>4 DEF HasHead
<1>7. PICK h \in Nat, n \in Nat : h = head_len(src) /\ n = length(src)
  <2>1. i \in 1 .. Len(sent)
    BY <1>1, <1>5, <1>6
  <2>2. Len(sent[i]) \in Nat
    BY <1>2, <2>1, Message
  <2>3. head_len(src) \in Nat /\ length(src) \in Nat
    BY <1>6, <2>2
  <2> QED BY <2>3
<1>8. CASE n > max_packet_length
  <2>1. failed' /\ UNCHANGED <<src, state>>
    BY <1>7, <1>8 DEF decode_head
  <2>2. Typed'
    BY <1>3, <2>1 DEF IInv, Typed
  <2>3. Len(out) < Len(sent) /\ Len(sent[Len(out) + 1]) > max_packet_length
    BY <1>1, <1>5, <1>6, <1>7, <1>8
  <2> QED BY <1>3, <2>1, <2>2, <2>3 DEF IInv
<1>9. CASE n <= max_packet_length
  <2>1. ~failed' /\ state' = n /\ src' = SubSeq(src, h + 1, Len(src))
    <3>1. ~(length(src) > max_packet_length)
      BY <1>7, <1>9 DEF MessagesAssumption
    <3>2. ~failed' /\ state' = length(src) /\ src' = SubSeq(src, head_len(src) + 1, Len(src))
      BY <1>3, <3>1 DEF decode_head
    <3> QED BY <1>7, <3>2
  <2>2. src' \in Seq(Bytes) /\ src' \o net = SubSeq(src \o net, h + 1, Len(src \o net))
    <3>1. h \in 0 .. Len(src) /\ h <= Len(src)
      BY <1>2, <1>3, <1>7
    <3>2. SubSeq(src, h + 1, Len(src)) \in Seq(Bytes)
      BY <1>2, <3>1, Behind
    <3>3. SubSeq(src, h + 1, Len(src)) \o net = SubSeq(src \o net, h + 1, Len(src \o net))
      BY <1>2, <3>1, Taken
    <3> QED BY <2>1, <3>2, <3>3
  <2>3. h <= Len(src \o net) /\ src \o net \in Seq(Bytes)
    <3>1. PICK l \in Nat, m \in Nat : l = Len(src) /\ m = Len(net)
      BY <1>2
    <3>2. Len(src \o net) = l + m /\ src \o net \in Seq(Bytes)
      BY <1>2, <3>1, Joined
    <3>3. h <= l
      BY <1>3, <1>7, <3>1
    <3> QED BY <3>2, <3>3
  <2>4. /\ n # Head_ /\ K < N /\ n = Len(sent[K + 1])
        /\ base + h = pos[K + 1] + Len(HeadOf(sent, K + 1))
    BY <1>5, <1>6, <1>7 DEF Head_
  <2>5. Layout(pos, base + h, sent, src' \o net, n, K)
    <3>1. Dropped(N, sent, src \o net, src' \o net, h, pos, base, base + h, Head_, K, n, K)
      BY <1>1, <1>2, <1>4, <2>2, <2>3, <2>4 DEF Dropped
    <3> QED BY <3>1, Drops
  <2>6. LaidOut'
    <3>1. base + h \in Nat
      OBVIOUS
    <3> QED BY <1>1, <1>3, <2>1, <2>5, <3>1 DEF LaidOut
  <2>7. Typed'
    <3>1. n \in 0 .. max_packet_length
      BY <1>9 DEF MessagesAssumption
    <3> QED BY <1>3, <2>1, <2>2, <3>1 DEF IInv, Typed
  <2> QED BY <1>3, <2>1, <2>6, <2>7 DEF IInv
<1> QED BY <1>8, <1>9 DEF MessagesAssumption

(* decode_data: the body is the next message, and the reader stands at the  *)
(* beginning of the one after it.                                           *)
LEMMA BodyStep ==
  ASSUME ByteAssumption, MessagesAssumption, IInv, decode_data PROVE IInv' /\ LaidOut'
<1>1. PICK N \in Nat, K \in Nat : N = Len(sent) /\ K = Len(out) /\ K <= N
  <2>1. Len(sent) \in Nat /\ Len(out) \in Nat
    BY DEF IInv, Typed, Sendable
  <2> QED BY <2>1 DEF IInv, Typed
<1>2. /\ net \in Seq(Bytes) /\ src \in Seq(Bytes) /\ Sendable(sent)
      /\ out \in Seq(Seq(Bytes))
  BY DEF IInv, Typed
<1>3. /\ ~raw /\ ~failed /\ state # Head_ /\ UNCHANGED <<sent, net, raws, failed>>
      /\ state' = Head_
  BY DEF decode_data
<1>4. PICK n \in Nat : n = state /\ n # Head_
  <2>1. state \in 0 .. max_packet_length
    BY <1>3 DEF IInv, Typed
  <2> QED BY <1>3, <2>1 DEF MessagesAssumption
<1>5. /\ n <= Len(src)
      /\ out' = Append(out, SubSeq(src, 1, n)) /\ src' = SubSeq(src, n + 1, Len(src))
  <2>1. Len(src) \in Nat
    BY <1>2
  <2> QED BY <1>4, <2>1 DEF decode_data
<1>6. PICK pos \in [Nat -> Nat], base \in Nat : Layout(pos, base, sent, src \o net, n, K)
  BY <1>1, <1>3, <1>4 DEF IInv, LaidOut
<1>7. PICK i \in Nat : i = K + 1
  OBVIOUS
<1>8. i <= N /\ SubSeq(src, 1, n) = sent[i] /\ base + n = pos[i + 1]
  <2>1. Reader(N, sent, src, net, n, K, i, pos, base)
    BY <1>1, <1>2, <1>6, <1>7 DEF Reader
  <2>2. HasBody(N, sent, src, n, i, pos, base)
    BY <1>5, <2>1, AtBody
  <2> QED BY <2>2 DEF HasBody
<1>9. PICK b \in Seq(Bytes) : b = sent[i] /\ b = SubSeq(src, 1, n)
  <2>1. i \in 1 .. Len(sent)
    BY <1>1, <1>7, <1>8
  <2>2. sent[i] \in Seq(Bytes)
    BY <1>2, <2>1, Message
  <2> QED BY <1>8, <2>2
<1>10. /\ out' \in Seq(Seq(Bytes)) /\ Len(out') = i /\ out'[i] = sent[i]
       /\ \A j \in 1 .. K : out'[j] = out[j]
  <2> DEFINE S == Seq(Bytes)
  <2>1. b \in S /\ out \in Seq(S) /\ out' = Append(out, b)
    BY <1>2, <1>5, <1>9
  <2> HIDE DEF S
  <2>2. /\ out' \in Seq(S) /\ Len(out') = K + 1 /\ out'[K + 1] = b
        /\ \A j \in 1 .. K : out'[j] = out[j]
    BY <1>1, <2>1, Appended
  <2> QED BY <1>7, <1>9, <2>2 DEF S
<1>11. ASSUME NEW j \in 1 .. i PROVE out'[j] = sent[j]
  <2>1. CASE j = i
    BY <1>10, <2>1
  <2>2. CASE j # i
    <3>1. j \in 1 .. K
      BY <1>7, <2>2
    <3> QED BY <1>1, <1>10, <3>1 DEF IInv
  <2> QED BY <2>1, <2>2
<1>12. src' \in Seq(Bytes) /\ src' \o net = SubSeq(src \o net, n + 1, Len(src \o net))
  <2>1. n \in 0 .. Len(src)
    BY <1>2, <1>5
  <2>2. n <= Len(src) /\ SubSeq(src, n + 1, Len(src)) \in Seq(Bytes)
    BY <1>2, <1>5, <2>1, Behind
  <2>3. SubSeq(src, n + 1, Len(src)) \o net = SubSeq(src \o net, n + 1, Len(src \o net))
    BY <1>2, <2>2, Taken
  <2> QED BY <1>5, <2>2, <2>3
<1>13. n <= Len(src \o net) /\ src \o net \in Seq(Bytes)
  <2>1. PICK l \in Nat, m \in Nat : l = Len(src) /\ m = Len(net)
    BY <1>2
  <2>2. Len(src \o net) = l + m /\ src \o net \in Seq(Bytes)
    BY <1>2, <2>1, Joined
  <2> QED BY <1>5, <2>1, <2>2
<1>14. Layout(pos, base + n, sent, src' \o net, Head_, i)
  <2>1. Dropped(N, sent, src \o net, src' \o net, n, pos, base, base + n, n, K, Head_, i)
    BY <1>1, <1>2, <1>6, <1>8, <1>12, <1>13 DEF Dropped
  <2> QED BY <2>1, Drops
<1>15. LaidOut'
  <2>1. base + n \in Nat
    OBVIOUS
  <2> QED BY <1>3, <1>10, <1>14, <2>1 DEF LaidOut
<1>16. Typed'
  BY <1>1, <1>2, <1>3, <1>8, <1>10, <1>12 DEF Typed
<1> QED BY <1>3, <1>10, <1>11, <1>15, <1>16 DEF IInv

(* decode_raw: a reader that is raw stays so.                               *)
LEMMA RawStep ==
  ASSUME ByteAssumption, MessagesAssumption, IInv, decode_raw PROVE IInv'
<1>1. /\ raw /\ src' = <<>> /\ UNCHANGED <<sent, net, state, out, failed>>
  BY DEF decode_raw
<1>2. raw'
  BY <1>1 DEF raw
<1>3. Typed'
  BY <1>1 DEF IInv, Typed
<1> QED BY <1>1, <1>2, <1>3 DEF IInv

LEMMA StepInv ==
  ASSUME ByteAssumption, MessagesAssumption, IInv, [Next]_vars PROVE IInv'
<1>1. ASSUME NEW n \in Lengths, encode(n) PROVE IInv'
  BY <1>1, EncodeStep
<1>2. CASE arrive
  BY <1>2, ArriveStep
<1>3. CASE decode_head
  BY <1>3, HeadStep
<1>4. CASE decode_data
  BY <1>4, BodyStep
<1>5. CASE decode_raw
  BY <1>5, RawStep
<1>6. CASE UNCHANGED vars
  <2>1. UNCHANGED <<sent, net, src, state, out, failed>>
    BY <1>6 DEF vars
  <2>2. Typed' /\ (raw' <=> raw) /\ (LaidOut' <=> LaidOut)
    BY <2>1 DEF IInv, Typed, raw, LaidOut
  <2> QED BY <2>1, <2>2 DEF IInv
<1> QED BY <1>1, <1>2, <1>3, <1>4, <1>5, <1>6 DEF Next

(* The inductive invariant is one.                                          *)
THEOREM LaidOutAsSent ==
  ASSUME ByteAssumption, MessagesAssumption PROVE Spec => []IInv
<1>1. Init => IInv
  BY InitInv
<1>2. IInv /\ [Next]_vars => IInv'
  BY StepInv
<1> QED BY <1>1, <1>2, PTL DEF Spec

-----------------------------------------------------------------------------
(* From then on that the reader is raw, what it has read raw, what is in    *)
(* its buffer and what is under way are laid out as the messages were put   *)
(* in after the framed ones.                                                *)
RawLaid ==
  \E pos \in [Nat -> Nat], base \in Nat :
    Layout(pos, base, sent, raws \o (src \o net), Head_, Frames)

RawInv ==
  /\ Len(out) <= Frames /\ raws \in Seq(Bytes)
  /\ ~raw => raws = <<>>
  /\ raw => RawLaid

(* When no frame is expected the reader is raw from the start.              *)
LEMMA RawInit ==
  ASSUME ByteAssumption, MessagesAssumption PROVE Init => RawInv
<1> SUFFICES ASSUME Init PROVE RawInv
  OBVIOUS
<1>1. /\ sent = <<>> /\ net = <<>> /\ src = <<>> /\ out = <<>> /\ raws = <<>>
  BY DEF Init
<1>2. Len(out) <= Frames /\ raws \in Seq(Bytes)
  BY <1>1 DEF MessagesAssumption
<1>3. ASSUME raw PROVE RawLaid
  <2> DEFINE pos == [i \in Nat |-> 0]
  <2>1. pos \in [Nat -> Nat] /\ \A i \in Nat : pos[i] = 0
    OBVIOUS
  <2>2. Len(sent) = 0 /\ Len(raws \o (src \o net)) = 0 /\ Frames = 0
    BY <1>1, <1>3 DEF raw, MessagesAssumption
  <2> HIDE DEF pos
  <2>3. Layout(pos, 0, sent, raws \o (src \o net), Head_, 0)
    BY <2>1, <2>2 DEF Layout
  <2> QED BY <2>1, <2>2, <2>3 DEF RawLaid
<1> QED BY <1>1, <1>2, <1>3 DEF RawInv

(* Every step keeps that layout, too.                                       *)
LEMMA RawStepInv ==
  ASSUME ByteAssumption, MessagesAssumption, IInv, RawInv, [Next]_vars PROVE RawInv'
<1>0. /\ net \in Seq(Bytes) /\ src \in Seq(Bytes) /\ raws \in Seq(Bytes) /\ Sendable(sent)
      /\ Len(out) \in Nat /\ Len(sent) \in Nat /\ Len(out) <= Len(sent) /\ Len(out) <= Frames
      /\ Frames \in Nat
  <2>1. Sendable(sent) /\ net \in Seq(Bytes) /\ src \in Seq(Bytes) /\ out \in Seq(Seq(Bytes))
        /\ Len(out) <= Len(sent)
    BY DEF IInv, Typed
  <2>2. Len(sent) \in Nat /\ Len(out) \in Nat
    BY <2>1 DEF Sendable
  <2> QED BY <2>1, <2>2 DEF RawInv, MessagesAssumption
<1>1. ASSUME NEW n \in Lengths, encode(n) PROVE RawInv'
  <2>1. /\ Sendable(sent') /\ Len(sent') = Len(sent) + 1
        /\ \A i \in 1 .. Len(sent) : sent'[i] = sent[i]
        /\ net' \in Seq(Bytes) /\ src' \o net' = (src \o net) \o Wire(sent', Len(sent) + 1)
        /\ UNCHANGED <<src, state, out, raws, failed>>
    BY <1>1, Encoded
  <2>2. ASSUME raw PROVE RawLaid'
    <3>1. Len(sent) + 1 \in 1 .. Len(sent') /\ Frames \in 0 .. Len(sent)
      BY <1>0, <2>1, <2>2 DEF raw
    <3>2. Wire(sent', Len(sent) + 1) \in Seq(Bytes)
      BY <2>1, <3>1, WireParts
    <3>3. src \o net \in Seq(Bytes) /\ raws \o (src \o net) \in Seq(Bytes)
      BY <1>0, Joined
    <3>4. raws' \o (src' \o net') = (raws \o (src \o net)) \o Wire(sent', Len(sent) + 1)
      <4>1. PICK q \in Seq(Bytes), r \in Seq(Bytes), t \in Seq(Bytes) :
              /\ q = raws /\ r = src \o net /\ t = Wire(sent', Len(sent) + 1)
              /\ src' \o net' = r \o t
        BY <1>0, <2>1, <3>2, <3>3
      <4>2. q \o (r \o t) = (q \o r) \o t
        BY Three
      <4> QED BY <2>1, <4>1, <4>2
    <3>5. PICK pos \in [Nat -> Nat], base \in Nat :
            Layout(pos, base, sent, raws \o (src \o net), Head_, Frames)
      BY <2>2 DEF RawInv, RawLaid
    <3>6. \E p \in [Nat -> Nat] : Layout(p, base, sent', raws' \o (src' \o net'), Head_, Frames)
      <4>1. PICK N \in Nat : N = Len(sent)
        BY <1>0
      <4>2. Grown(N, sent, sent', raws \o (src \o net), raws' \o (src' \o net'), pos, base,
                  Head_, Frames)
        BY <1>0, <2>1, <3>5, <3>1, <3>3, <3>4, <4>1 DEF Grown
      <4> QED BY <4>2, Grows
    <3> QED BY <3>6 DEF RawLaid
  <2> QED BY <1>0, <2>1, <2>2 DEF RawInv, raw
<1>2. CASE arrive
  <2>1. /\ src' = Append(src, Head(net)) /\ net' = Tail(net) /\ net # <<>>
        /\ UNCHANGED <<sent, state, out, raws, failed>>
    BY <1>2 DEF arrive
  <2>2. src' \o net' = src \o net
    <3>1. Append(src, Head(net)) \o Tail(net) = src \o net
      BY <1>0, <2>1, Moved
    <3> QED BY <2>1, <3>1
  <2> QED BY <2>1, <2>2 DEF RawInv, RawLaid, raw
<1>3. CASE decode_head
  BY <1>3 DEF decode_head, RawInv, raw
<1>4. CASE decode_data
  <2>1. ~raw /\ UNCHANGED <<sent, net, raws, failed>> /\ state' = Head_ /\ raws = <<>>
    BY <1>4 DEF decode_data, RawInv
  <2>2. Typed' /\ LaidOut'
    BY <1>4, BodyStep DEF IInv
  <2>3. Len(out') = Len(out) + 1
    <3>1. out \in Seq(Seq(Bytes)) /\ out' = Append(out, SubSeq(src, 1, state))
      BY <1>4 DEF decode_data, IInv, Typed
    <3> QED BY <3>1
  <2>4. Len(out') <= Frames
    BY <1>0, <2>1, <2>3 DEF raw
  <2>5. ASSUME raw' PROVE RawLaid'
    <3>1. PICK pos \in [Nat -> Nat], base \in Nat :
            Layout(pos, base, sent', src' \o net', state', Len(out'))
      BY <2>2 DEF LaidOut
    <3>2. Len(out') = Frames
      BY <1>0, <2>3, <2>4, <2>5 DEF raw
    <3>3. raws' \o (src' \o net') = src' \o net'
      <4>1. PICK q \in Seq(Bytes), r \in Seq(Bytes), t \in Seq(Bytes) :
              q = src' /\ r = net' /\ t = q \o r
        BY <2>2, Joined DEF Typed
      <4>2. raws' = <<>> /\ <<>> \o t = t
        BY <2>1, Alone
      <4> QED BY <4>1, <4>2
    <3> QED BY <2>1, <3>1, <3>2, <3>3 DEF RawLaid
  <2> QED BY <2>1, <2>4, <2>5 DEF RawInv
<1>5. CASE decode_raw
  <2>1. /\ raw /\ src' = <<>> /\ raws' = raws \o src /\ UNCHANGED <<sent, net, state, out, failed>>
    BY <1>5 DEF decode_raw
  <2>2. raws' \in Seq(Bytes) /\ raws' \o (src' \o net') = raws \o (src \o net)
    <3>1. PICK q \in Seq(Bytes), r \in Seq(Bytes), t \in Seq(Bytes) :
            q = raws /\ r = src /\ t = net
      BY <1>0
    <3>2. q \o (r \o t) = (q \o r) \o t /\ <<>> \o t = t
      BY Three, Alone
    <3>3. q \o r \in Seq(Bytes)
      BY Joined
    <3> QED BY <2>1, <3>1, <3>2, <3>3
  <2> QED BY <2>1, <2>2 DEF RawInv, RawLaid, raw
<1>6. CASE UNCHANGED vars
  BY <1>6 DEF vars, RawInv, RawLaid, raw
<1> QED BY <1>1, <1>2, <1>3, <1>4, <1>5, <1>6 DEF Next

(* A reader whose bytes come in any pieces (decode) reads the messages that *)
(* were encoded, in their order and none changed, whatever their lengths    *)
(* and however many of them are framed, and gives up only before one that   *)
(* is too big.                                                              *)
THEOREM AlwaysFaithful ==
  ASSUME ByteAssumption, MessagesAssumption PROVE Spec => []Faithful
<1>1. Spec => []IInv
  BY LaidOutAsSent
<1>2. IInv => Faithful
  <2> SUFFICES ASSUME IInv PROVE Faithful
    OBVIOUS
  <2>1. DOMAIN out = 1 .. Len(out) /\ Len(out) <= Len(sent)
    BY DEF IInv, Typed
  <2> QED BY <2>1 DEF IInv, Faithful
<1> QED BY <1>1, <1>2, PTL

(* A reader that has not read all messages, though all bytes have come, has *)
(* a whole head or a whole body before it.                                  *)
LEMMA HasMore ==
  ASSUME ByteAssumption, MessagesAssumption, NEW N, NEW ms, NEW q, NEW at, NEW k, NEW i,
         NEW pos, NEW base
  PROVE  /\ Reader(N, ms, q, <<>>, at, k, i, pos, base) /\ k < N /\ k < Frames
         /\ at = Head_ \/ at \in Nat
         => \/ at = Head_ /\ q # <<>> /\ head_len(q) <= Len(q)
            \/ at # Head_ /\ at <= Len(q)
<1> SUFFICES ASSUME N \in Nat, k \in Nat, i \in Nat, pos \in [Nat -> Nat], base \in Nat
             PROVE  /\ Reader(N, ms, q, <<>>, at, k, i, pos, base) /\ k < N /\ k < Frames
                    /\ at = Head_ \/ at \in Nat
                    => \/ at = Head_ /\ q # <<>> /\ head_len(q) <= Len(q)
                       \/ at # Head_ /\ at <= Len(q)
  BY DEF Reader
<1>0. SUFFICES ASSUME Sendable(ms), Len(ms) = N, q \in Seq(Bytes), k < N, k < Frames, i = k + 1,
                      Layout(pos, base, ms, q \o <<>>, at, k), at = Head_ \/ at \in Nat
               PROVE  \/ at = Head_ /\ q # <<>> /\ head_len(q) <= Len(q)
                      \/ at # Head_ /\ at <= Len(q)
  BY DEF Reader
<1>1. PICK l \in Nat : l = Len(q)
  BY <1>0
<1>2. q \o <<>> = q
  BY <1>0
<1>3. i \in 1 .. N /\ i + 1 \in 1 .. N + 1
  BY <1>0
<1>4. /\ pos[i + 1] = pos[i] + Len(Wire(ms, i))
      /\ \A j \in i + 1 .. N + 1 : pos[i + 1] <= pos[j]
      /\ base + l = pos[N + 1]
      /\ \A j \in 1 .. Len(Wire(ms, i)) :
           pos[i] + j > base => q[pos[i] + j - base] = Wire(ms, i)[j]
      /\ at = Head_ => base = pos[i]
      /\ at # Head_ => at = Len(ms[i]) /\ base = pos[i] + Len(HeadOf(ms, i))
  BY <1>0, <1>1, <1>2, <1>3 DEF Layout
<1> DEFINE h == HeadOf(ms, i)
<1>5. ms[i] \in Seq(Bytes) /\ Len(ms[i]) \in Nat /\ Len(ms[i]) <= Most(4)
  BY <1>0, <1>3, Message
<1>6. h = encode_head(Len(ms[i]))
  <2>1. i <= Frames
    BY <1>0 DEF MessagesAssumption
  <2> QED BY <2>1 DEF HeadOf
<1>7. /\ h \in Seq(Bytes) /\ Len(h) \in 1 .. 4 /\ head_len(h) = Len(h)
  BY <1>5, <1>6, HeadIsShort, HeadInverts
<1>8. /\ Len(Wire(ms, i)) = Len(h) + Len(ms[i])
      /\ \A j \in 1 .. Len(h) : Wire(ms, i)[j] = h[j]
  <2>1. Sendable(ms) /\ i \in 1 .. Len(ms)
    BY <1>0, <1>3
  <2>2. WireIs(ms, i)
    BY <2>1, WireFacts, Zenon
  <2> QED BY <2>2 DEF WireIs
<1> HIDE DEF h
<1>9. PICK d \in 1 .. 4 : d = Len(h)
  BY <1>7
<1>10. PICK n \in Nat, a \in Nat : n = Len(ms[i]) /\ a = pos[i]
  BY <1>5
<1>w. PICK w \in Nat : w = Len(Wire(ms, i)) /\ w = d + n
  <2>1. Len(Wire(ms, i)) = d + n
    BY <1>8, <1>9, <1>10
  <2>2. d + n \in Nat
    OBVIOUS
  <2> QED BY <2>1, <2>2
<1>e. a + w <= base + l
  <2>1. PICK x \in Nat, y \in Nat : x = pos[i + 1] /\ y = pos[N + 1]
    OBVIOUS
  <2>2. x = a + w
    BY <1>4, <1>10, <1>w, <2>1
  <2>3. x <= y /\ base + l = y
    BY <1>3, <1>4, <2>1
  <2> QED BY <2>2, <2>3
<1>11. CASE at = Head_
  <2>1. base = a /\ d + n <= l
    <3>1. base = a
      BY <1>4, <1>10, <1>11
    <3> QED BY <1>e, <1>w, <3>1
  <2>2. 1 \in 1 .. Len(Wire(ms, i)) /\ 1 \in 1 .. d
    <3>1. 1 \in 1 .. w
      BY <1>w
    <3> QED BY <1>w, <3>1
  <2>3. a + 1 > base /\ a + 1 - base = 1
    BY <2>1
  <2>4. q[1] = Wire(ms, i)[1]
    <3>1. \A j \in 1 .. Len(Wire(ms, i)) : a + j > base => q[a + j - base] = Wire(ms, i)[j]
      BY <1>4, <1>10
    <3> QED BY <2>2, <2>3, <3>1
  <2>5. q[1] = h[1]
    BY <1>8, <1>9, <2>2, <2>4
  <2>6. head_len(q) = d
    BY <1>7, <1>9, <2>5 DEF head_len
  <2>7. d <= l /\ l > 0
    BY <2>1
  <2> QED BY <1>0, <1>1, <1>11, <2>6, <2>7
<1>12. CASE at # Head_
  <2>1. base = a + d /\ a + (d + n) <= base + l
    <3>1. base = a + d
      BY <1>4, <1>9, <1>10, <1>12 DEF h
    <3> QED BY <1>e, <1>w, <3>1
  <2>2. n <= l
    BY <2>1
  <2> QED BY <1>1, <1>4, <1>10, <1>12, <2>2
<1> QED BY <1>11, <1>12

(* In a state where all bytes have come and the decoder awaits more, all    *)
(* messages that were framed are out.                                       *)
LEMMA FramesOut ==
  ASSUME ByteAssumption, MessagesAssumption, IInv, net = <<>>, ~failed, waiting
  PROVE  FramedOut
<1>1. PICK N \in Nat, K \in Nat : N = Len(sent) /\ K = Len(out) /\ K <= N
  <2>1. Len(sent) \in Nat /\ Len(out) \in Nat
    BY DEF IInv, Typed, Sendable
  <2> QED BY <2>1 DEF IInv, Typed
<1>2. CASE raw \/ K = N
  BY <1>1, <1>2 DEF raw, FramedOut, MessagesAssumption
<1>3. CASE ~raw /\ K # N
  <2>1. PICK pos \in [Nat -> Nat], base \in Nat : Layout(pos, base, sent, src \o <<>>, state, K)
    BY <1>1, <1>3 DEF IInv, LaidOut
  <2>2. K < N /\ K < Frames
    <3>1. ~(K >= Frames)
      BY <1>1, <1>3 DEF raw
    <3>2. Frames \in Nat /\ K <= N /\ K # N
      BY <1>1, <1>3 DEF MessagesAssumption
    <3> QED BY <3>1, <3>2
  <2>3. PICK i \in Nat : i = K + 1
    OBVIOUS
  <2>4. state = Head_ \/ state \in Nat
    BY DEF IInv, Typed, MessagesAssumption
  <2>5. src \in Seq(Bytes) /\ <<>> \in Seq(Bytes)
    BY DEF IInv, Typed
  <2>6. Reader(N, sent, src, <<>>, state, K, i, pos, base)
    BY <1>1, <2>1, <2>2, <2>3, <2>5 DEF Reader, IInv, Typed
  <2>7. \/ state = Head_ /\ src # <<>> /\ head_len(src) <= Len(src)
        \/ state # Head_ /\ state <= Len(src)
    BY <2>2, <2>4, <2>6, HasMore
  <2>8. CASE state = Head_
    <3>1. src # <<>> /\ Len(src) < head_len(src) /\ head_len(src) <= Len(src)
      BY <1>3, <2>7, <2>8 DEF waiting
    <3>2. Len(src) \in Int /\ head_len(src) \in Int
      <4>1. src[1] \in Int /\ Len(src) \in Int
        <5>1. PICK q \in Seq(Bytes) : q = src /\ q # <<>>
          BY <2>5, <3>1
        <5>2. q[1] \in Bytes /\ Len(q) \in Int
          BY <5>1
        <5>3. \A x \in Bytes : x \in Int
          BY DEF Bytes, ByteAssumption
        <5>4. q[1] \in Int /\ Len(q) \in Int
          BY <5>2, <5>3
        <5> QED BY <5>1, <5>4
      <4>2. (src[1] % 4) \in Int
        BY <4>1
      <4> QED BY <4>1, <4>2 DEF head_len
    <3> QED BY <3>1, <3>2
  <2>9. CASE state # Head_
    <3>1. Len(src) < state /\ state <= Len(src)
      BY <1>3, <2>7, <2>9 DEF waiting
    <3>2. Len(src) \in Nat /\ state \in Nat
      BY <2>4, <2>5, <2>9
    <3> QED BY <3>1, <3>2
  <2> QED BY <2>8, <2>9
<1> QED BY <1>2, <1>3

(* The raw reader gives out the bytes after the framed messages, all of     *)
(* them and in their order, when all have come.                             *)
LEMMA RawAllOut ==
  ASSUME ByteAssumption, MessagesAssumption, IInv, RawInv, raw, net = <<>>, src = <<>>
  PROVE  RawOut
<1> SUFFICES ASSUME Len(sent) >= Frames
             PROVE  \E at \in [Frames .. Len(sent) -> 0 .. Len(raws)] :
                      /\ at[Frames] = 0 /\ at[Len(sent)] = Len(raws)
                      /\ \A i \in Frames + 1 .. Len(sent) :
                           /\ at[i] = at[i - 1] + Len(sent[i])
                           /\ \A j \in 1 .. Len(sent[i]) : raws[at[i - 1] + j] = sent[i][j]
  BY DEF RawOut
<1>0. Frames \in Nat /\ raws \in Seq(Bytes) /\ raws \o (src \o net) = raws /\ Sendable(sent)
  <2>1. raws \in Seq(Bytes) /\ <<>> \in Seq(Bytes)
    BY DEF RawInv
  <2>2. raws \o (<<>> \o <<>>) = raws
    <3>1. <<>> \o <<>> = <<>> /\ raws \o <<>> = raws
      BY <2>1, Alone
    <3> QED BY <3>1
  <2> QED BY <2>1, <2>2 DEF IInv, Typed, MessagesAssumption
<1>1. PICK N \in Nat, l \in Nat : N = Len(sent) /\ l = Len(raws) /\ Frames <= N
  BY <1>0 DEF Sendable
<1>2. PICK pos \in [Nat -> Nat], base \in Nat : Layout(pos, base, sent, raws, Head_, Frames)
  BY <1>0 DEF RawInv, RawLaid
<1>3. ASSUME NEW i \in Frames + 1 .. N
      PROVE  /\ i \in 1 .. N /\ i \in Nat /\ Wire(sent, i) = sent[i] /\ sent[i] \in Seq(Bytes)
             /\ Len(sent[i]) \in Nat
  <2>1. i \in 1 .. N /\ ~(i <= Frames) /\ i \in Nat
    BY <1>0, <1>1
  <2>2. sent[i] \in Seq(Bytes) /\ Len(sent[i]) \in Nat
    BY <1>0, <1>1, <2>1, Message
  <2>3. Wire(sent, i) = <<>> \o sent[i]
    BY <2>1 DEF Wire, HeadOf
  <2>4. <<>> \o sent[i] = sent[i]
    BY <2>2, Alone
  <2> QED BY <2>1, <2>2, <2>3, <2>4
<1>4. /\ \A i \in Frames + 1 .. N : pos[i + 1] = pos[i] + Len(sent[i])
      /\ \A i \in Frames + 1 .. N + 1 : pos[Frames + 1] <= pos[i] /\ pos[i] <= pos[N + 1]
      /\ base + l = pos[N + 1] /\ base = pos[Frames + 1]
      /\ \A i \in Frames + 1 .. N : \A j \in 1 .. Len(sent[i]) :
           pos[i] + j > base => raws[pos[i] + j - base] = sent[i][j]
  <2>1. Frames + 1 \in 1 .. N + 1 /\ Frames + 1 \in Nat
    BY <1>0, <1>1
  <2>2. Layout(pos, base, sent, raws, Head_, Frames) /\ Len(sent) = N /\ Len(raws) = l
    BY <1>1, <1>2
  <2>3. base + l = pos[N + 1] /\ base = pos[Frames + 1]
    BY <2>2 DEF Layout
  <2>4. ASSUME NEW i \in Frames + 1 .. N PROVE pos[i + 1] = pos[i] + Len(sent[i])
    BY <1>3, <2>2 DEF Layout
  <2>5. ASSUME NEW i \in Frames + 1 .. N + 1 PROVE pos[Frames + 1] <= pos[i] /\ pos[i] <= pos[N + 1]
    <3>1. i \in 1 .. N + 1 /\ i \in Frames + 1 .. N + 1 /\ N + 1 \in i .. N + 1
      BY <1>0, <1>1
    <3> QED BY <2>1, <2>2, <3>1 DEF Layout
  <2>6. ASSUME NEW i \in Frames + 1 .. N, NEW j \in 1 .. Len(sent[i]), pos[i] + j > base
        PROVE  raws[pos[i] + j - base] = sent[i][j]
    <3>1. i \in 1 .. N /\ Wire(sent, i) = sent[i]
      BY <1>3
    <3>2. \A m \in 1 .. Len(sent[i]) : pos[i] + m > base => raws[pos[i] + m - base] = sent[i][m]
      BY <2>2, <3>1 DEF Layout
    <3> QED BY <2>6, <3>2
  <2> QED BY <2>3, <2>4, <2>5, <2>6
<1>5. ASSUME NEW i \in Frames .. N
      PROVE  /\ pos[i + 1] \in Nat /\ base <= pos[i + 1] /\ pos[i + 1] - base \in 0 .. l
  <2>1. i \in Nat /\ Frames + 1 \in 1 .. N + 1 /\ i + 1 \in Frames + 1 .. N + 1
        /\ i + 1 \in 1 .. N + 1 /\ N + 1 \in i + 1 .. N + 1
    BY <1>0, <1>1
  <2>2. PICK x \in Nat, y \in Nat : x = pos[i + 1] /\ y = pos[N + 1]
    BY <2>1
  <2>3. base <= x /\ x <= y /\ base + l = y
    BY <1>4, <2>1, <2>2
  <2>4. x - base \in 0 .. l
    BY <2>3
  <2> QED BY <2>2, <2>3, <2>4
<1> DEFINE at == [i \in Frames .. N |-> pos[i + 1] - base]
<1>6. at \in [Frames .. N -> 0 .. l]
  BY <1>5
<1>7. at[Frames] = 0 /\ at[N] = l
  <2>1. Frames \in Frames .. N /\ N \in Frames .. N
    BY <1>0, <1>1
  <2>2. pos[N + 1] - base = l /\ pos[Frames + 1] - base = 0
    <3>1. base + l = pos[N + 1] /\ base = pos[Frames + 1]
      BY <1>4
    <3>2. PICK y \in Nat : y = pos[N + 1]
      OBVIOUS
    <3>3. base + l = y => y - base = l
      OBVIOUS
    <3>4. base - base = 0
      OBVIOUS
    <3> QED BY <3>1, <3>2, <3>3, <3>4
  <2> QED BY <2>1, <2>2
<1>8. ASSUME NEW i \in Frames + 1 .. N
      PROVE  /\ at[i] = at[i - 1] + Len(sent[i])
             /\ \A j \in 1 .. Len(sent[i]) : raws[at[i - 1] + j] = sent[i][j]
  <2>1. i \in Nat /\ i \in Frames .. N /\ i - 1 \in Frames .. N /\ (i - 1) + 1 = i
    BY <1>0, <1>1
  <2>2. PICK x \in Nat, n \in Nat : x = pos[i] /\ n = Len(sent[i])
    BY <1>3, <2>1
  <2>3. at[i] = pos[i + 1] - base /\ at[i - 1] = x - base /\ pos[i + 1] = x + n
    BY <1>4, <2>1, <2>2
  <2>4. base <= x
    BY <1>5, <2>1, <2>2
  <2>5. (x + n) - base = (x - base) + n
    OBVIOUS
  <2>6. ASSUME NEW j \in 1 .. n PROVE raws[at[i - 1] + j] = sent[i][j]
    <3>1. x + j > base /\ (x - base) + j = x + j - base
      BY <2>4
    <3>2. raws[x + j - base] = sent[i][j]
      BY <1>4, <2>2, <3>1
    <3> QED BY <2>3, <3>1, <3>2
  <2> QED BY <2>2, <2>3, <2>5, <2>6
<1> HIDE DEF at
<1>9. /\ at \in [Frames .. Len(sent) -> 0 .. Len(raws)]
      /\ at[Frames] = 0 /\ at[Len(sent)] = Len(raws)
      /\ \A i \in Frames + 1 .. Len(sent) :
           /\ at[i] = at[i - 1] + Len(sent[i])
           /\ \A j \in 1 .. Len(sent[i]) : raws[at[i - 1] + j] = sent[i][j]
  BY <1>1, <1>6, <1>7, <1>8
<1> QED BY <1>9, Zenon

(* When all bytes have come and the decoder awaits more, all messages that  *)
(* were framed are out, and the raw bytes of all the others behind them: no *)
(* reader starves before a message that has come, whatever the pieces, and  *)
(* none loses what was in its buffer when it became raw (decode, set_raw).  *)
THEOREM AlwaysComplete ==
  ASSUME ByteAssumption, MessagesAssumption PROVE Spec => []Complete
<1>1. Spec => []IInv
  BY LaidOutAsSent
<1>2. Init => RawInv
  BY RawInit
<1>3. IInv /\ RawInv /\ [Next]_vars => RawInv'
  BY RawStepInv
<1>4. IInv /\ RawInv => Complete
  <2> SUFFICES ASSUME IInv, RawInv, net = <<>>, ~failed, waiting PROVE FramedOut /\ RawOut
    BY DEF Complete
  <2>1. FramedOut
    BY FramesOut
  <2>2. CASE Len(sent) >= Frames
    <3>1. raw
      <4>1. Len(sent) \in Nat /\ Frames \in Nat
        BY DEF IInv, Typed, Sendable, MessagesAssumption
      <4> QED BY <2>1, <2>2, <4>1 DEF FramedOut, raw
    <3>2. src = <<>>
      BY <3>1 DEF waiting
    <3> QED BY <2>1, <3>1, <3>2, RawAllOut
  <2>3. CASE ~(Len(sent) >= Frames)
    BY <2>1, <2>3 DEF RawOut
  <2> QED BY <2>2, <2>3
<1> QED BY <1>1, <1>2, <1>3, <1>4, PTL DEF Spec

(* What is under way and in the buffer are bytes, and no body is awaited    *)
(* that is longer than the reader takes (set_max_packet_length).            *)
THEOREM TypeCorrect ==
  ASSUME ByteAssumption, MessagesAssumption PROVE Spec => []TypeOK
<1>1. Spec => []IInv
  BY LaidOutAsSent
<1>2. IInv => TypeOK
  BY DEF IInv, Typed, TypeOK
<1> QED BY <1>1, <1>2, PTL

=============================================================================
