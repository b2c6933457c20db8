--------------------------- MODULE TerminalProof ---------------------------
(***************************************************************************)
(* TLAPS proofs about Terminal, for every size of the xmit ring and of     *)
(* at_line, every guard time and ring delay, and every set of writes:      *)
(* types and array bounds, the ring as a queue, the events shared with the *)
(* signal handler, the guard time behind the escape sequence, the          *)
(* separation of data and commands, and what A/ repeats.                   *)
(***************************************************************************)
EXTENDS Terminal, TLAPS, SequenceTheorems, WellFoundedInduction

-----------------------------------------------------------------------------
(* Positions in the ring.                                                  *)

(* A sum of a position and a count, taken modulo the size of the ring.     *)
LEMMA Wrapped ==
    ASSUME NEW a \in 0 .. 2 * XmitSize - 1
    PROVE  /\ a < XmitSize => a % XmitSize = a
           /\ a >= XmitSize => a % XmitSize = a - XmitSize
<1>1. ASSUME NEW N \in Nat, N > 0, NEW x \in 0 .. N - 1 PROVE x % N = x
  BY <1>1
<1>2. ASSUME NEW N \in Nat, N > 0, NEW x \in N .. 2 * N - 1 PROVE x % N = x - N
  BY <1>2
<1>. QED  BY <1>1, <1>2, TerminalAssumption

(* The positions behind head that a round writes are not those of the      *)
(* queue, and continue it.                                                 *)
LEMMA WritePositions ==
    ASSUME NEW t \in Index, NEW c \in 0 .. XmitSize, NEW n \in Nat,
           NEW h, h = (t + c) % XmitSize, n <= XmitSize - c, n <= XmitSize - h
    PROVE  /\ h \in Index /\ (h + n) % XmitSize = (t + (c + n)) % XmitSize
           /\ (h + n) % XmitSize \in Index
           /\ \A i \in 1 .. c : /\ (t + i - 1) % XmitSize \in Index
                                /\ (t + i - 1) % XmitSize \notin h .. h + n - 1
           /\ \A i \in c + 1 .. c + n :
                /\ (t + i - 1) % XmitSize = h + (i - c) - 1
                /\ h + (i - c) - 1 \in Index /\ h + (i - c) - 1 \in h .. h + n - 1
<1>0. XmitSize \in Nat /\ XmitSize > 0 /\ t \in Nat /\ t < XmitSize /\ c \in Nat /\ c <= XmitSize
  BY TerminalAssumption DEF Index
<1>1. \/ t + c < XmitSize /\ h = t + c
      \/ t + c >= XmitSize /\ h = t + c - XmitSize
  <2>1. t + c \in 0 .. 2 * XmitSize - 1
    BY <1>0
  <2>. QED  BY <1>0, <2>1, Wrapped
<1>2. h \in Index /\ h \in Nat
  BY <1>0, <1>1 DEF Index
<1>3. (h + n) % XmitSize = (t + (c + n)) % XmitSize
  <2>1. h + n \in 0 .. 2 * XmitSize - 1 /\ t + (c + n) \in 0 .. 2 * XmitSize - 1
    BY <1>0, <1>1, <1>2
  <2>2. CASE t + c < XmitSize
    BY <1>0, <1>1, <2>2
  <2>3. CASE t + c >= XmitSize
    <3>1. h + n < XmitSize /\ t + (c + n) >= XmitSize /\ h + n = t + (c + n) - XmitSize
      BY <1>0, <1>1, <2>3
    <3>2. (h + n) % XmitSize = h + n
      BY <2>1, <3>1, Wrapped
    <3>. DEFINE y == t + (c + n)
    <3>3. y % XmitSize = y - XmitSize
      <4>1. y \in 0 .. 2 * XmitSize - 1 /\ y >= XmitSize
        BY <2>1, <3>1
      <4>. HIDE DEF y
      <4>. QED  BY <4>1, Wrapped
    <3>4. (h + n) % XmitSize = y % XmitSize
      <4>1. h + n = y - XmitSize
        BY <1>0, <1>2, <3>1
      <4>. HIDE DEF y
      <4>. QED  BY <3>2, <3>3, <4>1
    <3>. QED  BY <3>4, Zenon DEF y
  <2>. QED  BY <1>0, <2>2, <2>3
<1>4. (h + n) % XmitSize \in Index
  <2>1. h + n \in 0 .. 2 * XmitSize - 1
    BY <1>0, <1>1, <1>2
  <2>2. \/ h + n < XmitSize /\ (h + n) % XmitSize = h + n
        \/ h + n >= XmitSize /\ (h + n) % XmitSize = h + n - XmitSize
    BY <1>0, <1>2, <2>1, Wrapped
  <2>. QED  BY <1>0, <1>2, <2>2 DEF Index
<1>5. ASSUME NEW i \in 1 .. c
      PROVE  (t + i - 1) % XmitSize \in Index /\ (t + i - 1) % XmitSize \notin h .. h + n - 1
  <2>1. t + i - 1 \in 0 .. 2 * XmitSize - 1
    BY <1>0
  <2>2. \/ t + i - 1 < XmitSize /\ (t + i - 1) % XmitSize = t + i - 1
        \/ t + i - 1 >= XmitSize /\ (t + i - 1) % XmitSize = t + i - 1 - XmitSize
    BY <1>0, <2>1, Wrapped
  <2>. QED  BY <1>0, <1>1, <2>2 DEF Index
<1>6. ASSUME NEW i \in c + 1 .. c + n
      PROVE  /\ (t + i - 1) % XmitSize = h + (i - c) - 1
             /\ h + (i - c) - 1 \in Index /\ h + (i - c) - 1 \in h .. h + n - 1
  <2>1. t + i - 1 \in 0 .. 2 * XmitSize - 1
    BY <1>0
  <2>2. \/ t + i - 1 < XmitSize /\ (t + i - 1) % XmitSize = t + i - 1
        \/ t + i - 1 >= XmitSize /\ (t + i - 1) % XmitSize = t + i - 1 - XmitSize
    BY <1>0, <2>1, Wrapped
  <2>. QED  BY <1>0, <1>1, <2>2 DEF Index
<1>. QED  BY <1>2, <1>3, <1>4, <1>5, <1>6

(* The positions from tail on that a round reads are not those that stay   *)
(* in the queue.                                                           *)
LEMMA ReadPositions ==
    ASSUME NEW t \in Index, NEW c \in 0 .. XmitSize, NEW k \in Nat,
           k <= c, k <= XmitSize - t
    PROVE  /\ (t + k) % XmitSize \in Index
           /\ (t + c) % XmitSize = (((t + k) % XmitSize) + (c - k)) % XmitSize
           /\ \A i \in 1 .. k : t + i - 1 \in Index /\ (t + i - 1) % XmitSize = t + i - 1
           /\ \A i \in 1 .. c - k :
                /\ (((t + k) % XmitSize) + i - 1) % XmitSize = (t + (i + k) - 1) % XmitSize
                /\ (t + (i + k) - 1) % XmitSize \in Index
                /\ (t + (i + k) - 1) % XmitSize \notin t .. t + k - 1
<1>0. XmitSize \in Nat /\ XmitSize > 0 /\ t \in Nat /\ t < XmitSize /\ c \in Nat /\ c <= XmitSize
  BY TerminalAssumption DEF Index
<1>. DEFINE u == (t + k) % XmitSize
<1>1. \/ t + k < XmitSize /\ u = t + k
      \/ t + k = XmitSize /\ u = 0
  <2>1. t + k \in 0 .. 2 * XmitSize - 1
    BY <1>0
  <2>. QED  BY <1>0, <2>1, Wrapped
<1>. HIDE DEF u
<1>2. u \in Index
  BY <1>0, <1>1 DEF Index
<1>3. ASSUME NEW j \in 0 .. c - k
      PROVE  (u + j) % XmitSize = (t + (j + k)) % XmitSize
  <2>1. CASE t + k < XmitSize
    <3>1. u + j = t + (j + k)
      BY <1>0, <1>1, <2>1
    <3>. QED  BY <3>1
  <2>2. CASE t + k = XmitSize
    <3>1. /\ u + j \in 0 .. 2 * XmitSize - 1 /\ t + (j + k) \in 0 .. 2 * XmitSize - 1
          /\ u + j < XmitSize /\ t + (j + k) >= XmitSize /\ u + j = t + (j + k) - XmitSize
      BY <1>0, <1>1, <2>2
    <3>2. (u + j) % XmitSize = u + j
      BY <3>1, Wrapped
    <3>. DEFINE y == t + (j + k)
    <3>3. y % XmitSize = y - XmitSize
      <4>1. y \in 0 .. 2 * XmitSize - 1 /\ y >= XmitSize
        BY <3>1
      <4>. HIDE DEF y
      <4>. QED  BY <4>1, Wrapped
    <3>4. (u + j) % XmitSize = y % XmitSize
      <4>1. u + j = y - XmitSize
        BY <1>0, <1>1, <3>1
      <4>. HIDE DEF y
      <4>. QED  BY <3>2, <3>3, <4>1
    <3>. QED  BY <3>4, Zenon DEF y
  <2>. QED  BY <1>0, <1>1, <2>1, <2>2
<1>4. (t + c) % XmitSize = (u + (c - k)) % XmitSize
  <2>1. c - k \in 0 .. c - k /\ (c - k) + k = c
    BY <1>0
  <2>. QED  BY <1>3, <2>1
<1>5. ASSUME NEW i \in 1 .. k
      PROVE  t + i - 1 \in Index /\ (t + i - 1) % XmitSize = t + i - 1
  <2>1. t + i - 1 \in 0 .. 2 * XmitSize - 1 /\ t + i - 1 < XmitSize /\ t + i - 1 >= 0
    BY <1>0
  <2>. QED  BY <1>0, <2>1, Wrapped DEF Index
<1>6. ASSUME NEW i \in 1 .. c - k
      PROVE  /\ (u + i - 1) % XmitSize = (t + (i + k) - 1) % XmitSize
             /\ (t + (i + k) - 1) % XmitSize \in Index
             /\ (t + (i + k) - 1) % XmitSize \notin t .. t + k - 1
  <2>1. i - 1 \in 0 .. c - k /\ u + (i - 1) = u + i - 1 /\ t + ((i - 1) + k) = t + (i + k) - 1
    BY <1>0, <1>2 DEF Index
  <2>2. (u + i - 1) % XmitSize = (t + (i + k) - 1) % XmitSize
    BY <1>3, <2>1
  <2>3. t + (i + k) - 1 \in 0 .. 2 * XmitSize - 1
    BY <1>0
  <2>4. \/ t + (i + k) - 1 < XmitSize /\ (t + (i + k) - 1) % XmitSize = t + (i + k) - 1
        \/ /\ t + (i + k) - 1 >= XmitSize
           /\ (t + (i + k) - 1) % XmitSize = t + (i + k) - 1 - XmitSize
    BY <1>0, <2>3, Wrapped
  <2>5. /\ (t + (i + k) - 1) % XmitSize \in Index
        /\ (t + (i + k) - 1) % XmitSize \notin t .. t + k - 1
    BY <1>0, <2>4 DEF Index
  <2>. QED  BY <2>2, <2>5
<1>. QED  BY <1>2, <1>4, <1>5, <1>6 DEF u

-----------------------------------------------------------------------------
(* The ring and the queue it holds.                                        *)

RingType == [buf : [Index -> Char \cup {Nul}], head : Index, tail : Index,
             count : 0 .. XmitSize]
Item == [c : Char, data : BOOLEAN]

Holds(x, q) ==
    /\ x \in RingType /\ q \in Seq(Item) /\ x.count = Len(q)
    /\ x.head = (x.tail + x.count) % XmitSize
    /\ \A i \in 1 .. Len(q) : x.buf[(x.tail + i - 1) % XmitSize] = q[i].c

(* The fields of the ring.                                                 *)
LEMMA HoldsTypes ==
    ASSUME NEW x, NEW q, Holds(x, q)
    PROVE  /\ x.buf \in [Index -> Char \cup {Nul}] /\ x.head \in Index /\ x.tail \in Index
           /\ x.count \in 0 .. XmitSize /\ x.count = Len(q) /\ q \in Seq(Item)
           /\ x.head = (x.tail + x.count) % XmitSize
           /\ \A i \in 1 .. Len(q) : q[i] \in Item /\ q[i].c \in Char
           /\ \A i \in 1 .. Len(q) : x.buf[(x.tail + i - 1) % XmitSize] = q[i].c
           /\ XmitSize \in Nat /\ XmitSize > 0 /\ Len(q) \in Nat
<1>1. \A i \in 1 .. Len(q) : q[i] \in Item
  BY ElementOfSeq DEF Holds
<1>2. \A i \in 1 .. Len(q) : q[i].c \in Char
  BY <1>1 DEF Item
<1>3. Len(q) \in Nat
  BY LenProperties DEF Holds
<1>. QED  BY <1>1, <1>2, <1>3, TerminalAssumption DEF Holds, RingType

(* The lesser of two numbers.                                              *)
LEMMA LesserFacts ==
    ASSUME NEW a \in Int, NEW b \in Int
    PROVE  /\ Lesser(a, b) \in Int /\ Lesser(a, b) <= a /\ Lesser(a, b) <= b
           /\ Lesser(a, b) = a \/ Lesser(a, b) = b
BY DEF Lesser

(* How many characters a round of modem_write copies.                      *)
Round(x, s) == Lesser(Len(s), Lesser(XmitSize - x.count, XmitSize - x.head))

(* Bounds of a round.                                                      *)
LEMMA RoundFacts ==
    ASSUME NEW x, NEW q, Holds(x, q), NEW s \in Seq(Char)
    PROVE  LET n == Round(x, s)
           IN  /\ n \in Nat /\ n <= Len(s) /\ n <= XmitSize - x.count
               /\ n <= XmitSize - x.head /\ Len(s) \in Nat
               /\ n = Len(s) \/ n = XmitSize - x.count \/ n = XmitSize - x.head
<1>1. /\ x.count \in Nat /\ x.count <= XmitSize /\ x.head \in Nat /\ x.head < XmitSize
      /\ XmitSize \in Nat /\ Len(s) \in Nat
  BY HoldsTypes, LenProperties DEF Index
<1>. DEFINE a == Len(s)
            b == XmitSize - x.count
            c == XmitSize - x.head
<1>2. a \in Nat /\ b \in Nat /\ c \in Nat
  BY <1>1
<1>. HIDE DEF a, b, c
<1>3. Lesser(a, Lesser(b, c)) \in Nat /\ Lesser(a, Lesser(b, c)) <= a
      /\ Lesser(a, Lesser(b, c)) <= b /\ Lesser(a, Lesser(b, c)) <= c
      /\ (Lesser(a, Lesser(b, c)) = a \/ Lesser(a, Lesser(b, c)) = b
            \/ Lesser(a, Lesser(b, c)) = c)
  BY <1>2 DEF Lesser
<1>. QED  BY <1>1, <1>3 DEF Round, a, b, c

(* A round of modem_write continues the queue q by its characters, to r.   *)
LEMMA WriteRound ==
    ASSUME NEW x, NEW q, Holds(x, q), NEW s \in Seq(Char), NEW r \in Seq(Item),
           Len(r) = Len(q) + Round(x, s),
           \A i \in 1 .. Len(q) : r[i] = q[i],
           \A i \in 1 .. Round(x, s) : r[Len(q) + i].c = s[i]
    PROVE  /\ Holds(write_round(x, s).xmit, r)
           /\ write_round(x, s).left = SubSeq(s, Round(x, s) + 1, Len(s))
           /\ write_round(x, s).xmit.head = (x.head + Round(x, s)) % XmitSize
           /\ write_round(x, s).xmit.count = x.count + Round(x, s)
<1>. DEFINE n == Round(x, s)
            b == [i \in Index |-> IF i \in x.head .. x.head + n - 1
                                  THEN s[i - x.head + 1] ELSE x.buf[i]]
            y == [x EXCEPT !.buf = b, !.count = @ + n, !.head = (@ + n) % XmitSize]
<1>1. write_round(x, s).xmit = y /\ write_round(x, s).left = SubSeq(s, n + 1, Len(s))
  BY DEF write_round, Round
<1>2. /\ n \in Nat /\ n <= Len(s) /\ n <= XmitSize - x.count /\ n <= XmitSize - x.head
      /\ Len(s) \in Nat
  BY RoundFacts
<1>3. /\ x.head \in Index /\ x.tail \in Index /\ x.count \in 0 .. XmitSize
      /\ x.head = (x.tail + x.count) % XmitSize /\ x.count = Len(q)
      /\ x.buf \in [Index -> Char \cup {Nul}] /\ XmitSize \in Nat /\ XmitSize > 0
      /\ Len(q) \in Nat
  BY HoldsTypes
<1>4. x \in RingType
  BY DEF Holds
<1>5. /\ y.buf = b /\ y.count = x.count + n /\ y.head = (x.head + n) % XmitSize
      /\ y.tail = x.tail
  BY <1>4 DEF RingType
<1>6. /\ (x.head + n) % XmitSize = (x.tail + (x.count + n)) % XmitSize
      /\ (x.head + n) % XmitSize \in Index
      /\ \A i \in 1 .. x.count : /\ (x.tail + i - 1) % XmitSize \in Index
                                 /\ (x.tail + i - 1) % XmitSize \notin x.head .. x.head + n - 1
      /\ \A i \in x.count + 1 .. x.count + n :
           /\ (x.tail + i - 1) % XmitSize = x.head + (i - x.count) - 1
           /\ x.head + (i - x.count) - 1 \in Index
           /\ x.head + (i - x.count) - 1 \in x.head .. x.head + n - 1
  <2>. DEFINE h == x.head
              t == x.tail
              c == x.count
  <2>1. /\ t \in Index /\ c \in 0 .. XmitSize /\ n \in Nat /\ h = (t + c) % XmitSize
        /\ n <= XmitSize - c /\ n <= XmitSize - h
    BY <1>2, <1>3
  <2>. HIDE DEF n, h, t, c
  <2>2. /\ (h + n) % XmitSize = (t + (c + n)) % XmitSize
        /\ (h + n) % XmitSize \in Index
        /\ \A i \in 1 .. c : /\ (t + i - 1) % XmitSize \in Index
                             /\ (t + i - 1) % XmitSize \notin h .. h + n - 1
        /\ \A i \in c + 1 .. c + n :
             /\ (t + i - 1) % XmitSize = h + (i - c) - 1
             /\ h + (i - c) - 1 \in Index
             /\ h + (i - c) - 1 \in h .. h + n - 1
    BY <2>1, WritePositions
  <2>. QED  BY <2>2, Zenon DEF h, t, c
<1>7. b \in [Index -> Char \cup {Nul}]
  <2>1. ASSUME NEW i \in Index, i \in x.head .. x.head + n - 1
        PROVE  s[i - x.head + 1] \in Char
    <3>. DEFINE h == x.head
                m == Len(s)
    <3>1. i - h + 1 \in 1 .. m
      <4>1. h \in Nat /\ m \in Nat /\ n \in Nat /\ n <= m /\ i \in h .. h + n - 1
        BY <1>2, <1>3, <2>1 DEF Index
      <4>. HIDE DEF h, m, n
      <4>. QED  BY <4>1
    <3>. QED  BY <3>1, ElementOfSeq
  <2>. QED  BY <1>3, <2>1
<1>8. y \in RingType
  <2>1. x.count + n \in 0 .. XmitSize
    BY <1>2, <1>3
  <2>. HIDE DEF b, n
  <2>. QED  BY <1>4, <1>6, <1>7, <2>1 DEF RingType
<1>9. ASSUME NEW i \in 1 .. Len(r)
      PROVE  y.buf[(y.tail + i - 1) % XmitSize] = r[i].c
  <2>. DEFINE j == (x.tail + i - 1) % XmitSize
  <2>1. Len(r) = x.count + n
    BY <1>3
  <2>2. CASE i <= x.count
    <3>1. i \in 1 .. x.count
      BY <1>3, <2>2
    <3>2. j \in Index /\ j \notin x.head .. x.head + n - 1
      BY <1>6, <3>1
    <3>. HIDE DEF j
    <3>3. b[j] = x.buf[j]
      BY <3>2
    <3>4. x.buf[j] = q[i].c /\ r[i] = q[i]
      BY <1>3, <3>1, HoldsTypes DEF j
    <3>. QED  BY <1>5, <3>3, <3>4 DEF j
  <2>3. CASE i > x.count
    <3>1. i \in x.count + 1 .. x.count + n
      BY <1>2, <1>3, <2>1, <2>3
    <3>2. /\ j = x.head + (i - x.count) - 1 /\ j \in Index
          /\ j \in x.head .. x.head + n - 1
      BY <1>6, <3>1
    <3>3. j - x.head + 1 = i - x.count /\ i - x.count \in 1 .. n
          /\ Len(q) + (i - x.count) = i
      <4>. DEFINE h == x.head
                  k == x.count
      <4>1. /\ h \in Nat /\ k \in Nat /\ n \in Nat /\ i \in k + 1 .. k + n
            /\ j = h + (i - k) - 1 /\ Len(q) = k
        BY <1>2, <1>3, <3>1, <3>2 DEF Index
      <4>. HIDE DEF h, k, n, j
      <4>2. j - h + 1 = i - k /\ i - k \in 1 .. n /\ Len(q) + (i - k) = i
        BY <4>1
      <4>. QED  BY <4>2 DEF h, k
    <3>. HIDE DEF j
    <3>4. b[j] = s[i - x.count]
      BY <3>2, <3>3
    <3>5. r[i].c = s[i - x.count]
      BY <3>3
    <3>. QED  BY <1>5, <3>4, <3>5 DEF j
  <2>. QED  BY <1>3, <2>2, <2>3
<1>10. Holds(y, r)
  <2>1. y.count = Len(r)
    BY <1>3, <1>5
  <2>2. y.head = (y.tail + y.count) % XmitSize
    BY <1>5, <1>6
  <2>. HIDE DEF y
  <2>. QED  BY <1>8, <1>9, <2>1, <2>2 DEF Holds
<1>. HIDE DEF y
<1>. QED  BY <1>1, <1>5, <1>10

(* A part of a sequence.                                                   *)
LEMMA PartOf ==
    ASSUME NEW S, NEW s \in Seq(S), NEW k \in Nat, k <= Len(s)
    PROVE  /\ SubSeq(s, 1, k) \in Seq(S) /\ Len(SubSeq(s, 1, k)) = k
           /\ \A i \in 1 .. k : SubSeq(s, 1, k)[i] = s[i]
           /\ SubSeq(s, k + 1, Len(s)) \in Seq(S)
           /\ Len(SubSeq(s, k + 1, Len(s))) = Len(s) - k
           /\ \A i \in 1 .. Len(s) - k : SubSeq(s, k + 1, Len(s))[i] = s[i + k]
<1>1. Len(s) \in Nat
  BY LenProperties
<1>2. \A i \in 1 .. Len(s) : s[i] \in S
  BY ElementOfSeq
<1>3. \A i \in 1 .. k : i \in 1 .. Len(s)
  BY <1>1
<1>4. \A i \in k + 1 .. Len(s) : i \in 1 .. Len(s)
  BY <1>1
<1>5. \A i \in 1 .. k : s[i] \in S
  BY <1>2, <1>3
<1>6. \A i \in k + 1 .. Len(s) : s[i] \in S
  BY <1>2, <1>4
<1>7. /\ SubSeq(s, 1, k) \in Seq(S) /\ Len(SubSeq(s, 1, k)) = k
      /\ \A i \in 1 .. k : SubSeq(s, 1, k)[i] = s[i]
  BY <1>1, <1>5, SubSeqProperties
<1>8. /\ SubSeq(s, k + 1, Len(s)) \in Seq(S)
      /\ Len(SubSeq(s, k + 1, Len(s))) = Len(s) - k
      /\ \A i \in 1 .. Len(s) - k : SubSeq(s, k + 1, Len(s))[i] = s[i + k]
  BY <1>1, <1>6, SubSeqProperties
<1>. QED  BY <1>7, <1>8

(* What is written, with its tags.                                         *)
LEMMA TaggedFacts ==
    ASSUME NEW s \in Seq(Char), NEW b \in BOOLEAN
    PROVE  /\ Tagged(s, b) \in Seq(Item) /\ Len(Tagged(s, b)) = Len(s)
           /\ \A i \in 1 .. Len(s) : /\ Tagged(s, b)[i].c = s[i]
                                     /\ Tagged(s, b)[i].data = b
<1>1. \A i \in 1 .. Len(s) : s[i] \in Char
  BY ElementOfSeq
<1>2. \A i \in 1 .. Len(s) : [c |-> s[i], data |-> b] \in Item
  BY <1>1 DEF Item
<1>3. Len(s) \in Nat
  BY LenProperties
<1>4. Tagged(s, b) \in Seq(Item) /\ Len(Tagged(s, b)) = Len(s)
  BY <1>2, <1>3 DEF Tagged
<1>. QED  BY <1>4 DEF Tagged

(* modem_write puts all it was given behind the queue, in two rounds, when *)
(* there is room.                                                          *)
LEMMA WrittenHolds ==
    ASSUME NEW x, NEW q, Holds(x, q), NEW s \in Seq(Char), NEW b \in BOOLEAN,
           Len(s) <= XmitSize - x.count
    PROVE  Holds(written(x, s), q \o Tagged(s, b))
<1>. DEFINE Q == q \o Tagged(s, b)
            n == Round(x, s)
            y == write_round(x, s).xmit
            left == SubSeq(s, n + 1, Len(s))
            m == Round(y, left)
            r == SubSeq(Q, 1, Len(q) + n)
<1>1. /\ q \in Seq(Item) /\ Len(q) \in Nat /\ Len(s) \in Nat /\ x.count = Len(q)
      /\ XmitSize \in Nat /\ XmitSize > 0 /\ x.count \in Nat
      /\ n \in Nat /\ n <= Len(s) /\ n <= XmitSize - x.count /\ n <= XmitSize - x.head
      /\ n = Len(s) \/ n = XmitSize - x.count \/ n = XmitSize - x.head
      /\ x.head \in Nat
  BY HoldsTypes, RoundFacts DEF Index
<1>2. /\ Q \in Seq(Item) /\ Len(Q) = Len(q) + Len(s)
      /\ \A i \in 1 .. Len(q) : Q[i] = q[i]
      /\ \A i \in 1 .. Len(s) : Q[Len(q) + i].c = s[i]
  <2>1. /\ Tagged(s, b) \in Seq(Item) /\ Len(Tagged(s, b)) = Len(s)
        /\ \A i \in 1 .. Len(s) : Tagged(s, b)[i].c = s[i]
    BY TaggedFacts
  <2>. DEFINE T == Tagged(s, b)
              j == Len(q)
              l == Len(s)
  <2>2. /\ T \in Seq(Item) /\ Len(T) = l /\ Len(q) = j /\ q \in Seq(Item)
        /\ j \in Nat /\ l \in Nat
    BY <1>1, <2>1
  <2>. HIDE DEF T, j, l
  <2>3. /\ q \o T \in Seq(Item) /\ Len(q \o T) = Len(q) + Len(T)
        /\ \A i \in 1 .. Len(q) + Len(T) :
             (q \o T)[i] = IF i <= Len(q) THEN q[i] ELSE T[i - Len(q)]
    BY <2>2, ConcatProperties
  <2>4. /\ Len(q \o T) = j + l
        /\ \A i \in 1 .. j + l : (q \o T)[i] = IF i <= j THEN q[i] ELSE T[i - j]
    BY <2>2, <2>3
  <2>5. ASSUME NEW i \in 1 .. j PROVE (q \o T)[i] = q[i]
    BY <2>2, <2>4
  <2>6. ASSUME NEW i \in 1 .. l PROVE (q \o T)[j + i] = T[i]
    <3>1. j + i \in 1 .. j + l /\ ~ (j + i <= j) /\ (j + i) - j = i
      BY <2>2
    <3>. QED  BY <2>4, <3>1
  <2>7. \A i \in 1 .. l : T[i].c = s[i]
    BY <2>1 DEF T, l
  <2>8. /\ q \o T \in Seq(Item) /\ Len(q \o T) = j + l
        /\ \A i \in 1 .. j : (q \o T)[i] = q[i]
        /\ \A i \in 1 .. l : (q \o T)[j + i].c = s[i]
    BY <2>3, <2>4, <2>5, <2>6, <2>7
  <2>. QED  BY <2>8, Zenon DEF T, j, l
<1>. HIDE DEF Q, n
<1>3. /\ r \in Seq(Item) /\ Len(r) = Len(q) + n
      /\ \A i \in 1 .. Len(q) + n : r[i] = Q[i]
  BY <1>1, <1>2, PartOf
<1>4. /\ left \in Seq(Char) /\ Len(left) = Len(s) - n
      /\ \A i \in 1 .. Len(s) - n : left[i] = s[i + n]
  BY <1>1, PartOf
<1>. HIDE DEF r, left
<1>5. \A i \in 1 .. Len(q) : r[i] = q[i]
  <2>1. \A i \in 1 .. Len(q) : i \in 1 .. Len(q) + n
    BY <1>1
  <2>. QED  BY <1>2, <1>3, <2>1
<1>6. \A i \in 1 .. n : r[Len(q) + i].c = s[i]
  <2>1. \A i \in 1 .. n : Len(q) + i \in 1 .. Len(q) + n /\ i \in 1 .. Len(s)
    BY <1>1
  <2>. QED  BY <1>2, <1>3, <2>1
<1>7. /\ Holds(y, r) /\ write_round(x, s).left = left
      /\ y.head = (x.head + n) % XmitSize /\ y.count = x.count + n
  <2>1. Len(r) = Len(q) + Round(x, s) /\ \A i \in 1 .. Round(x, s) : r[Len(q) + i].c = s[i]
    BY <1>3, <1>6 DEF n
  <2>. QED  BY <1>3, <1>5, <2>1, WriteRound DEF n, left
<1>8. written(x, s) = write_round(y, left).xmit
  BY <1>7 DEF written
<1>. HIDE DEF y
<1>9. m = Len(left)
  <2>1. /\ m \in Nat /\ m <= Len(left)
        /\ m = Len(left) \/ m = XmitSize - y.count \/ m = XmitSize - y.head
    BY <1>4, <1>7, RoundFacts
  <2>. HIDE DEF m
  <2>2. Len(left) = Len(s) - n /\ y.count = x.count + n
    BY <1>4, <1>7
  <2>3. CASE n = Len(s)
    BY <1>1, <2>1, <2>2, <2>3
  <2>4. CASE n = XmitSize - x.count
    BY <1>1, <2>1, <2>2, <2>4
  <2>5. CASE n = XmitSize - x.head
    <3>1. x.head + n = XmitSize
      BY <1>1, <2>5
    <3>2. XmitSize % XmitSize = 0
      BY <1>1
    <3>3. y.head = 0
      BY <1>7, <3>1, <3>2
    <3>. QED  BY <1>1, <2>1, <2>2, <3>3
  <2>. QED  BY <1>1, <2>3, <2>4, <2>5
<1>10. Holds(write_round(y, left).xmit, Q)
  <2>1. Len(Q) = Len(r) + Round(y, left)
    BY <1>1, <1>2, <1>3, <1>4, <1>9
  <2>2. \A i \in 1 .. Len(r) : Q[i] = r[i]
    BY <1>3
  <2>3. ASSUME NEW i \in 1 .. Round(y, left) PROVE Q[Len(r) + i].c = left[i]
    <3>1. /\ i \in 1 .. Len(s) - n /\ i + n \in 1 .. Len(s)
          /\ Len(q) + (i + n) = Len(r) + i
      BY <1>1, <1>3, <1>4, <1>9
    <3>. QED  BY <1>2, <1>4, <3>1
  <2>4. /\ Holds(y, r) /\ left \in Seq(Char) /\ Q \in Seq(Item)
        /\ Len(Q) = Len(r) + Round(y, left)
        /\ \A i \in 1 .. Len(r) : Q[i] = r[i]
        /\ \A i \in 1 .. Round(y, left) : Q[Len(r) + i].c = left[i]
    BY <1>2, <1>4, <1>7, <2>1, <2>2, <2>3
  <2>. QED  BY ONLY <2>4, WriteRound
<1>. QED  BY <1>8, <1>10 DEF Q

(* modem_get_chars, one round.                                             *)
ReadRound(x, n) == Lesser(n, Lesser(x.count, XmitSize - x.tail))

(* It takes the head of the queue q and leaves the rest, r.                *)
LEMMA ReadRoundHolds ==
    ASSUME NEW x, NEW q, Holds(x, q), NEW n \in Nat
    PROVE  LET k == ReadRound(x, n)
               g == read_round(x, n)
           IN  /\ k \in Nat /\ k <= Len(q) /\ k <= n
               /\ k = n \/ k = Len(q) \/ k = XmitSize - x.tail
               /\ g.got = [i \in 1 .. k |-> q[i].c] /\ Len(g.got) = k
               /\ Holds(g.xmit, SubSeq(q, k + 1, Len(q)))
<1>. DEFINE k == ReadRound(x, n)
            b == [i \in Index |-> IF i \in x.tail .. x.tail + k - 1 THEN Nul ELSE x.buf[i]]
            y == [x EXCEPT !.buf = b, !.count = @ - k, !.tail = (@ + k) % XmitSize]
            w == [i \in 1 .. k |-> x.buf[x.tail + i - 1]]
            r == SubSeq(q, k + 1, Len(q))
<1>1. read_round(x, n).xmit = y /\ read_round(x, n).got = w
  BY DEF read_round, ReadRound
<1>2. /\ x.head \in Index /\ x.tail \in Index /\ x.count \in 0 .. XmitSize
      /\ x.head = (x.tail + x.count) % XmitSize /\ x.count = Len(q)
      /\ x.buf \in [Index -> Char \cup {Nul}] /\ XmitSize \in Nat /\ XmitSize > 0
      /\ Len(q) \in Nat /\ q \in Seq(Item) /\ x.tail \in Nat /\ x.tail < XmitSize
  BY HoldsTypes DEF Index
<1>3. /\ k \in Nat /\ k <= x.count /\ k <= n /\ k <= XmitSize - x.tail
      /\ k = n \/ k = Len(q) \/ k = XmitSize - x.tail
  <2>. DEFINE c == x.count
              d == XmitSize - x.tail
  <2>1. c \in Nat /\ d \in Nat /\ c = Len(q)
    BY <1>2
  <2>. HIDE DEF c, d
  <2>2. /\ Lesser(n, Lesser(c, d)) \in Nat /\ Lesser(n, Lesser(c, d)) <= c
        /\ Lesser(n, Lesser(c, d)) <= n /\ Lesser(n, Lesser(c, d)) <= d
        /\ \/ Lesser(n, Lesser(c, d)) = n \/ Lesser(n, Lesser(c, d)) = c
           \/ Lesser(n, Lesser(c, d)) = d
    BY <2>1 DEF Lesser
  <2>. QED  BY <2>1, <2>2 DEF ReadRound, c, d
<1>. HIDE DEF k
<1>4. x \in RingType
  BY DEF Holds
<1>5. /\ y.buf = b /\ y.count = x.count - k /\ y.tail = (x.tail + k) % XmitSize
      /\ y.head = x.head
  BY <1>4 DEF RingType
<1>6. /\ (x.tail + k) % XmitSize \in Index
      /\ (x.tail + x.count) % XmitSize = (((x.tail + k) % XmitSize) + (x.count - k)) % XmitSize
      /\ \A i \in 1 .. k : /\ x.tail + i - 1 \in Index
                           /\ (x.tail + i - 1) % XmitSize = x.tail + i - 1
      /\ \A i \in 1 .. x.count - k :
           /\ (((x.tail + k) % XmitSize) + i - 1) % XmitSize = (x.tail + (i + k) - 1) % XmitSize
           /\ (x.tail + (i + k) - 1) % XmitSize \in Index
           /\ (x.tail + (i + k) - 1) % XmitSize \notin x.tail .. x.tail + k - 1
  <2>. DEFINE t == x.tail
              c == x.count
  <2>1. t \in Index /\ c \in 0 .. XmitSize /\ k \in Nat /\ k <= c /\ k <= XmitSize - t
    BY <1>2, <1>3
  <2>. HIDE DEF t, c
  <2>2. /\ (t + k) % XmitSize \in Index
        /\ (t + c) % XmitSize = (((t + k) % XmitSize) + (c - k)) % XmitSize
        /\ \A i \in 1 .. k : t + i - 1 \in Index /\ (t + i - 1) % XmitSize = t + i - 1
        /\ \A i \in 1 .. c - k :
             /\ (((t + k) % XmitSize) + i - 1) % XmitSize = (t + (i + k) - 1) % XmitSize
             /\ (t + (i + k) - 1) % XmitSize \in Index
             /\ (t + (i + k) - 1) % XmitSize \notin t .. t + k - 1
    BY <2>1, ReadPositions
  <2>. QED  BY <2>2, Zenon DEF t, c
<1>7. \A i \in 1 .. Len(q) : x.buf[(x.tail + i - 1) % XmitSize] = q[i].c
  BY HoldsTypes
<1>8. w = [i \in 1 .. k |-> q[i].c]
  <2>1. ASSUME NEW i \in 1 .. k PROVE x.buf[x.tail + i - 1] = q[i].c
    <3>1. i \in 1 .. Len(q)
      BY <1>2, <1>3
    <3>. QED  BY <1>6, <1>7, <3>1
  <2>. QED  BY <2>1
<1>9. Len(w) = k
  BY <1>3
<1>10. k <= Len(q)
  BY <1>2, <1>3
<1>11. /\ r \in Seq(Item) /\ Len(r) = Len(q) - k
       /\ \A i \in 1 .. Len(q) - k : r[i] = q[i + k]
  BY <1>2, <1>3, <1>10, PartOf
<1>. HIDE DEF r
<1>12. b \in [Index -> Char \cup {Nul}]
  BY <1>2
<1>13. y \in RingType
  <2>1. x.count - k \in 0 .. XmitSize
    BY <1>2, <1>3
  <2>. HIDE DEF b
  <2>. QED  BY <1>4, <1>6, <1>12, <2>1 DEF RingType
<1>14. ASSUME NEW i \in 1 .. Len(r)
       PROVE  y.buf[(y.tail + i - 1) % XmitSize] = r[i].c
  <2>. DEFINE j == (x.tail + (i + k) - 1) % XmitSize
  <2>1. /\ i \in 1 .. x.count - k /\ i + k \in 1 .. Len(q) /\ i \in 1 .. Len(q) - k
    BY <1>2, <1>3, <1>11
  <2>2. (y.tail + i - 1) % XmitSize = j /\ j \in Index /\ j \notin x.tail .. x.tail + k - 1
    BY <1>5, <1>6, <2>1
  <2>3. x.buf[j] = q[i + k].c
    BY <1>7, <2>1
  <2>. HIDE DEF j
  <2>4. b[j] = x.buf[j]
    BY <2>2
  <2>. QED  BY <1>5, <1>11, <2>1, <2>2, <2>3, <2>4
<1>15. Holds(y, r)
  <2>1. y.count = Len(r)
    BY <1>2, <1>5, <1>11
  <2>2. y.head = (y.tail + y.count) % XmitSize
    BY <1>2, <1>5, <1>6
  <2>. HIDE DEF y
  <2>. QED  BY <1>11, <1>13, <1>14, <2>1, <2>2 DEF Holds
<1>16. read_round(x, n).got = [i \in 1 .. k |-> q[i].c] /\ Len(read_round(x, n).got) = k
  BY <1>1, <1>8, <1>9
<1>. HIDE DEF y, w
<1>. QED  BY <1>1, <1>3, <1>10, <1>15, <1>16 DEF k, r
(* modem_get_chars takes the head of the queue, in two rounds.             *)
LEMMA GetCharsHolds ==
    ASSUME NEW x, NEW q, Holds(x, q), NEW n \in Nat
    PROVE  LET g == modem_get_chars(x, n)
           IN  /\ Holds(g.xmit, SubSeq(q, Len(g.got) + 1, Len(q)))
               /\ Len(g.got) \in Nat /\ Len(g.got) <= Len(q)
<1>. DEFINE f == read_round(x, n)
            k == ReadRound(x, n)
            r == SubSeq(q, k + 1, Len(q))
            m == n - k
            h == read_round(f.xmit, m)
            l == ReadRound(f.xmit, m)
<1>1. /\ k \in Nat /\ k <= Len(q) /\ k <= n /\ Len(f.got) = k
      /\ f.got = [i \in 1 .. k |-> q[i].c] /\ Holds(f.xmit, r)
  BY ReadRoundHolds
<1>2. q \in Seq(Item) /\ Len(q) \in Nat /\ \A i \in 1 .. Len(q) : q[i].c \in Char
  BY HoldsTypes
<1>3. /\ r \in Seq(Item) /\ Len(r) = Len(q) - k
      /\ \A i \in 1 .. Len(q) - k : r[i] = q[i + k]
  BY <1>1, <1>2, PartOf
<1>. HIDE DEF k, r, f
<1>4. m \in Nat
  BY <1>1
<1>. HIDE DEF m
<1>5. /\ l \in Nat /\ l <= Len(r) /\ Len(h.got) = l
      /\ h.got = [i \in 1 .. l |-> r[i].c] /\ Holds(h.xmit, SubSeq(r, l + 1, Len(r)))
  BY <1>1, <1>4, ReadRoundHolds
<1>6. \A i \in 1 .. Len(r) : r[i].c \in Char
  BY <1>1, HoldsTypes
<1>. HIDE DEF h, l
<1>7. f.got \in Seq(Char) /\ h.got \in Seq(Char)
  <2>1. \A i \in 1 .. k : q[i].c \in Char
    BY <1>1, <1>2
  <2>2. \A i \in 1 .. l : r[i].c \in Char
    BY <1>3, <1>1, <1>2, <1>5, <1>6
  <2>3. [i \in 1 .. k |-> q[i].c] \in Seq(Char)
    BY <1>1, <2>1
  <2>4. [i \in 1 .. l |-> r[i].c] \in Seq(Char)
    BY <1>5, <2>2
  <2>. QED  BY <1>1, <1>5, <2>3, <2>4
<1>8. Len(f.got \o h.got) = k + l
  BY <1>1, <1>5, <1>7, ConcatProperties
<1>9. SubSeq(r, l + 1, Len(r)) = SubSeq(q, (k + l) + 1, Len(q))
  <2>. DEFINE u == SubSeq(r, l + 1, Len(r))
              w == SubSeq(q, (k + l) + 1, Len(q))
              z == Len(q) - k - l
  <2>0. k + l \in Nat /\ k + l <= Len(q) /\ Len(q) - (k + l) = z /\ Len(r) - l = z /\ z \in Nat
    BY <1>1, <1>2, <1>3, <1>5
  <2>1. u \in Seq(Item) /\ Len(u) = z /\ \A i \in 1 .. z : u[i] = r[i + l]
    BY <1>3, <1>5, <2>0, PartOf
  <2>2. w \in Seq(Item) /\ Len(w) = z /\ \A i \in 1 .. z : w[i] = q[i + (k + l)]
    BY <1>2, <2>0, PartOf
  <2>3. ASSUME NEW i \in 1 .. z PROVE r[i + l] = q[i + (k + l)]
    <3>1. i + l \in 1 .. Len(q) - k /\ (i + l) + k = i + (k + l)
      BY <1>1, <1>2, <1>5, <2>0
    <3>. QED  BY <1>3, <3>1
  <2>. HIDE DEF u, w, z
  <2>4. \A i \in 1 .. z : u[i] = w[i]
    BY <2>1, <2>2, <2>3
  <2>5. u = w
    BY <2>1, <2>2, <2>4, SeqEqual
  <2>. QED  BY <2>5 DEF u, w
<1>10. modem_get_chars(x, n) = [got |-> f.got \o h.got, xmit |-> h.xmit]
  BY <1>1 DEF modem_get_chars, f, h, m
<1>11. /\ Holds(h.xmit, SubSeq(q, Len(f.got \o h.got) + 1, Len(q)))
       /\ Len(f.got \o h.got) \in Nat /\ Len(f.got \o h.got) <= Len(q)
  <2>1. k + l \in Nat /\ k + l <= Len(q)
    BY <1>1, <1>2, <1>3, <1>5
  <2>. QED  BY <1>5, <1>8, <1>9, <2>1
<1>12. /\ modem_get_chars(x, n).got = f.got \o h.got
       /\ modem_get_chars(x, n).xmit = h.xmit
  <2>. DEFINE G == f.got \o h.got
              X == h.xmit
  <2>1. modem_get_chars(x, n) = [got |-> G, xmit |-> X]
    BY <1>10, Zenon
  <2>. HIDE DEF G, X
  <2>2. modem_get_chars(x, n).got = G /\ modem_get_chars(x, n).xmit = X
    BY <2>1
  <2>. QED  BY <2>2, Zenon DEF G, X
<1>. QED  BY <1>11, <1>12

(* The first character of the queue, read alone.                           *)
LEMMA GetCharHolds ==
    ASSUME NEW x, NEW q, Holds(x, q), x.count > 0
    PROVE  /\ Holds(read_round(x, 1).xmit, Tail(q))
           /\ read_round(x, 1).got[1] = q[1].c /\ q[1].c \in Char
           /\ q # <<>> /\ Tail(q) \in Seq(Item)
<1>1. /\ x.count = Len(q) /\ x.tail \in Index /\ XmitSize \in Nat /\ Len(q) \in Nat
      /\ q \in Seq(Item) /\ \A i \in 1 .. Len(q) : q[i].c \in Char
  BY HoldsTypes
<1>. DEFINE k == ReadRound(x, 1)
<1>2. /\ k \in Nat /\ k <= Len(q) /\ k <= 1
      /\ k = 1 \/ k = Len(q) \/ k = XmitSize - x.tail
      /\ read_round(x, 1).got = [i \in 1 .. k |-> q[i].c]
      /\ Holds(read_round(x, 1).xmit, SubSeq(q, k + 1, Len(q)))
  BY ReadRoundHolds
<1>. HIDE DEF k
<1>3. k = 1
  <2>1. XmitSize - x.tail > 0 /\ XmitSize - x.tail \in Int
    BY <1>1 DEF Index
  <2>. QED  BY <1>1, <1>2, <2>1
<1>4. q # <<>> /\ 1 \in 1 .. Len(q)
  BY <1>1
<1>5. Tail(q) = SubSeq(q, 2, Len(q))
  BY <1>1, <1>4
<1>6. Holds(read_round(x, 1).xmit, Tail(q))
  <2>1. k + 1 = 2
    BY <1>3
  <2>2. Holds(read_round(x, 1).xmit, SubSeq(q, k + 1, Len(q)))
    BY <1>2
  <2>3. Holds(read_round(x, 1).xmit, SubSeq(q, 2, Len(q)))
    BY <2>1, <2>2, Zenon
  <2>. QED  BY <1>5, <2>3, Zenon
<1>7. read_round(x, 1).got[1] = q[1].c
  BY <1>2, <1>3
<1>. QED  BY <1>1, <1>4, <1>6, <1>7 DEF Holds

(* An empty ring.                                                          *)
LEMMA EmptiedHolds == Holds(emptied, <<>>)
<1>1. emptied \in RingType
  BY TerminalAssumption DEF emptied, RingType, Index
<1>2. /\ emptied.count = 0 /\ emptied.head = 0 /\ emptied.tail = 0
      /\ 0 % XmitSize = 0
  BY TerminalAssumption DEF emptied
<1>3. emptied.head = (emptied.tail + emptied.count) % XmitSize
  BY <1>2
<1>4. <<>> \in Seq(Item) /\ Len(<<>>) = 0
  BY EmptySeq
<1>. QED  BY <1>1, <1>2, <1>3, <1>4 DEF Holds
-----------------------------------------------------------------------------
(* The command line.                                                       *)

(* A set of numbers that is not empty has a least one.                     *)
LEMMA Least ==
    ASSUME NEW T, T \subseteq Nat, T # {}
    PROVE  \E n \in T : \A m \in T : n <= m
<1>1. IsWellFoundedOn(OpToRel(<, Nat), Nat)
  BY NatLessThanWellFounded, Zenon
<1>2. PICK n \in T : \A m \in T : ~ (<<m, n>> \in OpToRel(<, Nat))
  BY <1>1, WFMin, Zenon
<1>3. \A m \in T : ~ (m < n)
  BY <1>2, Zenon DEF OpToRel
<1>. QED  BY <1>3

(* at_line and at_count, with a Nul at the end of the array.               *)
LineChar == Char \cup {Nul, Blank}

LineOK(a) ==
    /\ a \in [line : [0 .. LineSize - 1 -> LineChar], count : 0 .. LineSize - 1]
    /\ a.line[LineSize - 1] = Nul

(* strlen ends within at_line.                                             *)
LEMMA StrlenBound ==
    ASSUME NEW a, LineOK(a)
    PROVE  strlen(a.line) \in 0 .. LineSize - 1
<1>. DEFINE l == a.line
            T == {n \in 0 .. LineSize - 1 : l[n] = Nul}
<1>0. LineSize \in Nat /\ LineSize >= 3
  BY TerminalAssumption
<1>1. DOMAIN l = 0 .. LineSize - 1 /\ l[LineSize - 1] = Nul
  BY DEF LineOK
<1>2. T \subseteq Nat /\ T # {}
  BY <1>0, <1>1
<1>3. PICK n \in T : \A m \in T : n <= m
  <2>. HIDE DEF T
  <2>. QED  BY <1>2, Least
<1>4. \A i \in 0 .. n - 1 : l[i] # Nul
  <2>1. \A i \in 0 .. n - 1 : i \in 0 .. LineSize - 1 /\ ~ (n <= i)
    BY <1>0, <1>3
  <2>. QED  BY <1>3, <2>1
<1>5. \E j \in DOMAIN l : l[j] = Nul /\ \A i \in 0 .. j - 1 : l[i] # Nul
  BY <1>1, <1>3, <1>4
<1>. QED  BY <1>1, <1>5, Zenon DEF strlen

(* The fields of the line.                                                 *)
LEMMA LineFacts ==
    ASSUME NEW a, LineOK(a)
    PROVE  /\ a.line \in [0 .. LineSize - 1 -> LineChar] /\ a.count \in 0 .. LineSize - 1
           /\ a.line[LineSize - 1] = Nul /\ LineSize \in Nat /\ LineSize >= 3
           /\ a = [line |-> a.line, count |-> a.count]
BY TerminalAssumption DEF LineOK

(* A line made of its fields.                                              *)
LEMMA LineMade ==
    ASSUME NEW l \in [0 .. LineSize - 1 -> LineChar], NEW n \in 0 .. LineSize - 1,
           l[LineSize - 1] = Nul
    PROVE  LineOK([line |-> l, count |-> n]) /\ LineOK([count |-> n, line |-> l])
BY DEF LineOK

(* A character at a place before the last.                                 *)
LEMMA LinePut ==
    ASSUME NEW l \in [0 .. LineSize - 1 -> LineChar], NEW n \in 0 .. LineSize - 1,
           NEW c \in LineChar, l[LineSize - 1] = Nul, c = Nul \/ n # LineSize - 1
    PROVE  /\ [l EXCEPT ![n] = c] \in [0 .. LineSize - 1 -> LineChar]
           /\ [l EXCEPT ![n] = c][LineSize - 1] = Nul
<1>1. LineSize - 1 \in 0 .. LineSize - 1
  BY TerminalAssumption
<1>. QED  BY <1>1

(* The end of a line stays within at_line: the Nul is put at at_count, or  *)
(* where the line that A/ repeats ends.                                    *)
LEMMA AtEndedOK ==
    ASSUME NEW c, LineOK(at)
    PROVE  LineOK(at_ended(c))
<1>. DEFINE n == IF again(c) THEN strlen(at.line) ELSE at.count
            l == at.line
<1>1. n \in 0 .. LineSize - 1
  BY StrlenBound, LineFacts
<1>2. l \in [0 .. LineSize - 1 -> LineChar] /\ l[LineSize - 1] = Nul
  BY LineFacts
<1>3. at_ended(c) = [count |-> n, line |-> [l EXCEPT ![n] = Nul]]
  BY Zenon DEF at_ended
<1>. HIDE DEF n, l
<1>4. Nul \in LineChar
  BY DEF LineChar
<1>5. /\ [l EXCEPT ![n] = Nul] \in [0 .. LineSize - 1 -> LineChar]
      /\ [l EXCEPT ![n] = Nul][LineSize - 1] = Nul
  BY <1>1, <1>2, <1>4, LinePut
<1>. QED  BY <1>1, <1>3, <1>5, LineMade

(* A character is collected within at_line, and never at its last place.   *)
LEMMA AtCollectedOK ==
    ASSUME NEW c \in Char, LineOK(at)
    PROVE  LineOK(at_collected(c))
<1>. DEFINE l == at.line
            n == at.count
<1>1. /\ l \in [0 .. LineSize - 1 -> LineChar] /\ l[LineSize - 1] = Nul
      /\ n \in 0 .. LineSize - 1 /\ LineSize \in Nat /\ LineSize >= 3
      /\ at = [line |-> l, count |-> n]
  BY LineFacts
<1>2. Nul \in LineChar /\ c \in LineChar
  BY DEF LineChar
<1>3. CASE c = "bs" /\ n > 0
  <2>1. at_collected(c) = [at EXCEPT !.count = n - 1]
    BY <1>3 DEF at_collected
  <2>. HIDE DEF l, n
  <2>2. at_collected(c) = [line |-> l, count |-> n - 1]
    BY <1>1, <2>1
  <2>3. n - 1 \in 0 .. LineSize - 1
    BY <1>1, <1>3
  <2>. QED  BY <1>1, <2>2, <2>3, LineMade
<1>4. CASE ~ (c = "bs" /\ n > 0) /\ n = LineSize - 1
  <2>1. at_collected(c) = [at EXCEPT !.count = 0, !.line[1] = Nul]
    BY <1>4 DEF at_collected
  <2>. HIDE DEF l, n
  <2>2. at_collected(c) = [line |-> [l EXCEPT ![1] = Nul], count |-> 0]
    BY <1>1, <2>1
  <2>3. 0 \in 0 .. LineSize - 1 /\ 1 \in 0 .. LineSize - 1
    BY <1>1
  <2>4. /\ [l EXCEPT ![1] = Nul] \in [0 .. LineSize - 1 -> LineChar]
        /\ [l EXCEPT ![1] = Nul][LineSize - 1] = Nul
    BY <1>1, <1>2, <2>3, LinePut
  <2>. QED  BY <2>2, <2>3, <2>4, LineMade
<1>5. CASE ~ (c = "bs" /\ n > 0) /\ n # LineSize - 1
  <2>1. at_collected(c) = [at EXCEPT !.line[n] = c, !.count = n + 1]
    BY <1>5 DEF at_collected
  <2>. HIDE DEF l, n
  <2>2. at_collected(c) = [line |-> [l EXCEPT ![n] = c], count |-> n + 1]
    BY <1>1, <2>1
  <2>3. n + 1 \in 0 .. LineSize - 1
    BY <1>1, <1>5
  <2>4. /\ [l EXCEPT ![n] = c] \in [0 .. LineSize - 1 -> LineChar]
        /\ [l EXCEPT ![n] = c][LineSize - 1] = Nul
    BY <1>1, <1>2, <1>5, LinePut
  <2>. QED  BY <2>2, <2>3, <2>4, LineMade
<1>. QED  BY <1>3, <1>4, <1>5

(* A line that is blanked, and one that is begun anew.                     *)
LEMMA AtClearedOK ==
    ASSUME NEW a, LineOK(a)
    PROVE  /\ LineOK(at_blanked(a)) /\ LineOK(at_reset(a))
           /\ at_blanked(a).count = 0 /\ at_reset(a).count = 0
<1>. DEFINE l == a.line
            n == a.count
            b == [i \in DOMAIN l |-> IF i < n THEN Blank ELSE l[i]]
<1>1. /\ l \in [0 .. LineSize - 1 -> LineChar] /\ l[LineSize - 1] = Nul
      /\ n \in 0 .. LineSize - 1 /\ LineSize \in Nat /\ LineSize >= 3
      /\ a = [line |-> l, count |-> n]
  BY LineFacts
<1>2. at_blanked(a) = [count |-> 0, line |-> b]
  BY Zenon DEF at_blanked
<1>3. at_reset(a) = [a EXCEPT !.count = 0]
  BY DEF at_reset
<1>. HIDE DEF l, n
<1>4. at_reset(a) = [line |-> l, count |-> 0]
  BY <1>1, <1>3
<1>5. Blank \in LineChar
  BY DEF LineChar
<1>6. b \in [0 .. LineSize - 1 -> LineChar]
  BY <1>1, <1>5
<1>7. b[LineSize - 1] = Nul
  <2>1. LineSize - 1 \in DOMAIN l /\ ~ (LineSize - 1 < n)
    BY <1>1
  <2>. QED  BY <1>1, <2>1
<1>8. 0 \in 0 .. LineSize - 1
  BY <1>1
<1>. HIDE DEF b
<1>. QED  BY <1>1, <1>2, <1>4, <1>6, <1>7, <1>8, LineMade
-----------------------------------------------------------------------------
(* Types and the ring.                                                     *)

Ctl ==
    /\ state \in {"IDLE", "ESTAB", "ONLINE", "COMMAND_ONLINE", "DISC"}
    /\ command \in BOOLEAN
    /\ esc \in [count : 0 .. 3, quiet : 0 .. Guard + 1]
    /\ ring_count \in 0 .. 2
    /\ event \subseteq Event /\ new_event \subseteq Event /\ seen \subseteq Event
    /\ timer \in [added : BOOLEAN, left : 0 .. Guard + RingDelay]
    /\ pc \in {"top", "enter", "select", "sched", "clear", "at"}
    /\ cut \in BOOLEAN /\ ran \in BOOLEAN /\ begun \in BOOLEAN

TInv == Ctl /\ Holds(xmit, queue) /\ LineOK(at)

(* The type invariant and the ring are parts of it.                        *)
LEMMA TInvTypes == TInv => TypeOK /\ RingIsQueue
BY DEF TInv, Ctl, Holds, RingType, Item, LineOK, LineChar, TypeOK, RingIsQueue

(* The initial state.                                                      *)
LEMMA TInvInit == Init => TInv
<1>. SUFFICES ASSUME Init PROVE TInv
  OBVIOUS
<1>1. Ctl
  BY TerminalAssumption DEF Init, Ctl, Event
<1>2. Holds(xmit, queue)
  BY EmptiedHolds DEF Init
<1>3. LineOK(at)
  <2>1. LineSize - 1 \in 0 .. LineSize - 1 /\ 0 \in 0 .. LineSize - 1 /\ Nul \in LineChar
    BY TerminalAssumption DEF LineChar
  <2>. QED  BY <2>1 DEF Init, LineOK
<1>. QED  BY <1>1, <1>2, <1>3 DEF TInv

(* What modem_check_escape counts.                                         *)
LEMMA CheckEscapeCount ==
    ASSUME Ctl, NEW w \in Seq(Char)
    PROVE  /\ check_escape(w).count \in 0 .. 3
           /\ check_escape(w).done <=> check_escape(w).count = 3
           /\ check_escape(w).done \in BOOLEAN
<1>1. esc.count \in 0 .. 3 /\ Len(w) \in Nat
  BY LenProperties DEF Ctl
<1>2. CASE escape_counts(w)
  <2>1. Len(w) + esc.count <= 3
    BY <1>2 DEF escape_counts
  <2>2. check_escape(w) = [count |-> esc.count + Len(w), done |-> esc.count + Len(w) = 3]
    BY <1>2, Zenon DEF check_escape
  <2>. DEFINE C == esc.count + Len(w)
              D == esc.count + Len(w) = 3
  <2>3. D \in BOOLEAN /\ (D <=> C = 3) /\ C \in 0 .. 3
    BY <1>1, <2>1
  <2>. HIDE DEF C, D
  <2>4. check_escape(w) = [count |-> C, done |-> D]
    BY <2>2, Zenon DEF C, D
  <2>5. check_escape(w).count = C /\ check_escape(w).done = D
    BY <2>4
  <2>. QED  BY <2>3, <2>5, Zenon
<1>3. CASE ~ escape_counts(w)
  <2>1. check_escape(w) = [count |-> 0, done |-> FALSE]
    BY <1>3, Zenon DEF check_escape
  <2>. QED  BY <2>1
<1>. QED  BY <1>2, <1>3

(* The escape count after modem_escape and after a new call.               *)
LEMMA EscReset ==
    ASSUME Ctl
    PROVE  /\ [esc EXCEPT !.count = IF "ESCAPE" \in seen THEN 0 ELSE @]
                \in [count : 0 .. 3, quiet : 0 .. Guard + 1]
           /\ [esc EXCEPT !.quiet = Lesser(@ + 1, Guard + 1)]
                \in [count : 0 .. 3, quiet : 0 .. Guard + 1]
<1>1. esc \in [count : 0 .. 3, quiet : 0 .. Guard + 1] /\ Guard \in Nat
  BY TerminalAssumption DEF Ctl
<1>2. Lesser(esc.quiet + 1, Guard + 1) \in 0 .. Guard + 1
  BY <1>1 DEF Lesser
<1>. QED  BY <1>1, <1>2

(* Every step keeps the control state in its types.                        *)
LEMMA CtlStep == TInv /\ [Next]_vars => Ctl'
<1>. SUFFICES ASSUME TInv, [Next]_vars PROVE Ctl'
  OBVIOUS
<1>0. Ctl
  BY DEF TInv
<1>20. Guard \in Nat /\ Guard > 0 /\ RingDelay \in Nat /\ RingDelay > 0
  BY TerminalAssumption
<1>1. CASE Alarm
  BY <1>0, <1>1 DEF Ctl, Alarm, history
<1>2. CASE Tick
  <2>1. timer' \in [added : BOOLEAN, left : 0 .. Guard + RingDelay]
    <3>1. timer.left \in 0 .. Guard + RingDelay /\ timer.added \in BOOLEAN
      BY <1>0 DEF Ctl
    <3>2. timer.added => timer.left - 1 \in 0 .. Guard + RingDelay
      BY <1>2, <1>20, <3>1 DEF Tick
    <3>. QED  BY <1>0, <1>2, <3>2 DEF Ctl, Tick
  <2>2. esc' \in [count : 0 .. 3, quiet : 0 .. Guard + 1]
    BY <1>0, <1>2, EscReset, Zenon DEF Tick
  <2>. QED  BY <1>0, <1>2, <2>1, <2>2 DEF Ctl, Tick, history
<1>3. CASE Arm
  <2>1. Guard \in 0 .. Guard + RingDelay /\ RingDelay \in 0 .. Guard + RingDelay
    BY <1>20
  <2>. QED  BY <1>0, <1>3, <2>1 DEF Ctl, Arm, history
<1>4. CASE Top
  BY <1>0, <1>4 DEF Ctl, Top, history
<1>5. CASE Select
  BY <1>0, <1>5 DEF Ctl, Select, events, history
<1>6. CASE Wake
  BY <1>0, <1>6 DEF Ctl, Wake, events, history
<1>7. CASE ModemEvent
  <2>1. esc' \in [count : 0 .. 3, quiet : 0 .. Guard + 1]
    <3>1. esc' = [esc EXCEPT !.count = IF "ESCAPE" \in seen THEN 0 ELSE @]
      BY <1>7, Zenon DEF ModemEvent, modem_escape
    <3>. QED  BY <1>0, <3>1, EscReset, Zenon
  <2>2. state' \in {state, "COMMAND_ONLINE", "ESTAB", "IDLE"} /\ command' \in {command, TRUE, FALSE}
    BY <1>7 DEF ModemEvent, modem_escape, modem_start
  <2>3. ring_count' \in {0, ring_count} /\ event' = {}
    BY <1>7 DEF ModemEvent, ring_forgotten, modem_start
  <2>4. /\ new_event' \in {new_event, {}, new_event \cup {"RING_CHECK"}}
        /\ seen' \in {{}, {"RING_CHECK"}} /\ pc' \in {"top", "sched"}
    BY <1>7 DEF ModemEvent, modem_start
  <2>5. timer' \in {timer, [timer EXCEPT !.added = FALSE]}
    BY <1>7 DEF ModemEvent, modem_start
  <2>6. begun' \in BOOLEAN /\ cut' = cut /\ ran' = ran
    BY <1>0, <1>7 DEF ModemEvent, Ctl
  <2>7. timer' \in [added : BOOLEAN, left : 0 .. Guard + RingDelay]
    BY <1>0, <2>5 DEF Ctl
  <2>8. command' \in BOOLEAN
    BY <1>0, <2>2, Zenon DEF Ctl
  <2>9. state' \in {"IDLE", "ESTAB", "ONLINE", "COMMAND_ONLINE", "DISC"}
    BY <1>0, <2>2 DEF Ctl
  <2>10. ring_count' \in 0 .. 2
    BY <1>0, <2>3 DEF Ctl
  <2>11. /\ event' \subseteq Event /\ new_event' \subseteq Event /\ seen' \subseteq Event
         /\ pc' \in {"top", "enter", "select", "sched", "clear", "at"}
    BY <1>0, <2>3, <2>4 DEF Ctl, Event
  <2>12. cut' \in BOOLEAN /\ ran' \in BOOLEAN
    BY <1>0, <2>6, Zenon DEF Ctl
  <2>. QED  BY <2>1, <2>6, <2>7, <2>8, <2>9, <2>10, <2>11, <2>12, Zenon DEF Ctl
<1>8. CASE AtChar
  <2>1. /\ state' \in {state, "ONLINE", "ESTAB", "IDLE"} /\ command' \in {command, TRUE, FALSE}
        /\ ring_count' \in {0, ring_count} /\ event' \in {event, {}}
        /\ new_event' \in {new_event, {}}
        /\ timer' \in {timer, [timer EXCEPT !.added = FALSE]}
    BY <1>8 DEF AtChar, at_goes_on, process_at_command, modem_start
  <2>2. begun' \in {begun, begun \/ Tail(queue) # <<>>}
    BY <1>8, ZenonT(60) DEF AtChar, at_goes_on, process_at_command
  <2>3. esc' = esc /\ pc' = pc /\ seen' = seen /\ cut' = cut
    BY <1>8 DEF AtChar
  <2>4. ran' = (ran \/ queue[1].data)
    BY <1>8 DEF AtChar
  <2>5. ran' \in BOOLEAN
    BY <2>4, Zenon
  <2>6. begun' \in BOOLEAN /\ cut' \in BOOLEAN /\ command' \in BOOLEAN
    BY <1>0, <2>1, <2>2, <2>3, Zenon DEF Ctl
  <2>7. timer' \in [added : BOOLEAN, left : 0 .. Guard + RingDelay]
    BY <1>0, <2>1 DEF Ctl
  <2>8. /\ state' \in {"IDLE", "ESTAB", "ONLINE", "COMMAND_ONLINE", "DISC"}
        /\ ring_count' \in 0 .. 2
        /\ event' \subseteq Event /\ new_event' \subseteq Event /\ seen' \subseteq Event
    BY <1>0, <2>1, <2>3 DEF Ctl
  <2>9. /\ pc' \in {"top", "enter", "select", "sched", "clear", "at"}
        /\ esc' \in [count : 0 .. 3, quiet : 0 .. Guard + 1]
    BY <1>0, <2>3 DEF Ctl
  <2>. QED  BY <2>5, <2>6, <2>7, <2>8, <2>9, Zenon DEF Ctl
<1>9. CASE AtDone
  BY <1>0, <1>9 DEF Ctl, AtDone, events, history
<1>10. CASE Ring
  <2>1. /\ ring_count' \in {0, 1, 2} /\ event' = event /\ timer' = timer
        /\ new_event' \in {new_event, new_event \cup {"RING_CHECK"}}
        /\ seen' \in {seen, {"RING_CHECK"}} /\ pc' \in {"top", "sched"}
        /\ UNCHANGED <<state, command, esc, cut, ran, begun>>
    BY <1>10 DEF Ring, schedule_event, events
  <2>. QED  BY <1>0, <2>1 DEF Ctl, Event
<1>11. CASE RingEnd
  BY <1>0, <1>11 DEF Ctl, RingEnd, Event
<1>12. CASE Connect
  BY <1>0, <1>12 DEF Ctl, Connect, events, history
<1>13. CASE Hangup
  BY <1>0, <1>13 DEF Ctl, Hangup, events, history
<1>14. CASE Stop
  BY <1>0, <1>14 DEF Ctl, Stop, events
<1>15. CASE Fetch
  BY <1>0, <1>15 DEF Ctl, Fetch, events, history
<1>16. CASE Write
  <2>1. esc' \in [count : 0 .. 3, quiet : 0 .. Guard + 1]
    <3>1. PICK w \in Writes : esc' = esc \/ esc' = [count |-> check_escape(w).count, quiet |-> 0]
      BY <1>16, Zenon DEF Write
    <3>2. check_escape(w).count \in 0 .. 3
      BY <1>0, CheckEscapeCount, WritesAssumption
    <3>. QED  BY <1>0, <1>20, <3>1, <3>2 DEF Ctl
  <2>2. /\ state' \in {state, "DISC"} /\ command' = command /\ ring_count' = ring_count
        /\ event' = event /\ new_event' \in {new_event, new_event \cup {"ESCAPE"}}
        /\ seen' \in {seen, {"ESCAPE"}} /\ timer' = timer /\ pc' \in {"top", "at", "sched"}
        /\ cut' = cut /\ ran' = ran /\ begun' = begun
    BY <1>16 DEF Write, schedule_event, events
  <2>. QED  BY <1>0, <2>1, <2>2 DEF Ctl, Event
<1>17. CASE UNCHANGED vars
  BY <1>0, <1>17 DEF Ctl, vars
<1>. QED  BY <1>1, <1>2, <1>3, <1>4, <1>5, <1>6, <1>7, <1>8, <1>9, <1>10, <1>11, <1>12,
             <1>13, <1>14, <1>15, <1>16, <1>17 DEF Next, Clock, Loop
(* What each step does to the ring and its contents.                       *)
LEMMA RingMoves ==
    ASSUME [Next]_vars
    PROVE  \/ UNCHANGED <<xmit, queue>>
           \/ /\ xmit' = emptied /\ queue' = <<>>
              /\ ModemEvent \/ AtChar
           \/ /\ AtChar /\ pc = "at" /\ xmit.count > 0
              /\ xmit' = read_round(xmit, 1).xmit /\ queue' = Tail(queue)
           \/ /\ Fetch
              /\ \E n \in 1 .. XmitSize :
                   LET g == modem_get_chars(xmit, n)
                   IN  xmit' = g.xmit /\ queue' = SubSeq(queue, Len(g.got) + 1, Len(queue))
           \/ /\ Write
              /\ \E w \in Writes :
                   /\ Len(w) <= XmitSize - xmit.count
                   /\ xmit' = written(xmit, w) /\ queue' = queue \o Tagged(w, ~ command)
<1>1. CASE Clock
  BY <1>1 DEF Clock, Tick, Alarm
<1>2. CASE Top \/ Select \/ Wake \/ Arm \/ AtDone
  BY <1>2 DEF Top, Select, Wake, Arm, AtDone
<1>3. CASE ModemEvent
  BY <1>3, Zenon DEF ModemEvent, modem_escape, modem_start
<1>4. CASE AtChar
  BY <1>4, ZenonT(60) DEF AtChar, at_goes_on, process_at_command, modem_start
<1>5. CASE Ring \/ RingEnd \/ Connect \/ Hangup \/ Stop
  BY <1>5 DEF Ring, RingEnd, Connect, Hangup, Stop
<1>6. CASE Fetch
  BY <1>6, Zenon DEF Fetch
<1>7. CASE Write
  BY <1>7, Zenon DEF Write
<1>8. CASE UNCHANGED vars
  BY <1>8 DEF vars
<1>. QED  BY <1>1, <1>2, <1>3, <1>4, <1>5, <1>6, <1>7, <1>8 DEF Next, Loop

(* Every step keeps the ring a queue.                                      *)
LEMMA RingStep == TInv /\ [Next]_vars => Holds(xmit, queue)'
<1>. SUFFICES ASSUME TInv, [Next]_vars PROVE Holds(xmit', queue')
  BY DEF Holds
<1>0. Holds(xmit, queue) /\ command \in BOOLEAN
  BY DEF TInv, Ctl
<1>1. CASE UNCHANGED <<xmit, queue>>
  BY <1>0, <1>1
<1>2. CASE xmit' = emptied /\ queue' = <<>>
  BY <1>2, EmptiedHolds
<1>3. CASE xmit.count > 0 /\ xmit' = read_round(xmit, 1).xmit /\ queue' = Tail(queue)
  BY <1>0, <1>3, GetCharHolds
<1>4. CASE \E n \in 1 .. XmitSize :
             LET g == modem_get_chars(xmit, n)
             IN  xmit' = g.xmit /\ queue' = SubSeq(queue, Len(g.got) + 1, Len(queue))
  <2>1. PICK n \in 1 .. XmitSize :
          /\ xmit' = modem_get_chars(xmit, n).xmit
          /\ queue' = SubSeq(queue, Len(modem_get_chars(xmit, n).got) + 1, Len(queue))
    BY <1>4, Zenon
  <2>2. n \in Nat
    BY TerminalAssumption
  <2>3. Holds(modem_get_chars(xmit, n).xmit,
              SubSeq(queue, Len(modem_get_chars(xmit, n).got) + 1, Len(queue)))
    BY <1>0, <2>2, GetCharsHolds
  <2>. QED  BY <2>1, <2>3, Zenon
<1>5. CASE \E w \in Writes :
             /\ Len(w) <= XmitSize - xmit.count
             /\ xmit' = written(xmit, w) /\ queue' = queue \o Tagged(w, ~ command)
  <2>1. PICK w \in Writes :
          /\ Len(w) <= XmitSize - xmit.count
          /\ xmit' = written(xmit, w) /\ queue' = queue \o Tagged(w, ~ command)
    BY <1>5, Zenon
  <2>2. w \in Seq(Char) /\ (~ command) \in BOOLEAN
    BY <1>0, WritesAssumption, Zenon
  <2>3. Holds(written(xmit, w), queue \o Tagged(w, ~ command))
    BY <1>0, <2>1, <2>2, WrittenHolds, Zenon
  <2>. QED  BY <2>1, <2>3, Zenon
<1>. QED  BY <1>1, <1>2, <1>3, <1>4, <1>5, RingMoves, Zenon

(* What each step does to the command line.                                *)
LEMMA LineMoves ==
    ASSUME [Next]_vars
    PROVE  \/ at' = at /\ ~ AtChar
           \/ /\ AtChar
              /\ \/ /\ at' = at_collected(read_round(xmit, 1).got[1])
                    /\ UNCHANGED <<state, begun>>
                 \/ \E c : \/ /\ at' = at_blanked(at_ended(c))
                              /\ UNCHANGED <<state, begun>>
                           \/ at' = at_reset(at_ended(c))
<1>1. CASE AtChar
  BY <1>1, Zenon DEF AtChar, at_goes_on
<1>2. CASE ~ AtChar
  <2>1. CASE Clock \/ Top \/ Select \/ Wake \/ Arm \/ ModemEvent \/ AtDone \/ UNCHANGED vars
    BY <1>2, <2>1, Zenon DEF Clock, Tick, Alarm, Top, Select, Wake, Arm, ModemEvent, AtDone, vars
  <2>2. CASE Ring \/ RingEnd \/ Connect \/ Hangup \/ Stop \/ Fetch \/ Write
    BY <1>2, <2>2, Zenon DEF Ring, RingEnd, Connect, Hangup, Stop, Fetch, Write
  <2>. QED  BY <1>2, <2>1, <2>2 DEF Next, Loop
<1>. QED  BY <1>1, <1>2

(* Every step keeps at_line and at_count within their bounds.              *)
LEMMA LineStep == TInv /\ [Next]_vars => LineOK(at)'
<1>. SUFFICES ASSUME TInv, [Next]_vars PROVE LineOK(at')
  BY DEF LineOK
<1>0. LineOK(at) /\ Holds(xmit, queue)
  BY DEF TInv
<1>1. CASE at' = at
  BY <1>0, <1>1
<1>2. CASE AtChar /\ at' = at_collected(read_round(xmit, 1).got[1])
  <2>1. read_round(xmit, 1).got[1] \in Char
    BY <1>0, <1>2, GetCharHolds DEF AtChar
  <2>. QED  BY <1>0, <1>2, <2>1, AtCollectedOK
<1>3. ASSUME NEW c, at' = at_blanked(at_ended(c)) \/ at' = at_reset(at_ended(c))
      PROVE  LineOK(at')
  <2>1. LineOK(at_ended(c))
    BY <1>0, AtEndedOK
  <2>. QED  BY <1>3, <2>1, AtClearedOK
<1>. QED  BY <1>1, <1>2, <1>3, LineMoves, Zenon

(* The types, the ring and the command line are kept.                      *)
LEMMA TInvStep == TInv /\ [Next]_vars => TInv'
BY CtlStep, RingStep, LineStep DEF TInv

(* All behaviours keep them.                                               *)
LEMMA TInvAlways == Spec => []TInv
BY TInvInit, TInvStep, PTL DEF Spec

(* The types hold, and modem_at_process never indexes at_line outside of   *)
(* its bounds.                                                             *)
THEOREM TerminalTypeOK == Spec => []TypeOK
BY TInvAlways, TInvTypes, PTL

(* The xmit ring is a queue: what modem_write puts in comes out in order,  *)
(* over the end of the buffer and for every size of it.                    *)
THEOREM TerminalRingIsQueue == Spec => []RingIsQueue
BY TInvAlways, TInvTypes, PTL
-----------------------------------------------------------------------------
(* The events that modem_event shares with the signal handler.             *)

(* While the handler did not run in modem_event, what modem_event has read *)
(* is still what m->event holds.                                           *)
EventInv ==
    "clear" \notin raced =>
        /\ ring_count > 0 => Pending("RING_CHECK")
        /\ new_event # {} => timer.added \/ pc = "sched"
        /\ pc = "clear" => event = seen

(* The initial state.                                                      *)
LEMMA EventInvInit == Init => EventInv
BY DEF Init, EventInv

(* Every step keeps it.                                                    *)
LEMMA EventInvStep == TInv /\ EventInv /\ [Next]_vars => EventInv'
<1>. SUFFICES ASSUME TInv, EventInv, [Next]_vars, "clear" \notin raced' PROVE EventInv'
  BY DEF EventInv
<1>. DEFINE RingPending == ring_count > 0 => Pending("RING_CHECK")
            Armed == new_event # {} => timer.added \/ pc = "sched"
            Read == pc = "clear" => event = seen
<1>0. "clear" \notin raced
  <2>1. raced \subseteq raced'
    <3>1. CASE Clock \/ Loop
      BY <3>1, Zenon DEF Clock, Loop, Tick, Alarm, Top, Select, Wake, Arm, ModemEvent, AtChar,
                         AtDone, events
    <3>2. CASE ~ (Clock \/ Loop)
      BY <3>2, Zenon DEF Next, Ring, RingEnd, Connect, Hangup, Stop, Fetch, Write, events,
                         schedule_event, vars
    <3>. QED  BY <3>1, <3>2
  <2>. QED  BY <2>1
<1>20. RingPending /\ Armed /\ Read
  BY <1>0 DEF EventInv
<1>21. timer \in [added : BOOLEAN, left : 0 .. Guard + RingDelay] /\ ring_count \in 0 .. 2
  BY DEF TInv, Ctl
<1>. SUFFICES RingPending' /\ Armed' /\ Read'
  BY DEF EventInv
<1>1. CASE Alarm
  <2>1. /\ event' = event \cup new_event /\ new_event' = {} /\ pc # "clear" /\ pc' # "clear"
        /\ ring_count' = ring_count
    BY <1>1 DEF Alarm
  <2>. QED  BY <1>20, <2>1 DEF Pending
<1>2. CASE Tick
  <2>1. /\ timer'.added = timer.added
        /\ UNCHANGED <<ring_count, event, new_event, pc, seen>>
    BY <1>2, <1>21 DEF Tick
  <2>. QED  BY <1>20, <2>1 DEF Pending
<1>3. CASE Arm
  BY <1>3, <1>20 DEF Arm, Pending
<1>4. CASE Top
  BY <1>4, <1>20 DEF Top, Pending
<1>5. CASE Select
  BY <1>5, <1>20 DEF Select, Pending, events
<1>6. CASE Wake
  BY <1>6, <1>20 DEF Wake, Pending, events
<1>7. CASE ModemEvent
  <2>1. pc = "clear" /\ event = seen /\ pc' # "clear"
    BY <1>7, <1>20 DEF ModemEvent
  <2>2. CASE /\ ~ ("RING_CHECK" \in seen /\ ring_count > 0)
             /\ UNCHANGED <<ring_count, new_event, timer>>
    BY <1>20, <2>1, <2>2 DEF Pending
  <2>3. CASE ring_count' = 0 /\ UNCHANGED <<new_event, timer>>
    BY <1>20, <2>1, <2>3
  <2>4. CASE ring_count' = 0 /\ (new_event' = {} \/ pc' = "sched")
    BY <2>1, <2>4
  <2>. QED  BY <1>7, <2>2, <2>3, <2>4 DEF ModemEvent, modem_start, ring_forgotten
<1>8. CASE AtChar
  <2>1. pc = "at" /\ pc' = "at" /\ seen' = seen
    BY <1>8 DEF AtChar
  <2>2. \/ UNCHANGED <<event, new_event, timer, ring_count>>
        \/ ring_count' = 0 /\ new_event' = {}
    <3>1. ASSUME NEW a, NEW x, at_goes_on(a, x)
          PROVE  UNCHANGED <<event, new_event, timer, ring_count>>
      BY <3>1, Zenon DEF at_goes_on
    <3>2. ASSUME NEW cmd, NEW x, NEW q, process_at_command(cmd, x, q)
          PROVE  \/ UNCHANGED <<event, new_event, timer, ring_count>>
                 \/ ring_count' = 0 /\ new_event' = {}
      BY <3>2, Zenon DEF process_at_command, modem_start
    <3>. QED  BY <1>8, <3>1, <3>2, Zenon DEF AtChar
  <2>. QED  BY <1>20, <2>1, <2>2 DEF Pending
<1>9. CASE AtDone
  BY <1>9, <1>20 DEF AtDone, Pending, events
<1>10. CASE Ring
  <2>1. pc \in {"enter", "select"}
    BY <1>10 DEF Ring
  <2>2. CASE new_event' = new_event \cup {"RING_CHECK"} /\ pc' = "sched" /\ event' = event
    BY <2>1, <2>2 DEF Pending
  <2>3. CASE pc' = "top" /\ UNCHANGED events /\ (ring_count' > 0 => ring_count > 0)
    BY <1>20, <2>1, <2>3 DEF Pending, events
  <2>. QED  BY <1>10, <2>2, <2>3 DEF Ring, schedule_event
<1>11. CASE RingEnd
  BY <1>11, <1>20 DEF RingEnd, Pending
<1>12. CASE Connect
  BY <1>12, <1>20 DEF Connect, Pending, events
<1>13. CASE Hangup
  BY <1>13, <1>20 DEF Hangup, Pending, events
<1>14. CASE Stop
  BY <1>14, <1>20 DEF Stop, Pending, events
<1>15. CASE Fetch
  <2>1. /\ pc \in {"enter", "select"} /\ pc' = "top" /\ UNCHANGED <<ring_count, events>>
    BY <1>15 DEF Fetch
  <2>. QED  BY <1>20, <2>1 DEF Pending, events
<1>16. CASE Write
  <2>1. /\ pc \in {"enter", "select"} /\ pc' # "clear" /\ ring_count' = ring_count
        /\ \/ UNCHANGED events
           \/ new_event \subseteq new_event' /\ event' = event /\ pc' = "sched"
    BY <1>16 DEF Write, schedule_event
  <2>. QED  BY <1>20, <2>1 DEF Pending, events
<1>17. CASE UNCHANGED vars
  BY <1>17, <1>20 DEF vars, Pending
<1>. QED  BY <1>1, <1>2, <1>3, <1>4, <1>5, <1>6, <1>7, <1>8, <1>9, <1>10, <1>11, <1>12,
             <1>13, <1>14, <1>15, <1>16, <1>17 DEF Next, Clock, Loop

(* A ring that is counted is checked and what is scheduled is marked,      *)
(* whenever the timer expires, unless the handler runs in modem_event.     *)
THEOREM TerminalEventKept == Spec => []EventKept
<1>1. EventInv => EventKept
  BY DEF EventInv, EventKept
<1>. QED  BY <1>1, TInvAlways, EventInvInit, EventInvStep, PTL DEF Spec

-----------------------------------------------------------------------------
(* Data and commands.                                                      *)

(* What a command may be taken from holds no data, unless a call was cut.  *)
DataInv ==
    /\ (command \/ pc = "at") /\ HasData(queue) => cut
    /\ ran => cut

(* Data in a part of the queue is data in the queue.                       *)
LEMMA DataInPart ==
    ASSUME NEW q \in Seq(Item), NEW k \in Nat, k <= Len(q),
           HasData(SubSeq(q, k + 1, Len(q)))
    PROVE  HasData(q)
<1>. DEFINE r == SubSeq(q, k + 1, Len(q))
<1>1. Len(r) = Len(q) - k /\ \A i \in 1 .. Len(q) - k : r[i] = q[i + k]
  BY PartOf
<1>. HIDE DEF r
<1>2. PICK i \in 1 .. Len(r) : r[i].data
  BY Zenon DEF HasData, r
<1>3. i + k \in 1 .. Len(q) /\ i \in 1 .. Len(q) - k
  BY <1>1, <1>2, LenProperties
<1>4. r[i] = q[i + k]
  BY <1>1, <1>3
<1>5. q[i + k].data
  BY <1>2, <1>4, Zenon
<1>. QED  BY <1>3, <1>5, Zenon DEF HasData

(* Commands that are written are no data.                                  *)
LEMMA DataInWritten ==
    ASSUME NEW q \in Seq(Item), NEW s \in Seq(Char), HasData(q \o Tagged(s, FALSE))
    PROVE  HasData(q)
<1>. DEFINE T == Tagged(s, FALSE)
            j == Len(q)
            l == Len(s)
<1>1. /\ T \in Seq(Item) /\ Len(T) = l /\ Len(q) = j /\ j \in Nat /\ l \in Nat
      /\ \A i \in 1 .. l : T[i].data = FALSE
  <2>1. FALSE \in BOOLEAN
    OBVIOUS
  <2>. QED  BY <2>1, TaggedFacts, LenProperties
<1>2. HasData(q \o T)
  OBVIOUS
<1>. HIDE DEF T, j, l
<1>3. /\ Len(q \o T) = j + l
      /\ \A i \in 1 .. j + l : (q \o T)[i] = IF i <= j THEN q[i] ELSE T[i - j]
  BY <1>1, ConcatProperties
<1>4. PICK i \in 1 .. j + l : (q \o T)[i].data
  BY <1>2, <1>3, Zenon DEF HasData
<1>5. CASE i <= j
  <2>1. i \in 1 .. Len(q) /\ (q \o T)[i] = q[i]
    BY <1>1, <1>3, <1>5
  <2>2. q[i].data
    BY <1>4, <2>1, Zenon
  <2>. QED  BY <2>1, <2>2, Zenon DEF HasData
<1>6. CASE ~ (i <= j)
  <2>1. i - j \in 1 .. l /\ (q \o T)[i] = T[i - j]
    BY <1>1, <1>3, <1>6
  <2>2. T[i - j].data
    BY <1>4, <2>1, Zenon
  <2>. QED  BY <1>1, <2>1, <2>2, Zenon
<1>. QED  BY <1>5, <1>6

(* The initial state.                                                      *)
LEMMA DataInvInit == Init => DataInv
<1>1. ~ HasData(<<>>)
  BY DEF HasData
<1>. QED  BY <1>1, Zenon DEF Init, DataInv
(* Data comes into the queue only by modem_write during a call.            *)
LEMMA DataComes ==
    ASSUME TInv, [Next]_vars, HasData(queue')
    PROVE  HasData(queue) \/ (Write /\ ~ command)
<1>0. Holds(xmit, queue) /\ queue \in Seq(Item) /\ command \in BOOLEAN /\ Len(queue) \in Nat
  BY HoldsTypes DEF TInv, Ctl
<1>1. CASE queue' = queue
  BY <1>1
<1>2. CASE queue' = <<>>
  BY <1>2 DEF HasData
<1>3. CASE xmit.count > 0 /\ queue' = Tail(queue)
  <2>1. queue # <<>>
    BY <1>0, <1>3, GetCharHolds
  <2>2. Tail(queue) = SubSeq(queue, 1 + 1, Len(queue)) /\ 1 <= Len(queue)
    BY <1>0, <2>1
  <2>3. HasData(SubSeq(queue, 1 + 1, Len(queue)))
    BY <1>3, <2>2, Zenon
  <2>. QED  BY <1>0, <2>2, <2>3, DataInPart
<1>4. CASE \E n \in 1 .. XmitSize :
             LET g == modem_get_chars(xmit, n)
             IN  queue' = SubSeq(queue, Len(g.got) + 1, Len(queue))
  <2>1. PICK n \in 1 .. XmitSize :
          queue' = SubSeq(queue, Len(modem_get_chars(xmit, n).got) + 1, Len(queue))
    BY <1>4, Zenon
  <2>. DEFINE k == Len(modem_get_chars(xmit, n).got)
  <2>2. n \in Nat
    BY TerminalAssumption
  <2>3. k \in Nat /\ k <= Len(queue)
    BY <1>0, <2>2, GetCharsHolds
  <2>4. queue' = SubSeq(queue, k + 1, Len(queue))
    BY <2>1
  <2>. HIDE DEF k
  <2>5. HasData(SubSeq(queue, k + 1, Len(queue)))
    BY <2>4, Zenon
  <2>. QED  BY <1>0, <2>3, <2>5, DataInPart
<1>5. CASE Write /\ \E w \in Writes : queue' = queue \o Tagged(w, ~ command)
  <2>1. PICK w \in Writes : queue' = queue \o Tagged(w, ~ command)
    BY <1>5, Zenon
  <2>2. w \in Seq(Char)
    BY WritesAssumption
  <2>3. CASE command
    <3>1. (~ command) = FALSE
      BY <2>3, Zenon
    <3>2. HasData(queue \o Tagged(w, FALSE))
      BY <2>1, <3>1, Zenon
    <3>. QED  BY <1>0, <2>2, <3>2, DataInWritten, Zenon
  <2>. QED  BY <1>5, <2>3, Zenon
<1>. QED  BY <1>1, <1>2, <1>3, <1>4, <1>5, RingMoves, Zenon

(* Every step keeps it.                                                    *)
LEMMA DataInvStep == TInv /\ DataInv /\ [Next]_vars => DataInv'
<1>. SUFFICES ASSUME TInv, DataInv, [Next]_vars PROVE DataInv'
  OBVIOUS
<1>. DEFINE Tagging == (command \/ pc = "at") /\ HasData(queue) => cut
<1>0. HasData(queue)' => HasData(queue) \/ (Write /\ ~ command)
  <2>1. HasData(queue') => HasData(queue) \/ (Write /\ ~ command)
    BY DataComes, Zenon
  <2>. QED  BY <2>1, Zenon DEF HasData
<1>20. Tagging /\ (ran => cut)
  BY Zenon DEF DataInv
<1>. SUFFICES Tagging' /\ (ran' => cut')
  BY Zenon DEF DataInv
<1>1. CASE Write
  <2>1. /\ command' = command /\ cut' = cut /\ ran' = ran
        /\ pc' = "at" => command
    BY <1>1, Zenon DEF Write, schedule_event
  <2>. QED  BY <1>0, <1>20, <2>1, Zenon
<1>2. CASE Stop
  <2>1. cut' = (cut \/ HasData(queue)) /\ ran' = ran /\ queue' = queue
    BY <1>2, Zenon DEF Stop
  <2>2. HasData(queue)' => HasData(queue)
    BY <2>1, Zenon DEF HasData
  <2>. QED  BY <1>20, <2>1, <2>2, Zenon
<1>3. CASE ModemEvent
  <2>1. /\ cut' = cut /\ ran' = ran /\ pc' # "at"
        /\ \/ command' = command /\ queue' = queue
           \/ queue' = <<>>
    BY <1>3, Zenon DEF ModemEvent, modem_escape, modem_start
  <2>2. queue' = <<>> => ~ HasData(queue)'
    BY DEF HasData
  <2>3. queue' = queue => (HasData(queue)' => HasData(queue))
    BY Zenon DEF HasData
  <2>4. CASE command' = command /\ queue' = queue
    <3>1. Tagging'
      <4>1. HasData(queue)' = HasData(queue)
        BY <2>4, Zenon DEF HasData
      <4>2. (command' \/ pc' = "at") => command
        BY <2>1, <2>4, Zenon
      <4>. QED  BY <1>20, <2>1, <4>1, <4>2, Zenon
    <3>. QED  BY <1>20, <2>1, <3>1, Zenon
  <2>5. CASE queue' = <<>>
    BY <1>20, <2>1, <2>2, <2>5, Zenon
  <2>. QED  BY <2>1, <2>4, <2>5, Zenon
<1>4. CASE AtChar
  <2>1. pc = "at" /\ cut' = cut /\ ran' = (ran \/ queue[1].data)
    BY <1>4, Zenon DEF AtChar
  <2>2. ~ Write
    BY <2>1 DEF Write
  <2>3. 1 \in 1 .. Len(queue)
    <3>1. queue # <<>> /\ Len(queue) \in Nat /\ queue \in Seq(Item)
      BY <1>4, GetCharHolds, HoldsTypes DEF TInv, AtChar
    <3>. QED  BY <3>1
  <2>4. queue[1].data => HasData(queue)
    BY <2>3, Zenon DEF HasData
  <2>. QED  BY <1>0, <1>20, <2>1, <2>2, <2>4, Zenon
<1>5. CASE ~ (Write \/ Stop \/ ModemEvent \/ AtChar)
  <2>1. CASE Clock \/ Loop \/ UNCHANGED vars
    <3>1. command' = command /\ cut' = cut /\ ran' = ran /\ (pc' = "at" => pc = "at")
      BY <1>5, <2>1, Zenon DEF Clock, Loop, Tick, Alarm, Top, Select, Wake, Arm, AtDone, history,
                               vars
    <3>. QED  BY <1>0, <1>5, <1>20, <3>1, Zenon
  <2>2. CASE Ring \/ RingEnd \/ Connect \/ Hangup \/ Fetch
    <3>1. command' = command /\ cut' = cut /\ ran' = ran /\ (pc' = "at" => pc = "at")
      BY <1>5, <2>2, Zenon DEF Ring, RingEnd, Connect, Hangup, Fetch, schedule_event, history
    <3>. QED  BY <1>0, <1>5, <1>20, <3>1, Zenon
  <2>. QED  BY <1>5, <2>1, <2>2, Zenon DEF Next
<1>. QED  BY <1>1, <1>2, <1>3, <1>4, <1>5, Zenon

(* Nothing written during a call is ever taken for a command, unless a     *)
(* call that ended left it in the ring.                                    *)
THEOREM TerminalDataNotRun == Spec => []DataNotRun
<1>1. DataInv => DataNotRun
  BY DEF DataInv, DataNotRun
<1>. QED  BY <1>1, TInvAlways, DataInvInit, DataInvStep, PTL DEF Spec

(* In a call that did not begin within a line, no line is open, and when   *)
(* modem_at_process still runs there is nothing left for it to take.       *)
LineInv ==
    state \in {"ESTAB", "ONLINE"} /\ ~ begun =>
        /\ at.count = 0
        /\ pc = "at" => queue = <<>>

(* The initial state.                                                      *)
LEMMA LineInvInit == Init => LineInv
BY DEF Init, LineInv

(* Every step keeps it.                                                    *)
LEMMA LineInvStep == TInv /\ LineInv /\ [Next]_vars => LineInv'
<1>. SUFFICES ASSUME TInv, LineInv, [Next]_vars,
                     state' \in {"ESTAB", "ONLINE"}, ~ begun'
              PROVE  at'.count = 0 /\ (pc' = "at" => queue' = <<>>)
  BY DEF LineInv
<1>0. LineOK(at) /\ begun \in BOOLEAN
  BY DEF TInv, Ctl
<1>1. CASE AtChar
  <2>1. pc = "at" /\ pc' = pc /\ queue # <<>>
    BY <1>1, GetCharHolds DEF AtChar, TInv
  <2>2. ~ (state \in {"ESTAB", "ONLINE"} /\ ~ begun)
    BY <2>1 DEF LineInv
  <2>3. ~ (state' = state /\ begun' = begun)
    <3>1. ASSUME state' = state, begun' = begun PROVE FALSE
      <4>1. state \in {"ESTAB", "ONLINE"}
        BY <3>1
      <4>2. ~ begun
        BY <3>1, Zenon
      <4>. QED  BY <2>2, <4>1, <4>2, Zenon
    <3>. QED  BY <3>1, Zenon
  <2>4. PICK c : at' = at_reset(at_ended(c))
    BY <1>1, <2>3, LineMoves, Zenon
  <2>5. at'.count = 0
    BY <1>0, <2>4, AtEndedOK, AtClearedOK
  <2>6. \/ queue' = <<>>
        \/ queue' = Tail(queue) /\ begun' = (begun \/ Tail(queue) # <<>>)
    BY <1>1, <2>3, ZenonT(60) DEF AtChar, at_goes_on, process_at_command, modem_start
  <2>7. queue' = <<>>
    BY <2>6, Zenon
  <2>. QED  BY <2>5, <2>7
<1>2. CASE ModemEvent
  <2>1. at' = at /\ pc' # "at"
    BY <1>2 DEF ModemEvent
  <2>2. \/ state' = state /\ begun' = begun
        \/ state' = "COMMAND_ONLINE"
        \/ begun' = (begun \/ at.count > 0)
    BY <1>2, Zenon DEF ModemEvent, modem_escape
  <2>3. CASE begun' = (begun \/ at.count > 0)
    <3>1. ~ (at.count > 0)
      BY <2>3, Zenon
    <3>2. at.count \in Nat
      BY <1>0, LineFacts
    <3>. QED  BY <2>1, <3>1, <3>2
  <2>4. CASE state' = state /\ begun' = begun
    <3>1. state \in {"ESTAB", "ONLINE"} /\ ~ begun
      BY <2>4, Zenon
    <3>. QED  BY <2>1, <3>1 DEF LineInv
  <2>. QED  BY <2>2, <2>3, <2>4
<1>3. CASE Write
  <2>1. at' = at /\ begun' = begun
    BY <1>3 DEF Write
  <2>2. state' = state /\ state # "ESTAB" /\ pc' \in {"top", "sched"}
    BY <1>3 DEF Write, schedule_event
  <2>3. state \in {"ESTAB", "ONLINE"} /\ ~ begun
    BY <2>1, <2>2, Zenon
  <2>. QED  BY <2>1, <2>2, <2>3 DEF LineInv
<1>4. CASE Connect
  <2>1. at' = at /\ begun' = begun /\ pc' = "top" /\ state = "ESTAB"
    BY <1>4 DEF Connect, history
  <2>2. ~ begun
    BY <2>1, Zenon
  <2>. QED  BY <2>1, <2>2 DEF LineInv
<1>5. CASE ~ (AtChar \/ ModemEvent \/ Write \/ Connect)
  <2>1. /\ at' = at /\ begun' = begun /\ state' = state
        /\ (pc' = "at" => pc = "at" /\ queue' = queue)
    <3>1. CASE Clock \/ Loop \/ UNCHANGED vars
      BY <1>5, <3>1, Zenon DEF Clock, Loop, Tick, Alarm, Top, Select, Wake, Arm, AtDone,
                               history, vars
    <3>2. CASE Ring \/ RingEnd \/ Fetch
      BY <1>5, <3>2, Zenon DEF Ring, RingEnd, Fetch, schedule_event, history
    <3>3. ~ (Hangup \/ Stop)
      BY DEF Hangup, Stop
    <3>. QED  BY <1>5, <3>1, <3>2, <3>3, Zenon DEF Next
  <2>2. state \in {"ESTAB", "ONLINE"} /\ ~ begun
    BY <2>1, Zenon
  <2>. QED  BY <2>1, <2>2 DEF LineInv
<1>. QED  BY <1>1, <1>2, <1>3, <1>4, <1>5, Zenon

(* modem_at_process is not left within a line when the modem goes on-line, *)
(* unless the call began, or went on, within one.                          *)
THEOREM TerminalLineEndedOnline == Spec => []LineEndedOnline
<1>1. LineInv => LineEndedOnline
  BY DEF LineInv, LineEndedOnline
<1>. QED  BY <1>1, TInvAlways, LineInvInit, LineInvStep, PTL DEF Spec
-----------------------------------------------------------------------------
(* A/ and the line it repeats.                                             *)

(* at_cmd after the first i characters of the line, s being what it was.   *)
CopyNext(l, i, s) == IF l[i - 1] = Blank THEN s ELSE Append(s, l[i - 1])

(* d copies the first n characters of the line, one by one.                *)
Copies(d, l, n) ==
    /\ d \in [0 .. n -> Seq(LineChar)]
    /\ \A i \in 0 .. n : d[i] = IF i = 0 THEN <<>> ELSE CopyNext(l, i, d[i - 1])

(* What is copied are characters of the line.                              *)
LEMMA CopyType ==
    ASSUME NEW l \in [0 .. LineSize - 1 -> LineChar], NEW n \in 0 .. LineSize - 1,
           NEW i \in 1 .. n, NEW s \in Seq(LineChar)
    PROVE  CopyNext(l, i, s) \in Seq(LineChar) /\ l[i - 1] \in LineChar
<1>1. i - 1 \in 0 .. LineSize - 1
  BY TerminalAssumption
<1>2. l[i - 1] \in LineChar
  BY <1>1
<1>. QED  BY <1>2 DEF CopyNext

(* Every line can be copied ...                                            *)
LEMMA CopiesExist ==
    ASSUME NEW l \in [0 .. LineSize - 1 -> LineChar], NEW n \in 0 .. LineSize - 1
    PROVE  \E d : Copies(d, l, n)
<1>. DEFINE T == {k \in Nat : k <= n /\ ~ \E d : Copies(d, l, k)}
<1>0. n \in Nat
  BY TerminalAssumption
<1>1. SUFFICES ASSUME T # {} PROVE FALSE
  <2>1. n \in T \/ \E d : Copies(d, l, n)
    BY <1>0
  <2>. HIDE DEF T
  <2>. QED  BY <2>1, Zenon
<1>2. PICK k \in T : \A m \in T : k <= m
  BY <1>1, Least
<1>3. CASE k = 0
  <2>1. Copies([i \in 0 .. 0 |-> <<>>], l, 0)
    BY DEF Copies
  <2>. QED  BY <2>1, <1>3
<1>4. CASE k # 0
  <2>1. k - 1 \in Nat /\ k - 1 <= n /\ k - 1 \notin T /\ k \in 1 .. n
    BY <1>0, <1>2, <1>4
  <2>2. PICK f : Copies(f, l, k - 1)
    BY <2>1
  <2>. DEFINE g == [i \in 0 .. k |-> IF i = k THEN CopyNext(l, k, f[k - 1]) ELSE f[i]]
  <2>3. f \in [0 .. k - 1 -> Seq(LineChar)]
        /\ \A i \in 0 .. k - 1 : f[i] = IF i = 0 THEN <<>> ELSE CopyNext(l, i, f[i - 1])
    BY <2>2 DEF Copies
  <2>4. CopyNext(l, k, f[k - 1]) \in Seq(LineChar)
    <3>1. f[k - 1] \in Seq(LineChar)
      BY <2>1, <2>3
    <3>. QED  BY <2>1, <3>1, CopyType
  <2>5. g \in [0 .. k -> Seq(LineChar)]
    BY <2>1, <2>3, <2>4
  <2>6. \A i \in 0 .. k : g[i] = IF i = 0 THEN <<>> ELSE CopyNext(l, i, g[i - 1])
    <3>. TAKE i \in 0 .. k
    <3>1. CASE i = k
      <4>1. g[i] = CopyNext(l, k, f[k - 1]) /\ g[k - 1] = f[k - 1]
        BY <3>1, <2>1
      <4>. QED  BY <4>1, <3>1, <1>4
    <3>2. CASE i # k
      <4>1. i \in 0 .. k - 1 /\ g[i] = f[i]
        BY <3>2, <2>1
      <4>2. i # 0 => g[i - 1] = f[i - 1]
        BY <4>1, <2>1
      <4>. QED  BY <4>1, <4>2, <2>3
    <3>. QED  BY <3>1, <3>2
  <2>7. Copies(g, l, k)
    BY <2>5, <2>6 DEF Copies
  <2>. QED  BY <2>7
<1>. QED  BY <1>3, <1>4

(* d[i] is what the first i characters make of it.                         *)
Unfolds(d, l, n) ==
    \A i \in 0 .. n : d[i] = IF i = 0 THEN <<>> ELSE CopyNext(l, i, d[i - 1])

(* ... in one way.                                                         *)
LEMMA CopiesAgree ==
    ASSUME NEW l, NEW n \in 0 .. LineSize - 1,
           NEW d, Unfolds(d, l, n), NEW e, Unfolds(e, l, n)
    PROVE  \A i \in 0 .. n : d[i] = e[i]
<1>. DEFINE T == {k \in Nat : k <= n /\ d[k] # e[k]}
<1>0. n \in Nat
  BY TerminalAssumption
<1>1. SUFFICES ASSUME T # {} PROVE FALSE
  BY <1>0
<1>2. PICK k \in T : \A j \in T : k <= j
  BY <1>1, Least
<1>3. k # 0 /\ k \in 0 .. n
  <2>1. 0 \in 0 .. n
    BY <1>0
  <2>2. d[0] = <<>> /\ e[0] = <<>>
    BY <2>1 DEF Unfolds
  <2>. QED  BY <1>0, <1>2, <2>2
<1>4. k - 1 \in 0 .. n - 1 /\ k - 1 \in Nat /\ k - 1 \notin T
  BY <1>0, <1>2, <1>3
<1>5. d[k - 1] = e[k - 1]
  BY <1>0, <1>4
<1>6. d[k] = CopyNext(l, k, d[k - 1]) /\ e[k] = CopyNext(l, k, e[k - 1])
  BY <1>3 DEF Unfolds
<1>. QED  BY <1>2, <1>5, <1>6

(* The recursive function of at_cmd, unfolded.                             *)
LEMMA AtCmdDef ==
    ASSUME NEW a, LineOK(a)
    PROVE  \E d : Copies(d, a.line, a.count) /\ at_cmd(a) = d[a.count]
<1>. DEFINE l == a.line
            n == a.count
            R(f) == f = [i \in 0 .. n |-> IF i = 0 THEN <<>> ELSE CopyNext(l, i, f[i - 1])]
<1>1. l \in [0 .. LineSize - 1 -> LineChar] /\ n \in 0 .. LineSize - 1
  BY LineFacts
<1>2. at_cmd(a) = (CHOOSE f : R(f))[n]
  BY DEF at_cmd, CopyNext
<1>. HIDE DEF l, n
<1>3. PICK d : Copies(d, l, n)
  BY <1>1, CopiesExist
<1>4. R(d)
  BY <1>3 DEF Copies
<1>. DEFINE e == CHOOSE f : R(f)
<1>. HIDE DEF R
<1>5. R(e)
  BY <1>4
<1>. HIDE DEF e
<1>6. \A i \in 0 .. n : e[i] = IF i = 0 THEN <<>> ELSE CopyNext(l, i, e[i - 1])
  BY <1>5 DEF R
<1>7. \A i \in 0 .. n : d[i] = IF i = 0 THEN <<>> ELSE CopyNext(l, i, d[i - 1])
  BY <1>3 DEF Copies
<1>8. \A i \in 0 .. n : d[i] = e[i]
  <2>1. Unfolds(d, l, n) /\ Unfolds(e, l, n)
    BY <1>6, <1>7 DEF Unfolds
  <2>. QED  BY <1>1, <2>1, CopiesAgree
<1>9. n \in 0 .. n
  BY <1>1, TerminalAssumption
<1>10. at_cmd(a) = d[n]
  BY <1>2, <1>8, <1>9 DEF e
<1>. QED  BY <1>3, <1>10 DEF l, n

(* What is in s is in the first n characters of the line, and its first    *)
(* character is the line's if that is not a blank.                         *)
Copied(s, l, n) ==
    /\ s \in Seq(LineChar)
    /\ \A k \in 1 .. Len(s) : \E i \in 0 .. n - 1 : l[i] = s[k]
    /\ n >= 1 /\ l[0] # Blank => Len(s) >= 1 /\ s[1] = l[0]

(* One character more.                                                     *)
LEMMA CopiedMore ==
    ASSUME NEW n \in Nat, NEW l, NEW s, Copied(s, l, n), l[n] \in LineChar
    PROVE  Copied(CopyNext(l, n + 1, s), l, n + 1)
<1>. DEFINE c == l[n]
            t == CopyNext(l, n + 1, s)
<1>1. t = IF c = Blank THEN s ELSE Append(s, c)
  BY DEF CopyNext
<1>2. /\ s \in Seq(LineChar) /\ Len(s) \in Nat /\ \A k \in 1 .. Len(s) : \E i \in 0 .. n - 1 : l[i] = s[k]
      /\ n >= 1 /\ l[0] # Blank => Len(s) >= 1 /\ s[1] = l[0]
  BY DEF Copied
<1>. HIDE DEF c, t
<1>3. \A k \in 1 .. Len(s) : \E i \in 0 .. n : l[i] = s[k]
  BY <1>2
<1>4. c = l[n] /\ n \in 0 .. n /\ c \in LineChar
  BY DEF c
<1>5. n = 0 => Len(s) = 0
  <2>1. SUFFICES ASSUME n = 0, Len(s) # 0 PROVE FALSE
    OBVIOUS
  <2>2. 1 \in 1 .. Len(s)
    BY <1>2, <2>1
  <2>. QED  BY <1>2, <2>1, <2>2
<1>6. CASE c = Blank
  <2>1. t = s
    BY <1>1, <1>6
  <2>2. l[0] # Blank => n >= 1
    <3>1. l[0] # Blank => n # 0
      BY <1>4, <1>6, Zenon
    <3>. QED  BY <3>1
  <2>3. l[0] # Blank => Len(s) >= 1 /\ s[1] = l[0]
    BY <2>2, <1>2
  <2>4. 0 .. (n + 1) - 1 = 0 .. n
    OBVIOUS
  <2>5. \A k \in 1 .. Len(s) : \E i \in 0 .. (n + 1) - 1 : l[i] = s[k]
    BY <2>4, <1>3, Zenon
  <2>6. Copied(s, l, n + 1)
    BY <2>3, <2>5, <1>2, Zenon DEF Copied
  <2>. QED  BY <2>1, <2>6 DEF t
<1>7. CASE c # Blank
  <2>1. t = Append(s, c) /\ t \in Seq(LineChar) /\ Len(t) = Len(s) + 1
    BY <1>1, <1>2, <1>4, <1>7
  <2>2. /\ \A k \in 1 .. Len(s) : t[k] = s[k]
        /\ t[Len(s) + 1] = c
    BY <1>2, <2>1
  <2>3. \A k \in 1 .. Len(t) : \E i \in 0 .. n : l[i] = t[k]
    <3>. TAKE k \in 1 .. Len(t)
    <3>1. CASE k = Len(s) + 1
      BY <3>1, <1>4, <2>2
    <3>2. CASE k # Len(s) + 1
      BY <3>2, <1>2, <1>3, <2>1, <2>2
    <3>. QED  BY <3>1, <3>2
  <2>4. l[0] # Blank => Len(t) >= 1 /\ t[1] = l[0]
    <3>1. CASE n = 0
      BY <3>1, <1>4, <1>5, <2>1, <2>2
    <3>2. CASE n # 0
      BY <3>2, <1>2, <2>1, <2>2
    <3>. QED  BY <3>1, <3>2
  <2>. QED  BY <2>1, <2>3, <2>4 DEF Copied, t
<1>. QED  BY <1>6, <1>7 DEF t

(* The characters of at_cmd.                                               *)
LEMMA AtCmdCopied ==
    ASSUME NEW a, LineOK(a)
    PROVE  Copied(at_cmd(a), a.line, a.count)
<1>. DEFINE l == a.line
            n == a.count
<1>1. l \in [0 .. LineSize - 1 -> LineChar] /\ n \in 0 .. LineSize - 1 /\ LineSize \in Nat
  BY LineFacts
<1>2. PICK d : Copies(d, l, n) /\ at_cmd(a) = d[n]
  BY AtCmdDef
<1>. HIDE DEF l, n
<1>3. \A i \in 0 .. n : d[i] = IF i = 0 THEN <<>> ELSE CopyNext(l, i, d[i - 1])
  BY <1>2 DEF Copies
<1>. DEFINE T == {k \in Nat : k <= n /\ ~ Copied(d[k], l, k)}
<1>4. T = {}
  <2>1. SUFFICES ASSUME T # {} PROVE FALSE
    OBVIOUS
  <2>2. PICK k \in T : \A j \in T : k <= j
    BY <2>1, Least
  <2>3. k # 0
    <3>1. Copied(<<>>, l, 0)
      BY DEF Copied
    <3>2. d[0] = <<>>
      BY <1>1, <1>3
    <3>. QED  BY <2>2, <3>1, <3>2
  <2>. DEFINE m == k - 1
  <2>4. m \in Nat /\ m + 1 = k /\ m <= n /\ m \notin T /\ m \in 0 .. LineSize - 1 /\ k \in 0 .. n
    BY <1>1, <2>2, <2>3
  <2>5. Copied(d[m], l, m) /\ l[m] \in LineChar
    BY <1>1, <2>4
  <2>6. d[k] = CopyNext(l, m + 1, d[m])
    BY <1>3, <2>3, <2>4
  <2>. HIDE DEF m
  <2>7. Copied(d[k], l, k)
    BY <2>4, <2>5, <2>6, CopiedMore
  <2>. QED  BY <2>2, <2>7
<1>5. Copied(d[n], l, n)
  BY <1>1, <1>4
<1>. QED  BY <1>2, <1>5 DEF l, n

(* strlen of a line whose first Nul is known.                              *)
LEMMA StrlenIs ==
    ASSUME NEW l \in [0 .. LineSize - 1 -> LineChar], NEW n \in 0 .. LineSize - 1,
           l[n] = Nul, \A i \in 0 .. n - 1 : l[i] # Nul
    PROVE  strlen(l) = n
<1>. DEFINE P(k) == l[k] = Nul /\ \A i \in 0 .. k - 1 : l[i] # Nul
            m == CHOOSE k \in DOMAIN l : P(k)
<1>1. strlen(l) = m
  BY DEF strlen
<1>2. n \in DOMAIN l /\ P(n)
  OBVIOUS
<1>3. m \in DOMAIN l /\ P(m)
  <2>. HIDE DEF P
  <2>. QED  BY <1>2
<1>. HIDE DEF m
<1>4. m \in Nat /\ n \in Nat
  BY <1>3, TerminalAssumption
<1>5. ~ (m < n)
  BY <1>3, <1>4
<1>6. ~ (n < m)
  BY <1>2, <1>3, <1>4
<1>. QED  BY <1>1, <1>4, <1>5, <1>6

(* What strlen finds.                                                      *)
LEMMA StrlenFacts ==
    ASSUME NEW l \in [0 .. LineSize - 1 -> LineChar], l[LineSize - 1] = Nul
    PROVE  /\ strlen(l) \in 0 .. LineSize - 1 /\ l[strlen(l)] = Nul
           /\ \A i \in 0 .. strlen(l) - 1 : l[i] # Nul
<1>. DEFINE T == {k \in Nat : k <= LineSize - 1 /\ l[k] = Nul}
<1>1. LineSize - 1 \in T
  BY TerminalAssumption
<1>2. PICK n \in T : \A m \in T : n <= m
  BY <1>1, Least
<1>3. n \in 0 .. LineSize - 1 /\ l[n] = Nul /\ \A i \in 0 .. n - 1 : l[i] # Nul
  BY <1>2, TerminalAssumption
<1>4. strlen(l) = n
  BY <1>3, StrlenIs
<1>. QED  BY <1>3, <1>4

(* The line that A/ would repeat.                                          *)
WithA(l) == [l EXCEPT ![0] = "A"]
Again(l) == [count |-> strlen(WithA(l)), line |-> WithA(l)]

(* No more than a first character was typed: A/ repeats the last command   *)
(* or finds no command.  What has been typed are characters, and no Nul.   *)
Repeats(l, cmd) == IsCommand(at_cmd(Again(l))) => at_cmd(Again(l)) = cmd
Typed(a) == \A i \in 0 .. a.count - 1 : a.line[i] \in Char
RepeatInv ==
    /\ Typed(at)
    /\ ~ edited /\ at.count <= 1 => Repeats(at.line, last)

(* That line is well formed.                                               *)
LEMMA AgainFacts ==
    ASSUME NEW l \in [0 .. LineSize - 1 -> LineChar], l[LineSize - 1] = Nul
    PROVE  /\ WithA(l) \in [0 .. LineSize - 1 -> LineChar] /\ WithA(l)[LineSize - 1] = Nul
           /\ WithA(l)[0] = "A" /\ \A i \in 1 .. LineSize - 1 : WithA(l)[i] = l[i]
           /\ LineOK(Again(l)) /\ LineSize \in Nat /\ LineSize >= 3
<1>1. /\ WithA(l) \in [0 .. LineSize - 1 -> LineChar] /\ WithA(l)[LineSize - 1] = Nul
      /\ WithA(l)[0] = "A" /\ \A i \in 1 .. LineSize - 1 : WithA(l)[i] = l[i]
      /\ LineSize \in Nat /\ LineSize >= 3
  BY TerminalAssumption DEF WithA, LineChar, Char
<1>2. strlen(WithA(l)) \in 0 .. LineSize - 1
  BY <1>1, StrlenFacts
<1>. QED  BY <1>1, <1>2, LineMade DEF Again

(* It has a command only if it has a T.                                    *)
LEMMA NoCommand ==
    ASSUME NEW a, LineOK(a), \A i \in 0 .. a.count - 1 : a.line[i] # "T"
    PROVE  ~ IsCommand(at_cmd(a))
<1>. DEFINE s == at_cmd(a)
<1>1. Copied(s, a.line, a.count)
  BY AtCmdCopied
<1>. HIDE DEF s
<1>2. SUFFICES ASSUME IsCommand(s) PROVE FALSE
  BY DEF s
<1>3. s \in Seq(LineChar) /\ Len(s) \in Nat /\ Len(s) >= 2 /\ SubSeq(s, 1, 2) = <<"A", "T">>
  BY <1>1, <1>2 DEF Copied, IsCommand
<1>4. s[2] = "T"
  <2>1. SubSeq(s, 1, 2)[2] = s[2]
    BY <1>3, PartOf, 2 \in 1 .. 2
  <2>2. <<"A", "T">>[2] = "T"
    OBVIOUS
  <2>. QED  BY <1>3, <2>1, <2>2, Zenon
<1>5. PICK i \in 0 .. a.count - 1 : a.line[i] = s[2]
  BY <1>1, <1>3 DEF Copied
<1>. QED  BY <1>4, <1>5

(* A line without T repeats no command.                                    *)
LEMMA RepeatsNothing ==
    ASSUME NEW l \in [0 .. LineSize - 1 -> LineChar], l[LineSize - 1] = Nul, NEW cmd,
           NEW n \in 1 .. LineSize - 1, l[n] = Nul,
           \A i \in 1 .. n - 1 : l[i] = Blank
    PROVE  Repeats(l, cmd)
<1>. DEFINE m == WithA(l)
<1>1. /\ m \in [0 .. LineSize - 1 -> LineChar] /\ m[0] = "A"
      /\ (\A i \in 1 .. LineSize - 1 : m[i] = l[i]) /\ LineSize \in Nat
      /\ LineOK(Again(l))
  BY AgainFacts
<1>2. Again(l) = [count |-> strlen(m), line |-> m]
  BY DEF Again
<1>. HIDE DEF m
<1>3. m[n] = Nul /\ \A i \in 1 .. n - 1 : m[i] = Blank
  BY <1>1
<1>4. \A i \in 0 .. n - 1 : m[i] # Nul /\ m[i] # "T"
  <2>1. "A" # Nul /\ "A" # "T" /\ Blank # Nul /\ Blank # "T"
    BY DEF Nul, Blank
  <2>2. \A i \in 0 .. n - 1 : i = 0 \/ i \in 1 .. n - 1
    OBVIOUS
  <2>. QED  BY <1>1, <1>3, <2>1, <2>2, Zenon
<1>5. strlen(m) = n
  BY <1>1, <1>3, <1>4, StrlenIs
<1>6. ~ IsCommand(at_cmd(Again(l)))
  <2>1. Again(l).count = n /\ Again(l).line = m
    BY <1>2, <1>5
  <2>. QED  BY <1>1, <1>4, <2>1, NoCommand
<1>. QED  BY <1>6 DEF Repeats

(* Only the first character of the line is not looked at.                  *)
LEMMA RepeatsSame ==
    ASSUME NEW l \in [0 .. LineSize - 1 -> LineChar], NEW c, NEW cmd, Repeats(l, cmd),
           NEW m, m = [l EXCEPT ![0] = c]
    PROVE  Repeats(m, cmd)
<1>1. WithA(m) = WithA(l)
  BY DEF WithA
<1>2. Again(m) = Again(l)
  BY <1>1, Zenon DEF Again
<1>. QED  BY <1>2, Zenon DEF Repeats

(* A command that was run is what A/ repeats.                              *)
LEMMA RepeatsCommand ==
    ASSUME NEW a, LineOK(a), a.line[a.count] = Nul,
           \A i \in 0 .. a.count - 1 : a.line[i] # Nul,
           a.count >= 1 => a.line[0] # Blank, IsCommand(at_cmd(a))
    PROVE  Repeats(a.line, at_cmd(a))
<1>. DEFINE l == a.line
            n == a.count
            s == at_cmd(a)
<1>1. /\ l \in [0 .. LineSize - 1 -> LineChar] /\ n \in 0 .. LineSize - 1
      /\ l[LineSize - 1] = Nul /\ LineSize \in Nat /\ LineSize >= 3
      /\ a = [line |-> l, count |-> n] /\ l[n] = Nul
      /\ \A i \in 0 .. n - 1 : l[i] # Nul
  BY LineFacts
<1>2. n >= 1
  <2>1. SUFFICES ASSUME n = 0 PROVE FALSE
    BY <1>1
  <2>2. \A i \in 0 .. a.count - 1 : a.line[i] # "T"
    BY <2>1
  <2>. QED  BY <2>2, NoCommand
<1>3. Copied(s, l, n)
  BY AtCmdCopied
<1>4. IsCommand(s) /\ l[0] # Blank
  BY <1>2
<1>. HIDE DEF s, l, n
<1>5. l[0] = "A"
  <2>1. s \in Seq(LineChar) /\ Len(s) >= 2 /\ Len(s) \in Nat /\ SubSeq(s, 1, 2) = <<"A", "T">>
    BY <1>3, <1>4 DEF Copied, IsCommand
  <2>2. SubSeq(s, 1, 2)[1] = s[1]
    BY <2>1, PartOf, 1 \in 1 .. 2
  <2>3. <<"A", "T">>[1] = "A"
    OBVIOUS
  <2>4. s[1] = l[0]
    BY <1>2, <1>3, <1>4, Zenon DEF Copied
  <2>. QED  BY <2>1, <2>2, <2>3, <2>4, Zenon
<1>6. WithA(l) = l
  BY <1>1, <1>5 DEF WithA
<1>7. strlen(l) = n
  BY <1>1, StrlenIs
<1>8. Again(l) = a
  BY <1>1, <1>6, <1>7 DEF Again
<1>9. at_cmd(Again(l)) = s
  BY <1>8 DEF s
<1>. QED  BY <1>9, Zenon DEF Repeats, l, s

(* A line that is ended: what is before its Nul was typed, or is what A/   *)
(* repeats.                                                                *)
LEMMA EndedFacts ==
    ASSUME LineOK(at), Typed(at), NEW c
    PROVE  LET a == at_ended(c)
           IN  /\ LineOK(a) /\ a.line[a.count] = Nul
               /\ \A i \in 0 .. a.count - 1 : a.line[i] # Nul
               /\ a.count >= 1 => a.line[0] # Blank
               /\ a.count = 0 => at.count = 0 /\ a.line = [at.line EXCEPT ![0] = Nul]
<1>. DEFINE n == IF again(c) THEN strlen(at.line) ELSE at.count
            l == at.line
            a == at_ended(c)
<1>1. /\ l \in [0 .. LineSize - 1 -> LineChar] /\ l[LineSize - 1] = Nul
      /\ LineSize \in Nat /\ LineSize >= 3 /\ at.count \in 0 .. LineSize - 1
  BY LineFacts
<1>2. LineOK(a)
  BY AtEndedOK
<1>3. a = [count |-> n, line |-> [l EXCEPT ![n] = Nul]]
  BY Zenon DEF at_ended
<1>4. /\ n \in 0 .. LineSize - 1 /\ \A i \in 0 .. n - 1 : l[i] # Nul
      /\ n >= 1 => l[0] # Blank
      /\ n = 0 => at.count = 0
  <2>1. CASE again(c)
    <3>1. n = strlen(l) /\ l[0] = "A" /\ at.count = 1
      BY <2>1 DEF again
    <3>2. n \in 0 .. LineSize - 1 /\ l[n] = Nul /\ \A i \in 0 .. n - 1 : l[i] # Nul
      BY <1>1, <3>1, StrlenFacts
    <3>3. "A" # Nul /\ "A" # Blank
      BY DEF Nul, Blank
    <3>4. n # 0
      BY <3>1, <3>2, <3>3, Zenon
    <3>. QED  BY <3>1, <3>2, <3>3, <3>4, Zenon
  <2>2. CASE ~ again(c)
    <3>1. n = at.count /\ \A i \in 0 .. n - 1 : l[i] \in Char
      BY <2>2 DEF Typed
    <3>2. Nul \notin Char /\ Blank \notin Char
      BY DEF Nul, Blank, Char
    <3>3. n >= 1 => 0 \in 0 .. n - 1
      BY <1>1, <3>1
    <3>. QED  BY <1>1, <3>1, <3>2, <3>3, Zenon
  <2>. QED  BY <2>1, <2>2
<1>. HIDE DEF n, l
<1>5. a.count = n /\ a.line = [l EXCEPT ![n] = Nul]
  BY <1>3
<1>6. /\ a.line[n] = Nul
      /\ \A i \in 0 .. n - 1 : a.line[i] = l[i]
  BY <1>1, <1>4, <1>5
<1>7. n >= 1 => a.line[0] # Blank
  BY <1>4, <1>6
<1>8. n = 0 => a.line = [l EXCEPT ![0] = Nul]
  BY <1>5
<1>9. \A i \in 0 .. n - 1 : a.line[i] # Nul
  BY <1>4, <1>6
<1>. HIDE DEF a
<1>10. a.count = 0 => at.count = 0 /\ a.line = [at.line EXCEPT ![0] = Nul]
  BY <1>4, <1>5, <1>8 DEF l
<1>. QED  BY <1>2, <1>5, <1>6, <1>7, <1>9, <1>10 DEF a

(* A character that is collected.                                          *)
LEMMA CollectedRepeats ==
    ASSUME LineOK(at), RepeatInv, NEW c \in Char, NEW b, b = at_collected(c)
    PROVE  /\ Typed(b)
           /\ ~ (edited \/ c = "bs") /\ b.count <= 1 => Repeats(b.line, last)
<1>. DEFINE l == at.line
            n == at.count
<1>1. /\ l \in [0 .. LineSize - 1 -> LineChar] /\ l[LineSize - 1] = Nul
      /\ n \in 0 .. LineSize - 1 /\ LineSize \in Nat /\ LineSize >= 3
      /\ at = [line |-> l, count |-> n]
  BY LineFacts
<1>2. \A i \in 0 .. n - 1 : l[i] \in Char
  BY DEF RepeatInv, Typed
<1>3. ~ edited /\ n <= 1 => Repeats(l, last)
  BY DEF RepeatInv
<1>4. CASE c = "bs" /\ n > 0
  <2>1. b = [at EXCEPT !.count = n - 1]
    BY <1>4 DEF at_collected
  <2>. HIDE DEF l, n
  <2>2. b.line = l /\ b.count = n - 1
    BY <1>1, <2>1
  <2>. QED  BY <1>1, <1>2, <1>4, <2>2 DEF Typed
<1>5. CASE ~ (c = "bs" /\ n > 0) /\ n = LineSize - 1
  <2>1. b = [at EXCEPT !.count = 0, !.line[1] = Nul]
    BY <1>5 DEF at_collected
  <2>. HIDE DEF l, n
  <2>2. b.line = [l EXCEPT ![1] = Nul] /\ b.count = 0
    BY <1>1, <2>1
  <2>3. 1 \in 1 .. LineSize - 1 /\ 1 .. 1 - 1 = {} /\ 1 \in 0 .. LineSize - 1
    BY <1>1
  <2>4. /\ b.line \in [0 .. LineSize - 1 -> LineChar] /\ b.line[LineSize - 1] = Nul
        /\ b.line[1] = Nul
    BY <1>1, <2>2, <2>3 DEF LineChar
  <2>5. Repeats(b.line, last)
    BY <2>3, <2>4, RepeatsNothing
  <2>6. Typed(b)
    BY <2>2 DEF Typed
  <2>. QED  BY <2>5, <2>6
<1>6. CASE ~ (c = "bs" /\ n > 0) /\ n # LineSize - 1
  <2>1. b = [at EXCEPT !.line[n] = c, !.count = n + 1]
    BY <1>6 DEF at_collected
  <2>. HIDE DEF l, n
  <2>2. b.line = [l EXCEPT ![n] = c] /\ b.count = n + 1
    BY <1>1, <2>1
  <2>3. Typed(b)
    <3>1. SUFFICES ASSUME NEW i \in 0 .. (n + 1) - 1 PROVE b.line[i] \in Char
      BY <2>2 DEF Typed
    <3>2. CASE i = n
      BY <1>1, <2>2, <3>2
    <3>3. CASE i # n
      <4>1. i \in 0 .. n - 1 /\ i \in 0 .. LineSize - 1
        BY <1>1, <3>3
      <4>2. b.line[i] = l[i]
        BY <1>1, <2>2, <3>3, <4>1
      <4>. QED  BY <1>2, <4>1, <4>2
    <3>. QED  BY <3>2, <3>3
  <2>4. ASSUME ~ edited, b.count <= 1 PROVE Repeats(b.line, last)
    <3>1. n = 0
      BY <1>1, <2>2, <2>4
    <3>2. Repeats(l, last)
      BY <1>3, <2>4, <3>1
    <3>3. b.line = [l EXCEPT ![0] = c]
      BY <2>2, <3>1
    <3>. QED  BY <1>1, <3>2, <3>3, RepeatsSame
  <2>. QED  BY <2>3, <2>4
<1>. QED  BY <1>4, <1>5, <1>6

(* A line that was no command.                                             *)
LEMMA BlankedRepeats ==
    ASSUME LineOK(at), RepeatInv, NEW c, NEW b, b = at_blanked(at_ended(c))
    PROVE  /\ Typed(b)
           /\ ~ (edited /\ at.count = 0) => Repeats(b.line, last)
<1>. DEFINE a == at_ended(c)
            l == a.line
            n == a.count
<1>1. Typed(at)
  BY DEF RepeatInv
<1>2. LineOK(a) /\ l[n] = Nul /\ (n = 0 => at.count = 0 /\ l = [at.line EXCEPT ![0] = Nul])
  BY <1>1, EndedFacts
<1>3. b = at_blanked(a)
  OBVIOUS
<1>. HIDE DEF a
<1>4. /\ l \in [0 .. LineSize - 1 -> LineChar] /\ l[LineSize - 1] = Nul
      /\ n \in 0 .. LineSize - 1 /\ LineSize \in Nat /\ LineSize >= 3
  BY <1>2, LineFacts
<1>5. LineOK(b) /\ b.count = 0
  BY <1>2, <1>3, AtClearedOK
<1>6. b.line = [i \in DOMAIN l |-> IF i < n THEN Blank ELSE l[i]]
  BY <1>3 DEF at_blanked
<1>. HIDE DEF l, n
<1>7. Typed(b)
  BY <1>5 DEF Typed
<1>8. CASE n = 0
  <2>1. b.line = l
    BY <1>4, <1>6, <1>8
  <2>2. at.line \in [0 .. LineSize - 1 -> LineChar]
    BY LineFacts
  <2>3. at.count = 0 /\ at.count <= 1 /\ l = [at.line EXCEPT ![0] = Nul]
    BY <1>2, <1>8
  <2>4. ASSUME ~ edited PROVE Repeats(b.line, last)
    <3>1. Repeats(at.line, last)
      BY <2>3, <2>4 DEF RepeatInv
    <3>2. b.line = [at.line EXCEPT ![0] = Nul]
      BY <2>1, <2>3
    <3>. QED  BY <2>2, <3>1, <3>2, RepeatsSame
  <2>. QED  BY <1>7, <2>3, <2>4
<1>9. CASE n # 0
  <2>1. n \in 1 .. LineSize - 1
    BY <1>4, <1>9
  <2>2. b.line[n] = Nul /\ \A i \in 1 .. n - 1 : b.line[i] = Blank
    BY <1>2, <1>4, <1>6
  <2>3. b.line \in [0 .. LineSize - 1 -> LineChar] /\ b.line[LineSize - 1] = Nul
    BY <1>5, LineFacts
  <2>4. Repeats(b.line, last)
    BY <2>1, <2>2, <2>3, RepeatsNothing
  <2>. QED  BY <1>7, <2>4
<1>. QED  BY <1>8, <1>9

(* What each step does to the line, to the last command, and to what is    *)
(* known of the line.                                                      *)
LEMMA RepeatMoves ==
    ASSUME [Next]_vars
    PROVE  \/ UNCHANGED <<at, last, edited>>
           \/ /\ AtChar
              /\ \E c \in {read_round(xmit, 1).got[1]} :
                   \/ /\ at' = at_collected(c) /\ last' = last
                      /\ edited' = (edited \/ c = "bs")
                   \/ /\ at' = at_blanked(at_ended(c)) /\ last' = last
                      /\ edited' = (edited /\ at.count = 0)
                   \/ /\ IsCommand(at_cmd(at_ended(c)))
                      /\ at' = at_reset(at_ended(c)) /\ last' = at_cmd(at_ended(c))
<1>1. CASE AtChar
  BY <1>1, Zenon DEF AtChar, at_goes_on
<1>2. CASE ~ AtChar
  <2>1. CASE Clock \/ Top \/ Select \/ Wake \/ Arm \/ ModemEvent \/ AtDone \/ UNCHANGED vars
    BY <1>2, <2>1, Zenon DEF Clock, Tick, Alarm, Top, Select, Wake, Arm, ModemEvent, AtDone,
       vars, history
  <2>2. CASE Ring \/ RingEnd \/ Connect \/ Hangup \/ Stop \/ Fetch \/ Write
    BY <1>2, <2>2, Zenon DEF Ring, RingEnd, Connect, Hangup, Stop, Fetch, Write, history
  <2>. QED  BY <1>2, <2>1, <2>2 DEF Next, Loop
<1>. QED  BY <1>1, <1>2

(* The initial state: a line of Nul.                                       *)
LEMMA RepeatInvInit == Init => RepeatInv
<1>. SUFFICES ASSUME Init PROVE RepeatInv
  OBVIOUS
<1>1. /\ at.line \in [0 .. LineSize - 1 -> LineChar] /\ at.line[LineSize - 1] = Nul
      /\ at.line[1] = Nul /\ 1 \in 1 .. LineSize - 1 /\ 1 .. 1 - 1 = {} /\ at.count = 0
  BY TerminalAssumption DEF Init, LineChar
<1>2. Repeats(at.line, last)
  BY <1>1, RepeatsNothing
<1>3. Typed(at)
  BY <1>1 DEF Typed
<1>. QED  BY <1>2, <1>3 DEF RepeatInv

(* Every step keeps it.                                                    *)
LEMMA RepeatInvStep == TInv /\ RepeatInv /\ [Next]_vars => RepeatInv'
<1>. SUFFICES ASSUME TInv, RepeatInv, [Next]_vars
              PROVE  /\ Typed(at')
                     /\ ~ edited' /\ at'.count <= 1 => Repeats(at'.line, last')
  BY DEF RepeatInv, Typed, Repeats
<1>0. LineOK(at) /\ Holds(xmit, queue) /\ Typed(at)
  BY DEF TInv, RepeatInv
<1>1. CASE UNCHANGED <<at, last, edited>>
  <2>1. at' = at /\ last' = last /\ edited' = edited
    BY <1>1
  <2>2. ~ edited /\ at.count <= 1 => Repeats(at.line, last)
    BY DEF RepeatInv
  <2>. QED  BY <1>0, <2>1, <2>2
<1>2. CASE AtChar /\ ~ UNCHANGED <<at, last, edited>>
  <2>. DEFINE c == read_round(xmit, 1).got[1]
  <2>1. c \in Char
    BY <1>0, <1>2, GetCharHolds DEF AtChar
  <2>2. \/ at' = at_collected(c) /\ last' = last /\ edited' = (edited \/ c = "bs")
        \/ at' = at_blanked(at_ended(c)) /\ last' = last /\ edited' = (edited /\ at.count = 0)
        \/ /\ IsCommand(at_cmd(at_ended(c)))
           /\ at' = at_reset(at_ended(c)) /\ last' = at_cmd(at_ended(c))
    BY <1>2, RepeatMoves, Zenon
  <2>. HIDE DEF c
  <2>3. CASE at' = at_collected(c) /\ last' = last /\ edited' = (edited \/ c = "bs")
    BY <1>0, <2>1, <2>3, CollectedRepeats
  <2>4. CASE at' = at_blanked(at_ended(c)) /\ last' = last /\ edited' = (edited /\ at.count = 0)
    BY <1>0, <2>4, BlankedRepeats
  <2>5. CASE /\ IsCommand(at_cmd(at_ended(c)))
             /\ at' = at_reset(at_ended(c)) /\ last' = at_cmd(at_ended(c))
    <3>. DEFINE a == at_ended(c)
    <3>1. /\ LineOK(a) /\ a.line[a.count] = Nul
          /\ \A i \in 0 .. a.count - 1 : a.line[i] # Nul
          /\ a.count >= 1 => a.line[0] # Blank
      BY <1>0, EndedFacts
    <3>2. IsCommand(at_cmd(a)) /\ at' = at_reset(a) /\ last' = at_cmd(a)
      BY <2>5
    <3>. HIDE DEF a
    <3>3. Repeats(a.line, at_cmd(a))
      BY <3>1, <3>2, RepeatsCommand
    <3>4. at'.line = a.line /\ at'.count = 0
      BY <3>1, <3>2, LineFacts, AtClearedOK DEF at_reset
    <3>5. Typed(at')
      BY <3>4 DEF Typed
    <3>. QED  BY <3>2, <3>3, <3>4, <3>5
  <2>. QED  BY <2>2, <2>3, <2>4, <2>5
<1>. QED  BY <1>1, <1>2, RepeatMoves, Zenon

(* The line that A/ repeats is the one of which the invariant speaks.      *)
LEMMA RepeatInvImplies == TInv /\ RepeatInv => RepeatLast
<1>. SUFFICES ASSUME TInv, RepeatInv, again("/"), ~ edited
              PROVE  IsCommand(at_cmd(at_ended("/"))) => at_cmd(at_ended("/")) = last
  BY DEF RepeatLast
<1>. DEFINE l == at.line
            n == strlen(l)
<1>1. /\ l \in [0 .. LineSize - 1 -> LineChar] /\ l[LineSize - 1] = Nul
      /\ LineSize \in Nat
  BY LineFacts DEF TInv
<1>2. l[0] = "A" /\ at.count = 1
  BY DEF again
<1>3. at_ended("/") = [count |-> n, line |-> [l EXCEPT ![n] = Nul]]
  BY Zenon DEF at_ended
<1>. HIDE DEF l
<1>4. n \in 0 .. LineSize - 1 /\ l[n] = Nul
  BY <1>1, StrlenFacts
<1>5. [l EXCEPT ![n] = Nul] = l /\ WithA(l) = l
  <2>. HIDE DEF n
  <2>. QED  BY <1>1, <1>2, <1>4 DEF WithA
<1>6. at_ended("/") = Again(l)
  BY <1>3, <1>5 DEF Again
<1>7. Repeats(l, last)
  BY <1>2 DEF RepeatInv, l
<1>. QED  BY <1>6, <1>7 DEF Repeats

(* A/ runs the last command again, or nothing, for every length of         *)
(* at_line: not a line that was given up or was no command, unless         *)
(* something typed was taken back.                                         *)
THEOREM TerminalRepeatLast == Spec => []RepeatLast
<1>1. Spec => []RepeatInv
  BY RepeatInvInit, RepeatInvStep, TInvAlways, PTL DEF Spec
<1>. QED  BY <1>1, RepeatInvImplies, TInvAlways, PTL

-----------------------------------------------------------------------------
(* The guard time behind the escape sequence.                              *)

InCall == state \in {"ESTAB", "ONLINE", "COMMAND_ONLINE"}

NotRaced == raced \cap {"enter", "sched"} = {}

(* In a call the only event is the escape, and while three escape          *)
(* characters are counted it is marked no sooner than the guard time after *)
(* the last of them: the time that is left and the time that has passed    *)
(* make up the guard time.                                                 *)
EscMarked == "ESCAPE" \in event => esc.quiet >= Guard
EscRead == pc = "clear" /\ "ESCAPE" \in seen => esc.quiet >= Guard
EscArmed == "ESCAPE" \in new_event /\ timer.added /\ pc # "sched"
              => timer.left + esc.quiet >= Guard
NoEvent == pc \in {"enter", "select", "sched"} => event = {}
OnlyEscape == pc = "sched" /\ InCall => "ESCAPE" \in seen

EscapeInv ==
    /\ ring_count > 0 => state = "IDLE"
    /\ NotRaced => /\ NoEvent /\ OnlyEscape
                   /\ InCall /\ esc.count = 3 => EscMarked /\ EscRead /\ EscArmed

(* The initial state.                                                      *)
LEMMA EscapeInvInit == Init => EscapeInv
BY DEF Init, EscapeInv, NoEvent, OnlyEscape, InCall

(* A ring is counted only while there is no call.                          *)
LEMMA RingIdleStep ==
    ASSUME TInv, ring_count > 0 => state = "IDLE", [Next]_vars
    PROVE  ring_count' > 0 => state' = "IDLE"
<1>0. ring_count \in 0 .. 2
  BY DEF TInv, Ctl
<1>1. CASE Clock \/ Top \/ Select \/ Wake \/ Arm \/ AtDone \/ UNCHANGED vars
  <2>1. ring_count' = ring_count /\ state' = state
    BY <1>1, Zenon DEF Clock, Tick, Alarm, Top, Select, Wake, Arm, AtDone, vars
  <2>. QED  BY <2>1
<1>2. CASE ModemEvent
  <2>1. \/ ring_count' = 0
        \/ ring_count' = ring_count /\ (state' = state \/ state = "ONLINE")
    BY <1>2, Zenon DEF ModemEvent, modem_escape, modem_start, ring_forgotten
  <2>. QED  BY <1>0, <2>1
<1>3. CASE AtChar
  <2>1. \/ ring_count' = 0
        \/ ring_count' = ring_count /\ (state' = state \/ state = "COMMAND_ONLINE")
    BY <1>3, ZenonT(60) DEF AtChar, at_goes_on, process_at_command, modem_start
  <2>. QED  BY <1>0, <2>1
<1>4. CASE Ring \/ RingEnd
  <2>1. state' = "IDLE"
    BY <1>4 DEF Ring, RingEnd
  <2>. QED  BY <2>1
<1>5. CASE Connect \/ Hangup \/ Stop
  <2>1. ring_count' = ring_count /\ state # "IDLE"
    BY <1>5 DEF Connect, Hangup, Stop
  <2>. QED  BY <1>0, <2>1
<1>6. CASE Fetch
  BY <1>6 DEF Fetch
<1>7. CASE Write
  <2>1. ring_count' = ring_count /\ (state' = state \/ state = "ESTAB")
    BY <1>7 DEF Write
  <2>. QED  BY <2>1
<1>. QED  BY <1>1, <1>2, <1>3, <1>4, <1>5, <1>6, <1>7, Zenon DEF Next, Loop

(* Every step keeps the guard time.                                        *)
LEMMA EscapeInvStep == TInv /\ EscapeInv /\ [Next]_vars => EscapeInv'
<1>. SUFFICES ASSUME TInv, EscapeInv, [Next]_vars PROVE EscapeInv'
  OBVIOUS
<1>22. ring_count' > 0 => state' = "IDLE"
  BY RingIdleStep DEF EscapeInv
<1>. SUFFICES ASSUME NotRaced'
              PROVE  /\ NoEvent' /\ OnlyEscape'
                     /\ InCall' /\ esc'.count = 3 => EscMarked' /\ EscRead' /\ EscArmed'
  BY <1>22, Zenon DEF EscapeInv
<1>0. NotRaced
  <2>1. raced \subseteq raced'
    <3>1. CASE Clock \/ Loop
      BY <3>1, Zenon DEF Clock, Loop, Tick, Alarm, Top, Select, Wake, Arm, ModemEvent, AtChar,
                         AtDone, events
    <3>2. CASE ~ (Clock \/ Loop)
      BY <3>2, Zenon DEF Next, Ring, RingEnd, Connect, Hangup, Stop, Fetch, Write, events,
                         schedule_event, vars
    <3>. QED  BY <3>1, <3>2
  <2>. QED  BY <2>1 DEF NotRaced
<1>20. /\ NoEvent /\ OnlyEscape
       /\ InCall /\ esc.count = 3 => EscMarked /\ EscRead /\ EscArmed
       /\ ring_count > 0 => state = "IDLE"
  BY <1>0, Zenon DEF EscapeInv
<1>21. /\ timer \in [added : BOOLEAN, left : 0 .. Guard + RingDelay] /\ ring_count \in 0 .. 2
       /\ esc \in [count : 0 .. 3, quiet : 0 .. Guard + 1]
       /\ timer.left \in Nat /\ esc.quiet \in 0 .. Guard + 1 /\ esc.count \in 0 .. 3
       /\ Guard \in Nat /\ Guard > 0 /\ RingDelay \in Nat
  BY TerminalAssumption DEF TInv, Ctl
<1>1. CASE Alarm
  <2>1. /\ event' = event \cup new_event /\ new_event' = {} /\ timer.added /\ timer.left = 0
        /\ pc \notin {"enter", "sched"} /\ pc' \notin {"enter", "select", "sched"}
        /\ pc' = "clear" => pc = "clear"
        /\ UNCHANGED <<state, esc, seen>>
    BY <1>1 DEF Alarm, NotRaced, TInv, Ctl
  <2>2. NoEvent' /\ OnlyEscape'
    BY <2>1 DEF NoEvent, OnlyEscape
  <2>3. ASSUME InCall', esc'.count = 3 PROVE EscMarked' /\ EscRead' /\ EscArmed'
    <3>1. EscMarked /\ EscRead /\ EscArmed
      BY <1>20, <2>1, <2>3 DEF InCall
    <3>2. EscArmed'
      BY <2>1 DEF EscArmed
    <3>3. EscRead'
      BY <2>1, <3>1 DEF EscRead
    <3>4. EscMarked'
      BY <1>21, <2>1, <3>1 DEF EscMarked, EscArmed
    <3>. QED  BY <3>2, <3>3, <3>4
  <2>. QED  BY <2>2, <2>3
<1>2. CASE Tick
  <2>1. UNCHANGED <<state, event, new_event, pc, seen>>
    BY <1>2 DEF Tick
  <2>2. /\ timer'.added = timer.added
        /\ timer'.left = IF timer.added THEN timer.left - 1 ELSE timer.left
        /\ timer.added => timer.left # 0
        /\ esc'.count = esc.count
        /\ esc'.quiet = Lesser(esc.quiet + 1, Guard + 1)
    BY <1>2, <1>21 DEF Tick
  <2>3. esc'.quiet >= esc.quiet /\ (esc'.quiet = esc.quiet + 1 \/ esc'.quiet >= Guard)
        /\ esc'.quiet \in Nat
    BY <1>21, <2>2 DEF Lesser
  <2>4. NoEvent' /\ OnlyEscape'
    BY <1>20, <2>1 DEF NoEvent, OnlyEscape, InCall
  <2>5. ASSUME InCall', esc'.count = 3 PROVE EscMarked' /\ EscRead' /\ EscArmed'
    <3>1. EscMarked /\ EscRead /\ EscArmed
      BY <1>20, <2>1, <2>2, <2>5 DEF InCall
    <3>2. EscMarked'
      BY <1>21, <2>1, <2>3, <3>1 DEF EscMarked
    <3>3. EscRead'
      BY <1>21, <2>1, <2>3, <3>1 DEF EscRead
    <3>4. EscArmed'
      <4>. SUFFICES ASSUME "ESCAPE" \in new_event, timer'.added, pc # "sched"
                    PROVE  timer'.left + esc'.quiet >= Guard
        BY <2>1 DEF EscArmed
      <4>1. timer.added
        BY <2>2, Zenon
      <4>2. timer.left + esc.quiet >= Guard
        BY <3>1, <4>1, Zenon DEF EscArmed
      <4>3. timer'.left = timer.left - 1 /\ timer.left # 0
        BY <2>2, <4>1, Zenon
      <4>. DEFINE l == timer.left
                  q == esc.quiet
                  l1 == timer'.left
                  q1 == esc'.quiet
      <4>4. /\ l \in Nat /\ q \in Nat /\ q1 \in Nat /\ Guard \in Nat /\ l # 0 /\ l1 = l - 1
            /\ l + q >= Guard /\ (q1 = q + 1 \/ q1 >= Guard)
        BY <1>21, <2>3, <4>2, <4>3
      <4>. HIDE DEF l, q, l1, q1
      <4>5. l1 + q1 >= Guard
        BY <4>4
      <4>. QED  BY <4>5 DEF l1, q1
    <3>. QED  BY <3>2, <3>3, <3>4
  <2>. QED  BY <2>4, <2>5
<1>3. CASE Arm
  <2>1. /\ pc = "sched" /\ pc' = "top" /\ UNCHANGED <<state, esc, event, new_event>>
        /\ timer'.left = IF "ESCAPE" \in seen THEN Guard ELSE RingDelay
    BY <1>3 DEF Arm
  <2>2. NoEvent' /\ OnlyEscape'
    BY <2>1 DEF NoEvent, OnlyEscape
  <2>3. ASSUME InCall', esc'.count = 3 PROVE EscMarked' /\ EscRead' /\ EscArmed'
    <3>1. event = {} /\ timer'.left = Guard
      BY <1>20, <2>1, <2>3 DEF NoEvent, OnlyEscape, InCall
    <3>2. Guard + esc.quiet >= Guard
      BY <1>21
    <3>. QED  BY <2>1, <3>1, <3>2 DEF EscMarked, EscRead, EscArmed
  <2>. QED  BY <2>2, <2>3
<1>4. CASE Top
  <2>1. /\ pc = "top" /\ pc' = IF event = {} THEN "enter" ELSE "clear"
        /\ seen' = event /\ UNCHANGED <<state, esc, event, new_event, timer>>
    BY <1>4 DEF Top
  <2>2. NoEvent' /\ OnlyEscape'
    BY <2>1 DEF NoEvent, OnlyEscape
  <2>3. ASSUME InCall', esc'.count = 3 PROVE EscMarked' /\ EscRead' /\ EscArmed'
    <3>1. EscMarked /\ EscArmed
      BY <1>20, <2>1, <2>3 DEF InCall
    <3>. QED  BY <2>1, <3>1 DEF EscMarked, EscRead, EscArmed
  <2>. QED  BY <2>2, <2>3
<1>5. CASE ModemEvent
  <2>1. /\ event' = {} /\ pc' \in {"top", "sched"} /\ pc = "clear"
        /\ esc'.count = (IF "ESCAPE" \in seen THEN 0 ELSE esc.count)
        /\ esc'.quiet = esc.quiet
    <3>1. esc' = [esc EXCEPT !.count = IF "ESCAPE" \in seen THEN 0 ELSE @]
      BY <1>5, Zenon DEF ModemEvent, modem_escape
    <3>2. event' = {} /\ pc' \in {"top", "sched"} /\ pc = "clear"
      BY <1>5 DEF ModemEvent, modem_start
    <3>. QED  BY <1>21, <3>1, <3>2
  <2>2. NoEvent'
    BY <2>1 DEF NoEvent
  <2>3. OnlyEscape'
    <3>1. pc' = "sched" => ring_count > 1 /\ (state' = state \/ state = "ONLINE")
      BY <1>5, Zenon DEF ModemEvent, modem_escape
    <3>2. pc' = "sched" => state' = "IDLE"
      BY <1>20, <1>21, <3>1
    <3>. QED  BY <3>2 DEF OnlyEscape, InCall
  <2>4. ASSUME InCall', esc'.count = 3 PROVE EscMarked' /\ EscRead' /\ EscArmed'
    <3>1. "ESCAPE" \notin seen /\ esc.count = 3
      BY <1>21, <2>1, <2>4
    <3>2. EscMarked' /\ EscRead'
      BY <2>1 DEF EscMarked, EscRead
    <3>3. \/ new_event' = {}
          \/ pc' = "sched"
          \/ state' = state /\ new_event' = new_event /\ timer' = timer
      BY <1>5, <3>1, Zenon DEF ModemEvent, modem_escape, modem_start
    <3>4. CASE state' = state /\ new_event' = new_event /\ timer' = timer
      <4>1. EscArmed
        BY <1>20, <2>4, <3>1, <3>4 DEF InCall
      <4>. QED  BY <2>1, <3>2, <3>4, <4>1 DEF EscArmed
    <3>. QED  BY <3>2, <3>3, <3>4 DEF EscArmed
  <2>. QED  BY <2>2, <2>3, <2>4
<1>6. CASE AtChar
  <2>1. pc = "at" /\ pc' = "at" /\ esc' = esc /\ seen' = seen
    BY <1>6 DEF AtChar
  <2>2. \/ event' = {} /\ new_event' = {}
        \/ /\ UNCHANGED <<event, new_event, timer>>
           /\ state' = state \/ state = "COMMAND_ONLINE"
    <3>1. ASSUME NEW a, NEW x, at_goes_on(a, x)
          PROVE  UNCHANGED <<event, new_event, timer, state>>
      BY <3>1, Zenon DEF at_goes_on
    <3>2. ASSUME NEW cmd, NEW x, NEW q, process_at_command(cmd, x, q)
          PROVE  \/ event' = {} /\ new_event' = {}
                 \/ /\ UNCHANGED <<event, new_event, timer>>
                    /\ state' = state \/ state = "COMMAND_ONLINE"
      BY <3>2, Zenon DEF process_at_command, modem_start
    <3>. QED  BY <1>6, <3>1, <3>2, Zenon DEF AtChar
  <2>3. NoEvent' /\ OnlyEscape'
    BY <2>1 DEF NoEvent, OnlyEscape
  <2>4. ASSUME InCall', esc'.count = 3 PROVE EscMarked' /\ EscRead' /\ EscArmed'
    <3>1. CASE event' = {} /\ new_event' = {}
      BY <2>1, <3>1 DEF EscMarked, EscRead, EscArmed
    <3>2. CASE /\ UNCHANGED <<event, new_event, timer>>
               /\ state' = state \/ state = "COMMAND_ONLINE"
      <4>1. EscMarked /\ EscRead /\ EscArmed
        BY <1>20, <2>1, <2>4, <3>2 DEF InCall
      <4>. QED  BY <2>1, <3>2, <4>1 DEF EscMarked, EscRead, EscArmed
    <3>. QED  BY <2>2, <3>1, <3>2
  <2>. QED  BY <2>3, <2>4
<1>7. CASE Ring \/ RingEnd
  <2>1. state' = "IDLE" /\ pc \in {"enter", "select"} /\ pc' \in {"top", "sched"}
        /\ (pc' = "sched" => event' = event)
    BY <1>7 DEF Ring, RingEnd, schedule_event, events
  <2>. QED  BY <1>20, <2>1 DEF NoEvent, OnlyEscape, InCall
<1>8. CASE Hangup \/ Stop
  <2>1. state' \in {"DISC", "IDLE"} /\ pc' = "top"
    BY <1>8 DEF Hangup, Stop
  <2>. QED  BY <2>1 DEF NoEvent, OnlyEscape, InCall
<1>9. CASE Write
  <2>1. /\ pc \in {"enter", "select"} /\ pc' \in {"top", "at", "sched"} /\ event' = event
        /\ timer' = timer
    BY <1>9 DEF Write, schedule_event, events
  <2>2. event' = {}
    BY <1>20, <2>1 DEF NoEvent
  <2>3. pc' = "sched" => seen' = {"ESCAPE"}
    BY <1>9 DEF Write, schedule_event
  <2>4. NoEvent' /\ OnlyEscape'
    BY <2>2, <2>3 DEF NoEvent, OnlyEscape
  <2>5. ASSUME InCall', esc'.count = 3 PROVE EscMarked' /\ EscRead' /\ EscArmed'
    <3>1. EscMarked' /\ EscRead'
      BY <2>1, <2>2 DEF EscMarked, EscRead
    <3>2. PICK w \in Writes :
            \/ state' = "DISC"
            \/ state' = state /\ esc' = esc /\ new_event' = new_event
            \/ esc' = [count |-> check_escape(w).count, quiet |-> 0]
               /\ (check_escape(w).done => pc' = "sched")
      BY <1>9, Zenon DEF Write, schedule_event, events
    <3>3. CASE state' = "DISC"
      BY <2>5, <3>3 DEF InCall
    <3>4. CASE state' = state /\ esc' = esc /\ new_event' = new_event
      <4>1. EscArmed
        BY <1>20, <2>5, <3>4 DEF InCall
      <4>. QED  BY <2>1, <3>1, <3>4, <4>1 DEF EscArmed
    <3>5. CASE /\ esc' = [count |-> check_escape(w).count, quiet |-> 0]
               /\ check_escape(w).done => pc' = "sched"
      <4>1. check_escape(w).count = 3
        BY <2>5, <3>5
      <4>2. check_escape(w).done
        BY <4>1, CheckEscapeCount, WritesAssumption, Zenon DEF TInv
      <4>3. pc' = "sched"
        BY <3>5, <4>2, Zenon
      <4>. QED  BY <3>1, <4>3 DEF EscArmed
    <3>. QED  BY <3>2, <3>3, <3>4, <3>5
  <2>. QED  BY <2>4, <2>5
<1>10. CASE Select \/ Wake \/ AtDone \/ Connect \/ Fetch \/ UNCHANGED vars
  <2>1. /\ event' = event /\ new_event' = new_event /\ timer' = timer /\ seen' = seen
        /\ esc' = esc /\ (state' = state \/ (state = "ESTAB" /\ state' = "ONLINE"))
        /\ \/ pc' = pc
           \/ pc = "enter" /\ pc' = "select"
           \/ pc # "sched" /\ pc' = "top"
    <3>1. CASE UNCHANGED vars
      BY <3>1 DEF vars
    <3>2. CASE Select \/ Wake \/ AtDone
      BY <3>2 DEF Select, Wake, AtDone, events
    <3>3. CASE Connect \/ Fetch
      BY <3>3 DEF Connect, Fetch, events
    <3>. QED  BY <1>10, <3>1, <3>2, <3>3
  <2>2. NoEvent' /\ OnlyEscape'
    BY <1>20, <2>1 DEF NoEvent, OnlyEscape, InCall
  <2>3. ASSUME InCall', esc'.count = 3 PROVE EscMarked' /\ EscRead' /\ EscArmed'
    <3>1. EscMarked /\ EscRead /\ EscArmed
      BY <1>20, <2>1, <2>3 DEF InCall
    <3>. QED  BY <2>1, <3>1 DEF EscMarked, EscRead, EscArmed
  <2>. QED  BY <2>2, <2>3
<1>. QED  BY <1>1, <1>2, <1>3, <1>4, <1>5, <1>6, <1>7, <1>8, <1>9, <1>10, Zenon
          DEF Next, Clock, Loop

(* The terminal is taken off-line only when the guard time has passed      *)
(* since the last character it wrote, though rings, earlier escapes and    *)
(* calls share the event timer, unless the handler met modem_write.        *)
THEOREM TerminalEscapeGuarded == Spec => EscapeGuarded
<1>. DEFINE Guarded == state = "ONLINE" /\ state' = "COMMAND_ONLINE"
                         => esc.quiet >= Guard \/ raced \cap {"enter", "sched"} # {}
<1>1. TInv /\ EscapeInv /\ [Next]_vars => [Guarded]_vars
  <2>. SUFFICES ASSUME TInv, EscapeInv, Next, state = "ONLINE", state' = "COMMAND_ONLINE",
                       NotRaced
                PROVE  esc.quiet >= Guard
    BY DEF NotRaced
  <2>1. ModemEvent
    <3>1. CASE Clock \/ Top \/ Select \/ Wake \/ Arm \/ AtDone
      <4>1. state' = state
        BY <3>1, Zenon DEF Clock, Tick, Alarm, Top, Select, Wake, Arm, AtDone
      <4>. QED  BY <4>1
    <3>2. CASE AtChar
      <4>1. state' \in {state, "ONLINE", "ESTAB", "IDLE"}
        BY <3>2 DEF AtChar, at_goes_on, process_at_command, modem_start
      <4>. QED  BY <4>1
    <3>3. CASE Ring \/ RingEnd \/ Connect \/ Hangup \/ Stop \/ Fetch \/ Write
      <4>1. state' \in {state, "ONLINE", "DISC", "IDLE"}
        BY <3>3 DEF Ring, RingEnd, Connect, Hangup, Stop, Fetch, Write
      <4>. QED  BY <4>1
    <3>. QED  BY <3>1, <3>2, <3>3, Zenon DEF Next, Loop
  <2>2. pc = "clear" /\ "ESCAPE" \in seen /\ esc.count = 3
    BY <2>1 DEF ModemEvent, modem_escape, modem_start
  <2>3. EscRead
    BY <2>2 DEF EscapeInv, InCall
  <2>. QED  BY <2>2, <2>3 DEF EscRead
<1>2. Spec => [](TInv /\ EscapeInv)
  BY TInvInit, TInvStep, EscapeInvInit, EscapeInvStep, PTL DEF Spec
<1>3. Spec => [][Guarded]_vars
  BY <1>1, <1>2, PTL DEF Spec
<1>. QED  BY <1>3 DEF EscapeGuarded

=============================================================================
