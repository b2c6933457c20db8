------------------------- MODULE V42bisDecoderProof -------------------------
(***************************************************************************)
(* Lemmas about V42bis, for V42bisProof: what encoder and decoder have in  *)
(* common, and what the decoder makes of the bytes it gets.                *)
(*                                                                         *)
(* Decodes(p, s, q, T) says that the bytes s lead the decoder from the     *)
(* point p to the point q, without error and showing the text T; a point   *)
(* is the decoder as if it had just been flushed (View), and how much of T *)
(* it has.  The parts: numbers and recursive functions; the dictionary;    *)
(* ways; two comp_states on the same characters; codewords cut into bytes; *)
(* what the decoder makes of each command and codeword.                    *)
(***************************************************************************)
EXTENDS V42bis, TLAPS, WellFoundedInduction, SequenceTheorems

-----------------------------------------------------------------------------
(* Numbers: the powers of two, and what is above and below a bit.          *)

(* A set of naturals has a least element.                                  *)
LEMMA Least ==
    ASSUME NEW T, T \subseteq Nat, T # {}
    PROVE  \E n \in T : \A m \in T : n <= m
<1>1. IsWellFoundedOn(OpToRel(<, Nat), Nat)
  BY NatLessThanWellFounded, Zenon
<1>2. PICK n \in T : \A m \in T : ~ (<<m, n>> \in OpToRel(<, Nat))
  BY <1>1, WFMin, Zenon
<1>3. \A m \in T : ~ (m < n)
  BY <1>2, Zenon DEF OpToRel
<1>. QED  BY <1>3

(* f doubles from 1 at 0 up to n.                                          *)
Doubles(f, n) ==
    /\ f \in [0 .. n -> Nat]
    /\ \A i \in 0 .. n : f[i] = IF i = 0 THEN 1 ELSE 2 * f[i - 1]

(* There is such a function for every n ...                                *)
LEMMA DoublesExist ==
    ASSUME NEW n \in Nat
    PROVE  \E f : Doubles(f, n)
<1>. DEFINE T == {k \in Nat : ~ \E f : Doubles(f, k)}
<1>1. SUFFICES ASSUME T # {} PROVE FALSE
  OBVIOUS
<1>2. PICK k \in T : \A m \in T : k <= m
  BY <1>1, Least
<1>3. CASE k = 0
  <2>1. Doubles([i \in 0 .. 0 |-> 1], 0)
    BY DEF Doubles
  <2>. QED  BY <2>1, <1>3
<1>4. CASE k # 0
  <2>1. k - 1 \in Nat /\ k - 1 \notin T
    BY <1>2, <1>4
  <2>2. PICK f : Doubles(f, k - 1)
    BY <2>1
  <2>. DEFINE h == [i \in 0 .. k |-> IF i = k THEN 2 * f[k - 1] ELSE f[i]]
  <2>3. f \in [0 .. k - 1 -> Nat]
        /\ \A i \in 0 .. k - 1 : f[i] = IF i = 0 THEN 1 ELSE 2 * f[i - 1]
    BY <2>2 DEF Doubles
  <2>4. h \in [0 .. k -> Nat]
    BY <2>1, <2>3
  <2>5. \A i \in 0 .. k : h[i] = IF i = 0 THEN 1 ELSE 2 * h[i - 1]
    BY <2>1, <2>3, <1>4
  <2>. QED  BY <2>4, <2>5 DEF Doubles
<1>. QED  BY <1>3, <1>4

(* ... and they agree.                                                     *)
LEMMA DoublesAgree ==
    ASSUME NEW n \in Nat, NEW m \in Nat, NEW f, NEW g, Doubles(f, n), Doubles(g, m),
           NEW i \in Nat, i <= n, i <= m
    PROVE  f[i] = g[i]
<1>. DEFINE T == {k \in Nat : k <= n /\ k <= m /\ f[k] # g[k]}
<1>1. SUFFICES ASSUME T # {} PROVE FALSE
  OBVIOUS
<1>2. PICK k \in T : \A j \in T : k <= j
  BY <1>1, Least
<1>3. k # 0
  BY <1>2 DEF Doubles
<1>4. k - 1 \in Nat /\ k - 1 \notin T
  BY <1>2, <1>3
<1>5. f[k] = 2 * f[k - 1] /\ g[k] = 2 * g[k - 1]
  BY <1>3 DEF Doubles
<1>. QED  BY <1>4, <1>5

(* The defining equation of pow2.                                          *)
LEMMA PowDef ==
    /\ pow2 \in [Nat -> Nat \ {0}]
    /\ pow2[0] = 1
    /\ \A n \in Nat : pow2[n + 1] = 2 * pow2[n]
<1>. DEFINE of(n) == CHOOSE f : Doubles(f, n)
            g == [n \in Nat |-> of(n)[n]]
            R(f) == f = [n \in Nat |-> IF n = 0 THEN 1 ELSE 2 * f[n - 1]]
<1>1. \A n \in Nat : Doubles(of(n), n)
  BY DoublesExist
<1>2. \A n \in Nat : g[n] = of(n)[n]
  OBVIOUS
<1>. HIDE DEF of
<1>3. \A n \in Nat : g[n] \in Nat /\ g[n] = IF n = 0 THEN 1 ELSE 2 * g[n - 1]
  <2>. SUFFICES ASSUME NEW n \in Nat
                PROVE  g[n] \in Nat /\ g[n] = IF n = 0 THEN 1 ELSE 2 * g[n - 1]
    OBVIOUS
  <2>1. Doubles(of(n), n)
    BY <1>1
  <2>2. of(n)[n] \in Nat /\ of(n)[n] = IF n = 0 THEN 1 ELSE 2 * of(n)[n - 1]
    BY <2>1 DEF Doubles
  <2>3. ASSUME n # 0 PROVE of(n)[n - 1] = of(n - 1)[n - 1]
    <3>1. n - 1 \in Nat /\ Doubles(of(n - 1), n - 1)
      BY <1>1, <2>3
    <3>. QED  BY <3>1, <2>1, DoublesAgree
  <2>4. ASSUME n # 0 PROVE g[n - 1] = of(n - 1)[n - 1]
    BY <1>2, <2>4
  <2>. QED  BY <2>2, <2>3, <2>4, <1>2
<1>4. R(g)
  BY <1>3
<1>5. pow2 = CHOOSE f : R(f)
  BY DEF pow2
<1>. HIDE DEF R, g
<1>6. R(CHOOSE f : R(f))
  BY <1>4
<1>7. R(pow2)
  BY <1>5, <1>6
<1>8. \A n \in Nat : pow2[n] = IF n = 0 THEN 1 ELSE 2 * pow2[n - 1]
  BY <1>7 DEF R
<1>9. DOMAIN pow2 = Nat /\ pow2 = [n \in Nat |-> pow2[n]]
  BY <1>7 DEF R
<1>10. \A n \in Nat : pow2[n] \in Nat \ {0}
  <2>. DEFINE T == {n \in Nat : pow2[n] \notin Nat \ {0}}
  <2>1. SUFFICES ASSUME T # {} PROVE FALSE
    OBVIOUS
  <2>2. PICK k \in T : \A j \in T : k <= j
    BY <2>1, Least
  <2>3. k # 0
    BY <1>8
  <2>4. k - 1 \in Nat /\ k - 1 \notin T
    BY <2>2, <2>3
  <2>5. pow2[k] = 2 * pow2[k - 1]
    BY <1>8, <2>3
  <2>. QED  BY <2>4, <2>5
<1>11. \A n \in Nat : pow2[n + 1] = 2 * pow2[n]
  <2>. TAKE n \in Nat
  <2>1. n + 1 \in Nat /\ n + 1 # 0 /\ (n + 1) - 1 = n
    OBVIOUS
  <2>. QED  BY <1>8, <2>1
<1>. QED  BY <1>8, <1>9, <1>10, <1>11

(* A power of two is a positive natural number.                            *)
LEMMA PowNat ==
    ASSUME NEW n \in Nat
    PROVE  pow2[n] \in Nat /\ pow2[n] > 0
BY PowDef

(* The power of a sum is the product of the powers.                        *)
LEMMA PowSum ==
    ASSUME NEW a \in Nat, NEW b \in Nat
    PROVE  pow2[a + b] = pow2[a] * pow2[b]
<1>. DEFINE T == {k \in Nat : pow2[a + k] # pow2[a] * pow2[k]}
<1>1. SUFFICES ASSUME T # {} PROVE FALSE
  OBVIOUS
<1>2. PICK k \in T : \A j \in T : k <= j
  BY <1>1, Least
<1>3. k # 0
  <2>1. pow2[0] = 1 /\ pow2[a] \in Nat /\ a + 0 = a
    BY PowDef
  <2>. QED  BY <1>2, <2>1
<1>4. k - 1 \in Nat /\ pow2[a + (k - 1)] = pow2[a] * pow2[k - 1]
  BY <1>2, <1>3
<1>. DEFINE p == pow2[a]
            q == pow2[k - 1]
            j == a + (k - 1)
<1>5. j \in Nat /\ j + 1 = a + k /\ (k - 1) + 1 = k
  BY <1>4
<1>6. pow2[a + k] = 2 * pow2[j] /\ pow2[k] = 2 * q /\ p \in Nat /\ q \in Nat
  BY <1>4, <1>5, PowDef
<1>. HIDE DEF p, q, j
<1>7. 2 * (p * q) = p * (2 * q)
  BY <1>6
<1>. QED  BY <1>2, <1>4, <1>6, <1>7 DEF p, q, j

(* A power of two is above its exponent.                                   *)
LEMMA PowAbove ==
    ASSUME NEW n \in Nat
    PROVE  pow2[n] > n
<1>. DEFINE T == {k \in Nat : ~ (pow2[k] > k)}
<1>1. SUFFICES ASSUME T # {} PROVE FALSE
  BY PowNat
<1>2. PICK k \in T : \A j \in T : k <= j
  BY <1>1, Least
<1>3. k # 0
  BY PowDef
<1>4. k - 1 \in Nat /\ k - 1 \notin T /\ (k - 1) + 1 = k
  BY <1>2, <1>3
<1>5. pow2[k] = 2 * pow2[k - 1] /\ pow2[k - 1] \in Nat
  BY <1>4, PowDef
<1>. QED  BY <1>2, <1>4, <1>5

(* The powers of two grow with the exponent ...                            *)
LEMMA PowMonotone ==
    ASSUME NEW a \in Nat, NEW b \in Nat, a <= b
    PROVE  pow2[a] <= pow2[b]
<1>1. b - a \in Nat /\ a + (b - a) = b
  OBVIOUS
<1>2. pow2[b] = pow2[a] * pow2[b - a] /\ pow2[b - a] \in Nat /\ pow2[b - a] >= 1
      /\ pow2[a] \in Nat
  <2>1. pow2[a + (b - a)] = pow2[a] * pow2[b - a]
    BY <1>1, PowSum
  <2>2. pow2[b - a] \in Nat /\ pow2[b - a] > 0 /\ pow2[a] \in Nat
    BY <1>1, PowNat
  <2>. QED  BY <1>1, <2>1, <2>2
<1>3. \A p, q \in Nat : q >= 1 => p * q >= p
  OBVIOUS
<1>. QED  BY <1>2, <1>3

(* ... and only with it.                                                   *)
LEMMA PowLess ==
    ASSUME NEW a \in Nat, NEW b \in Nat, pow2[a] < pow2[b]
    PROVE  a < b
<1>. SUFFICES ASSUME b <= a PROVE FALSE
  OBVIOUS
<1>1. pow2[b] <= pow2[a]
  BY PowMonotone
<1>2. pow2[a] \in Nat /\ pow2[b] \in Nat
  BY PowNat
<1>. QED  BY <1>1, <1>2

(* What is below and above a bit, the positions being powers of two.       *)
LEMMA DivMod ==
    ASSUME NEW p \in Nat, p > 0, NEW m \in Nat
    PROVE  /\ m = (p * (m \div p)) + (m % p)
           /\ m % p \in Nat /\ m % p < p /\ m \div p \in Nat
OBVIOUS

(* A number put together of two parts comes apart into them.               *)
LEMMA DivModOf ==
    ASSUME NEW p \in Nat, p > 0, NEW r \in Nat, r < p, NEW q \in Nat
    PROVE  (r + (p * q)) \div p = q /\ (r + (p * q)) % p = r
OBVIOUS

(* Nothing of a number is above a bit that it does not reach.              *)
LEMMA DivOfLess ==
    ASSUME NEW p \in Nat, p > 0, NEW r \in Nat, r < p
    PROVE  r \div p = 0 /\ r % p = r
OBVIOUS

(* A number of two parts fits what the parts fit.                          *)
LEMMA PartsFit ==
    ASSUME NEW p \in Nat, NEW q \in Nat, NEW r \in Nat, r < p, NEW s \in Nat, s < q
    PROVE  r + (p * s) \in Nat /\ r + (p * s) < p * q
<1>1. p * s \in Nat /\ p * q \in Nat
  OBVIOUS
<1>2. p * q >= (p * s) + p
  OBVIOUS
<1>. QED  BY <1>1, <1>2

(* Cutting at a position in two steps is cutting at it at once.            *)
LEMMA DivDiv ==
    ASSUME NEW p \in Nat, p > 0, NEW q \in Nat, q > 0, NEW m \in Nat
    PROVE  /\ m \div (p * q) = (m \div p) \div q
           /\ m % (p * q) = (m % p) + (p * ((m \div p) % q))
<1>. DEFINE a == m \div p
            b == m % p
            e == a \div q
            f == a % q
            r == b + (p * f)
<1>1. m = (p * a) + b /\ b \in Nat /\ b < p /\ a \in Nat
  BY DivMod
<1>2. a = (q * e) + f /\ f \in Nat /\ f < q /\ e \in Nat
  BY <1>1, DivMod
<1>. HIDE DEF a, b, e, f
<1>3. r \in Nat /\ r < p * q
  BY <1>1, <1>2, PartsFit
<1>4. p * a = (p * f) + ((p * q) * e)
  <2>1. p * ((q * e) + f) = (p * (q * e)) + (p * f)
    BY <1>2
  <2>2. p * (q * e) = (p * q) * e
    BY <1>2
  <2>3. p * (q * e) \in Nat /\ p * f \in Nat
    BY <1>2
  <2>. QED  BY <2>1, <2>2, <2>3, <1>2
<1>5. p * q \in Nat /\ p * q > 0 /\ (p * q) * e \in Nat /\ p * f \in Nat
  BY <1>2, <1>3
<1>6. m = r + ((p * q) * e)
  <2>1. \A x, y, z \in Nat : m = x + b /\ x = y + z => m = (b + y) + z
    BY <1>1
  <2>2. p * a \in Nat
    BY <1>1
  <2>. QED  BY <1>1, <1>4, <1>5, <2>1, <2>2
<1>. HIDE DEF r
<1>7. m \div (p * q) = e /\ m % (p * q) = r
  BY <1>2, <1>3, <1>5, <1>6, DivModOf
<1>. QED  BY <1>7 DEF a, b, e, f, r

-----------------------------------------------------------------------------
(* Recursive functions.                                                    *)

(* e starts with a and goes on by h.                                       *)
Iterates(e, A, a, h, n) ==
    /\ e \in [0 .. n -> A]
    /\ \A i \in 0 .. n : e[i] = IF i = 0 THEN a ELSE h[i][e[i - 1]]

(* There is such a function for every sequence of steps ...                *)
LEMMA IterationExists ==
    ASSUME NEW A, NEW a \in A, NEW n \in Nat, NEW h \in [1 .. n -> [A -> A]]
    PROVE  \E e : Iterates(e, A, a, h, n)
<1>. DEFINE T == {k \in Nat : k <= n /\ ~ \E e : Iterates(e, A, a, h, k)}
<1>1. SUFFICES ASSUME T # {} PROVE FALSE
  OBVIOUS
<1>2. PICK k \in T : \A m \in T : k <= m
  BY <1>1, Least
<1>3. CASE k = 0
  <2>1. Iterates([i \in 0 .. 0 |-> a], A, a, h, 0)
    BY DEF Iterates
  <2>. QED  BY <2>1, <1>3
<1>4. CASE k # 0
  <2>1. k - 1 \in Nat /\ k - 1 <= n /\ k - 1 \notin T /\ k \in 1 .. n
    BY <1>2, <1>4
  <2>2. PICK f : Iterates(f, A, a, h, k - 1)
    BY <2>1
  <2>. DEFINE g == [i \in 0 .. k |-> IF i = k THEN h[k][f[k - 1]] ELSE f[i]]
  <2>3. f \in [0 .. k - 1 -> A]
        /\ \A i \in 0 .. k - 1 : f[i] = IF i = 0 THEN a ELSE h[i][f[i - 1]]
    BY <2>2 DEF Iterates
  <2>4. h[k] \in [A -> A] /\ f[k - 1] \in A
    BY <2>1, <2>3
  <2>5. g \in [0 .. k -> A]
    BY <2>1, <2>3, <2>4
  <2>6. \A i \in 0 .. k : g[i] = IF i = 0 THEN a ELSE h[i][g[i - 1]]
    <3>. TAKE i \in 0 .. k
    <3>1. CASE i = k
      <4>1. g[i] = h[k][f[k - 1]] /\ g[k - 1] = f[k - 1]
        BY <3>1, <2>1
      <4>. QED  BY <4>1, <3>1, <1>4
    <3>2. CASE i # k
      <4>1. i \in 0 .. k - 1 /\ g[i] = f[i]
        BY <3>2, <2>1
      <4>2. i # 0 => g[i - 1] = f[i - 1]
        BY <4>1, <2>1
      <4>. QED  BY <4>1, <4>2, <2>3
    <3>. QED  BY <3>1, <3>2
  <2>7. Iterates(g, A, a, h, k)
    BY <2>5, <2>6 DEF Iterates
  <2>. QED  BY <2>7
<1>. QED  BY <1>3, <1>4

(* ... and a shorter one is the beginning of a longer one.                 *)
LEMMA IterationAgrees ==
    ASSUME NEW A, NEW a \in A, NEW n \in Nat, NEW h \in [1 .. n -> [A -> A]],
           NEW m \in Nat, m <= n, NEW e, Iterates(e, A, a, h, m),
           NEW f, Iterates(f, A, a, h, n), NEW i \in 0 .. m
    PROVE  e[i] = f[i]
<1>. DEFINE T == {k \in Nat : k <= m /\ e[k] # f[k]}
<1>1. SUFFICES ASSUME T # {} PROVE FALSE
  OBVIOUS
<1>2. PICK k \in T : \A j \in T : k <= j
  BY <1>1, Least
<1>3. k # 0
  BY <1>2 DEF Iterates
<1>4. k - 1 \in Nat /\ k - 1 \notin T
  BY <1>2, <1>3
<1>5. e[k] = h[k][e[k - 1]] /\ f[k] = h[k][f[k - 1]]
  BY <1>2, <1>3 DEF Iterates
<1>. QED  BY <1>2, <1>4, <1>5

-----------------------------------------------------------------------------
(* Constants.                                                              *)

(* What V42bisAssumption says of the sizes, one by one.                    *)
LEMMA Constant ==
    /\ CharSize \in Nat /\ CharSize >= 1
    /\ TotalChars \in Nat /\ TotalChars >= 2
    /\ FirstFree \in Nat /\ FirstFree = TotalChars + 3 /\ FirstEntry = 3
    /\ DictSize \in Nat /\ FirstFree < DictSize
    /\ MaxString \in Nat /\ MaxString >= 1
    /\ InfoSize \in Nat /\ InfoSize >= 1
    /\ BufSize \in Nat /\ BufSize >= MaxString
    /\ MaxCwSize \in Nat /\ CharSize < MaxCwSize /\ DictSize <= pow2[MaxCwSize]
<1>1. CharSize \in Nat /\ CharSize >= 1 /\ CharSize - 1 \in Nat /\ (CharSize - 1) + 1 = CharSize
  BY V42bisAssumption
<1>2. pow2[CharSize] = 2 * pow2[CharSize - 1] /\ pow2[CharSize - 1] \in Nat
      /\ pow2[CharSize - 1] > 0
  BY <1>1, PowDef, PowNat
<1>3. TotalChars \in Nat /\ TotalChars >= 2
  BY <1>2 DEF TotalChars
<1>. QED  BY <1>1, <1>3, V42bisAssumption DEF FirstFree, FirstEntry

(* The commands and the first entries are bytes and codewords, and none is *)
(* taken for another.                                                      *)
LEMMA Commands ==
    /\ 0 \in Byte /\ CC_ECM \in Byte /\ CC_EID \in Byte /\ CC_ECM # CC_EID
    /\ CC_ECM = 0 /\ CC_EID = 1
    /\ FreeEntry \subseteq Codeword /\ Codeword \subseteq Nat
    /\ FirstFree \in FreeEntry /\ 0 \in Codeword /\ 0 \notin FreeEntry
    /\ \A x \in Byte : (x + EscapeStep) % TotalChars \in Byte
    /\ \A x \in Byte : x + FirstEntry \in Codeword /\ x + FirstEntry \notin FreeEntry
                       /\ x + FirstEntry # 0 /\ x + FirstEntry >= FirstEntry
BY Constant DEF Byte, CC_ECM, CC_EID, FreeEntry, Codeword, EscapeStep

-----------------------------------------------------------------------------
(* Escape characters.                                                      *)

Escaped == [out : Seq(Byte), esc : Byte]

escape_next(a, x) ==
    IF x = a.esc
    THEN [out |-> a.out \o <<x, CC_EID>>, esc |-> (a.esc + EscapeStep) % TotalChars]
    ELSE [out |-> Append(a.out, x), esc |-> a.esc]

escape_first(esc) == [out |-> <<>>, esc |-> esc]

(* Escaping one character more keeps the type ...                          *)
LEMMA EscapeNextType ==
    ASSUME NEW a \in Escaped, NEW x \in Byte
    PROVE  escape_next(a, x) \in Escaped
<1>1. a.out \in Seq(Byte) /\ a.esc \in Byte
  BY DEF Escaped
<1>2. <<x, CC_EID>> \in Seq(Byte)
  BY Commands
<1>3. a.out \o <<x, CC_EID>> \in Seq(Byte) /\ Append(a.out, x) \in Seq(Byte)
  BY <1>1, <1>2
<1>. QED  BY <1>1, <1>3, Commands DEF Escaped, escape_next

(* ... that the beginning has.                                             *)
LEMMA EscapeFirstType ==
    ASSUME NEW esc \in Byte
    PROVE  escape_first(esc) \in Escaped
<1>1. <<>> \in Seq(Byte)
  OBVIOUS
<1>. QED  BY <1>1 DEF escape_first, Escaped

(* What the characters of str do.                                          *)
EscapeSteps(str) == [i \in 1 .. Len(str) |-> [a \in Escaped |-> escape_next(a, str[i])]]

(* The steps are functions on what has been escaped.                       *)
LEMMA EscapeStepsType ==
    ASSUME NEW str \in Seq(Byte)
    PROVE  /\ Len(str) \in Nat
           /\ EscapeSteps(str) \in [1 .. Len(str) -> [Escaped -> Escaped]]
           /\ \A i \in 1 .. Len(str), a \in Escaped :
                 EscapeSteps(str)[i][a] = escape_next(a, str[i])
<1>1. \A i \in 1 .. Len(str) : [a \in Escaped |-> escape_next(a, str[i])] \in [Escaped -> Escaped]
  BY EscapeNextType
<1>. QED  BY <1>1 DEF EscapeSteps

(* The recursive function escapes, unfolded: it escapes a character at a   *)
(* time.                                                                   *)
LEMMA EscapesDef ==
    ASSUME NEW esc \in Byte, NEW str \in Seq(Byte)
    PROVE  Iterates(escapes(esc, str), Escaped, escape_first(esc), EscapeSteps(str), Len(str))
<1>. DEFINE R(f) == f = [i \in 0 .. Len(str) |->
                           IF i = 0 THEN escape_first(esc) ELSE escape_next(f[i - 1], str[i])]
<1>1. PICK g : Iterates(g, Escaped, escape_first(esc), EscapeSteps(str), Len(str))
  BY EscapeFirstType, EscapeStepsType, IterationExists
<1>2. R(g)
  <2>1. g \in [0 .. Len(str) -> Escaped]
    BY <1>1 DEF Iterates
  <2>2. \A i \in 0 .. Len(str) :
           g[i] = IF i = 0 THEN escape_first(esc) ELSE escape_next(g[i - 1], str[i])
    <3>. TAKE i \in 0 .. Len(str)
    <3>1. CASE i = 0
      BY <3>1, <1>1 DEF Iterates
    <3>2. CASE i # 0
      <4>1. i \in 1 .. Len(str) /\ g[i - 1] \in Escaped
        BY <3>2, <2>1, EscapeStepsType
      <4>2. g[i] = EscapeSteps(str)[i][g[i - 1]]
        BY <3>2, <1>1 DEF Iterates
      <4>. QED  BY <4>1, <4>2, <3>2, EscapeStepsType
    <3>. QED  BY <3>1, <3>2
  <2>. QED  BY <2>1, <2>2
<1>3. escapes(esc, str) = CHOOSE f : R(f)
  BY DEF escapes, escape_first, escape_next
<1>. HIDE DEF R
<1>4. R(CHOOSE f : R(f))
  BY <1>2
<1>5. R(escapes(esc, str))
  BY <1>3, <1>4
<1>. DEFINE E == escapes(esc, str)
<1>6. \A i \in 0 .. Len(str) :
         E[i] = IF i = 0 THEN escape_first(esc) ELSE escape_next(E[i - 1], str[i])
  BY <1>5 DEF R
<1>7. DOMAIN E = 0 .. Len(str) /\ E = [i \in 0 .. Len(str) |-> E[i]]
  BY <1>5 DEF R
<1>. HIDE DEF E
<1>8. \A i \in 0 .. Len(str) : E[i] \in Escaped
  <2>. DEFINE T == {k \in Nat : k <= Len(str) /\ E[k] \notin Escaped}
  <2>1. SUFFICES ASSUME T # {} PROVE FALSE
    BY EscapeStepsType
  <2>2. PICK k \in T : \A j \in T : k <= j
    BY <2>1, Least
  <2>3. k # 0
    BY <1>6, <2>2, EscapeFirstType, EscapeStepsType
  <2>4. k \in 1 .. Len(str) /\ k - 1 \in Nat /\ E[k - 1] \in Escaped
    BY <2>2, <2>3, EscapeStepsType
  <2>5. E[k] = escape_next(E[k - 1], str[k]) /\ str[k] \in Byte
    BY <1>6, <2>3, <2>4
  <2>. QED  BY <2>2, <2>4, <2>5, EscapeNextType
<1>9. \A i \in 0 .. Len(str) :
         E[i] = IF i = 0 THEN escape_first(esc) ELSE EscapeSteps(str)[i][E[i - 1]]
  BY <1>6, <1>8, EscapeStepsType
<1>10. E \in [0 .. Len(str) -> Escaped]
  BY <1>7, <1>8
<1>. QED  BY <1>9, <1>10 DEF Iterates, E

(* What send_data writes in transparent mode are bytes, and so is the      *)
(* escape character it leaves.                                             *)
LEMMA EscapesType ==
    ASSUME NEW esc \in Byte, NEW str \in Seq(Byte)
    PROVE  escaped(esc, str) \in Seq(Byte) /\ escape_after(esc, str) \in Byte
<1>1. escapes(esc, str)[Len(str)] \in Escaped
  BY EscapesDef, EscapeStepsType DEF Iterates
<1>. QED  BY <1>1 DEF escaped, escape_after, Escaped

(* No characters are written as no bytes ...                               *)
LEMMA EscapesNil ==
    ASSUME NEW esc \in Byte
    PROVE  escaped(esc, <<>>) = <<>> /\ escape_after(esc, <<>>) = esc
<1>0. <<>> \in Seq(Byte) /\ Len(<<>>) = 0 /\ 0 \in 0 .. 0
  OBVIOUS
<1>1. Iterates(escapes(esc, <<>>), Escaped, escape_first(esc), EscapeSteps(<<>>), 0)
  BY <1>0, EscapesDef
<1>2. escapes(esc, <<>>)[0] = escape_first(esc)
  BY <1>0, <1>1 DEF Iterates
<1>. QED  BY <1>0, <1>2 DEF escaped, escape_after, escape_first

(* ... and one character more as itself, followed by EID if it is the      *)
(* escape character, which then changes.                                   *)
LEMMA EscapesAppend ==
    ASSUME NEW esc \in Byte, NEW str \in Seq(Byte), NEW x \in Byte
    PROVE  LET e == escape_after(esc, str)
           IN  /\ escaped(esc, Append(str, x)) =
                    escaped(esc, str) \o (IF x = e THEN <<x, CC_EID>> ELSE <<x>>)
               /\ escape_after(esc, Append(str, x)) =
                    IF x = e THEN (e + EscapeStep) % TotalChars ELSE e
<1>. DEFINE t == Append(str, x)
            n == Len(str)
            a == escapes(esc, str)[n]
<1>1. t \in Seq(Byte) /\ Len(t) = n + 1 /\ n \in Nat /\ t[n + 1] = x
      /\ \A i \in 1 .. n : t[i] = str[i]
  OBVIOUS
<1>2. Iterates(escapes(esc, str), Escaped, escape_first(esc), EscapeSteps(str), n)
  BY EscapesDef
<1>3. Iterates(escapes(esc, str), Escaped, escape_first(esc), EscapeSteps(t), n)
  <2>1. \A i \in 1 .. n : EscapeSteps(t)[i] = EscapeSteps(str)[i]
    BY <1>1 DEF EscapeSteps
  <2>2. \A i \in 0 .. n : i # 0 => i \in 1 .. n
    BY <1>1
  <2>. HIDE DEF n, t
  <2>. QED  BY <1>2, <2>1, <2>2 DEF Iterates
<1>4. Iterates(escapes(esc, t), Escaped, escape_first(esc), EscapeSteps(t), n + 1)
  BY <1>1, EscapesDef
<1>5. escapes(esc, t)[n] = a
  <2>1. EscapeSteps(t) \in [1 .. n + 1 -> [Escaped -> Escaped]]
    BY <1>1, EscapeStepsType
  <2>2. escape_first(esc) \in Escaped /\ n + 1 \in Nat /\ n <= n + 1 /\ n \in 0 .. n
    BY <1>1, EscapeFirstType
  <2>. HIDE DEF n, t, a
  <2>3. escapes(esc, str)[n] = escapes(esc, t)[n]
    BY <1>1, <1>3, <1>4, <2>1, <2>2, IterationAgrees
  <2>. QED  BY <2>3 DEF a
<1>6. a \in Escaped
  BY <1>1, <1>2 DEF Iterates
<1>7. escapes(esc, t)[n + 1] = escape_next(a, x)
  <2>1. escapes(esc, t)[n + 1] = EscapeSteps(t)[n + 1][a]
    BY <1>1, <1>4, <1>5 DEF Iterates
  <2>2. n + 1 \in 1 .. Len(t)
    BY <1>1
  <2>. HIDE DEF n, t, a
  <2>3. EscapeSteps(t)[n + 1][a] = escape_next(a, t[n + 1])
    BY <2>2, <1>1, <1>6, EscapeStepsType
  <2>. QED  BY <2>1, <2>3, <1>1
<1>8. a.out = escaped(esc, str) /\ a.esc = escape_after(esc, str) /\ a.out \in Seq(Byte)
  BY <1>6 DEF escaped, escape_after, Escaped
<1>9. escaped(esc, t) = escape_next(a, x).out /\ escape_after(esc, t) = escape_next(a, x).esc
  BY <1>1, <1>7 DEF escaped, escape_after
<1>10. Append(a.out, x) = a.out \o <<x>>
  BY <1>8
<1>. QED  BY <1>8, <1>9, <1>10 DEF escape_next

-----------------------------------------------------------------------------
(* The dictionary.                                                         *)

(* g is built up from the entries of c, and spells them.                   *)
Builds(g, c) ==
    /\ g = [e \in Codeword |-> g[e]]
    /\ \A e \in Codeword :
          g[e] = IF e < FirstFree THEN <<e - FirstEntry>>
                 ELSE IF c.parent[e] = 0 THEN <<c.ch[e]>>
                 ELSE Append(g[c.parent[e]], c.ch[e])

Spells(g, c) == g \in [Codeword -> Seq(Int)] /\ Builds(g, c)

(* The parts of a comp_state that make the dictionary.                     *)
DictType(c) ==
    /\ c.parent \in [FreeEntry -> Codeword] /\ c.ch \in [FreeEntry -> Byte]
    /\ c.next_free \in FreeEntry

(* Nothing hangs on the entry that is the next to be used, and every entry *)
(* has a string: the walk of recv_data to the root ends.                   *)
DictOK(c) ==
    /\ DictType(c)
    /\ \A f \in FreeEntry : c.parent[f] # c.next_free
    /\ \E g : Spells(g, c)

SameDict(a, b) == a.parent = b.parent /\ a.ch = b.ch /\ a.next_free = b.next_free

(* A codeword that is not fixed is an entry ...                            *)
LEMMA EntryFree ==
    ASSUME NEW e \in Codeword, ~ (e < FirstFree)
    PROVE  e \in FreeEntry
BY Constant DEF Codeword, FreeEntry

(* ... and an entry is a codeword that is not fixed.                       *)
LEMMA FreeAbove ==
    ASSUME NEW e \in FreeEntry
    PROVE  e \in Codeword /\ ~ (e < FirstFree) /\ e # 0
BY Constant DEF Codeword, FreeEntry

(* An entry spells one string only.                                        *)
LEMMA SpellsUnique ==
    ASSUME NEW c, DictType(c), NEW g, Spells(g, c), NEW h, Builds(h, c)
    PROVE  g = h
<1>. DEFINE B == {e \in Codeword : g[e] # h[e]}
            T == {Len(g[e]) : e \in B}
<1>1. g \in [Codeword -> Seq(Int)] /\ h = [e \in Codeword |-> h[e]] /\ Builds(g, c)
  BY DEF Spells, Builds
<1>2. SUFFICES ASSUME B # {} PROVE FALSE
  BY <1>1
<1>3. T \subseteq Nat /\ T # {}
  <2>1. \A e \in B : Len(g[e]) \in Nat
    BY <1>1
  <2>. QED  BY <1>2, <2>1
<1>4. PICK n \in T : \A m \in T : n <= m
  BY <1>3, Least
<1>5. PICK e \in B : n = Len(g[e])
  BY <1>4
<1>6. e \in FreeEntry /\ ~ (e < FirstFree)
  BY <1>1, <1>5, EntryFree DEF Builds
<1>. DEFINE q == c.parent[e]
<1>7. q \in Codeword /\ q # 0
  BY <1>1, <1>5, <1>6 DEF Builds, DictType
<1>8. g[e] = Append(g[q], c.ch[e]) /\ h[e] = Append(h[q], c.ch[e])
  BY <1>1, <1>5, <1>6, <1>7 DEF Builds
<1>9. q \in B
  BY <1>5, <1>7, <1>8
<1>10. Len(g[q]) \in T
  BY <1>9
<1>11. g[q] \in Seq(Int) /\ Len(Append(g[q], c.ch[e])) = Len(g[q]) + 1 /\ Len(g[q]) \in Nat
  BY <1>1, <1>7
<1>12. n <= Len(g[q]) /\ n = Len(g[q]) + 1
  BY <1>4, <1>5, <1>8, <1>10, <1>11
<1>. QED  BY <1>11, <1>12

(* strings is the function that spells the entries.                        *)
LEMMA StringsSpell ==
    ASSUME NEW c, DictType(c), \E g : Spells(g, c)
    PROVE  Spells(strings(c), c) /\ Builds(strings(c), c)
<1>. DEFINE R(s) == s = [e \in Codeword |->
                           IF e < FirstFree THEN <<e - FirstEntry>>
                           ELSE IF c.parent[e] = 0 THEN <<c.ch[e]>>
                           ELSE Append(s[c.parent[e]], c.ch[e])]
<1>1. PICK g : Spells(g, c)
  OBVIOUS
<1>2. R(g)
  BY <1>1 DEF Spells, Builds
<1>3. strings(c) = CHOOSE s : R(s)
  BY DEF strings
<1>. HIDE DEF R
<1>4. R(strings(c))
  BY <1>2, <1>3
<1>5. Builds(strings(c), c)
  BY <1>4 DEF R, Builds
<1>6. g = strings(c)
  BY <1>1, <1>5, SpellsUnique
<1>. QED  BY <1>1, <1>5, <1>6

(* match_char finds a root, or a child of the entry with the character,    *)
(* and never the entry that is the next to be used.                        *)
LEMMA MatchChar ==
    ASSUME NEW c, DictType(c), NEW at \in Codeword, NEW x \in Byte
    PROVE  LET m == match_char(c, at, x)
           IN  /\ m \in Codeword /\ m # c.next_free
               /\ at = 0 => m = x + FirstEntry /\ m # 0 /\ m \notin FreeEntry
               /\ at # 0 /\ m # 0 => m \in FreeEntry /\ c.parent[m] = at /\ c.ch[m] = x
<1>. DEFINE found == {e \in FreeEntry : c.parent[e] = at /\ e # c.next_free /\ c.ch[e] = x}
            m == match_char(c, at, x)
<1>1. m = IF at = 0 THEN x + FirstEntry
          ELSE IF found = {} THEN 0 ELSE CHOOSE e \in found : TRUE
  BY DEF match_char
<1>2. CASE at = 0
  <2>1. m = x + FirstEntry
    BY <1>1, <1>2
  <2>2. m \in Codeword /\ m \notin FreeEntry /\ m # 0
    BY <2>1, Commands
  <2>3. m # c.next_free
    BY <2>2 DEF DictType
  <2>. QED  BY <1>2, <2>1, <2>2, <2>3
<1>3. CASE at # 0 /\ found = {}
  <2>1. m = 0 /\ 0 \in Codeword /\ 0 \notin FreeEntry
    BY <1>1, <1>3, Commands
  <2>. QED  BY <2>1, <1>3 DEF DictType
<1>4. CASE at # 0 /\ found # {}
  <2>1. m = CHOOSE e \in found : TRUE
    BY <1>1, <1>4
  <2>2. m \in found
    BY <2>1, <1>4
  <2>3. m \in Codeword
    BY <2>2, FreeAbove
  <2>. QED  BY <2>2, <2>3, <1>4
<1>. QED  BY <1>2, <1>3, <1>4

(* match_char depends on the dictionary only.                              *)
LEMMA MatchSame ==
    ASSUME NEW a, NEW b, SameDict(a, b), NEW at, NEW x
    PROVE  match_char(a, at, x) = match_char(b, at, x)
BY DEF match_char, SameDict

(* Equal dictionaries are sound together and spell the same strings.       *)
LEMMA DictSame ==
    ASSUME NEW a, NEW b, SameDict(a, b), DictOK(a)
    PROVE  DictOK(b) /\ DictType(b) /\ strings(a) = strings(b)
<1>1. DictType(a) /\ DictType(b)
  BY DEF DictOK, DictType, SameDict
<1>2. \A g : Spells(g, a) => Spells(g, b)
  BY DEF Spells, Builds, SameDict
<1>3. DictOK(b)
  BY <1>1, <1>2 DEF DictOK, SameDict
<1>4. Spells(strings(a), a) /\ Builds(strings(b), b)
  BY <1>1, <1>3, StringsSpell DEF DictOK
<1>. QED  BY <1>1, <1>2, <1>3, <1>4, SpellsUnique

(* The entry that match_char finds spells one character more.              *)
LEMMA MatchSpells ==
    ASSUME NEW c, DictOK(c), NEW at \in Codeword, NEW x \in Byte, match_char(c, at, x) # 0
    PROVE  /\ at = 0 => strings(c)[match_char(c, at, x)] = <<x>>
           /\ at # 0 => strings(c)[match_char(c, at, x)] = Append(strings(c)[at], x)
<1>. DEFINE m == match_char(c, at, x)
<1>1. DictType(c) /\ Builds(strings(c), c)
  BY StringsSpell DEF DictOK
<1>2. /\ m \in Codeword
      /\ at = 0 => m = x + FirstEntry /\ m \notin FreeEntry
      /\ at # 0 => m \in FreeEntry /\ c.parent[m] = at /\ c.ch[m] = x
  BY <1>1, MatchChar
<1>. HIDE DEF m
<1>3. CASE at = 0
  <2>1. m < FirstFree /\ m - FirstEntry = x
    BY <1>2, <1>3, EntryFree, Constant DEF Byte
  <2>. QED  BY <2>1, <1>1, <1>2, <1>3 DEF Builds, m
<1>4. CASE at # 0
  <2>1. ~ (m < FirstFree)
    BY <1>2, <1>4, FreeAbove
  <2>. QED  BY <2>1, <1>1, <1>2, <1>4 DEF Builds, m
<1>. QED  BY <1>3, <1>4

(* The fields of a comp_state have their types.                            *)
LEMMA CompFields ==
    ASSUME NEW c \in CompType
    PROVE  /\ c.mode \in {"TRANSPARENT", "COMPRESSED"} /\ c.escape \in BOOLEAN
           /\ c.err \in BOOLEAN /\ c.update_at \in Codeword /\ c.next_free \in FreeEntry
           /\ c.last_matched \in Codeword /\ c.last_added \in Codeword /\ c.cw_size \in Nat
           /\ c.escape_char \in Byte /\ c.parent \in [FreeEntry -> Codeword]
           /\ c.ch \in [FreeEntry -> Byte] /\ c.bit_len \in Nat /\ c.bit_data \in Nat
           /\ c.flushed_len \in Nat /\ c.str \in Seq(Byte) /\ c.obuf \in Seq(Byte)
           /\ DictType(c)
BY DEF CompType, DictType

(* c with the dictionary of a.                                             *)
Redict(c, a) ==
    [c EXCEPT !.parent = a.parent, !.ch = a.ch, !.last_added = a.last_added,
              !.next_free = a.next_free, !.update_at = a.update_at]

(* add_char: the new entry spells one character more than the one it hangs *)
(* on, the others what they spelled, and nothing hangs on the entry that   *)
(* is now the next to be used.                                             *)
LEMMA AddChar ==
    ASSUME NEW c \in CompType, DictOK(c), NEW at \in Codeword, at # 0,
           at # c.next_free, NEW x \in Byte
    PROVE  LET a == add_char(c, at, x)
           IN  /\ a \in CompType /\ DictOK(a)
               /\ a = Redict(c, a) /\ a.last_added = c.next_free
               /\ \A e \in Codeword : e # c.next_free => strings(a)[e] = strings(c)[e]
<1>. DEFINE new == c.next_free
            parent == [c.parent EXCEPT ![new] = at]
            ch == [c.ch EXCEPT ![new] = x]
            leaves == {e \in FreeEntry : \A f \in FreeEntry : parent[f] # e}
            after(e) == (e - new - 1) % (DictSize - FirstFree)
            next == CHOOSE e \in leaves : \A f \in leaves : after(e) <= after(f)
            a == add_char(c, at, x)
<1>1. /\ c.parent \in [FreeEntry -> Codeword] /\ c.ch \in [FreeEntry -> Byte]
      /\ new \in FreeEntry /\ new \in Codeword /\ DictType(c)
      /\ \A f \in FreeEntry : c.parent[f] # new
  BY CompFields, FreeAbove DEF DictOK
<1>2. parent \in [FreeEntry -> Codeword] /\ ch \in [FreeEntry -> Byte]
  BY <1>1
<1>3. a = [c EXCEPT !.parent = parent, !.ch = ch, !.last_added = new, !.next_free = next]
  BY DEF add_char
<1>4. next \in leaves
  <2>1. new \in leaves
    BY <1>1
  <2>. DEFINE T == {after(e) : e \in leaves}
  <2>2. T \subseteq Nat /\ T # {}
    <3>1. \A e \in leaves : after(e) \in Nat
      <4>. TAKE e \in leaves
      <4>1. e - new - 1 \in Int /\ DictSize - FirstFree \in Nat /\ DictSize - FirstFree > 0
        BY <1>1, Constant DEF FreeEntry
      <4>. QED  BY <4>1
    <3>. HIDE DEF after, leaves
    <3>. QED  BY <2>1, <3>1
  <2>. HIDE DEF after, leaves
  <2>3. PICK n \in T : \A m \in T : n <= m
    BY <2>2, Least
  <2>4. PICK e \in leaves : n = after(e)
    BY <2>3
  <2>5. \A f \in leaves : after(e) <= after(f)
    BY <2>3, <2>4
  <2>. QED  BY <2>4, <2>5
<1>. HIDE DEF next
<1>5. next \in FreeEntry /\ \A f \in FreeEntry : parent[f] # next
  BY <1>4
<1>. HIDE DEF parent, ch
<1>6. a.parent = parent /\ a.ch = ch /\ a.next_free = next /\ a.last_added = new
      /\ a.update_at = c.update_at
  BY <1>3 DEF CompType
<1>61. a = Redict(c, a)
  <2>. HIDE DEF a, new
  <2>. QED  BY <1>3, <1>6 DEF CompType, Redict
<1>7. a \in CompType
  <2>1. new \in Codeword
    BY <1>1
  <2>. HIDE DEF new, a
  <2>. QED  BY <1>2, <1>3, <1>5, <2>1 DEF CompType
<1>8. DictType(a)
  BY <1>2, <1>5, <1>6 DEF DictType
<1>. DEFINE g == strings(c)
            h == [g EXCEPT ![new] = Append(g[at], x)]
<1>9. Spells(g, c) /\ Builds(g, c) /\ g \in [Codeword -> Seq(Int)]
  BY StringsSpell, <1>1 DEF DictOK, Spells
<1>10. h \in [Codeword -> Seq(Int)]
  BY <1>1, <1>9 DEF Byte
<1>. HIDE DEF g
<1>11. \A e \in Codeword : h[e] = IF e < FirstFree THEN <<e - FirstEntry>>
                                 ELSE IF a.parent[e] = 0 THEN <<a.ch[e]>>
                                 ELSE Append(h[a.parent[e]], a.ch[e])
  <2>. TAKE e \in Codeword
  <2>1. CASE e = new
    <3>1. a.parent[e] = at /\ a.ch[e] = x /\ ~ (e < FirstFree) /\ h[e] = Append(g[at], x)
          /\ h[at] = g[at]
      BY <2>1, <1>1, <1>6, <1>9, FreeAbove DEF parent, ch
    <3>. QED  BY <3>1
  <2>2. CASE e # new /\ e < FirstFree
    BY <2>2, <1>9 DEF Builds
  <2>3. CASE e # new /\ ~ (e < FirstFree)
    <3>1. e \in FreeEntry /\ a.parent[e] = c.parent[e] /\ a.ch[e] = c.ch[e] /\ h[e] = g[e]
      BY <2>3, <1>1, <1>6, <1>9, EntryFree DEF parent, ch
    <3>2. c.parent[e] # new /\ c.parent[e] \in Codeword
      BY <3>1, <1>1
    <3>3. h[c.parent[e]] = g[c.parent[e]]
      BY <3>2, <1>9
    <3>. QED  BY <3>1, <3>3, <2>3, <1>9 DEF Builds
  <2>. QED  BY <2>1, <2>2, <2>3
<1>12. Spells(h, a)
  BY <1>11, <1>10 DEF Spells, Builds
<1>13. DictOK(a)
  BY <1>5, <1>6, <1>8, <1>12 DEF DictOK
<1>14. strings(a) = h
  BY <1>8, <1>12, StringsSpell, SpellsUnique
<1>15. \A e \in Codeword : e # new => h[e] = g[e]
  BY <1>9
<1>. QED  BY <1>61, <1>6, <1>7, <1>13, <1>14, <1>15 DEF g

(* updated: an entry is added on the next free place, or none.             *)
LEMMA Updated ==
    ASSUME NEW c \in CompType, DictOK(c), c.update_at # c.next_free, NEW x \in Byte
    PROVE  LET u == updated(c, x)
           IN  /\ u \in CompType /\ DictOK(u) /\ u.update_at = 0
               /\ u = Redict(c, u)
               /\ \/ SameDict(u, c) /\ u.last_added = c.last_added
                  \/ /\ c.update_at # 0 /\ match_char(c, c.update_at, x) = 0
                     /\ u.last_added = c.next_free
               /\ \A e \in Codeword : e # c.next_free => strings(u)[e] = strings(c)[e]
<1>. DEFINE u == updated(c, x)
            a == add_char(c, c.update_at, x)
<1>1. c.update_at \in Codeword /\ 0 \in Codeword
  BY CompFields, Commands
<1>2. CASE c.update_at = 0
  <2>1. u = c
    BY <1>2 DEF updated
  <2>2. c = Redict(c, c)
    BY <1>2 DEF CompType, Redict
  <2>. QED  BY <2>1, <2>2, <1>2 DEF SameDict
<1>3. CASE c.update_at # 0 /\ match_char(c, c.update_at, x) # 0
  <2>1. u = [c EXCEPT !.update_at = 0]
    BY <1>3 DEF updated
  <2>2. /\ u \in CompType /\ u.parent = c.parent /\ u.ch = c.ch /\ u.next_free = c.next_free
        /\ u.last_added = c.last_added /\ u.update_at = 0
        /\ u = Redict(c, u)
    BY <2>1, <1>1 DEF CompType, Redict
  <2>3. SameDict(u, c) /\ SameDict(c, u)
    BY <2>2 DEF SameDict
  <2>4. DictOK(u) /\ strings(u) = strings(c)
    BY <2>3, DictSame
  <2>. QED  BY <2>2, <2>3, <2>4
<1>4. CASE c.update_at # 0 /\ match_char(c, c.update_at, x) = 0
  <2>1. u = [a EXCEPT !.update_at = 0]
    BY <1>4 DEF updated
  <2>2. /\ a \in CompType /\ DictOK(a)
        /\ a = Redict(c, a) /\ a.last_added = c.next_free
        /\ \A e \in Codeword : e # c.next_free => strings(a)[e] = strings(c)[e]
    BY <1>1, <1>4, AddChar
  <2>. HIDE DEF a, u
  <2>3. /\ u \in CompType /\ u.parent = a.parent /\ u.ch = a.ch /\ u.next_free = a.next_free
        /\ u.last_added = a.last_added /\ u.update_at = 0
    BY <2>1, <2>2, <1>1 DEF CompType
  <2>5. u = Redict(c, u)
    BY <2>1, <2>2, <2>3 DEF CompType, Redict
  <2>6. SameDict(a, u)
    BY <2>3 DEF SameDict
  <2>7. DictOK(u) /\ strings(u) = strings(a)
    BY <2>2, <2>6, DictSame
  <2>. QED  BY <2>2, <2>3, <2>5, <2>7, <1>4 DEF u
<1>. QED  BY <1>2, <1>3, <1>4

-----------------------------------------------------------------------------
(* What the decoder makes of a sequence of bytes.                          *)

(* A decoder as if it had just been flushed: when it shows its characters  *)
(* makes no difference to what it decodes.                                 *)
View(c) ==
    [c EXCEPT !.str = <<>>, !.obuf = <<>>, !.flushed_len = c.flushed_len + Len(c.str)]

(* A point of the decoder's way through the bytes: its view, and how many  *)
(* characters of the text it has.                                          *)
Point == [d : CompType, n : Nat]

Viewed(p) == p \in Point /\ p.d.str = <<>> /\ p.d.obuf = <<>>

(* The decoder becomes y, without error, the next characters of the text T *)
(* in it.                                                                  *)
Yields(p, y, q, T) ==
    /\ y \in CompType /\ ~ y.err
    /\ y.mode = "COMPRESSED" => y.str = <<>>
    /\ q = [d |-> View(y), n |-> p.n + Len(y.obuf) + Len(y.str)]
    /\ q.n <= Len(T) /\ y.obuf \o y.str = SubSeq(T, p.n + 1, q.n)
    /\ p.d.flushed_len + Len(y.obuf) + Len(y.str) <= MaxString

Step(p, x, q, T) == Viewed(p) /\ Yields(p, comp_decode(p.d, x), q, T)

Trace(tr, p, s, q, T) ==
    /\ tr \in [0 .. Len(s) -> Point] /\ tr[0] = p /\ tr[Len(s)] = q
    /\ \A i \in 1 .. Len(s) : Step(tr[i - 1], s[i], tr[i], T)

Decodes(p, s, q, T) == Viewed(p) /\ Viewed(q) /\ \E tr : Trace(tr, p, s, q, T)

(* The fields of a view: only the string, the output and the flushed       *)
(* length differ.                                                          *)
LEMMA ViewType ==
    ASSUME NEW c \in CompType
    PROVE  /\ View(c) \in CompType /\ View(c).str = <<>> /\ View(c).obuf = <<>>
           /\ View(c).flushed_len = c.flushed_len + Len(c.str)
           /\ View(c).mode = c.mode /\ View(c).escape = c.escape /\ View(c).err = c.err
           /\ View(c).update_at = c.update_at /\ View(c).next_free = c.next_free
           /\ View(c).last_matched = c.last_matched /\ View(c).last_added = c.last_added
           /\ View(c).cw_size = c.cw_size /\ View(c).escape_char = c.escape_char
           /\ View(c).parent = c.parent /\ View(c).ch = c.ch
           /\ View(c).bit_len = c.bit_len /\ View(c).bit_data = c.bit_data
<1>1. <<>> \in Seq(Byte) /\ c.flushed_len + Len(c.str) \in Nat
  BY CompFields
<1>. QED  BY <1>1 DEF CompType, View

(* What the decoder becomes is a point again.                              *)
LEMMA YieldsViewed ==
    ASSUME NEW p \in Point, NEW y, NEW q, NEW T, Yields(p, y, q, T)
    PROVE  Viewed(q)
<1>1. y.obuf \in Seq(Byte) /\ y.str \in Seq(Byte)
  BY CompFields DEF Yields
<1>2. p.n + Len(y.obuf) + Len(y.str) \in Nat
  BY <1>1 DEF Point
<1>. QED  BY <1>2, ViewType DEF Yields, Viewed, Point

(* No bytes lead from a point to itself ...                                *)
LEMMA DecodesNil ==
    ASSUME NEW p, Viewed(p), NEW T
    PROVE  Decodes(p, <<>>, p, T)
<1>1. Trace([i \in 0 .. 0 |-> p], p, <<>>, p, T)
  BY DEF Trace, Viewed
<1>. QED  BY <1>1 DEF Decodes

(* ... and nowhere else.                                                   *)
LEMMA DecodesNilSame ==
    ASSUME NEW p, NEW q, NEW T, Decodes(p, <<>>, q, T)
    PROVE  p = q
BY DEF Decodes, Trace

(* One byte is a way.                                                      *)
LEMMA DecodesOne ==
    ASSUME NEW p, NEW x, NEW q, NEW T, Step(p, x, q, T)
    PROVE  Decodes(p, <<x>>, q, T)
<1>1. Viewed(p) /\ Viewed(q) /\ p \in Point /\ q \in Point
  BY YieldsViewed DEF Step, Viewed
<1>. DEFINE tr == [i \in 0 .. 1 |-> IF i = 0 THEN p ELSE q]
<1>2. tr \in [0 .. 1 -> Point] /\ tr[0] = p /\ tr[1] = q
  BY <1>1
<1>. HIDE DEF tr
<1>3. Trace(tr, p, <<x>>, q, T)
  <2>1. Len(<<x>>) = 1 /\ \A i \in 1 .. 1 : i = 1 /\ i - 1 = 0 /\ <<x>>[i] = x
    OBVIOUS
  <2>. QED  BY <1>2, <2>1 DEF Trace
<1>. QED  BY <1>1, <1>3 DEF Decodes

(* Two ways make one.                                                      *)
LEMMA DecodesJoin ==
    ASSUME NEW p, NEW s \in Seq(Byte), NEW q, NEW u \in Seq(Byte), NEW r, NEW T,
           Decodes(p, s, q, T), Decodes(q, u, r, T)
    PROVE  Decodes(p, s \o u, r, T)
<1>1. PICK f : Trace(f, p, s, q, T)
  BY DEF Decodes
<1>2. PICK g : Trace(g, q, u, r, T)
  BY DEF Decodes
<1>. DEFINE n == Len(s)
            m == Len(u)
            h == [i \in 0 .. n + m |-> IF i <= n THEN f[i] ELSE g[i - n]]
<1>3. n \in Nat /\ m \in Nat /\ Len(s \o u) = n + m
      /\ \A i \in 1 .. n + m : (s \o u)[i] = IF i <= n THEN s[i] ELSE u[i - n]
  OBVIOUS
<1>4. f \in [0 .. n -> Point] /\ f[0] = p /\ f[n] = q
      /\ \A i \in 1 .. n : Step(f[i - 1], s[i], f[i], T)
  BY <1>1 DEF Trace
<1>5. g \in [0 .. m -> Point] /\ g[0] = q /\ g[m] = r
      /\ \A i \in 1 .. m : Step(g[i - 1], u[i], g[i], T)
  BY <1>2 DEF Trace
<1>. HIDE DEF n, m
<1>6. \A i \in 0 .. n + m : /\ i <= n => i \in 0 .. n /\ h[i] = f[i]
                            /\ i >= n => i - n \in 0 .. m /\ h[i] = g[i - n]
  BY <1>3, <1>4, <1>5
<1>7. h \in [0 .. n + m -> Point]
  BY <1>3, <1>4, <1>5
<1>8. h[0] = p /\ h[n + m] = r
  BY <1>3, <1>4, <1>5, <1>6
<1>. HIDE DEF h
<1>9. \A i \in 1 .. n + m : Step(h[i - 1], (s \o u)[i], h[i], T)
  <2>. TAKE i \in 1 .. n + m
  <2>1. CASE i <= n
    <3>1. i \in 1 .. n /\ h[i] = f[i] /\ h[i - 1] = f[i - 1] /\ (s \o u)[i] = s[i]
      BY <2>1, <1>3, <1>6
    <3>. QED  BY <3>1, <1>4
  <2>2. CASE i > n
    <3>1. i - n \in 1 .. m /\ h[i] = g[i - n] /\ h[i - 1] = g[(i - n) - 1]
          /\ (s \o u)[i] = u[i - n]
      BY <2>2, <1>3, <1>6
    <3>. QED  BY <3>1, <1>5
  <2>. QED  BY <2>1, <2>2, <1>3
<1>10. Trace(h, p, s \o u, r, T)
  BY <1>3, <1>7, <1>8, <1>9 DEF Trace
<1>. QED  BY <1>10 DEF Decodes

(* A way can be cut anywhere.                                              *)
LEMMA DecodesSplit ==
    ASSUME NEW p, NEW s \in Seq(Byte), NEW u \in Seq(Byte), NEW r, NEW T,
           Decodes(p, s \o u, r, T)
    PROVE  \E q : Decodes(p, s, q, T) /\ Decodes(q, u, r, T)
<1>1. PICK h : Trace(h, p, s \o u, r, T)
  BY DEF Decodes
<1>. DEFINE n == Len(s)
            m == Len(u)
            f == [i \in 0 .. n |-> h[i]]
            g == [i \in 0 .. m |-> h[n + i]]
            q == h[n]
<1>2. n \in Nat /\ m \in Nat /\ Len(s \o u) = n + m
      /\ (\A i \in 1 .. n : (s \o u)[i] = s[i]) /\ (\A i \in 1 .. m : (s \o u)[n + i] = u[i])
  OBVIOUS
<1>3. h \in [0 .. n + m -> Point] /\ h[0] = p /\ h[n + m] = r
      /\ \A i \in 1 .. n + m : Step(h[i - 1], (s \o u)[i], h[i], T)
  BY <1>1, <1>2 DEF Trace
<1>. HIDE DEF n, m
<1>4. f \in [0 .. n -> Point] /\ g \in [0 .. m -> Point] /\ f[0] = p /\ f[n] = q
      /\ g[0] = q /\ g[m] = r /\ q \in Point
  BY <1>2, <1>3
<1>5. \A i \in 1 .. n : Step(f[i - 1], s[i], f[i], T)
  <2>. TAKE i \in 1 .. n
  <2>1. i - 1 \in 0 .. n /\ i \in 0 .. n /\ i \in 1 .. n + m
    BY <1>2
  <2>2. f[i - 1] = h[i - 1] /\ f[i] = h[i] /\ (s \o u)[i] = s[i]
    BY <1>2, <2>1
  <2>. QED  BY <2>1, <2>2, <1>3
<1>6. \A i \in 1 .. m : Step(g[i - 1], u[i], g[i], T)
  <2>. TAKE i \in 1 .. m
  <2>1. i - 1 \in 0 .. m /\ i \in 0 .. m /\ n + i \in 1 .. n + m /\ n + (i - 1) = (n + i) - 1
    BY <1>2
  <2>2. g[i - 1] = h[n + (i - 1)] /\ g[i] = h[n + i] /\ (s \o u)[n + i] = u[i]
    BY <1>2, <2>1
  <2>. QED  BY <2>1, <2>2, <1>3
<1>7. Viewed(q)
  <2>1. CASE n = 0
    BY <2>1, <1>3 DEF Decodes
  <2>2. CASE n # 0
    <3>1. n \in 1 .. n + m
      BY <2>2, <1>2
    <3>2. Step(h[n - 1], (s \o u)[n], q, T)
      BY <3>1, <1>3
    <3>. QED  BY <3>2, YieldsViewed DEF Step, Viewed
  <2>. QED  BY <2>1, <2>2
<1>8. Trace(f, p, s, q, T)
  BY <1>4, <1>5 DEF Trace, n
<1>9. Trace(g, q, u, r, T)
  BY <1>4, <1>6 DEF Trace, m
<1>. QED  BY <1>7, <1>8, <1>9 DEF Decodes

(* The text may grow.                                                      *)
LEMMA YieldsGrow ==
    ASSUME NEW p \in Point, NEW y, NEW q, NEW T \in Seq(Byte), Yields(p, y, q, T), NEW x \in Byte
    PROVE  Yields(p, y, q, Append(T, x))
<1>1. p.n \in Nat /\ q.n \in Nat /\ q.n <= Len(T)
  BY YieldsViewed DEF Yields, Viewed, Point
<1>2. Len(Append(T, x)) = Len(T) + 1 /\ Len(T) \in Nat
  OBVIOUS
<1>3. SubSeq(Append(T, x), p.n + 1, q.n) = SubSeq(T, p.n + 1, q.n)
  <2>. DEFINE a == p.n + 1
              b == q.n
  <2>1. a \in Nat /\ a >= 1 /\ b \in Nat /\ b <= Len(T)
    BY <1>1
  <2>. HIDE DEF a, b
  <2>2. Append(T, x) \in Seq(Byte) /\ \A i \in 1 .. Len(T) : Append(T, x)[i] = T[i]
    OBVIOUS
  <2>3. SubSeq(T, a, b) = [i \in 1 .. (b - a + 1) |-> T[i + a - 1]]
    BY <2>1
  <2>4. SubSeq(Append(T, x), a, b) = [i \in 1 .. (b - a + 1) |-> Append(T, x)[i + a - 1]]
    BY <2>1, <2>2, <1>2
  <2>5. \A i \in 1 .. (b - a + 1) : i + a - 1 \in 1 .. Len(T)
    BY <2>1, <1>2
  <2>. QED  BY <2>2, <2>3, <2>4, <2>5 DEF a, b
<1>4. q.n <= Len(Append(T, x))
  BY <1>1, <1>2
<1>. QED  BY <1>3, <1>4 DEF Yields

(* A way stays a way when the text grows.                                  *)
LEMMA DecodesGrow ==
    ASSUME NEW p, NEW s \in Seq(Byte), NEW q, NEW T \in Seq(Byte), Decodes(p, s, q, T), NEW x \in Byte
    PROVE  Decodes(p, s, q, Append(T, x))
<1>1. PICK f : Trace(f, p, s, q, T)
  BY DEF Decodes
<1>2. \A i \in 1 .. Len(s) : Step(f[i - 1], s[i], f[i], Append(T, x))
  <2>. TAKE i \in 1 .. Len(s)
  <2>1. Step(f[i - 1], s[i], f[i], T)
    BY <1>1 DEF Trace
  <2>. QED  BY <2>1, YieldsGrow DEF Step, Viewed
<1>3. Trace(f, p, s, q, Append(T, x))
  BY <1>1, <1>2 DEF Trace
<1>. QED  BY <1>3 DEF Decodes

(* The first byte of a way.                                                *)
LEMMA DecodesHead ==
    ASSUME NEW p, NEW s \in Seq(Byte), s # <<>>, NEW q, NEW T, Decodes(p, s, q, T)
    PROVE  \E r : Step(p, Head(s), r, T) /\ Decodes(r, Tail(s), q, T)
<1>1. s = <<Head(s)>> \o Tail(s) /\ Head(s) \in Byte /\ <<Head(s)>> \in Seq(Byte)
      /\ Tail(s) \in Seq(Byte)
  OBVIOUS
<1>2. PICK r : Decodes(p, <<Head(s)>>, r, T) /\ Decodes(r, Tail(s), q, T)
  BY <1>1, DecodesSplit
<1>3. PICK f : Trace(f, p, <<Head(s)>>, r, T)
  BY <1>2 DEF Decodes
<1>4. Step(p, Head(s), r, T)
  BY <1>3 DEF Trace
<1>. QED  BY <1>2, <1>4

-----------------------------------------------------------------------------
(* Two comp_states that go through the same characters.                    *)

(* A comp_state with strings of characters and lengths in it, whatever is  *)
(* in its dictionary.                                                      *)
Shape(c) ==
    /\ c = [mode |-> c.mode, escape |-> c.escape, err |-> c.err, update_at |-> c.update_at,
            next_free |-> c.next_free, last_matched |-> c.last_matched,
            last_added |-> c.last_added, cw_size |-> c.cw_size,
            escape_char |-> c.escape_char, parent |-> c.parent, ch |-> c.ch,
            bit_len |-> c.bit_len, bit_data |-> c.bit_data,
            flushed_len |-> c.flushed_len, str |-> c.str, obuf |-> c.obuf]
    /\ c.flushed_len \in Nat /\ c.str \in Seq(Byte) /\ c.obuf \in Seq(Byte)

(* They match, add and end strings alike.                                  *)
Alike(a, b) ==
    /\ a.parent = b.parent /\ a.ch = b.ch /\ a.next_free = b.next_free
    /\ a.update_at = b.update_at /\ a.last_matched = b.last_matched
    /\ a.last_added = b.last_added
    /\ Len(a.str) + a.flushed_len = Len(b.str) + b.flushed_len

(* A comp_state of the right type has that shape.                          *)
LEMMA CompShape ==
    ASSUME NEW c \in CompType
    PROVE  Shape(c)
BY DEF CompType, Shape

(* add_char changes the dictionary only.                                   *)
LEMMA AddShape ==
    ASSUME NEW c, Shape(c), NEW at, NEW x
    PROVE  LET a == add_char(c, at, x)
           IN  a = Redict(c, a)
<1>. DEFINE new == c.next_free
            parent == [c.parent EXCEPT ![new] = at]
            leaves == {e \in FreeEntry : \A f \in FreeEntry : parent[f] # e}
            after(e) == (e - new - 1) % (DictSize - FirstFree)
            next == CHOOSE e \in leaves : \A f \in leaves : after(e) <= after(f)
            a == add_char(c, at, x)
<1>1. a = [c EXCEPT !.parent = parent, !.ch[new] = x, !.last_added = new, !.next_free = next]
  BY DEF add_char
<1>. HIDE DEF parent, next, new, a
<1>. QED  BY <1>1 DEF Shape, Redict, a

(* updated changes the dictionary only, and nothing is left to add.        *)
LEMMA UpdatedShape ==
    ASSUME NEW c, Shape(c), NEW x
    PROVE  LET u == updated(c, x)
           IN  u = Redict(c, u) /\ u.update_at = 0 /\ Shape(u)
<1>. DEFINE u == updated(c, x)
            a == add_char(c, c.update_at, x)
<1>. HIDE DEF a
<1>0. a = Redict(c, a)
  BY AddShape DEF a
<1>1. \/ u = c /\ c.update_at = 0
      \/ u = [c EXCEPT !.update_at = 0]
      \/ u = [a EXCEPT !.update_at = 0]
  BY DEF updated, a
<1>. HIDE DEF u
<1>2. CASE u = c /\ c.update_at = 0
  BY <1>2 DEF Shape, Redict, u
<1>3. CASE u = [c EXCEPT !.update_at = 0]
  BY <1>3 DEF Shape, Redict, u
<1>4. CASE u = [a EXCEPT !.update_at = 0]
  <2>1. u = Redict(c, u) /\ u.update_at = 0
    BY <1>4, <1>0 DEF Shape, Redict
  <2>2. Shape(u)
    BY <2>1 DEF Shape, Redict
  <2>. QED  BY <2>1, <2>2 DEF u
<1>. QED  BY <1>1, <1>2, <1>3, <1>4

(* Equal dictionaries take a new entry alike.                              *)
LEMMA AddSame ==
    ASSUME NEW a, NEW b, Shape(a), Shape(b), SameDict(a, b), NEW at, NEW x
    PROVE  LET aa == add_char(a, at, x)
               bb == add_char(b, at, x)
           IN  /\ aa.parent = bb.parent /\ aa.ch = bb.ch /\ aa.next_free = bb.next_free
               /\ aa.last_added = bb.last_added
<1>. DEFINE aa == add_char(a, at, x)
            bb == add_char(b, at, x)
            parent(f, new) == [f EXCEPT ![new] = at]
            leaves(f, new) == {e \in FreeEntry : \A k \in FreeEntry : parent(f, new)[k] # e}
            after(e, new) == (e - new - 1) % (DictSize - FirstFree)
            next(f, new) == CHOOSE e \in leaves(f, new) :
                               \A k \in leaves(f, new) : after(e, new) <= after(k, new)
<1>1. \A c : add_char(c, at, x) =
               [c EXCEPT !.parent = parent(c.parent, c.next_free), !.ch[c.next_free] = x,
                         !.last_added = c.next_free, !.next_free = next(c.parent, c.next_free)]
  BY DEF add_char
<1>. HIDE DEF parent, next
<1>2. \A c : Shape(c) =>    /\ add_char(c, at, x).parent = parent(c.parent, c.next_free)
                          /\ add_char(c, at, x).ch = [c.ch EXCEPT ![c.next_free] = x]
                          /\ add_char(c, at, x).last_added = c.next_free
                          /\ add_char(c, at, x).next_free = next(c.parent, c.next_free)
  <2>. SUFFICES ASSUME NEW c, Shape(c)
                PROVE  /\ add_char(c, at, x).parent = parent(c.parent, c.next_free)
                       /\ add_char(c, at, x).ch = [c.ch EXCEPT ![c.next_free] = x]
                       /\ add_char(c, at, x).last_added = c.next_free
                       /\ add_char(c, at, x).next_free = next(c.parent, c.next_free)
    OBVIOUS
  <2>. DEFINE d == add_char(c, at, x)
  <2>1. d = [c EXCEPT !.parent = parent(c.parent, c.next_free), !.ch[c.next_free] = x,
                      !.last_added = c.next_free, !.next_free = next(c.parent, c.next_free)]
    BY <1>1
  <2>. HIDE DEF d
  <2>2. /\ d.parent = parent(c.parent, c.next_free) /\ d.ch = [c.ch EXCEPT ![c.next_free] = x]
        /\ d.last_added = c.next_free /\ d.next_free = next(c.parent, c.next_free)
    BY <2>1 DEF Shape
  <2>. QED  BY <2>2 DEF d
<1>3. /\ aa.parent = parent(a.parent, a.next_free) /\ aa.ch = [a.ch EXCEPT ![a.next_free] = x]
      /\ aa.last_added = a.next_free /\ aa.next_free = next(a.parent, a.next_free)
  BY <1>2, Zenon
<1>4. /\ bb.parent = parent(b.parent, b.next_free) /\ bb.ch = [b.ch EXCEPT ![b.next_free] = x]
      /\ bb.last_added = b.next_free /\ bb.next_free = next(b.parent, b.next_free)
  BY <1>2, Zenon
<1>5. a.parent = b.parent /\ a.ch = b.ch /\ a.next_free = b.next_free
  BY DEF SameDict
<1>. QED  BY <1>3, <1>4, <1>5

(* Equal dictionaries are updated alike.                                   *)
LEMMA UpdatedSame ==
    ASSUME NEW a, NEW b, Shape(a), Shape(b), SameDict(a, b),
           a.update_at = b.update_at,
           NEW x
    PROVE  /\ SameDict(updated(a, x), updated(b, x))
           /\ a.last_added = b.last_added => updated(a, x).last_added = updated(b, x).last_added
<1>. DEFINE at == a.update_at
            aa == add_char(a, at, x)
            bb == add_char(b, at, x)
<1>1. match_char(a, at, x) = match_char(b, at, x)
  BY MatchSame
<1>2. a.parent = b.parent /\ a.ch = b.ch /\ a.next_free = b.next_free
  BY DEF SameDict
<1>3. aa.parent = bb.parent /\ aa.ch = bb.ch /\ aa.next_free = bb.next_free
      /\ aa.last_added = bb.last_added
  BY AddSame
<1>. HIDE DEF aa, bb
<1>4. CASE at = 0
  <2>1. updated(a, x) = a /\ updated(b, x) = b
    BY <1>4 DEF updated
  <2>. QED  BY <2>1
<1>5. CASE at # 0 /\ match_char(a, at, x) = 0
  <2>1. updated(a, x) = [aa EXCEPT !.update_at = 0] /\ updated(b, x) = [bb EXCEPT !.update_at = 0]
    BY <1>1, <1>5 DEF updated, aa, bb
  <2>2. aa = Redict(a, aa) /\ bb = Redict(b, bb)
    BY AddShape DEF aa, bb
  <2>. QED  BY <2>1, <2>2, <1>3 DEF SameDict, Shape, Redict
<1>6. CASE at # 0 /\ match_char(a, at, x) # 0
  <2>1. updated(a, x) = [a EXCEPT !.update_at = 0] /\ updated(b, x) = [b EXCEPT !.update_at = 0]
    BY <1>1, <1>6 DEF updated
  <2>. QED  BY <2>1, <1>2 DEF SameDict, Shape
<1>. QED  BY <1>4, <1>5, <1>6

(* Two that are alike are updated alike.                                   *)
LEMMA AlikeUpdated ==
    ASSUME NEW a, Shape(a), NEW b, Shape(b), Alike(a, b), NEW x
    PROVE  Alike(updated(a, x), updated(b, x))
<1>. DEFINE u == updated(a, x)
            v == updated(b, x)
<1>1. SameDict(u, v) /\ u.last_added = v.last_added
  BY UpdatedSame DEF Alike, SameDict
<1>2. u = Redict(a, u) /\ u.update_at = 0
  BY UpdatedShape
<1>3. v = Redict(b, v) /\ v.update_at = 0
  BY UpdatedShape
<1>. HIDE DEF u, v
<1>4. u.update_at = 0 /\ u.last_matched = a.last_matched /\ u.str = a.str
      /\ u.flushed_len = a.flushed_len
  BY <1>2 DEF Shape, Redict
<1>5. v.update_at = 0 /\ v.last_matched = b.last_matched /\ v.str = b.str
      /\ v.flushed_len = b.flushed_len
  BY <1>3 DEF Shape, Redict
<1>. QED  BY <1>1, <1>4, <1>5 DEF Alike, SameDict, u, v

(* s is c when its string has been sent or shown.                          *)
SentOff(c, s) ==
    /\ Shape(s)
    /\ s.parent = c.parent /\ s.ch = c.ch /\ s.next_free = c.next_free
    /\ s.update_at = c.update_at /\ s.last_matched = c.last_matched
    /\ s.last_added = c.last_added
    /\ s.str = <<>> /\ s.flushed_len = 0

(* What strings and dictionaries do not touch.                             *)
SameRest(a, b) ==
    /\ a.mode = b.mode /\ a.escape = b.escape /\ a.err = b.err /\ a.cw_size = b.cw_size
    /\ a.escape_char = b.escape_char /\ a.bit_len = b.bit_len /\ a.bit_data = b.bit_data

(* A character has been taken in, s being what the string that it ends was *)
(* sent off to: what encoder and decoder have in common.                   *)
begun(c, x, s) ==
    LET u == updated(c, x)
    IN  collected(IF ends_string(u, x) THEN updated(string_ended(u, x, s), x) ELSE u, x)

(* What updated leaves alone.                                              *)
LEMMA UpdatedRest ==
    ASSUME NEW c, Shape(c), NEW x
    PROVE  LET u == updated(c, x)
           IN  /\ SameRest(u, c) /\ u.str = c.str /\ u.obuf = c.obuf
               /\ u.flushed_len = c.flushed_len /\ u.last_matched = c.last_matched
               /\ u.update_at = 0 /\ Shape(u)
<1>. DEFINE u == updated(c, x)
<1>1. u = Redict(c, u) /\ u.update_at = 0 /\ Shape(u)
  BY UpdatedShape
<1>. HIDE DEF u
<1>2. SameRest(u, c) /\ u.str = c.str /\ u.obuf = c.obuf
      /\ u.flushed_len = c.flushed_len /\ u.last_matched = c.last_matched
  BY <1>1 DEF Shape, Redict, SameRest
<1>. QED  BY <1>1, <1>2 DEF u

(* What string_ended makes of the state s in which the string has been     *)
(* sent.                                                                   *)
LEMMA EndedShape ==
    ASSUME NEW c, NEW x, NEW s, Shape(s)
    PROVE  LET e == string_ended(c, x, s)
           IN  /\ Shape(e) /\ SameRest(e, s) /\ e.str = s.str /\ e.obuf = s.obuf
               /\ e.flushed_len = s.flushed_len /\ e.last_matched = 0
               /\ e.parent = s.parent /\ e.ch = s.ch /\ e.next_free = s.next_free
               /\ e.update_at = IF match_char(c, c.last_matched, x) = 0
                                THEN c.last_matched ELSE s.update_at
               /\ e.last_added = IF match_char(c, c.last_matched, x) = 0
                                 THEN s.last_added ELSE 0
BY DEF string_ended, Shape, SameRest

(* What collected changes: the string and the entry that it matches.       *)
LEMMA CollectedShape ==
    ASSUME NEW c, Shape(c), NEW x \in Byte
    PROVE  LET w == collected(c, x)
           IN  /\ Shape(w) /\ SameRest(w, c) /\ w.str = Append(c.str, x) /\ w.obuf = c.obuf
               /\ w.flushed_len = c.flushed_len
               /\ w.last_matched = match_char(c, c.last_matched, x)
               /\ w.parent = c.parent /\ w.ch = c.ch /\ w.next_free = c.next_free
               /\ w.update_at = c.update_at /\ w.last_added = c.last_added
<1>1. Append(c.str, x) \in Seq(Byte)
  BY DEF Shape
<1>2. collected(c, x) = [c EXCEPT !.last_matched = match_char(c, c.last_matched, x),
                                  !.str = Append(c.str, x)]
  BY DEF collected, Shape
<1>. DEFINE w == collected(c, x)
<1>. HIDE DEF w
<1>3. /\ SameRest(w, c) /\ w.str = Append(c.str, x) /\ w.obuf = c.obuf
      /\ w.flushed_len = c.flushed_len
      /\ w.last_matched = match_char(c, c.last_matched, x)
      /\ w.parent = c.parent /\ w.ch = c.ch /\ w.next_free = c.next_free
      /\ w.update_at = c.update_at /\ w.last_added = c.last_added
  BY <1>2 DEF Shape, SameRest, w
<1>4. Shape(w)
  BY <1>1, <1>2 DEF Shape, w
<1>. QED  BY <1>3, <1>4 DEF w

(* What string_full changes when the string has its full length.           *)
LEMMA FullShape ==
    ASSUME NEW c, Shape(c), NEW s, Shape(s)
    PROVE  LET z == string_full(c, s)
           IN  IF Len(c.str) + c.flushed_len = MaxString
               THEN /\ Shape(z) /\ SameRest(z, s) /\ z.str = s.str /\ z.obuf = s.obuf
                    /\ z.flushed_len = s.flushed_len /\ z.last_matched = 0
                    /\ z.parent = s.parent /\ z.ch = s.ch /\ z.next_free = s.next_free
                    /\ z.update_at = s.update_at /\ z.last_added = s.last_added
               ELSE z = c
BY DEF string_full, Shape, SameRest

(* Two that are alike match a character alike.                             *)
LEMMA AlikeMatch ==
    ASSUME NEW a, NEW b, Alike(a, b), NEW x
    PROVE  /\ match_char(a, a.last_matched, x) = match_char(b, b.last_matched, x)
           /\ ends_string(a, x) <=> ends_string(b, x)
<1>1. match_char(a, a.last_matched, x) = match_char(b, b.last_matched, x)
  BY MatchSame DEF Alike, SameDict
<1>. QED  BY <1>1 DEF ends_string, Alike

(* Two that are alike take in a character alike, however they send their   *)
(* strings.                                                                *)
LEMMA AlikeBegun ==
    ASSUME NEW a, NEW b, Shape(a), Shape(b), NEW x \in Byte,
           Alike(updated(a, x), updated(b, x)), NEW s, SentOff(updated(a, x), s),
           NEW t, SentOff(updated(b, x), t)
    PROVE  Alike(begun(a, x, s), begun(b, x, t)) /\ Shape(begun(a, x, s))
<1>. DEFINE u == updated(a, x)
            v == updated(b, x)
            e == string_ended(u, x, s)
            f == string_ended(v, x, t)
            c == IF ends_string(u, x) THEN updated(e, x) ELSE u
            d == IF ends_string(v, x) THEN updated(f, x) ELSE v
<1>1. Shape(u) /\ Shape(v)
  BY UpdatedShape
<1>2. /\ match_char(u, u.last_matched, x) = match_char(v, v.last_matched, x)
      /\ ends_string(u, x) <=> ends_string(v, x)
  BY AlikeMatch
<1>3. Shape(e) /\ Shape(f) /\ Alike(e, f)
  <2>0. SentOff(u, s) /\ SentOff(v, t) /\ Alike(u, v) /\ Shape(s) /\ Shape(t)
    BY DEF SentOff
  <2>. HIDE DEF u, v
  <2>1. Shape(e) /\ Shape(f)
    BY <2>0, EndedShape
  <2>2. /\ e.str = <<>> /\ e.flushed_len = 0 /\ e.last_matched = 0
        /\ e.parent = u.parent /\ e.ch = u.ch /\ e.next_free = u.next_free
        /\ e.update_at = IF match_char(u, u.last_matched, x) = 0
                         THEN u.last_matched ELSE u.update_at
        /\ e.last_added = IF match_char(u, u.last_matched, x) = 0 THEN u.last_added ELSE 0
    BY <2>0, EndedShape DEF SentOff
  <2>3. /\ f.str = <<>> /\ f.flushed_len = 0 /\ f.last_matched = 0
        /\ f.parent = v.parent /\ f.ch = v.ch /\ f.next_free = v.next_free
        /\ f.update_at = IF match_char(v, v.last_matched, x) = 0
                         THEN v.last_matched ELSE v.update_at
        /\ f.last_added = IF match_char(v, v.last_matched, x) = 0 THEN v.last_added ELSE 0
    BY <2>0, EndedShape DEF SentOff
  <2>. HIDE DEF e, f
  <2>4. Alike(e, f)
    BY <2>0, <2>2, <2>3, <1>2 DEF Alike
  <2>. QED  BY <2>1, <2>4
<1>4. Alike(updated(e, x), updated(f, x)) /\ Shape(updated(e, x)) /\ Shape(updated(f, x))
  BY <1>3, AlikeUpdated, UpdatedShape
<1>. HIDE DEF e, f
<1>5. Shape(c) /\ Shape(d) /\ Alike(c, d)
  BY <1>1, <1>2, <1>4
<1>6. begun(a, x, s) = collected(c, x) /\ begun(b, x, t) = collected(d, x)
  BY DEF begun, e, f
<1>. HIDE DEF c, d
<1>7. match_char(c, c.last_matched, x) = match_char(d, d.last_matched, x)
  BY <1>5, AlikeMatch
<1>8. Shape(collected(c, x)) /\ Alike(collected(c, x), collected(d, x))
  <2>. DEFINE p == collected(c, x)
              q == collected(d, x)
  <2>1. /\ Shape(p) /\ p.str = Append(c.str, x) /\ p.flushed_len = c.flushed_len
        /\ p.last_matched = match_char(c, c.last_matched, x)
        /\ p.parent = c.parent /\ p.ch = c.ch /\ p.next_free = c.next_free
        /\ p.update_at = c.update_at /\ p.last_added = c.last_added
    BY <1>5, CollectedShape
  <2>2. /\ q.str = Append(d.str, x) /\ q.flushed_len = d.flushed_len
        /\ q.last_matched = match_char(d, d.last_matched, x)
        /\ q.parent = d.parent /\ q.ch = d.ch /\ q.next_free = d.next_free
        /\ q.update_at = d.update_at /\ q.last_added = d.last_added
    BY <1>5, CollectedShape
  <2>. HIDE DEF p, q
  <2>3. Len(p.str) = Len(c.str) + 1 /\ Len(q.str) = Len(d.str) + 1 /\ Len(c.str) \in Nat
        /\ Len(d.str) \in Nat /\ c.flushed_len \in Nat /\ d.flushed_len \in Nat
    BY <1>5, <2>1, <2>2 DEF Shape
  <2>4. Len(c.str) + c.flushed_len = Len(d.str) + d.flushed_len
    BY <1>5 DEF Alike
  <2>5. Len(p.str) + p.flushed_len = Len(q.str) + q.flushed_len
    <3>2. p.flushed_len = c.flushed_len /\ q.flushed_len = d.flushed_len
      BY <2>1, <2>2
    <3>. DEFINE i == Len(c.str)
                k == Len(d.str)
    <3>3. i \in Nat /\ k \in Nat /\ Len(p.str) = i + 1 /\ Len(q.str) = k + 1
      BY <2>3
    <3>. HIDE DEF i, k
    <3>4. i + c.flushed_len = k + d.flushed_len
      BY <2>4 DEF i, k
    <3>5. (i + 1) + c.flushed_len = (k + 1) + d.flushed_len
      <4>. DEFINE j == c.flushed_len
                  m == d.flushed_len
      <4>1. i \in Nat /\ k \in Nat /\ j \in Nat /\ m \in Nat /\ i + j = k + m
        BY <2>3, <3>3, <3>4
      <4>. HIDE DEF j, m
      <4>2. (i + 1) + j = (k + 1) + m
        BY <4>1
      <4>. QED  BY <4>2 DEF j, m
    <3>. QED  BY <3>2, <3>3, <3>5
  <2>6. Alike(p, q)
    BY <2>1, <2>2, <2>5, <1>5, <1>7 DEF Alike
  <2>. QED  BY <2>1, <2>6 DEF p, q
<1>. QED  BY <1>6, <1>8

(* Two that are alike end a full string alike.                             *)
LEMMA AlikeFull ==
    ASSUME NEW a, NEW b, Shape(a), Shape(b), Alike(a, b), NEW s, SentOff(a, s),
           NEW t, SentOff(b, t)
    PROVE  Alike(string_full(a, s), string_full(b, t)) /\ Shape(string_full(a, s))
BY FullShape DEF Alike, SentOff

(* send_string outputs the string and changes nothing else.                *)
LEMMA SendString ==
    ASSUME NEW c, Shape(c)
    PROVE  /\ SentOff(c, send_string(c)) /\ SameRest(send_string(c), c)
           /\ send_string(c).obuf = c.obuf \o c.str
<1>1. c.obuf \o c.str \in Seq(Byte) /\ <<>> \in Seq(Byte)
  BY DEF Shape
<1>. DEFINE s == send_string(c)
<1>2. s = [c EXCEPT !.obuf = c.obuf \o c.str, !.str = <<>>, !.flushed_len = 0]
  BY DEF send_string, Shape
<1>. HIDE DEF s
<1>3. SameRest(s, c) /\ s.obuf = c.obuf \o c.str
  BY <1>2 DEF Shape, SameRest
<1>4. Shape(s)
  BY <1>1, <1>2 DEF Shape
<1>5. SentOff(c, s)
  BY <1>2, <1>4 DEF Shape, SentOff
<1>. QED  BY <1>3, <1>5 DEF s

(* decode_char takes in the character and ends a full string.              *)
LEMMA DecodeCharBegun ==
    ASSUME NEW c, NEW x
    PROVE  LET w == begun(c, x, send_string(updated(c, x)))
           IN  decode_char(c, x) = string_full(w, send_string(w))
BY DEF decode_char, begun

(* A character behind two sequences.                                       *)
LEMMA Snoc ==
    ASSUME NEW o \in Seq(Byte), NEW s \in Seq(Byte), NEW x \in Byte
    PROVE  o \o Append(s, x) = (o \o s) \o <<x>> /\ Append(s, x) = s \o <<x>>
<1>1. Append(s, x) = s \o <<x>> /\ <<x>> \in Seq(Byte)
  OBVIOUS
<1>. QED  BY <1>1, ConcatAssociative

(* decode_char puts the character behind what is there.                    *)
LEMMA DecodeChar ==
    ASSUME NEW c, Shape(c), NEW x \in Byte
    PROVE  LET y == decode_char(c, x)
           IN  Shape(y) /\ SameRest(y, c) /\ y.obuf \o y.str = (c.obuf \o c.str) \o <<x>>
<1>. DEFINE u == updated(c, x)
            s == send_string(u)
            e == string_ended(u, x, s)
            f == updated(e, x)
            v == IF ends_string(u, x) THEN f ELSE u
            w == collected(v, x)
            r == send_string(w)
            y == decode_char(c, x)
<1>1. Shape(u) /\ SameRest(u, c) /\ u.str = c.str /\ u.obuf = c.obuf
  BY UpdatedRest
<1>. HIDE DEF u
<1>2. Shape(s) /\ SameRest(s, c) /\ s.str = <<>> /\ s.obuf = c.obuf \o c.str
  BY <1>1, SendString DEF SentOff, SameRest
<1>. HIDE DEF s
<1>3. Shape(e) /\ SameRest(e, c) /\ e.str = <<>> /\ e.obuf = c.obuf \o c.str
  <2>0. Shape(s)
    BY <1>2
  <2>1. Shape(e) /\ SameRest(e, s) /\ e.str = s.str /\ e.obuf = s.obuf
    BY <2>0, EndedShape
  <2>. QED  BY <1>2, <2>1 DEF SameRest
<1>. HIDE DEF e
<1>4. Shape(f) /\ SameRest(f, c) /\ f.str = <<>> /\ f.obuf = c.obuf \o c.str
  BY <1>3, UpdatedRest, ZenonT(60) DEF SameRest
<1>. HIDE DEF f
<1>5. c.obuf \in Seq(Byte) /\ c.str \in Seq(Byte)
  BY DEF Shape
<1>6. Shape(v) /\ SameRest(v, c) /\ v.obuf \o v.str = c.obuf \o c.str
  <2>1. (c.obuf \o c.str) \o <<>> = c.obuf \o c.str
    BY <1>5
  <2>. QED  BY <1>1, <1>4, <2>1
<1>. HIDE DEF v
<1>7. Shape(w) /\ SameRest(w, c) /\ w.obuf \o w.str = (c.obuf \o c.str) \o <<x>>
  <2>1. Shape(w) /\ SameRest(w, c) /\ w.str = Append(v.str, x) /\ w.obuf = v.obuf
    BY <1>6, CollectedShape DEF SameRest
  <2>2. v.obuf \in Seq(Byte) /\ v.str \in Seq(Byte)
    BY <1>6 DEF Shape
  <2>3. v.obuf \o Append(v.str, x) = (v.obuf \o v.str) \o <<x>>
    BY <2>2, Snoc
  <2>. QED  BY <2>1, <2>3, <1>6
<1>. HIDE DEF w
<1>8. Shape(r) /\ SameRest(r, c) /\ r.str = <<>> /\ r.obuf = w.obuf \o w.str
  BY <1>7, SendString DEF SentOff, SameRest
<1>9. r.obuf \o r.str = (c.obuf \o c.str) \o <<x>>
  <2>1. (w.obuf \o w.str) \o <<>> = w.obuf \o w.str
    BY <1>7 DEF Shape
  <2>. QED  BY <1>7, <1>8, <2>1
<1>. HIDE DEF r
<1>10. y = string_full(w, r)
  BY DEF decode_char, w, v, f, e, s, u, r
<1>11. \/ y = w
       \/ Shape(y) /\ SameRest(y, r) /\ y.str = r.str /\ y.obuf = r.obuf
  BY <1>7, <1>8, <1>10, FullShape
<1>12. Shape(y) /\ SameRest(y, c) /\ y.obuf \o y.str = (c.obuf \o c.str) \o <<x>>
  BY <1>7, <1>8, <1>9, <1>11 DEF SameRest
<1>. QED  BY <1>12

(* Two that are alike decode a character alike.                            *)
LEMMA AlikeDecodeChar ==
    ASSUME NEW a, NEW b, Shape(a), Shape(b), NEW x \in Byte,
           Alike(updated(a, x), updated(b, x))
    PROVE  Alike(decode_char(a, x), decode_char(b, x))
<1>. DEFINE s == send_string(updated(a, x))
            t == send_string(updated(b, x))
            v == begun(a, x, s)
            w == begun(b, x, t)
<1>1. SentOff(updated(a, x), s) /\ SentOff(updated(b, x), t)
  BY SendString, UpdatedShape
<1>2. Alike(updated(b, x), updated(a, x))
  BY DEF Alike
<1>3. Alike(v, w) /\ Shape(v) /\ Shape(w)
  BY <1>1, <1>2, AlikeBegun
<1>4. SentOff(v, send_string(v)) /\ SentOff(w, send_string(w))
  BY <1>3, SendString
<1>5. Alike(string_full(v, send_string(v)), string_full(w, send_string(w)))
  BY <1>3, <1>4, AlikeFull
<1>. QED  BY <1>5, DecodeCharBegun

-----------------------------------------------------------------------------
(* The decoder and its view.                                               *)

(* Two that are alike, and equal in the rest, have the same view.          *)
LEMMA AlikeView ==
    ASSUME NEW a, NEW b \in CompType, Shape(a), Alike(a, b), SameRest(a, b)
    PROVE  a \in CompType /\ View(a) = View(b)
<1>1. a \in CompType
  BY DEF Shape, Alike, SameRest, CompType
<1>2. Shape(b) /\ Len(a.str) \in Nat /\ Len(b.str) \in Nat /\ a.flushed_len \in Nat
      /\ b.flushed_len \in Nat
  BY CompShape DEF Shape
<1>3. a.flushed_len + Len(a.str) = b.flushed_len + Len(b.str)
  BY <1>2 DEF Alike
<1>4. View(a) = View(b)
  BY <1>2, <1>3 DEF View, Shape, Alike, SameRest
<1>. QED  BY <1>1, <1>4

(* A decoder and its view are alike.                                       *)
LEMMA ViewAlike ==
    ASSUME NEW d \in CompType
    PROVE  Alike(d, View(d)) /\ SameRest(d, View(d)) /\ Shape(d) /\ Shape(View(d))
<1>1. Shape(d) /\ Shape(View(d))
  BY ViewType, CompShape
<1>2. SameRest(d, View(d))
  BY ViewType DEF SameRest
<1>3. d.str \in Seq(Byte) /\ d.flushed_len \in Nat /\ Len(<<>>) = 0 /\ Len(d.str) \in Nat
  BY CompFields
<1>4. Alike(d, View(d))
  BY <1>3, ViewType DEF Alike
<1>. QED  BY <1>1, <1>2, <1>4

(* The decoder, not yet flushed, does what its view does.                  *)
LEMMA ViewStep ==
    ASSUME NEW d \in CompType, d.obuf = <<>>, d.mode = "COMPRESSED" => d.str = <<>>,
           NEW x \in Byte, comp_decode(View(d), x) \in CompType,
           ~ comp_decode(View(d), x).err,
           comp_decode(View(d), x).mode = "COMPRESSED" => comp_decode(View(d), x).str = <<>>
    PROVE  LET y == comp_decode(d, x)
               z == comp_decode(View(d), x)
           IN  /\ y \in CompType /\ View(y) = View(z) /\ ~ y.err
               /\ y.obuf \o y.str = d.str \o (z.obuf \o z.str)
               /\ y.mode = "COMPRESSED" => y.str = <<>>
<1>. DEFINE v == View(d)
            y == comp_decode(d, x)
            z == comp_decode(v, x)
<1>0. /\ v \in CompType /\ v.str = <<>> /\ v.obuf = <<>> /\ v.mode = d.mode
      /\ v.escape = d.escape /\ v.escape_char = d.escape_char
      /\ d.str \in Seq(Byte) /\ d.mode \in {"TRANSPARENT", "COMPRESSED"}
      /\ d.flushed_len \in Nat /\ d.escape_char \in Byte /\ d.escape \in BOOLEAN
  BY ViewType, CompFields
<1>1. Alike(d, v) /\ SameRest(d, v) /\ Shape(d) /\ Shape(v)
  BY ViewAlike
<1>2. \A s \in Seq(Byte) : <<>> \o s = s /\ s \o <<>> = s
  OBVIOUS
<1>3. CASE d.mode = "COMPRESSED"
  <2>1. d.str = <<>> /\ Len(d.str) = 0 /\ d.flushed_len + 0 = d.flushed_len
    BY <1>0, <1>3
  <2>2. v = d
    BY <2>1, <1>1 DEF View, Shape
  <2>3. z.obuf \o z.str \in Seq(Byte)
    BY CompFields
  <2>. QED  BY <2>1, <2>2, <2>3, <1>2
<1>4. ASSUME NEW a, NEW b, Alike(a, b), SameRest(a, b), Shape(a), Shape(b), NEW k \in Byte,
             b.str = <<>>, b.obuf = <<>>, a.str = d.str, a.obuf = <<>>,
             decode_char(b, k) \in CompType, ~ decode_char(b, k).err, a.mode = "TRANSPARENT"
      PROVE  /\ decode_char(a, k) \in CompType /\ View(decode_char(a, k)) = View(decode_char(b, k))
             /\ ~ decode_char(a, k).err
             /\ decode_char(a, k).obuf \o decode_char(a, k).str =
                  d.str \o (decode_char(b, k).obuf \o decode_char(b, k).str)
             /\ decode_char(a, k).mode # "COMPRESSED"
  <2>. DEFINE p == decode_char(a, k)
              q == decode_char(b, k)
  <2>1. Shape(p) /\ SameRest(p, a) /\ p.obuf \o p.str = (<<>> \o d.str) \o <<k>>
    BY <1>4, DecodeChar
  <2>2. Shape(q) /\ SameRest(q, b) /\ q.obuf \o q.str = (<<>> \o <<>>) \o <<k>>
    BY <1>4, DecodeChar
  <2>3. Alike(updated(a, k), updated(b, k))
    BY <1>4, AlikeUpdated
  <2>4. Alike(p, q)
    BY <1>4, <2>3, AlikeDecodeChar
  <2>. HIDE DEF p, q
  <2>5. SameRest(p, q)
    BY <1>4, <2>1, <2>2 DEF SameRest
  <2>6. p \in CompType /\ View(p) = View(q)
    BY <1>4, <2>1, <2>4, <2>5, AlikeView DEF q
  <2>7. p.obuf \o p.str = d.str \o (q.obuf \o q.str)
    <3>1. <<>> \o d.str = d.str /\ (<<>> \o <<>>) \o <<k>> = <<k>>
      BY <1>0, <1>2
    <3>. QED  BY <2>1, <2>2, <3>1
  <2>8. ~ p.err
    BY <1>4, <2>5 DEF SameRest, q
  <2>9. p.mode # "COMPRESSED"
    BY <1>4, <2>1 DEF SameRest
  <2>. QED  BY <2>6, <2>7, <2>8, <2>9 DEF p, q
<1>5. CASE d.mode = "TRANSPARENT" /\ ~ d.escape /\ x # d.escape_char
  <2>1. y = decode_char(d, x) /\ z = decode_char(v, x)
    BY <1>0, <1>5 DEF comp_decode
  <2>2. decode_char(v, x) \in CompType /\ ~ decode_char(v, x).err
    BY <2>1
  <2>. HIDE DEF y, z
  <2>3. /\ decode_char(d, x) \in CompType /\ View(decode_char(d, x)) = View(decode_char(v, x))
        /\ ~ decode_char(d, x).err
        /\ decode_char(d, x).obuf \o decode_char(d, x).str =
             d.str \o (decode_char(v, x).obuf \o decode_char(v, x).str)
        /\ decode_char(d, x).mode # "COMPRESSED"
    <3>. HIDE DEF v
    <3>. QED  BY <2>2, <1>0, <1>1, <1>4, <1>5
  <2>. QED  BY <2>1, <2>3 DEF y, z
<1>6. CASE d.mode = "TRANSPARENT" /\ ~ d.escape /\ x = d.escape_char
  <2>1. y = [d EXCEPT !.escape = TRUE] /\ z = [v EXCEPT !.escape = TRUE]
    BY <1>0, <1>6 DEF comp_decode
  <2>. HIDE DEF y, z
  <2>2. /\ Shape(y) /\ Shape(z) /\ Alike(y, d) /\ Alike(z, v) /\ y.str = d.str
        /\ y.obuf = <<>> /\ z.str = <<>> /\ z.obuf = <<>> /\ y.mode = "TRANSPARENT"
    BY <2>1, <1>0, <1>1, <1>6 DEF Shape, Alike
  <2>3. SameRest(y, z)
    BY <2>1, <1>1 DEF Shape, SameRest
  <2>4. Alike(y, z)
    BY <2>2, <1>1 DEF Alike
  <2>5. z \in CompType /\ ~ z.err
    BY DEF z
  <2>6. y \in CompType /\ View(y) = View(z) /\ ~ y.err
    BY <2>2, <2>3, <2>4, <2>5, AlikeView DEF SameRest
  <2>7. y.obuf \o y.str = d.str \o (z.obuf \o z.str)
    BY <2>2, <1>0, <1>2
  <2>. QED  BY <2>2, <2>6, <2>7 DEF y, z
<1>7. CASE d.mode = "TRANSPARENT" /\ d.escape
  <2>. DEFINE a == [d EXCEPT !.escape = FALSE]
              b == [v EXCEPT !.escape = FALSE]
  <2>1. y = decode_command(a, x) /\ z = decode_command(b, x)
    BY <1>0, <1>7 DEF comp_decode
  <2>2. /\ Shape(a) /\ Shape(b) /\ a.str = d.str
        /\ a.obuf = <<>> /\ b.str = <<>> /\ b.obuf = <<>> /\ a.mode = "TRANSPARENT"
        /\ a.escape_char = d.escape_char /\ b.escape_char = d.escape_char
    <3>0. \A c \in CompType : LET e == [c EXCEPT !.escape = FALSE]
                              IN  /\ e \in CompType /\ e.str = c.str /\ e.obuf = c.obuf
                                  /\ e.mode = c.mode /\ e.escape_char = c.escape_char
      <4>. TAKE c \in CompType
      <4>. DEFINE e == [c EXCEPT !.escape = FALSE]
      <4>1. /\ e.str = c.str /\ e.obuf = c.obuf
            /\ e.mode = c.mode /\ e.escape_char = c.escape_char
        BY DEF CompType
      <4>2. e \in CompType
        BY DEF CompType
      <4>. QED  BY <4>1, <4>2
    <3>1. Shape(a) /\ a.str = d.str /\ a.obuf = d.obuf /\ a.mode = d.mode
          /\ a.escape_char = d.escape_char
      BY <3>0, CompShape
    <3>. HIDE DEF v
    <3>2. Shape(b) /\ b.str = v.str /\ b.obuf = v.obuf /\ b.escape_char = v.escape_char
      BY <1>0, <3>0, CompShape
    <3>. HIDE DEF a, b
    <3>. QED  BY <3>1, <3>2, <1>0, <1>7
  <2>3. SameRest(a, b)
    BY <1>1 DEF Shape, SameRest
  <2>4. Alike(a, b)
    BY <1>1 DEF Shape, Alike
  <2>. HIDE DEF a, b, y, z
  <2>5. z \in CompType /\ ~ z.err
    BY DEF z
  <2>6. SentOff(a, send_string(a)) /\ SameRest(send_string(a), a)
        /\ send_string(a).obuf = d.str
        /\ SentOff(b, send_string(b)) /\ SameRest(send_string(b), b)
        /\ send_string(b).obuf = <<>>
    <3>1. send_string(a).obuf = <<>> \o d.str /\ send_string(b).obuf = <<>> \o <<>>
      BY <2>2, SendString
    <3>2. <<>> \o d.str = d.str /\ <<>> \o <<>> = <<>>
      BY <1>0, <1>2
    <3>3. SentOff(a, send_string(a)) /\ SameRest(send_string(a), a)
      BY <2>2, SendString
    <3>4. SentOff(b, send_string(b)) /\ SameRest(send_string(b), b)
      BY <2>2, SendString
    <3>. QED  BY <3>1, <3>2, <3>3, <3>4
  <2>7. CASE x = CC_ECM
    <3>. DEFINE s == send_string(a)
                t == send_string(b)
    <3>1. /\ y = [s EXCEPT !.mode = "COMPRESSED", !.update_at = a.last_matched, !.last_matched = 0]
          /\ z = [t EXCEPT !.mode = "COMPRESSED", !.update_at = b.last_matched, !.last_matched = 0]
      BY <2>1, <2>7 DEF decode_command, CC_ECM, CC_EID, CC_RESET
    <3>. HIDE DEF s, t
    <3>2. Alike(s, t) /\ SameRest(s, t) /\ Shape(s) /\ Shape(t) /\ s.str = <<>> /\ t.str = <<>>
          /\ s.obuf = d.str /\ t.obuf = <<>>
      BY <2>3, <2>4, <2>6 DEF SentOff, Alike, SameRest, s, t
    <3>3. a.last_matched = b.last_matched
      BY <2>4 DEF Alike
    <3>4. /\ Shape(y) /\ Shape(z) /\ y.str = <<>> /\ z.str = <<>> /\ y.obuf = d.str
          /\ z.obuf = <<>>
      BY <3>1, <3>2 DEF Shape
    <3>5. SameRest(y, z)
      BY <3>1, <3>2 DEF Shape, SameRest
    <3>6. Alike(y, z)
      BY <3>1, <3>2, <3>3 DEF Shape, Alike
    <3>7. y \in CompType /\ View(y) = View(z) /\ ~ y.err
      BY <2>5, <3>4, <3>5, <3>6, AlikeView DEF SameRest
    <3>8. y.obuf \o y.str = d.str \o (z.obuf \o z.str)
      BY <3>4, <1>0, <1>2
    <3>. QED  BY <3>4, <3>7, <3>8 DEF y, z
  <2>8. CASE x = CC_EID
    <3>. DEFINE esc == (d.escape_char + EscapeStep) % TotalChars
                s == [a EXCEPT !.escape_char = esc]
                t == [b EXCEPT !.escape_char = esc]
    <3>1. y = decode_char(s, d.escape_char) /\ z = decode_char(t, d.escape_char)
      <4>1. /\ s = [a EXCEPT !.escape_char = (@ + EscapeStep) % TotalChars]
            /\ t = [b EXCEPT !.escape_char = (@ + EscapeStep) % TotalChars]
        BY <2>2 DEF Shape
      <4>. HIDE DEF s, t
      <4>. QED  BY <2>1, <2>2, <2>8, <4>1 DEF decode_command, CC_ECM, CC_EID, CC_RESET
    <3>. HIDE DEF esc
    <3>2. /\ Shape(s) /\ Shape(t) /\ s.str = d.str /\ s.obuf = <<>> /\ t.str = <<>>
          /\ t.obuf = <<>> /\ s.mode = "TRANSPARENT"
      <4>0. \A c : Shape(c) => LET e == [c EXCEPT !.escape_char = esc]
                               IN  Shape(e) /\ e.str = c.str /\ e.obuf = c.obuf /\ e.mode = c.mode
        BY DEF Shape
      <4>1. Shape(s) /\ s.str = a.str /\ s.obuf = a.obuf /\ s.mode = a.mode
        BY <2>2, <4>0
      <4>2. Shape(t) /\ t.str = b.str /\ t.obuf = b.obuf
        BY <2>2, <4>0
      <4>. HIDE DEF s, t
      <4>. QED  BY <4>1, <4>2, <2>2
    <3>3. SameRest(s, t)
      BY <2>2, <2>3 DEF Shape, SameRest
    <3>4. Alike(s, t)
      BY <2>2, <2>4 DEF Shape, Alike
    <3>. HIDE DEF s, t
    <3>. DEFINE k == d.escape_char
    <3>5. k \in Byte /\ decode_char(t, k) \in CompType /\ ~ decode_char(t, k).err
      BY <2>5, <3>1, <1>0
    <3>. HIDE DEF k
    <3>6. /\ decode_char(s, k) \in CompType /\ View(decode_char(s, k)) = View(decode_char(t, k))
          /\ ~ decode_char(s, k).err
          /\ decode_char(s, k).obuf \o decode_char(s, k).str =
               d.str \o (decode_char(t, k).obuf \o decode_char(t, k).str)
          /\ decode_char(s, k).mode # "COMPRESSED"
      BY <3>2, <3>3, <3>4, <3>5, <1>4
    <3>. QED  BY <3>1, <3>6 DEF y, z, k
  <2>9. CASE x = CC_RESET /\ x # CC_ECM /\ x # CC_EID
    <3>. DEFINE s == send_string(a)
                t == send_string(b)
    <3>1. y = dict_init(s) /\ z = dict_init(t)
      BY <2>1, <2>9 DEF decode_command
    <3>. HIDE DEF s, t
    <3>2. SameRest(s, t) /\ Shape(s) /\ Shape(t) /\ s.ch = t.ch
          /\ s.obuf = d.str /\ t.obuf = <<>>
      BY <2>3, <2>4, <2>6 DEF SentOff, Alike, SameRest, s, t
    <3>3. <<>> \in Seq(Byte) /\ 0 \in Nat
      OBVIOUS
    <3>4. /\ Shape(y) /\ Shape(z) /\ y.str = <<>> /\ z.str = <<>> /\ y.obuf = d.str
          /\ z.obuf = <<>>
      BY <3>1, <3>2, <3>3 DEF Shape, dict_init
    <3>5. SameRest(y, z) /\ y.mode = "TRANSPARENT"
      BY <3>1, <3>2 DEF Shape, SameRest, dict_init
    <3>6. Alike(y, z)
      BY <3>1, <3>2 DEF Shape, Alike, dict_init
    <3>7. y \in CompType /\ View(y) = View(z) /\ ~ y.err
      BY <2>5, <3>4, <3>5, <3>6, AlikeView DEF SameRest
    <3>8. y.obuf \o y.str = d.str \o (z.obuf \o z.str)
      BY <3>4, <1>0, <1>2
    <3>. QED  BY <3>4, <3>7, <3>8 DEF y, z
  <2>10. CASE x # CC_RESET /\ x # CC_ECM /\ x # CC_EID
    <3>1. z = [b EXCEPT !.err = TRUE]
      BY <2>1, <2>10 DEF decode_command
    <3>2. z.err
      BY <2>2, <3>1 DEF Shape
    <3>. QED  BY <2>5, <3>2
  <2>. QED  BY <2>7, <2>8, <2>9, <2>10
<1>. QED  BY <1>0, <1>3, <1>5, <1>6, <1>7

-----------------------------------------------------------------------------
(* Codewords in the stream of bits.                                        *)

(* The string S asks for a new entry behind the last one.                  *)
Asks(c, S) == c.update_at # 0 /\ match_char(c, c.update_at, S[1]) = 0

(* The codeword of a string finds no fault.                                *)
Allowed(c, S, cw) ==
    /\ cw # c.next_free /\ ~ (cw >= DictSize)
    /\ Asks(c, S) => cw # add_char(c, c.update_at, S[1]).next_free

(* y is c after the codeword of the string S.                              *)
Regular(c, S, cw, y) ==
    LET a == IF Asks(c, S) THEN add_char(c, c.update_at, S[1]) ELSE c
    IN  /\ Shape(y) /\ y.mode = c.mode /\ y.escape = c.escape /\ y.err = c.err
        /\ y.cw_size = c.cw_size /\ y.bit_len = c.bit_len /\ y.bit_data = c.bit_data
        /\ y.last_matched = c.last_matched
        /\ y.escape_char = escape_after(c.escape_char, S)
        /\ y.str = <<>> /\ y.flushed_len = 0 /\ y.obuf = c.obuf \o S
        /\ y.update_at = IF Len(S) + c.flushed_len = MaxString THEN 0 ELSE cw
        /\ SameDict(y, a)
        /\ y.last_added = IF /\ c.update_at # 0 /\ ~ Asks(c, S)
                             /\ match_char(c, c.update_at, S[1]) = c.last_added
                          THEN 0 ELSE a.last_added

(* What regular_codeword does with the string of the codeword.             *)
LEMMA RegularWord ==
    ASSUME NEW c, Shape(c), c.str = <<>>, NEW cw, strings(c)[cw] \in Seq(Byte)
    PROVE  LET S == strings(c)[cw]
               y == regular_codeword(c, cw)
           IN  IF Allowed(c, S, cw) THEN Regular(c, S, cw, y) ELSE y.err
<1>. DEFINE S == strings(c)[cw]
            r == recv_data(c, cw)
            x == S[1]
            p == match_char(r, r.update_at, x)
            b == add_char(r, r.update_at, x)
            a == add_char(c, c.update_at, x)
            u == IF r.update_at = 0 THEN r
                 ELSE IF p = 0 THEN b
                 ELSE IF p = r.last_added THEN [r EXCEPT !.last_added = 0] ELSE r
            full == Len(u.str) + u.flushed_len = MaxString
            v == [u EXCEPT !.update_at = IF full THEN 0 ELSE cw,
                           !.escape_char = escape_after(@, u.str)]
            y == regular_codeword(c, cw)
<1>1. S \in Seq(Byte)
  OBVIOUS
<1>2. r = [c EXCEPT !.str = c.str \o S]
  BY DEF recv_data
<1>3. c.str \o S = S
  BY <1>1
<1>. HIDE DEF S
<1>4. r = [c EXCEPT !.str = S]
  BY <1>2, <1>3
<1>. HIDE DEF r
<1>5. /\ Shape(r) /\ SameRest(r, c) /\ r.str = S /\ r.obuf = c.obuf /\ r.flushed_len = c.flushed_len
      /\ r.update_at = c.update_at /\ r.last_matched = c.last_matched
      /\ r.last_added = c.last_added /\ SameDict(r, c)
  BY <1>1, <1>4 DEF Shape, SameRest, SameDict
<1>6. p = match_char(c, c.update_at, x)
  BY <1>5, MatchSame
<1>7. /\ b.parent = a.parent /\ b.ch = a.ch /\ b.next_free = a.next_free
      /\ b.last_added = a.last_added
  BY <1>5, AddSame
<1>8. b = Redict(r, b)
  BY <1>5, AddShape
<1>9. y = IF cw = c.next_free \/ cw >= DictSize THEN [c EXCEPT !.err = TRUE]
          ELSE IF r.update_at # 0 /\ p = 0 /\ cw = u.next_free THEN [u EXCEPT !.err = TRUE]
          ELSE send_string(v)
  BY <1>5 DEF regular_codeword, r
<1>. HIDE DEF p, b, a, x
<1>10. b = [r EXCEPT !.parent = a.parent, !.ch = a.ch, !.last_added = a.last_added,
                    !.next_free = a.next_free, !.update_at = b.update_at]
  BY <1>7, <1>8 DEF Redict
<1>11. /\ Shape(b) /\ SameRest(b, r) /\ b.str = S /\ b.obuf = r.obuf
       /\ b.flushed_len = r.flushed_len /\ b.last_matched = r.last_matched
  BY <1>5, <1>10 DEF Shape, SameRest
<1>12. Asks(c, S) <=> r.update_at # 0 /\ p = 0
  BY <1>5, <1>6 DEF Asks, x
<1>. DEFINE A == IF Asks(c, S) THEN a ELSE c
            L == IF c.update_at # 0 /\ ~ Asks(c, S) /\ p = c.last_added THEN 0 ELSE A.last_added
<1>13. /\ Shape(u) /\ SameRest(u, c) /\ u.str = S /\ u.obuf = c.obuf
       /\ u.flushed_len = c.flushed_len /\ u.last_matched = c.last_matched
       /\ SameDict(u, A) /\ u.last_added = L
  <2>1. CASE r.update_at = 0
    BY <2>1, <1>5, <1>12
  <2>2. CASE r.update_at # 0 /\ p = 0
    <3>1. u = b /\ A = a
      BY <2>2, <1>12
    <3>2. L = a.last_added
      BY <2>2, <1>12
    <3>. QED  BY <3>1, <3>2, <1>5, <1>7, <1>11 DEF SameRest, SameDict
  <2>3. CASE r.update_at # 0 /\ p # 0
    <3>0. A = c /\ ~ Asks(c, S) /\ c.update_at # 0
      BY <2>3, <1>5, <1>12
    <3>. HIDE DEF A
    <3>1. CASE p = r.last_added
      <4>1. u = [r EXCEPT !.last_added = 0]
        BY <2>3, <3>1
      <4>2. L = 0
        BY <3>0, <3>1, <1>5
      <4>. HIDE DEF u, L
      <4>. QED  BY <4>1, <4>2, <3>0, <1>5 DEF Shape, SameRest, SameDict
    <3>2. CASE p # r.last_added
      <4>1. u = r
        BY <2>3, <3>2
      <4>2. L = c.last_added
        BY <3>0, <3>2, <1>5
      <4>. HIDE DEF u, L
      <4>. QED  BY <4>1, <4>2, <3>0, <1>5
    <3>. QED  BY <3>1, <3>2
  <2>. QED  BY <2>1, <2>2, <2>3
<1>14. Allowed(c, S, cw) <=> /\ ~ (cw = c.next_free \/ cw >= DictSize)
                             /\ ~ (r.update_at # 0 /\ p = 0 /\ cw = u.next_free)
  BY <1>12, <1>13 DEF Allowed, SameDict, a, x
<1>. HIDE DEF u, A, L
<1>15. CASE cw = c.next_free \/ cw >= DictSize
  BY <1>9, <1>14, <1>15 DEF Shape, S
<1>16. CASE ~ (cw = c.next_free \/ cw >= DictSize) /\ r.update_at # 0 /\ p = 0 /\ cw = u.next_free
  <2>1. y = [u EXCEPT !.err = TRUE]
    BY <1>9, <1>16
  <2>. QED  BY <2>1, <1>13, <1>14, <1>16 DEF Shape, S
<1>17. CASE Allowed(c, S, cw)
  <2>1. y = send_string(v)
    BY <1>9, <1>14, <1>17
  <2>. DEFINE at == IF Len(S) + c.flushed_len = MaxString THEN 0 ELSE cw
              ec == escape_after(c.escape_char, S)
  <2>2. v = [u EXCEPT !.update_at = at, !.escape_char = ec]
    BY <1>13 DEF SameRest, Shape
  <2>. HIDE DEF v, at, ec
  <2>3. /\ Shape(v) /\ v.mode = u.mode /\ v.escape = u.escape /\ v.err = u.err
        /\ v.cw_size = u.cw_size /\ v.bit_len = u.bit_len /\ v.bit_data = u.bit_data
        /\ v.last_matched = u.last_matched /\ v.escape_char = ec /\ v.str = u.str
        /\ v.obuf = u.obuf /\ v.update_at = at /\ SameDict(v, u) /\ v.last_added = u.last_added
    BY <1>13, <2>2 DEF Shape, SameDict
  <2>4. /\ SentOff(v, y) /\ SameRest(y, v) /\ y.obuf = v.obuf \o v.str
    BY <2>1, <2>3, SendString
  <2>. HIDE DEF y
  <2>5. /\ Shape(y) /\ y.mode = c.mode /\ y.escape = c.escape /\ y.err = c.err
        /\ y.cw_size = c.cw_size /\ y.bit_len = c.bit_len /\ y.bit_data = c.bit_data
        /\ y.last_matched = c.last_matched /\ y.escape_char = ec
        /\ y.str = <<>> /\ y.flushed_len = 0 /\ y.obuf = c.obuf \o S
        /\ y.update_at = at /\ SameDict(y, A) /\ y.last_added = L
    BY <2>3, <2>4, <1>13 DEF SentOff, SameRest, SameDict
  <2>6. match_char(c, c.update_at, S[1]) = p
    BY <1>6 DEF x
  <2>7. Regular(c, S, cw, y)
    BY <2>5, <2>6 DEF Regular, at, ec, A, L, a, x
  <2>. QED  BY <2>7, <1>17 DEF S, y
<1>. QED  BY <1>14, <1>15, <1>16, <1>17

(* c with other bits waiting.                                              *)
WithBits(c, l, b) == [c EXCEPT !.bit_len = l, !.bit_data = b]

(* The fields of a comp_state with other bits waiting.                     *)
LEMMA BitsShape ==
    ASSUME NEW c, Shape(c), NEW l, NEW b
    PROVE  LET e == WithBits(c, l, b)
           IN  /\ Shape(e) /\ e.mode = c.mode /\ e.escape = c.escape /\ e.err = c.err
               /\ e.cw_size = c.cw_size /\ e.bit_len = l /\ e.bit_data = b
               /\ e.last_matched = c.last_matched /\ e.last_added = c.last_added
               /\ e.escape_char = c.escape_char /\ e.str = c.str /\ e.obuf = c.obuf
               /\ e.flushed_len = c.flushed_len /\ e.update_at = c.update_at
               /\ e.parent = c.parent /\ e.ch = c.ch /\ e.next_free = c.next_free
               /\ SameDict(e, c)
<1>. DEFINE e == WithBits(c, l, b)
<1>1. e = [c EXCEPT !.bit_len = l, !.bit_data = b]
  BY DEF WithBits
<1>. HIDE DEF e
<1>2. Shape(e)
  BY <1>1 DEF Shape
<1>3. /\ e.mode = c.mode /\ e.escape = c.escape /\ e.err = c.err
      /\ e.cw_size = c.cw_size /\ e.bit_len = l /\ e.bit_data = b
      /\ e.last_matched = c.last_matched /\ e.last_added = c.last_added
      /\ e.escape_char = c.escape_char /\ e.str = c.str /\ e.obuf = c.obuf
      /\ e.flushed_len = c.flushed_len /\ e.update_at = c.update_at
      /\ e.parent = c.parent /\ e.ch = c.ch /\ e.next_free = c.next_free
      /\ SameDict(e, c)
  BY <1>1 DEF Shape, SameDict
<1>. QED  BY <1>2, <1>3 DEF e

(* Two comp_states with the same fields.                                   *)
LEMMA ShapeEqual ==
    ASSUME NEW a, NEW b, Shape(a), Shape(b), a.mode = b.mode, a.escape = b.escape,
           a.err = b.err, a.update_at = b.update_at, a.next_free = b.next_free,
           a.last_matched = b.last_matched, a.last_added = b.last_added,
           a.cw_size = b.cw_size, a.escape_char = b.escape_char, a.parent = b.parent,
           a.ch = b.ch, a.bit_len = b.bit_len, a.bit_data = b.bit_data,
           a.flushed_len = b.flushed_len, a.str = b.str, a.obuf = b.obuf
    PROVE  a = b
BY DEF Shape

(* The codeword of a string leaves the bits behind it alone.               *)
LEMMA RegularBits ==
    ASSUME NEW c, Shape(c), DictOK(c), c.str = <<>>, NEW cw, strings(c)[cw] \in Seq(Byte),
           ~ regular_codeword(c, cw).err, NEW l, NEW b
    PROVE  regular_codeword(WithBits(c, l, b), cw) = WithBits(regular_codeword(c, cw), l, b)
<1>. DEFINE e == WithBits(c, l, b)
            S == strings(c)[cw]
            y == regular_codeword(c, cw)
            z == regular_codeword(e, cw)
            k == WithBits(y, l, b)
            ac == add_char(c, c.update_at, S[1])
            ae == add_char(e, c.update_at, S[1])
<1>1. /\ Shape(e) /\ e.mode = c.mode /\ e.escape = c.escape /\ e.err = c.err
      /\ e.cw_size = c.cw_size /\ e.bit_len = l /\ e.bit_data = b
      /\ e.last_matched = c.last_matched /\ e.last_added = c.last_added
      /\ e.escape_char = c.escape_char /\ e.str = c.str /\ e.obuf = c.obuf
      /\ e.flushed_len = c.flushed_len /\ e.update_at = c.update_at
      /\ e.next_free = c.next_free /\ SameDict(e, c)
  BY BitsShape
<1>. HIDE DEF e
<1>2. SameDict(c, e)
  BY <1>1 DEF SameDict
<1>3. strings(e) = strings(c)
  BY <1>2, DictSame
<1>4. S \in Seq(Byte) /\ strings(e)[cw] = S
  BY <1>3
<1>5. Allowed(c, S, cw) /\ Regular(c, S, cw, y)
  BY RegularWord
<1>. HIDE DEF S
<1>6. match_char(e, e.update_at, S[1]) = match_char(c, c.update_at, S[1])
  BY <1>1, MatchSame
<1>7. Asks(e, S) <=> Asks(c, S)
  BY <1>1, <1>6 DEF Asks
<1>8. SameDict(ae, ac) /\ ae.last_added = ac.last_added /\ ae = add_char(e, e.update_at, S[1])
  BY <1>1, AddSame DEF SameDict
<1>9. Allowed(e, S, cw)
  BY <1>1, <1>5, <1>7, <1>8 DEF Allowed, SameDict
<1>10. Regular(e, S, cw, z)
  BY <1>1, <1>4, <1>9, RegularWord
<1>. HIDE DEF y, z, ac, ae
<1>11. Shape(y) /\ Shape(z)
  BY <1>5, <1>10 DEF Regular
<1>12. /\ Shape(k) /\ k.mode = y.mode /\ k.escape = y.escape /\ k.err = y.err
       /\ k.cw_size = y.cw_size /\ k.bit_len = l /\ k.bit_data = b
       /\ k.last_matched = y.last_matched /\ k.last_added = y.last_added
       /\ k.escape_char = y.escape_char /\ k.str = y.str /\ k.obuf = y.obuf
       /\ k.flushed_len = y.flushed_len /\ k.update_at = y.update_at
       /\ SameDict(k, y)
  BY <1>11, BitsShape
<1>. HIDE DEF k
<1>13. SameDict(z, y) /\ z.last_added = y.last_added
  <2>1. CASE Asks(c, S)
    <3>1. SameDict(y, ac) /\ y.last_added = ac.last_added
      BY <2>1, <1>5 DEF Regular, ac
    <3>2. SameDict(z, ae) /\ z.last_added = ae.last_added
      BY <2>1, <1>7, <1>8, <1>10 DEF Regular
    <3>. QED  BY <3>1, <3>2, <1>8 DEF SameDict
  <2>2. CASE ~ Asks(c, S)
    BY <2>2, <1>1, <1>5, <1>6, <1>7, <1>10 DEF Regular, SameDict
  <2>. QED  BY <2>1, <2>2
<1>14. /\ z.mode = k.mode /\ z.escape = k.escape /\ z.err = k.err
       /\ z.cw_size = k.cw_size /\ z.bit_len = k.bit_len /\ z.bit_data = k.bit_data
       /\ z.last_matched = k.last_matched
       /\ z.escape_char = k.escape_char /\ z.str = k.str /\ z.obuf = k.obuf
       /\ z.flushed_len = k.flushed_len /\ z.update_at = k.update_at
  BY <1>1, <1>5, <1>10, <1>12 DEF Regular
<1>15. z = k
  BY <1>11, <1>12, <1>13, <1>14, ShapeEqual DEF SameDict
<1>. QED  BY <1>15 DEF z, k, e, y

(* Of a codeword b of l bits have come; e, the r bits that have not, are   *)
(* x, the next k of them, and f.                                           *)
Splits(l, b, r, e, k, x, f) ==
    /\ x \in Nat /\ x < pow2[k] /\ f \in Nat /\ f < pow2[r - k]
    /\ b + (x * pow2[l]) \in Nat /\ b + (x * pow2[l]) < pow2[l + k]
    /\ b + (pow2[l] * e) = (b + (x * pow2[l])) + (pow2[l + k] * f)

(* A codeword cut in two: the parts have the sizes that they should.       *)
LEMMA PartsSplit ==
    ASSUME NEW l \in Nat, NEW r \in Nat, NEW k \in Nat, r >= k,
           NEW b \in Nat, b < pow2[l], NEW e \in Nat, e < pow2[r],
           NEW x \in Nat, x < pow2[k], NEW f \in Nat, e = (pow2[k] * f) + x
    PROVE  Splits(l, b, r, e, k, x, f)
<1>. DEFINE P == pow2[l]
            K == pow2[k]
            R == pow2[r - k]
<1>1. P \in Nat /\ P > 0 /\ K \in Nat /\ K > 0 /\ R \in Nat /\ R > 0
  BY PowNat
<1>2. pow2[l + k] = P * K
  BY PowSum
<1>3. pow2[r] = K * R
  <2>1. r - k \in Nat /\ r = k + (r - k)
    OBVIOUS
  <2>. QED  BY <2>1, PowSum
<1>4. b < P /\ e < K * R
  BY <1>3
<1>5. e = (K * f) + x /\ x \in Nat /\ x < K /\ f \in Nat
  OBVIOUS
<1>. HIDE DEF P, K, R
<1>6. f < R
  <2>1. SUFFICES ASSUME f >= R PROVE FALSE
    BY <1>1, <1>5
  <2>2. K * f >= K * R
    BY <2>1, <1>1, <1>5
  <2>. DEFINE u == K * f
              v == K * R
  <2>3. u \in Nat /\ v \in Nat
    BY <1>1, <1>5
  <2>. QED  BY <2>2, <2>3, <1>4, <1>5
<1>7. b + (P * x) \in Nat /\ b + (P * x) < P * K
  BY <1>1, <1>4, <1>5, PartsFit
<1>8. x * P = P * x
  BY <1>1, <1>5
<1>9. b + (P * e) = (b + (x * P)) + ((P * K) * f)
  <2>1. P * e = (P * x) + (P * (K * f))
    BY <1>1, <1>5
  <2>2. P * (K * f) = (P * K) * f
    BY <1>1, <1>5
  <2>3. P * x \in Nat /\ (P * K) * f \in Nat
    BY <1>1, <1>5
  <2>. DEFINE s == P * x
              t == (P * K) * f
  <2>4. P * e = s + t /\ x * P = s /\ s \in Nat /\ t \in Nat
    BY <2>1, <2>2, <2>3, <1>8
  <2>. HIDE DEF s, t
  <2>5. b + (P * e) = (b + s) + t
    BY <2>4
  <2>. QED  BY <2>5, <2>4 DEF t
<1>10. b + (x * P) \in Nat /\ b + (x * P) < P * K
  BY <1>7, <1>8
<1>. QED  BY <1>2, <1>5, <1>6, <1>9, <1>10 DEF P, K, R, Splits

(* The next bits of a codeword are a remainder, what is left a quotient.   *)
LEMMA BitsBelow ==
    ASSUME NEW l \in Nat, NEW r \in Nat, NEW k \in Nat, r >= k,
           NEW b \in Nat, b < pow2[l], NEW e \in Nat, e < pow2[r]
    PROVE  Splits(l, b, r, e, k, e % pow2[k], e \div pow2[k])
<1>. DEFINE K == pow2[k]
            x == e % K
            f == e \div K
<1>1. K \in Nat /\ K > 0
  BY PowNat
<1>. HIDE DEF K
<1>2. e = (K * f) + x /\ x \in Nat /\ x < K /\ f \in Nat
  BY <1>1, DivMod
<1>. HIDE DEF x, f
<1>3. Splits(l, b, r, e, k, x, f)
  BY <1>2, PartsSplit DEF K
<1>. QED  BY <1>3 DEF x, f, K

(* The codeword is complete with e, and k is behind it.                    *)
Completes(l, b, r, e, k, x) ==
    /\ (b + (x * pow2[l])) % pow2[l + r] = b + (pow2[l] * e)
    /\ (b + (x * pow2[l])) \div pow2[l + r] = k

(* The bits above the codeword's last are those behind it.                 *)
LEMMA BitsAbove ==
    ASSUME NEW l \in Nat, NEW r \in Nat, NEW b \in Nat, b < pow2[l],
           NEW e \in Nat, e < pow2[r], NEW k \in Nat
    PROVE  Completes(l, b, r, e, k, e + (pow2[r] * k))
<1>. DEFINE P == pow2[l]
            R == pow2[r]
            m == b + (P * e)
            d == b + ((e + (R * k)) * P)
<1>1. P \in Nat /\ P > 0 /\ R \in Nat /\ R > 0 /\ b < P /\ e < R
  BY PowNat
<1>2. pow2[l + r] = P * R
  BY PowSum
<1>. HIDE DEF P, R
<1>3. m \in Nat /\ m < P * R
  BY <1>1, PartsFit
<1>4. d = m + ((P * R) * k)
  <2>1. (e + (R * k)) * P = (P * e) + (P * (R * k))
    BY <1>1
  <2>2. P * (R * k) = (P * R) * k
    BY <1>1
  <2>3. P * e \in Nat /\ (P * R) * k \in Nat
    BY <1>1
  <2>. DEFINE s == P * e
              t == (P * R) * k
              h == (e + (R * k)) * P
  <2>4. h = s + t /\ s \in Nat /\ t \in Nat
    BY <2>1, <2>2, <2>3
  <2>. HIDE DEF s, t, h
  <2>5. b + h = (b + s) + t
    BY <2>4
  <2>. QED  BY <2>5 DEF s, t, h
<1>5. P * R \in Nat /\ P * R > 0
  BY <1>1
<1>. HIDE DEF m, d
<1>. DEFINE Q == P * R
<1>6. Q \in Nat /\ Q > 0 /\ m < Q /\ d = m + (Q * k)
  BY <1>3, <1>4, <1>5
<1>. HIDE DEF Q
<1>7. d % Q = m /\ d \div Q = k
  BY <1>3, <1>6, DivModOf
<1>8. Q = pow2[l + r]
  BY <1>2 DEF Q
<1>. QED  BY <1>7, <1>8 DEF m, d, P, R, Completes

(* STEPUP and the codeword of a string leave the bits behind them alone;   *)
(* ETM and FLUSH drop the zeros that fill their byte.                      *)
LEMMA CodewordBits ==
    ASSUME NEW c, Shape(c), DictOK(c), c.str = <<>>, NEW m \in Nat,
           m >= FirstEntry => strings(c)[m] \in Seq(Byte), ~ codeword(c, m).err,
           m # CCW_ETM, m # CCW_FLUSH, NEW l, NEW b
    PROVE  codeword(WithBits(c, l, b), m) = WithBits(codeword(c, m), l, b)
<1>. DEFINE e == WithBits(c, l, b)
<1>1. CASE m = CCW_STEPUP
  <2>. DEFINE y == [c EXCEPT !.cw_size = c.cw_size + 1, !.err = c.cw_size + 1 > MaxCwSize]
              z == [e EXCEPT !.cw_size = e.cw_size + 1, !.err = e.cw_size + 1 > MaxCwSize]
  <2>1. codeword(c, m) = y /\ codeword(e, m) = z
    BY <1>1 DEF codeword, CCW_ETM, CCW_FLUSH, CCW_STEPUP
  <2>2. e.cw_size = c.cw_size
    BY BitsShape
  <2>3. z = WithBits(y, l, b)
    BY <2>2 DEF WithBits, Shape
  <2>. QED  BY <2>1, <2>3
<1>2. CASE m # CCW_STEPUP
  <2>1. codeword(c, m) = regular_codeword(c, m) /\ codeword(e, m) = regular_codeword(e, m)
    BY <1>2 DEF codeword, CCW_ETM, CCW_FLUSH, CCW_STEPUP
  <2>2. m >= FirstEntry
    BY <1>2 DEF CCW_ETM, CCW_FLUSH, CCW_STEPUP, FirstEntry
  <2>. QED  BY <2>1, <2>2, RegularBits
<1>. QED  BY <1>1, <1>2

(* ETM and FLUSH do with bits of zero what they do with none.              *)
LEMMA ControlBits ==
    ASSUME NEW c, Shape(c), NEW m \in {CCW_ETM, CCW_FLUSH}, NEW l
    PROVE  /\ c.bit_len = 0 /\ c.bit_data = 0 =>
                codeword(WithBits(c, l, 0), m) = codeword(c, m)
           /\ codeword(c, m).bit_len = 0 /\ codeword(c, m).bit_data = c.bit_data
<1>. DEFINE e == WithBits(c, l, 0)
<1>0. e = [c EXCEPT !.bit_len = l, !.bit_data = 0]
  BY DEF WithBits
<1>. HIDE DEF e
<1>1. CASE m = CCW_ETM
  <2>. DEFINE y == [c EXCEPT !.bit_len = 0, !.mode = "TRANSPARENT", !.last_matched = 0,
                             !.last_added = 0]
              z == [e EXCEPT !.bit_len = 0, !.mode = "TRANSPARENT", !.last_matched = 0,
                             !.last_added = 0]
  <2>1. codeword(c, m) = y /\ codeword(e, m) = z
    BY <1>1 DEF codeword, CCW_ETM, CCW_FLUSH, CCW_STEPUP
  <2>2. c.bit_len = 0 /\ c.bit_data = 0 => z = y
    BY <1>0 DEF Shape
  <2>3. y.bit_len = 0 /\ y.bit_data = c.bit_data
    BY DEF Shape
  <2>. QED  BY <2>1, <2>2, <2>3 DEF e
<1>2. CASE m = CCW_FLUSH
  <2>. DEFINE y == [c EXCEPT !.bit_len = 0]
              z == [e EXCEPT !.bit_len = 0]
  <2>1. codeword(c, m) = y /\ codeword(e, m) = z
    BY <1>2 DEF codeword, CCW_ETM, CCW_FLUSH, CCW_STEPUP
  <2>2. c.bit_len = 0 /\ c.bit_data = 0 => z = y
    BY <1>0 DEF Shape
  <2>3. y.bit_len = 0 /\ y.bit_data = c.bit_data
    BY DEF Shape
  <2>. QED  BY <2>1, <2>2, <2>3 DEF e
<1>. QED  BY <1>1, <1>2

Bits(p, l, b) == [d |-> WithBits(p.d, l, b), n |-> p.n]

(* From p, where no bits are waiting, the codeword m leads to g.           *)
Word(p, m, g, T) ==
    /\ Viewed(p) /\ p.d.mode = "COMPRESSED" /\ ~ p.d.err /\ DictOK(p.d)
    /\ p.d.bit_len = 0 /\ p.d.bit_data = 0
    /\ m \in Nat /\ (m >= FirstEntry => strings(p.d)[m] \in Seq(Byte))
    /\ Yields(p, codeword(p.d, m), g, T) /\ g.d.bit_len = 0 /\ g.d.bit_data = 0

(* At w a part of the codeword m has come; with r bits more, which are e,  *)
(* it leads to g.                                                          *)
Todo(w, r, e, m, g, T) ==
    /\ Viewed(w) /\ w.d.mode = "COMPRESSED" /\ ~ w.d.err
    /\ r \in Nat /\ r > 0 /\ w.d.bit_len + r = w.d.cw_size
    /\ e \in Nat /\ e < pow2[r] /\ w.d.bit_data < pow2[w.d.bit_len]
    /\ m = w.d.bit_data + (pow2[w.d.bit_len] * e)
    /\ Word(Bits(w, 0, 0), m, g, T)

(* Other bits keep the type of a comp_state.                               *)
LEMMA BitsType ==
    ASSUME NEW c \in CompType, NEW l \in Nat, NEW b \in Nat
    PROVE  WithBits(c, l, b) \in CompType
BY DEF WithBits, CompType

(* Only the bits put last count.                                           *)
LEMMA BitsOver ==
    ASSUME NEW c, Shape(c), NEW l, NEW b, NEW i, NEW j
    PROVE  /\ WithBits(WithBits(c, l, b), i, j) = WithBits(c, i, j)
           /\ WithBits(c, c.bit_len, c.bit_data) = c
<1>. DEFINE e == WithBits(c, l, b)
<1>1. e = [c EXCEPT !.bit_len = l, !.bit_data = b]
  BY DEF WithBits
<1>. HIDE DEF e
<1>2. WithBits(e, i, j) = [e EXCEPT !.bit_len = i, !.bit_data = j]
  BY DEF WithBits
<1>3. WithBits(c, i, j) = [c EXCEPT !.bit_len = i, !.bit_data = j]
  BY DEF WithBits
<1>4. WithBits(e, i, j) = WithBits(c, i, j)
  BY <1>1, <1>2, <1>3 DEF Shape
<1>5. WithBits(c, c.bit_len, c.bit_data) = c
  BY DEF WithBits, Shape
<1>. QED  BY <1>4, <1>5 DEF e

(* A point with other bits waiting.                                        *)
LEMMA BitsPoint ==
    ASSUME NEW p, Viewed(p), NEW l \in Nat, NEW b \in Nat
    PROVE  LET q == Bits(p, l, b)
           IN  /\ Viewed(q) /\ q.n = p.n /\ q.d = WithBits(p.d, l, b)
               /\ q.d.mode = p.d.mode /\ q.d.err = p.d.err
               /\ q.d.bit_len = l /\ q.d.bit_data = b /\ q.d.cw_size = p.d.cw_size
               /\ q.d.flushed_len = p.d.flushed_len
               /\ \A i \in Nat, j \in Nat : Bits(q, i, j) = Bits(p, i, j)
               /\ Bits(p, p.d.bit_len, p.d.bit_data) = p
<1>. DEFINE q == Bits(p, l, b)
<1>1. p \in Point /\ p.d \in CompType /\ p.n \in Nat /\ p = [d |-> p.d, n |-> p.n]
  BY DEF Viewed, Point
<1>2. Shape(p.d)
  BY <1>1, CompShape
<1>3. q = [d |-> WithBits(p.d, l, b), n |-> p.n] /\ q.d = WithBits(p.d, l, b) /\ q.n = p.n
  BY DEF Bits
<1>4. WithBits(p.d, l, b) \in CompType
  BY <1>1, BitsType
<1>5. q \in Point
  BY <1>1, <1>3, <1>4 DEF Point
<1>. HIDE DEF q
<1>6. /\ q.d.mode = p.d.mode /\ q.d.err = p.d.err
      /\ q.d.bit_len = l /\ q.d.bit_data = b /\ q.d.cw_size = p.d.cw_size
      /\ q.d.flushed_len = p.d.flushed_len
      /\ q.d.str = p.d.str /\ q.d.obuf = p.d.obuf
  BY <1>2, <1>3, BitsShape
<1>7. Viewed(q)
  BY <1>5, <1>6 DEF Viewed
<1>8. ASSUME NEW i \in Nat, NEW j \in Nat PROVE Bits(q, i, j) = Bits(p, i, j)
  <2>1. WithBits(q.d, i, j) = WithBits(p.d, i, j)
    BY <1>2, <1>3, BitsOver
  <2>. QED  BY <2>1, <1>3 DEF Bits
<1>9. Bits(p, p.d.bit_len, p.d.bit_data) = p
  BY <1>1, <1>2, BitsOver DEF Bits
<1>. QED  BY <1>3, <1>6, <1>7, <1>8, <1>9 DEF q

(* A codeword leads where it does with bits behind it, too.                *)
LEMMA WordBits ==
    ASSUME NEW p, NEW m, NEW g, NEW T, Word(p, m, g, T), NEW l \in Nat, NEW b \in Nat
    PROVE  /\ m # CCW_ETM /\ m # CCW_FLUSH =>
                Yields(Bits(p, l, b), codeword(WithBits(p.d, l, b), m), Bits(g, l, b), T)
           /\ m \in {CCW_ETM, CCW_FLUSH} /\ b = 0 =>
                Yields(Bits(p, l, b), codeword(WithBits(p.d, l, b), m), g, T)
<1>. DEFINE y == codeword(p.d, m)
            z == codeword(WithBits(p.d, l, b), m)
            q == Bits(p, l, b)
<1>1. q.n = p.n /\ q.d.flushed_len = p.d.flushed_len
  BY BitsPoint DEF Word
<1>. HIDE DEF q
<1>2. p.d \in CompType /\ Shape(p.d)
  BY CompShape DEF Word, Viewed, Point
<1>3. y \in CompType /\ ~ y.err /\ (y.mode = "COMPRESSED" => y.str = <<>>)
      /\ g = [d |-> View(y), n |-> p.n + Len(y.obuf) + Len(y.str)]
      /\ g.n <= Len(T) /\ y.obuf \o y.str = SubSeq(T, p.n + 1, g.n)
      /\ p.d.flushed_len + Len(y.obuf) + Len(y.str) <= MaxString
  BY DEF Word, Yields
<1>4. ASSUME m # CCW_ETM, m # CCW_FLUSH
      PROVE  Yields(q, z, Bits(g, l, b), T)
  <2>1. z = WithBits(y, l, b)
    BY <1>2, <1>3, <1>4, CodewordBits DEF Word, Viewed
  <2>. HIDE DEF y, z
  <2>2. Shape(y)
    BY <1>3, CompShape
  <2>3. z \in CompType
    BY <2>1, <1>3, BitsType
  <2>4. z.err = y.err /\ z.mode = y.mode /\ z.str = y.str /\ z.obuf = y.obuf
        /\ z.flushed_len = y.flushed_len
    BY <2>1, <2>2, BitsShape
  <2>5. View(z) = WithBits(View(y), l, b)
    BY <2>1, <2>2, <2>4 DEF View, WithBits, Shape
  <2>6. Bits(g, l, b) = [d |-> View(z), n |-> g.n]
    BY <2>5, <1>3 DEF Bits
  <2>. DEFINE G == Bits(g, l, b)
  <2>7. G.n = g.n /\ G = [d |-> View(z), n |-> G.n]
    BY <2>6
  <2>. HIDE DEF G
  <2>. QED  BY <2>3, <2>4, <2>7, <1>1, <1>3 DEF Yields, G
<1>5. ASSUME m \in {CCW_ETM, CCW_FLUSH}, b = 0
      PROVE  Yields(q, z, g, T)
  <2>1. z = y
    BY <1>2, <1>5, ControlBits DEF Word
  <2>. QED  BY <2>1, <1>1, <1>3 DEF Yields
<1>. QED  BY <1>4, <1>5 DEF q

(* A decoder that has been flushed is its own view.                        *)
LEMMA ViewViewed ==
    ASSUME NEW c \in CompType, c.str = <<>>, c.obuf = <<>>
    PROVE  View(c) = c
<1>1. Shape(c) /\ c.flushed_len \in Nat
  BY CompShape, CompFields
<1>2. c.flushed_len + Len(c.str) = c.flushed_len
  BY <1>1
<1>3. View(c) = [c EXCEPT !.str = <<>>, !.obuf = <<>>, !.flushed_len = c.flushed_len]
  BY <1>2 DEF View
<1>. HIDE DEF View
<1>. QED  BY <1>1, <1>3 DEF Shape

(* A byte that does not complete the codeword.                             *)
LEMMA TodoByte ==
    ASSUME NEW w, NEW r, NEW e, NEW m, NEW g, NEW T \in Seq(Byte), Todo(w, r, e, m, g, T),
           r > CharSize
    PROVE  LET x == e % TotalChars
           IN  x \in Byte /\ \E v : /\ Step(w, x, v, T)
                                    /\ Todo(v, r - CharSize, e \div TotalChars, m, g, T)
<1>. DEFINE x == e % TotalChars
            f == e \div TotalChars
            l == w.d.bit_len
            b == w.d.bit_data
            k == l + CharSize
            h == b + (x * pow2[l])
            v == Bits(w, k, h)
            y == comp_decode(w.d, x)
<1>1. TotalChars = pow2[CharSize] /\ CharSize \in Nat /\ CharSize >= 1
  BY Constant DEF TotalChars
<1>2. /\ w.d \in CompType /\ w.n \in Nat /\ l \in Nat /\ b \in Nat /\ r \in Nat /\ e \in Nat
      /\ w.d.cw_size \in Nat /\ l + r = w.d.cw_size /\ b < pow2[l] /\ e < pow2[r]
      /\ m = b + (pow2[l] * e) /\ Viewed(w) /\ w.d.mode = "COMPRESSED" /\ ~ w.d.err
      /\ w.d.str = <<>> /\ w.d.obuf = <<>> /\ Word(Bits(w, 0, 0), m, g, T)
      /\ w = [d |-> w.d, n |-> w.n]
  BY CompFields DEF Todo, Viewed, Point
<1>3. /\ x \in Nat /\ x < TotalChars /\ f \in Nat /\ f < pow2[r - CharSize]
      /\ b + (x * pow2[l]) \in Nat /\ b + (x * pow2[l]) < pow2[l + CharSize]
      /\ m = (b + (x * pow2[l])) + (pow2[l + CharSize] * f)
  <2>. HIDE DEF l, b
  <2>1. /\ l \in Nat /\ r \in Nat /\ CharSize \in Nat /\ r >= CharSize
        /\ b \in Nat /\ b < pow2[l] /\ e \in Nat /\ e < pow2[r]
    BY <1>1, <1>2
  <2>2. Splits(l, b, r, e, CharSize, x, f)
    BY <2>1, <1>1, BitsBelow
  <2>. HIDE DEF x, f
  <2>3. m = b + (pow2[l] * e)
    BY <1>2
  <2>. QED  BY <2>2, <2>3, <1>1 DEF Splits
<1>. HIDE DEF x, f, l, b
<1>4. x \in Byte
  <2>1. x \in Nat /\ x < TotalChars /\ TotalChars \in Nat
    BY <1>3, Constant
  <2>. QED  BY <2>1 DEF Byte
<1>5. y = WithBits(w.d, l + CharSize, b + (x * pow2[l]))
  <2>1. l + CharSize < w.d.cw_size
    BY <1>1, <1>2
  <2>2. y = decode_bits(w.d, x)
    BY <1>2 DEF comp_decode
  <2>. QED  BY <2>1, <2>2 DEF decode_bits, WithBits, l, b
<1>6. k \in Nat /\ h \in Nat /\ y = WithBits(w.d, k, h)
      /\ m = h + (pow2[k] * f) /\ h < pow2[k]
  BY <1>1, <1>2, <1>3, <1>5
<1>. HIDE DEF y, k, h
<1>61. Viewed(w) /\ k \in Nat /\ h \in Nat
  BY <1>2, <1>6
<1>7. /\ Viewed(v) /\ v.n = w.n /\ v.d = WithBits(w.d, k, h)
      /\ v.d.mode = w.d.mode /\ v.d.err = w.d.err
      /\ v.d.bit_len = k /\ v.d.bit_data = h
      /\ v.d.cw_size = w.d.cw_size /\ v.d.flushed_len = w.d.flushed_len
      /\ Bits(v, 0, 0) = Bits(w, 0, 0)
  BY <1>61, BitsPoint
<1>. HIDE DEF v
<1>8. v.d = y /\ v \in Point /\ y \in CompType /\ y.str = <<>> /\ y.obuf = <<>>
  <2>1. v.d = y
    BY <1>6, <1>7
  <2>2. Viewed(v)
    BY <1>7
  <2>. QED  BY <2>1, <2>2 DEF Viewed, Point
<1>9. w.n <= Len(T) /\ w.d.flushed_len <= MaxString
  <2>. DEFINE p == Bits(w, 0, 0)
              z == codeword(p.d, m)
  <2>1. p.n = w.n /\ p.d.flushed_len = w.d.flushed_len
    BY <1>61, BitsPoint
  <2>2. Yields(p, z, g, T)
    BY <1>2 DEF Word
  <2>. HIDE DEF p, z
  <2>3. z \in CompType /\ g.n = w.n + Len(z.obuf) + Len(z.str) /\ g.n <= Len(T)
        /\ w.d.flushed_len + Len(z.obuf) + Len(z.str) <= MaxString
    BY <2>1, <2>2 DEF Yields
  <2>. DEFINE i == Len(z.obuf)
              j == Len(z.str)
              t == Len(T)
              o == w.d.flushed_len
  <2>4. i \in Nat /\ j \in Nat /\ o \in Nat /\ t \in Nat
    BY <2>3, <1>2, CompFields, SMTT(30)
  <2>5. w.n + i + j <= t /\ o + i + j <= MaxString /\ w.n \in Nat /\ MaxString \in Nat
    BY <2>3, <1>2, Constant
  <2>. HIDE DEF i, j, t, o
  <2>6. w.n <= t /\ o <= MaxString
    BY <2>4, <2>5
  <2>. QED  BY <2>6 DEF t, o
<1>10. View(y) = y
  BY <1>8, ViewViewed
<1>11. Yields(w, y, v, T)
  <2>1. Len(y.obuf) = 0 /\ Len(y.str) = 0 /\ y.obuf \o y.str = <<>> /\ w.d.flushed_len \in Nat
    BY <1>8, <1>2, CompFields
  <2>2. SubSeq(T, w.n + 1, w.n) = <<>>
    BY <1>2
  <2>3. v = [d |-> View(y), n |-> w.n + 0 + 0] /\ v.n = w.n
    BY <1>2, <1>7, <1>8, <1>10 DEF Viewed, Point
  <2>4. w.n + 0 + 0 = w.n /\ w.d.flushed_len + 0 + 0 = w.d.flushed_len
    BY <2>1, <1>2
  <2>5. ~ y.err
    BY <1>2, <1>7, <1>8
  <2>. QED  BY <2>1, <2>2, <2>3, <2>4, <2>5, <1>8, <1>9 DEF Yields
<1>12. Step(w, x, v, T)
  BY <1>61, <1>11 DEF Step, y
<1>13. Todo(v, r - CharSize, f, m, g, T)
  <2>1. r - CharSize \in Nat /\ r - CharSize > 0 /\ k + (r - CharSize) = w.d.cw_size
    BY <1>1, <1>2 DEF k
  <2>. QED  BY <2>1, <1>2, <1>3, <1>6, <1>7 DEF Todo
<1>. QED  BY <1>4, <1>12, <1>13 DEF x, f

(* A byte that completes it, with k behind.                                *)
LEMMA TodoLast ==
    ASSUME NEW w, NEW r, NEW e, NEW m, NEW g, NEW T \in Seq(Byte), Todo(w, r, e, m, g, T),
           r <= CharSize, NEW k \in Nat, k < pow2[CharSize - r]
    PROVE  LET x == e + (pow2[r] * k)
           IN  /\ x \in Byte
               /\ m # CCW_ETM /\ m # CCW_FLUSH => Step(w, x, Bits(g, CharSize - r, k), T)
               /\ m \in {CCW_ETM, CCW_FLUSH} /\ k = 0 => Step(w, x, g, T)
<1>. DEFINE l == w.d.bit_len
            b == w.d.bit_data
            x == e + (pow2[r] * k)
            y == comp_decode(w.d, x)
            o == CharSize - r
            p == Bits(w, 0, 0)
            z == codeword(WithBits(p.d, o, k), m)
            q == Bits(p, o, k)
<1>1. TotalChars = pow2[CharSize] /\ CharSize \in Nat /\ CharSize >= 1 /\ TotalChars \in Nat
  BY Constant DEF TotalChars
<1>2. /\ w.d \in CompType /\ w.n \in Nat /\ l \in Nat /\ b \in Nat /\ r \in Nat /\ e \in Nat
      /\ w.d.cw_size \in Nat /\ l + r = w.d.cw_size /\ b < pow2[l] /\ e < pow2[r]
      /\ m = b + (pow2[l] * e) /\ Viewed(w) /\ w.d.mode = "COMPRESSED"
      /\ Word(p, m, g, T)
  BY CompFields DEF Todo, Viewed, Point
<1>3. Completes(l, b, r, e, k, x)
  <2>1. l \in Nat /\ r \in Nat /\ b \in Nat /\ b < pow2[l] /\ e \in Nat /\ e < pow2[r]
    BY <1>2
  <2>. HIDE DEF l, b
  <2>. QED  BY <2>1, BitsAbove
<1>4. o \in Nat /\ k < pow2[o] /\ r + o = CharSize
  BY <1>1, <1>2
<1>5. x \in Byte
  <2>1. pow2[CharSize] = pow2[r] * pow2[o]
    BY <1>2, <1>4, PowSum
  <2>2. pow2[r] \in Nat /\ pow2[o] \in Nat
    BY <1>2, <1>4, PowNat
  <2>3. r \in Nat /\ e \in Nat /\ e < pow2[r]
    BY <1>2
  <2>. HIDE DEF o
  <2>4. x \in Nat /\ x < pow2[r] * pow2[o]
    BY <2>2, <2>3, <1>4, PartsFit
  <2>. HIDE DEF x
  <2>5. x \in Nat /\ x < TotalChars /\ TotalChars \in Nat
    BY <2>1, <2>4, <1>1
  <2>. QED  BY <2>5 DEF Byte
<1>. HIDE DEF x
<1>6. y = codeword(WithBits(w.d, o, k), m)
  <2>1. y = decode_bits(w.d, x)
    BY <1>2 DEF comp_decode
  <2>. DEFINE data == b + (x * pow2[l])
              size == pow2[w.d.cw_size]
              len == l + CharSize
  <2>2. ~ (len < w.d.cw_size) /\ len - w.d.cw_size = o
    BY <1>1, <1>2
  <2>3. data % size = m /\ data \div size = k
    <3>1. pow2[l + r] = size
      BY <1>2
    <3>2. m = b + (pow2[l] * e)
      BY <1>2
    <3>. HIDE DEF size, l, b
    <3>. QED  BY <3>1, <3>2, <1>3 DEF Completes
  <2>4. decode_bits(w.d, x) =
          IF len < w.d.cw_size THEN [w.d EXCEPT !.bit_len = len, !.bit_data = data]
          ELSE codeword([w.d EXCEPT !.bit_len = len - w.d.cw_size, !.bit_data = data \div size],
                        data % size)
    BY DEF decode_bits
  <2>. HIDE DEF data, size, len, o
  <2>5. decode_bits(w.d, x) = codeword([w.d EXCEPT !.bit_len = o, !.bit_data = k], m)
    BY <2>2, <2>3, <2>4
  <2>. QED  BY <2>1, <2>5 DEF WithBits
<1>7. Viewed(w) /\ 0 \in Nat
  BY <1>2
<1>8. /\ Viewed(p) /\ p.n = w.n /\ p.d.flushed_len = w.d.flushed_len /\ p.d = WithBits(w.d, 0, 0)
  BY <1>7, BitsPoint
<1>9. WithBits(p.d, o, k) = WithBits(w.d, o, k)
  BY <1>2, <1>8, CompShape, BitsOver
<1>10. y = z
  BY <1>6, <1>9
<1>11. Viewed(p) /\ o \in Nat /\ Word(p, m, g, T)
  BY <1>2, <1>4, <1>8
<1>. HIDE DEF p, o, y, z
<1>12. q.n = w.n /\ q.d.flushed_len = w.d.flushed_len
  BY <1>8, <1>11, BitsPoint
<1>13. /\ m # CCW_ETM /\ m # CCW_FLUSH => Yields(q, z, Bits(g, o, k), T)
       /\ m \in {CCW_ETM, CCW_FLUSH} /\ k = 0 => Yields(q, z, g, T)
  BY <1>11, WordBits DEF z
<1>. HIDE DEF q
<1>14. \A h : Yields(q, z, h, T) => Step(w, x, h, T)
  BY <1>7, <1>10, <1>12 DEF Yields, Step, y
<1>. QED  BY <1>5, <1>13, <1>14 DEF x, o

(* The characters of n * CharSize bits.                                    *)
Rest(e, n) == e \div pow2[CharSize * n]
Chars(e, n) == [i \in 1 .. n |-> (e \div pow2[CharSize * (i - 1)]) % TotalChars]

(* Multiples of the size of a character.                                   *)
LEMMA Times ==
    ASSUME NEW n \in Nat
    PROVE  /\ CharSize * n \in Nat /\ CharSize * (n + 1) = (CharSize * n) + CharSize
           /\ CharSize * 0 = 0 /\ (n >= 1 => CharSize * n >= CharSize)
BY Constant

(* What is left after one character more.                                  *)
LEMMA RestNext ==
    ASSUME NEW n \in Nat, NEW e \in Nat
    PROVE  /\ Rest(e, 0) = e /\ Rest(e, n) \in Nat
           /\ Rest(e, n + 1) = Rest(e, n) \div TotalChars
           /\ Rest(e, n + 1) = Rest(e \div TotalChars, n)
<1>. DEFINE k == CharSize * n
            p == pow2[k]
<1>1. k \in Nat /\ CharSize * (n + 1) = k + CharSize /\ CharSize * 0 = 0 /\ CharSize \in Nat
  BY Times, Constant
<1>. HIDE DEF k
<1>2. p \in Nat /\ p > 0 /\ TotalChars \in Nat /\ TotalChars > 0
  BY <1>1, PowNat, Constant
<1>3. pow2[k + CharSize] = p * TotalChars
  BY <1>1, PowSum DEF TotalChars
<1>4. p * TotalChars = TotalChars * p
  BY <1>2
<1>5. pow2[CharSize * (n + 1)] = p * TotalChars /\ pow2[CharSize * (n + 1)] = TotalChars * p
  BY <1>1, <1>3, <1>4
<1>. HIDE DEF p
<1>6. e \div (p * TotalChars) = (e \div p) \div TotalChars
  BY <1>2, DivDiv
<1>7. e \div (TotalChars * p) = (e \div TotalChars) \div p
  BY <1>2, DivDiv
<1>8. e \div p \in Nat
  BY <1>2, DivMod
<1>9. Rest(e, 0) = e
  <2>1. pow2[CharSize * 0] = 1
    BY <1>1, PowDef
  <2>. QED  BY <2>1 DEF Rest
<1>. QED  BY <1>5, <1>6, <1>7, <1>8, <1>9 DEF Rest, p, k

(* The characters cut from the bits are bytes.                             *)
LEMMA CharsAre ==
    ASSUME NEW e \in Nat, NEW n \in Nat
    PROVE  /\ Chars(e, n) \in Seq(Byte) /\ Len(Chars(e, n)) = n
           /\ \A i \in 1 .. n : Chars(e, n)[i] = Rest(e, i - 1) % TotalChars
<1>1. ASSUME NEW i \in 1 .. n PROVE Rest(e, i - 1) % TotalChars \in Byte
  <2>. DEFINE r == Rest(e, i - 1)
  <2>1. i - 1 \in Nat
    OBVIOUS
  <2>2. r \in Nat
    BY <2>1, RestNext
  <2>. HIDE DEF r
  <2>3. TotalChars \in Nat /\ TotalChars > 0
    BY Constant
  <2>4. r % TotalChars \in Nat /\ r % TotalChars < TotalChars
    BY <2>2, <2>3, DivMod
  <2>. DEFINE q == r % TotalChars
  <2>5. q \in Nat /\ q < TotalChars
    BY <2>4
  <2>. HIDE DEF q
  <2>6. q \in Byte
    BY <2>3, <2>5 DEF Byte
  <2>. QED  BY <2>6 DEF q, r
<1>2. Chars(e, n) = [i \in 1 .. n |-> Rest(e, i - 1) % TotalChars]
  BY DEF Chars, Rest
<1>3. \A i \in 1 .. n : Rest(e, i - 1) % TotalChars \in Byte
  BY <1>1
<1>. DEFINE s == Chars(e, n)
<1>. HIDE DEF s
<1>4. s \in [1 .. n -> Byte]
  BY <1>2, <1>3 DEF s
<1>5. s \in Seq(Byte) /\ Len(s) = n
  BY <1>4
<1>6. \A i \in 1 .. n : s[i] = Rest(e, i - 1) % TotalChars
  BY <1>2 DEF s
<1>. QED  BY <1>5, <1>6 DEF s

(* One character more, at the end or at the beginning.                     *)
LEMMA CharsMore ==
    ASSUME NEW e \in Nat, NEW n \in Nat
    PROVE  /\ Chars(e, 0) = <<>>
           /\ Chars(e, n + 1) = Chars(e, n) \o <<Rest(e, n) % TotalChars>>
           /\ Chars(e, n + 1) = <<e % TotalChars>> \o Chars(e \div TotalChars, n)
<1>. DEFINE s == Chars(e, n)
            t == Chars(e, n + 1)
            f == e \div TotalChars
            u == Chars(f, n)
            x == Rest(e, n) % TotalChars
            y == e % TotalChars
<1>0. TotalChars \in Nat /\ TotalChars > 0
  BY Constant
<1>1. f \in Nat
  BY <1>0, DivMod
<1>. HIDE DEF f
<1>2. s \in Seq(Byte) /\ Len(s) = n /\ \A i \in 1 .. n : s[i] = Rest(e, i - 1) % TotalChars
  BY CharsAre
<1>3. t \in Seq(Byte) /\ Len(t) = n + 1
      /\ \A i \in 1 .. n + 1 : t[i] = Rest(e, i - 1) % TotalChars
  <2>1. n + 1 \in Nat
    OBVIOUS
  <2>. QED  BY <2>1, CharsAre
<1>4. u \in Seq(Byte) /\ Len(u) = n /\ \A i \in 1 .. n : u[i] = Rest(f, i - 1) % TotalChars
  BY <1>1, CharsAre
<1>5. Chars(e, 0) \in Seq(Byte) /\ Len(Chars(e, 0)) = 0
  BY CharsAre
<1>6. t[1] = y
  <2>1. Rest(e, 0) = e
    BY RestNext
  <2>2. t[1] = Rest(e, 0) % TotalChars
    BY <1>3
  <2>. QED  BY <2>1, <2>2
<1>7. \A i \in 1 .. n : t[i + 1] = u[i]
  <2>. TAKE i \in 1 .. n
  <2>. DEFINE j == i - 1
  <2>1. j \in Nat /\ (i + 1) - 1 = j + 1 /\ i + 1 \in 1 .. n + 1
    OBVIOUS
  <2>2. Rest(e, j + 1) = Rest(f, j)
    BY <2>1, RestNext DEF f
  <2>3. t[i + 1] = Rest(e, (i + 1) - 1) % TotalChars /\ u[i] = Rest(f, j) % TotalChars
    BY <2>1, <1>3, <1>4
  <2>. QED  BY <2>1, <2>2, <2>3
<1>8. \A i \in 1 .. n : t[i] = s[i]
  BY <1>2, <1>3
<1>9. t[n + 1] = x
  <2>1. n + 1 \in 1 .. n + 1 /\ (n + 1) - 1 = n
    OBVIOUS
  <2>. QED  BY <2>1, <1>3
<1>10. x \in Byte /\ y \in Byte
  <2>1. t[1] \in Byte /\ t[n + 1] \in Byte
    BY <1>3
  <2>. QED  BY <2>1, <1>6, <1>9
<1>. HIDE DEF s, t, u, x, y
<1>11. t = s \o <<x>>
  BY <1>2, <1>3, <1>8, <1>9, <1>10
<1>12. t = <<y>> \o u
  <2>. DEFINE v == <<y>> \o u
  <2>1. v \in Seq(Byte) /\ Len(v) = n + 1 /\ v[1] = y /\ \A i \in 1 .. n : v[i + 1] = u[i]
    BY <1>4, <1>10
  <2>. HIDE DEF v
  <2>2. \A i \in 1 .. n + 1 : t[i] = v[i]
    <3>. TAKE i \in 1 .. n + 1
    <3>1. CASE i = 1
      BY <3>1, <2>1, <1>6
    <3>2. CASE i # 1
      <4>1. i - 1 \in 1 .. n /\ (i - 1) + 1 = i
        BY <3>2
      <4>. QED  BY <4>1, <2>1, <1>7
    <3>. QED  BY <3>1, <3>2
  <2>3. t = v
    BY <2>1, <2>2, <1>3
  <2>. QED  BY <2>3 DEF v
<1>13. Chars(e, 0) = <<>>
  BY <1>5
<1>. QED  BY <1>11, <1>12, <1>13 DEF s, t, u, x, y, f

(* From w the first n characters of e lead to v.                           *)
Reach(w, r, e, m, g, T, n, v) ==
    /\ Decodes(w, Chars(e, n), v, T)
    /\ IF CharSize * n < r THEN Todo(v, r - (CharSize * n), Rest(e, n), m, g, T) ELSE v = g

(* A last byte with no bits behind the codeword.                           *)
LEMMA TodoEnd ==
    ASSUME NEW w, NEW r, NEW e, NEW m, NEW g, NEW T \in Seq(Byte), Todo(w, r, e, m, g, T),
           r = CharSize \/ (r <= CharSize /\ m \in {CCW_ETM, CCW_FLUSH})
    PROVE  e % TotalChars = e /\ e \div TotalChars = 0 /\ e \in Byte /\ Step(w, e, g, T)
<1>1. CharSize \in Nat /\ TotalChars = pow2[CharSize] /\ TotalChars \in Nat /\ TotalChars > 0
  BY Constant DEF TotalChars
<1>2. r \in Nat /\ r <= CharSize /\ e \in Nat /\ e < pow2[r] /\ Word(Bits(w, 0, 0), m, g, T)
  BY <1>1 DEF Todo
<1>3. CharSize - r \in Nat
  BY <1>1, <1>2
<1>4. 0 \in Nat /\ 0 < pow2[CharSize - r] /\ pow2[r] \in Nat /\ pow2[r] <= TotalChars
  BY <1>1, <1>2, <1>3, PowNat, PowMonotone
<1>5. e + (pow2[r] * 0) = e
  BY <1>2, <1>4
<1>6. /\ e \in Byte
      /\ m # CCW_ETM /\ m # CCW_FLUSH => Step(w, e, Bits(g, CharSize - r, 0), T)
      /\ m \in {CCW_ETM, CCW_FLUSH} => Step(w, e, g, T)
  <2>. DEFINE x == e + (pow2[r] * 0)
  <2>1. /\ x \in Byte
        /\ m # CCW_ETM /\ m # CCW_FLUSH => Step(w, x, Bits(g, CharSize - r, 0), T)
        /\ m \in {CCW_ETM, CCW_FLUSH} => Step(w, x, g, T)
    BY <1>2, <1>4, TodoLast
  <2>2. x = e
    BY <1>5
  <2>. HIDE DEF x
  <2>. QED  BY <2>1, <2>2
<1>7. e < TotalChars
  BY <1>2, <1>4, <1>1
<1>8. e % TotalChars = e /\ e \div TotalChars = 0
  BY <1>1, <1>2, <1>7, DivOfLess
<1>9. CASE m \in {CCW_ETM, CCW_FLUSH}
  BY <1>6, <1>8, <1>9
<1>10. CASE m # CCW_ETM /\ m # CCW_FLUSH
  <2>1. r = CharSize /\ CharSize - r = 0
    BY <1>1, <1>10
  <2>2. g.d.bit_len = 0 /\ g.d.bit_data = 0 /\ Yields(Bits(w, 0, 0), codeword(Bits(w, 0, 0).d, m), g, T)
        /\ Viewed(Bits(w, 0, 0))
    BY <1>2 DEF Word
  <2>3. Viewed(g)
    BY <2>2, YieldsViewed DEF Viewed
  <2>4. Bits(g, 0, 0) = g
    BY <2>2, <2>3, BitsPoint
  <2>. QED  BY <2>1, <2>4, <1>6, <1>8, <1>10
<1>. QED  BY <1>9, <1>10

(* One character more leads on ...                                         *)
LEMMA ReachNext ==
    ASSUME NEW w, NEW r \in Nat, NEW e \in Nat, NEW m, NEW g, NEW T \in Seq(Byte), NEW n \in Nat,
           NEW v, Reach(w, r, e, m, g, T, n, v), CharSize * (n + 1) <= r
    PROVE  \E u : Reach(w, r, e, m, g, T, n + 1, u)
<1>. DEFINE k == CharSize * n
            E == Rest(e, n)
            x == E % TotalChars
<1>1. k \in Nat /\ CharSize * (n + 1) = k + CharSize /\ CharSize \in Nat /\ CharSize >= 1
  BY Times, Constant
<1>2. E \in Nat /\ Rest(e, n + 1) = E \div TotalChars
  BY RestNext
<1>3. Chars(e, n) \in Seq(Byte) /\ Chars(e, n + 1) = Chars(e, n) \o <<x>>
  BY CharsAre, CharsMore
<1>4. Decodes(w, Chars(e, n), v, T) /\ (k < r => Todo(v, r - k, E, m, g, T))
  BY DEF Reach
<1>5. k + CharSize <= r /\ k < r
  BY <1>1
<1>. HIDE DEF k, E
<1>6. Todo(v, r - k, E, m, g, T)
  BY <1>4, <1>5
<1>7. CASE k + CharSize < r
  <2>1. r - k > CharSize
    BY <1>1, <1>7
  <2>2. PICK u : Step(v, x, u, T) /\ Todo(u, (r - k) - CharSize, E \div TotalChars, m, g, T)
    BY <1>6, <2>1, TodoByte
  <2>3. x \in Byte
    BY <1>6, <2>1, TodoByte
  <2>. HIDE DEF x
  <2>4. <<x>> \in Seq(Byte) /\ Decodes(v, <<x>>, u, T)
    BY <2>2, <2>3, DecodesOne
  <2>5. Decodes(w, Chars(e, n + 1), u, T)
    BY <1>3, <1>4, <2>4, DecodesJoin
  <2>6. (r - k) - CharSize = r - (k + CharSize)
    BY <1>1
  <2>7. Reach(w, r, e, m, g, T, n + 1, u)
    BY <2>2, <2>5, <2>6, <1>1, <1>2, <1>7 DEF Reach
  <2>. QED  BY <2>7
<1>8. CASE k + CharSize = r
  <2>1. r - k = CharSize
    BY <1>1, <1>8
  <2>2. x = E /\ E \in Byte /\ Step(v, E, g, T)
    BY <1>6, <2>1, TodoEnd
  <2>. HIDE DEF x
  <2>3. <<x>> \in Seq(Byte) /\ Decodes(v, <<x>>, g, T)
    BY <2>2, DecodesOne
  <2>4. Decodes(w, Chars(e, n + 1), g, T)
    BY <1>3, <1>4, <2>3, DecodesJoin
  <2>5. Reach(w, r, e, m, g, T, n + 1, g)
    BY <2>4, <1>1, <1>8 DEF Reach
  <2>. QED  BY <2>5
<1>. QED  BY <1>1, <1>5, <1>7, <1>8

(* ... and so do all that are complete.                                    *)
LEMMA TodoMany ==
    ASSUME NEW w, NEW r, NEW e, NEW m, NEW g, NEW T \in Seq(Byte), Todo(w, r, e, m, g, T),
           NEW n \in Nat, CharSize * n <= r
    PROVE  \E v : Reach(w, r, e, m, g, T, n, v)
<1>. DEFINE Bad == {i \in Nat : CharSize * i <= r /\ ~ \E v : Reach(w, r, e, m, g, T, i, v)}
<1>1. SUFFICES ASSUME Bad # {} PROVE FALSE
  OBVIOUS
<1>2. PICK i \in Bad : \A j \in Bad : i <= j
  BY <1>1, Least
<1>3. r \in Nat /\ r > 0 /\ e \in Nat /\ Viewed(w)
  BY DEF Todo
<1>4. i # 0
  <2>1. CharSize * 0 = 0 /\ Chars(e, 0) = <<>> /\ Rest(e, 0) = e
    BY <1>3, Times, CharsMore, RestNext
  <2>2. Decodes(w, <<>>, w, T)
    BY <1>3, DecodesNil
  <2>3. r - 0 = r
    BY <1>3
  <2>4. Reach(w, r, e, m, g, T, 0, w)
    BY <2>1, <2>2, <2>3, <1>3 DEF Reach
  <2>. QED  BY <2>4
<1>5. i - 1 \in Nat /\ (i - 1) + 1 = i
  BY <1>4
<1>6. CharSize * (i - 1) <= r
  <2>1. CharSize * i = (CharSize * (i - 1)) + CharSize /\ CharSize * (i - 1) \in Nat
    BY <1>5, Times
  <2>2. CharSize * i <= r /\ CharSize \in Nat
    BY Constant
  <2>. DEFINE k == CharSize * (i - 1)
  <2>3. k \in Nat /\ k + CharSize <= r
    BY <2>1, <2>2
  <2>. HIDE DEF k
  <2>4. k <= r
    BY <2>2, <2>3, <1>3
  <2>. QED  BY <2>4 DEF k
<1>7. i - 1 \notin Bad
  BY <1>2, <1>5
<1>8. PICK v : Reach(w, r, e, m, g, T, i - 1, v)
  BY <1>5, <1>6, <1>7
<1>9. \E u : Reach(w, r, e, m, g, T, (i - 1) + 1, u)
  BY <1>3, <1>5, <1>8, ReachNext
<1>. QED  BY <1>5, <1>9

(* The encoder c has bits left over of a codeword that leads to g, the     *)
(* bytes that are sent lead to w.                                          *)
Pending(w, c, g, T) ==
    /\ c.bit_len \in Nat /\ c.bit_data \in Nat /\ c.bit_len < CharSize
    /\ IF c.bit_len = 0
       THEN c.bit_data = 0 /\ w = g /\ Viewed(g) /\ g.d.bit_len = 0 /\ g.d.bit_data = 0
       ELSE \E m : /\ m # CCW_ETM /\ m # CCW_FLUSH
                   /\ Todo(w, c.bit_len, c.bit_data, m, g, T)

(* The bits that wait and a codeword behind them.                          *)
Wait(c, cw) == c.bit_data + (cw * pow2[c.bit_len])

(* A codeword is begun.                                                    *)
LEMMA TodoNew ==
    ASSUME NEW g, NEW cw, NEW h, NEW T, Word(g, cw, h, T), NEW o \in Nat, o <= CharSize,
           CharSize < g.d.cw_size, cw < pow2[g.d.cw_size]
    PROVE  /\ cw % pow2[o] \in Nat /\ cw % pow2[o] < pow2[o]
           /\ Todo(Bits(g, o, cw % pow2[o]), g.d.cw_size - o, cw \div pow2[o], cw, h, T)
<1>. DEFINE k == cw % pow2[o]
            f == cw \div pow2[o]
            s == g.d.cw_size
            v == Bits(g, o, k)
<1>1. /\ s \in Nat /\ cw \in Nat /\ o <= s /\ CharSize \in Nat /\ s - o > 0 /\ s - o \in Nat
      /\ o + (s - o) = s
  <2>1. g \in Point /\ cw \in Nat
    BY DEF Word, Viewed
  <2>2. g.d \in CompType
    BY <2>1 DEF Point
  <2>3. s \in Nat
    BY <2>2, CompFields, Zenon
  <2>4. CharSize \in Nat
    BY Constant, Zenon
  <2>5. CharSize < s
    OBVIOUS
  <2>. HIDE DEF s
  <2>. QED  BY <2>1, <2>3, <2>4, <2>5
<1>2. pow2[0] = 1 /\ pow2[o] \in Nat
  BY PowDef, PowNat
<1>. HIDE DEF s
<1>3. Splits(0, 0, s, cw, o, k, f)
  BY <1>1, <1>2, BitsBelow DEF s
<1>. HIDE DEF k, f
<1>4. k \in Nat /\ k < pow2[o] /\ f \in Nat /\ f < pow2[s - o]
  BY <1>3 DEF Splits
<1>5. cw = k + (pow2[o] * f)
  <2>1. 0 + (pow2[0] * cw) = (0 + (k * pow2[0])) + (pow2[0 + o] * f)
    BY <1>3 DEF Splits
  <2>2. 0 + (pow2[0] * cw) = cw /\ 0 + (k * pow2[0]) = k /\ 0 + o = o
    BY <1>1, <1>2, <1>4
  <2>. QED  BY <2>1, <2>2
<1>6. Viewed(g) /\ g.d.mode = "COMPRESSED" /\ ~ g.d.err /\ g.d.bit_len = 0 /\ g.d.bit_data = 0
  BY DEF Word
<1>7. /\ Viewed(v) /\ v.d.mode = g.d.mode /\ v.d.err = g.d.err /\ v.d.bit_len = o
      /\ v.d.bit_data = k /\ v.d.cw_size = s /\ Bits(v, 0, 0) = Bits(g, 0, 0)
      /\ Bits(g, 0, 0) = g
  BY <1>4, <1>6, BitsPoint DEF s
<1>. HIDE DEF v
<1>8. Todo(v, s - o, f, cw, h, T)
  BY <1>1, <1>4, <1>5, <1>6, <1>7 DEF Todo
<1>. QED  BY <1>4, <1>8 DEF v, k, f, s

(* The bytes of the bits that wait and of a codeword.                      *)
LEMMA SendStart ==
    ASSUME NEW w, NEW c, NEW g, NEW T \in Seq(Byte), Pending(w, c, g, T), NEW cw, NEW h,
           Word(g, cw, h, T), CharSize < g.d.cw_size, cw < pow2[g.d.cw_size],
           NEW n \in Nat, n >= 1, CharSize * n <= c.bit_len + g.d.cw_size
    PROVE  \E v : Reach(w, c.bit_len + g.d.cw_size, Wait(c, cw), cw, h, T, n, v)
<1>. DEFINE b == c.bit_len
            e == c.bit_data
            s == g.d.cw_size
            L == b + s
            D == Wait(c, cw)
<1>1. /\ s \in Nat /\ cw \in Nat /\ b \in Nat /\ e \in Nat /\ b < CharSize
      /\ CharSize \in Nat /\ CharSize >= 1 /\ Viewed(g) /\ TotalChars = pow2[CharSize]
  BY Constant, CompFields DEF Word, Viewed, Point, Pending, TotalChars
<1>2. D = e + (cw * pow2[b])
  BY DEF Wait
<1>3. CASE b = 0
  <2>1. e = 0 /\ w = g
    BY <1>3 DEF Pending
  <2>2. pow2[0] = 1
    BY PowDef
  <2>3. D = cw /\ L = s
    BY <1>1, <1>2, <1>3, <2>1, <2>2
  <2>4. Todo(Bits(g, 0, cw % 1), s - 0, cw \div 1, cw, h, T)
    BY <1>1, <2>2, TodoNew
  <2>5. cw % 1 = 0 /\ cw \div 1 = cw /\ s - 0 = s
    BY <1>1
  <2>6. Bits(g, 0, 0) = g
    BY <1>1, BitsPoint DEF Word
  <2>7. Todo(w, L, D, cw, h, T)
    BY <2>1, <2>3, <2>4, <2>5, <2>6
  <2>. QED  BY <2>7, TodoMany
<1>4. CASE b # 0
  <2>1. PICK m : m # CCW_ETM /\ m # CCW_FLUSH /\ Todo(w, b, e, m, g, T)
    BY <1>4 DEF Pending
  <2>. DEFINE o == CharSize - b
              p == pow2[b]
              q == pow2[o]
              k == cw % q
              f == cw \div q
              x == e + (p * k)
              v == Bits(g, o, k)
  <2>2. o \in Nat /\ o <= CharSize /\ b <= CharSize /\ b + o = CharSize
    BY <1>1
  <2>. HIDE DEF b, e, s, D, o
  <2>3. p \in Nat /\ p > 0 /\ q \in Nat /\ q > 0 /\ p * q = TotalChars
    BY <1>1, <2>2, PowNat, PowSum
  <2>4. k \in Nat /\ k < q /\ Todo(v, s - o, f, cw, h, T)
    BY <2>2, TodoNew DEF s
  <2>5. e < p
    BY <2>1 DEF Todo
  <2>. HIDE DEF p, q
  <2>6. D % TotalChars = x /\ D \div TotalChars = f /\ D \in Nat
    <3>1. D = e + (p * cw)
      <4>1. cw * p = p * cw
        BY <1>1, <2>3
      <4>. QED  BY <4>1, <1>2 DEF p
    <3>2. D \div p = cw /\ D % p = e
      BY <3>1, <2>3, <2>5, <1>1, DivModOf
    <3>3. D \in Nat
      <4>1. p * cw \in Nat
        BY <1>1, <2>3
      <4>. QED  BY <4>1, <3>1, <1>1
    <3>4. D \div (p * q) = (D \div p) \div q /\ D % (p * q) = (D % p) + (p * ((D \div p) % q))
      BY <3>3, <2>3, DivDiv
    <3>. QED  BY <3>2, <3>3, <3>4, <2>3
  <2>7. x \in Byte /\ Step(w, x, v, T)
    <3>1. k \in Nat /\ k < pow2[CharSize - b]
      BY <2>4 DEF q, o
    <3>. HIDE DEF k
    <3>. QED  BY <3>1, <2>1, <2>2, TodoLast DEF x, v, p, o
  <2>. HIDE DEF x, v, k, f
  <2>8. <<x>> \in Seq(Byte) /\ Decodes(w, <<x>>, v, T)
    BY <2>7, DecodesOne
  <2>. DEFINE j == n - 1
              r == s - o
  <2>9. j \in Nat /\ n = j + 1 /\ CharSize * n = (CharSize * j) + CharSize /\ CharSize * j \in Nat
    <3>1. j \in Nat /\ n = j + 1
      OBVIOUS
    <3>. QED  BY <3>1, Times
  <2>. DEFINE t == CharSize * j
  <2>10. t \in Nat /\ t + CharSize <= b + s /\ r \in Nat /\ r + CharSize = b + s
    <3>1. CharSize * n <= b + s /\ CharSize < s
      BY DEF b, s
    <3>. QED  BY <3>1, <2>9, <2>2, <1>1
  <2>11. f \in Nat
    BY <2>4 DEF Todo
  <2>. HIDE DEF j, r
  <2>12. t <= r
    <3>. HIDE DEF t
    <3>. QED  BY <2>10, <1>1
  <2>13. PICK u : Reach(v, r, f, cw, h, T, j, u)
    BY <2>4, <2>9, <2>12, TodoMany DEF r
  <2>14. Decodes(v, Chars(f, j), u, T) /\ Chars(f, j) \in Seq(Byte)
    BY <2>9, <2>11, <2>13, CharsAre DEF Reach
  <2>15. Chars(D, n) = <<x>> \o Chars(f, j)
    BY <2>6, <2>9, CharsMore
  <2>16. Decodes(w, Chars(D, n), u, T)
    BY <2>8, <2>14, <2>15, DecodesJoin
  <2>17. Rest(D, n) = Rest(f, j)
    BY <2>6, <2>9, RestNext
  <2>18. CASE t < r
    <3>1. Todo(u, r - t, Rest(f, j), cw, h, T)
      BY <2>13, <2>18 DEF Reach
    <3>2. (b + s) - (CharSize * n) = r - t /\ CharSize * n < b + s
      <4>1. CharSize * n = t + CharSize
        BY <2>9
      <4>. HIDE DEF t
      <4>. QED  BY <4>1, <2>10, <2>18, <1>1
    <3>3. Reach(w, b + s, D, cw, h, T, n, u)
      BY <3>1, <3>2, <2>16, <2>17 DEF Reach
    <3>. QED  BY <3>3 DEF b, s, D
  <2>19. CASE ~ (t < r)
    <3>1. u = h
      BY <2>13, <2>19 DEF Reach
    <3>2. ~ (CharSize * n < b + s)
      <4>1. CharSize * n = t + CharSize
        BY <2>9
      <4>. HIDE DEF t
      <4>. QED  BY <4>1, <2>10, <2>19, <1>1
    <3>3. Reach(w, b + s, D, cw, h, T, n, u)
      BY <3>1, <3>2, <2>16 DEF Reach
    <3>. QED  BY <3>3 DEF b, s, D
  <2>. QED  BY <2>18, <2>19
<1>. QED  BY <1>3, <1>4

(* c with the bytes s and the bits b sent.                                 *)
Put(c, s, l, b) == [c EXCEPT !.obuf = c.obuf \o s, !.bit_len = l, !.bit_data = b]

(* The fields of an encoder that has sent bytes.                           *)
LEMMA PutShape ==
    ASSUME NEW c, Shape(c), NEW s \in Seq(Byte), NEW l, NEW b
    PROVE  LET e == Put(c, s, l, b)
           IN  /\ Shape(e) /\ e.mode = c.mode /\ e.escape = c.escape /\ e.err = c.err
               /\ e.cw_size = c.cw_size /\ e.bit_len = l /\ e.bit_data = b
               /\ e.last_matched = c.last_matched /\ e.last_added = c.last_added
               /\ e.escape_char = c.escape_char /\ e.str = c.str /\ e.obuf = c.obuf \o s
               /\ e.flushed_len = c.flushed_len /\ e.update_at = c.update_at
               /\ e.parent = c.parent /\ e.ch = c.ch /\ e.next_free = c.next_free
               /\ SameDict(e, c)
<1>. DEFINE e == Put(c, s, l, b)
            o == c.obuf \o s
<1>0. o \in Seq(Byte)
  BY DEF Shape
<1>. HIDE DEF o
<1>1. e = [c EXCEPT !.obuf = o, !.bit_len = l, !.bit_data = b]
  BY DEF Put, o
<1>. HIDE DEF e
<1>2. Shape(e)
  BY <1>0, <1>1 DEF Shape
<1>3. /\ e.mode = c.mode /\ e.escape = c.escape /\ e.err = c.err
      /\ e.cw_size = c.cw_size /\ e.bit_len = l /\ e.bit_data = b
      /\ e.last_matched = c.last_matched /\ e.last_added = c.last_added
      /\ e.escape_char = c.escape_char /\ e.str = c.str /\ e.obuf = o
      /\ e.flushed_len = c.flushed_len /\ e.update_at = c.update_at
      /\ e.parent = c.parent /\ e.ch = c.ch /\ e.next_free = c.next_free
      /\ SameDict(e, c)
  BY <1>1 DEF Shape, SameDict
<1>. QED  BY <1>2, <1>3 DEF e, o

(* put_bits sends the complete characters and keeps the bits left over.    *)
LEMMA PutBits ==
    ASSUME NEW c, Shape(c), NEW len \in Nat, NEW data \in Nat, NEW n \in Nat,
           n = len \div CharSize
    PROVE  put_bits(c, len, data) = Put(c, Chars(data, n), len - (CharSize * n), Rest(data, n))
BY DEF put_bits, Put, Chars, Rest, Shape

(* What waits is shorter than what is to come.                             *)
LEMMA WaitFits ==
    ASSUME NEW w, NEW c, NEW g, NEW T, Pending(w, c, g, T), NEW s \in Nat,
           NEW cw \in Nat, cw < pow2[s]
    PROVE  Wait(c, cw) \in Nat /\ Wait(c, cw) < pow2[c.bit_len + s]
<1>. DEFINE b == c.bit_len
            e == c.bit_data
            p == pow2[b]
            q == pow2[s]
<1>1. b \in Nat /\ e \in Nat
  BY DEF Pending
<1>2. e < p
  <2>1. pow2[0] = 1
    BY PowDef
  <2>. QED  BY <2>1, <1>1 DEF Pending, Todo
<1>3. p \in Nat /\ q \in Nat /\ pow2[b + s] = p * q
  BY <1>1, PowNat, PowSum
<1>4. Wait(c, cw) = e + (cw * p)
  BY DEF Wait
<1>5. cw < q
  OBVIOUS
<1>. HIDE DEF b, e, p, q
<1>6. e + (p * cw) \in Nat /\ e + (p * cw) < p * q
  BY <1>1, <1>2, <1>3, <1>5, PartsFit
<1>7. cw * p = p * cw
  BY <1>3
<1>. QED  BY <1>3, <1>4, <1>6, <1>7 DEF b

(* Bits that fit in the characters leave nothing.                          *)
LEMMA RestFits ==
    ASSUME NEW e \in Nat, NEW n \in Nat, e < pow2[CharSize * n]
    PROVE  Rest(e, n) = 0
<1>. DEFINE p == pow2[CharSize * n]
<1>1. CharSize * n \in Nat
  BY Times
<1>2. p \in Nat /\ p > 0 /\ e < p
  BY <1>1, PowNat
<1>. HIDE DEF p
<1>3. e \div p = 0
  BY <1>2, DivOfLess
<1>. QED  BY <1>3 DEF Rest, p

(* The codeword cw is sent: the bytes s lead from w to v, and the bits b   *)
(* wait.                                                                   *)
CwSent(w, c, cw, h, T, s, l, b, v) ==
    /\ SEND_CW(c, cw) = Put(c, s, l, b) /\ Decodes(w, s, v, T)
    /\ Pending(v, SEND_CW(c, cw), h, T)
    /\ (CharSize * Len(s)) + l = c.bit_len + c.cw_size

(* SEND_CW: the bytes sent lead the decoder on, and the bits that wait     *)
(* lead it through the codeword.                                           *)
LEMMA SendCw ==
    ASSUME NEW w, NEW c, Shape(c), NEW g, NEW T \in Seq(Byte), Pending(w, c, g, T),
           NEW cw, NEW h, Word(g, cw, h, T), c.cw_size = g.d.cw_size, CharSize < c.cw_size,
           cw < pow2[c.cw_size], cw # CCW_ETM, cw # CCW_FLUSH
    PROVE  \E v : \E s \in Seq(Byte), l \in Nat, b \in Nat : CwSent(w, c, cw, h, T, s, l, b, v)
<1>. DEFINE L == c.bit_len + c.cw_size
            D == Wait(c, cw)
            n == L \div CharSize
            l == L % CharSize
            s == Chars(D, n)
            b == Rest(D, n)
            y == SEND_CW(c, cw)
<1>1. /\ c.bit_len \in Nat /\ c.cw_size \in Nat /\ cw \in Nat /\ L \in Nat /\ L >= CharSize
      /\ CharSize \in Nat /\ CharSize > 0 /\ c.bit_len < CharSize
  BY Constant, CompFields DEF Word, Viewed, Point, Pending
<1>2. D \in Nat /\ D < pow2[L]
  BY <1>1, WaitFits
<1>3. SEND_CW(c, cw) = put_bits(c, L, D)
  BY DEF SEND_CW, Wait
<1>. HIDE DEF D, L
<1>4. L = (CharSize * n) + l /\ n \in Nat /\ l \in Nat /\ l < CharSize
  BY <1>1, DivMod
<1>5. n \in Nat /\ n = L \div CharSize
  BY <1>4
<1>. HIDE DEF n, l
<1>6. CharSize * n \in Nat /\ n >= 1
  <2>1. n # 0
    BY <1>1, <1>4, Times
  <2>. QED  BY <2>1, <1>4, Times
<1>7. L - (CharSize * n) = l /\ CharSize * n <= L /\ (CharSize * n < L <=> l # 0)
  <2>. DEFINE k == CharSize * n
  <2>1. k \in Nat /\ L = k + l
    BY <1>4, <1>6
  <2>. HIDE DEF k
  <2>2. L - k = l /\ k <= L /\ (k < L <=> l # 0)
    BY <2>1, <1>4
  <2>. QED  BY <2>2 DEF k
<1>8. y = Put(c, s, l, b)
  BY <1>1, <1>2, <1>3, <1>5, <1>7, PutBits
<1>9. s \in Seq(Byte) /\ Len(s) = n /\ b \in Nat
  BY <1>2, <1>4, CharsAre, RestNext
<1>10. PICK v : Reach(w, L, D, cw, h, T, n, v)
  BY <1>4, <1>6, <1>7, SendStart DEF L, D
<1>. HIDE DEF s, b, y
<1>11. Decodes(w, s, v, T)
  BY <1>10 DEF Reach, s
<1>12. y.bit_len = l /\ y.bit_data = b
  BY <1>8, <1>9, PutShape
<1>13. Pending(v, y, h, T)
  <2>1. CASE l # 0
    <3>1. Todo(v, l, b, cw, h, T)
      BY <2>1, <1>7, <1>10 DEF Reach, b
    <3>. QED  BY <2>1, <3>1, <1>4, <1>9, <1>12 DEF Pending
  <2>2. CASE l = 0
    <3>1. v = h
      BY <2>2, <1>7, <1>10 DEF Reach
    <3>2. b = 0
      <4>1. CharSize * n = L
        BY <2>2, <1>4, <1>6
      <4>2. D < pow2[CharSize * n]
        BY <4>1, <1>2
      <4>. QED  BY <4>2, <1>2, <1>4, RestFits DEF b
    <3>3. Viewed(h) /\ h.d.bit_len = 0 /\ h.d.bit_data = 0
      BY YieldsViewed DEF Word, Viewed
    <3>. QED  BY <2>2, <3>1, <3>2, <3>3, <1>1, <1>12 DEF Pending
  <2>. QED  BY <2>1, <2>2
<1>14. (CharSize * Len(s)) + l = L
  BY <1>4, <1>9
<1>15. CwSent(w, c, cw, h, T, s, l, b, v)
  BY <1>8, <1>11, <1>13, <1>14 DEF CwSent, y, L
<1>. QED  BY <1>4, <1>9, <1>15

(* A number rounded up.                                                    *)
LEMMA RoundedUp ==
    ASSUME NEW L \in Nat, NEW k \in Nat, k > 0
    PROVE  \E q \in Nat, z \in Nat : /\ z = (-L) % k /\ z < k /\ L + z = k * q
                                     /\ (L + z) \div k = q
<1>. DEFINE z == (-L) % k
            a == (-L) \div k
<1>1. z \in Nat /\ z < k /\ a \in Int /\ -L = (k * a) + z
  OBVIOUS
<1>. HIDE DEF z, a
<1>2. L + z = k * (-a)
  <2>1. k * (-a) = -(k * a) /\ k * a \in Int
    BY <1>1
  <2>. DEFINE m == k * a
  <2>2. m \in Int /\ -L = m + z
    BY <1>1, <2>1
  <2>. HIDE DEF m
  <2>3. L + z = -m
    BY <2>2, <1>1
  <2>. QED  BY <2>1, <2>3 DEF m
<1>. DEFINE q == -a
<1>3. q \in Int /\ L + z = k * q
  BY <1>1, <1>2
<1>. HIDE DEF q
<1>4. q \in Nat
  <2>1. SUFFICES ASSUME q < 0 PROVE FALSE
    BY <1>3
  <2>2. k * q < 0
    BY <1>3, <2>1
  <2>. DEFINE m == k * q
  <2>3. m \in Int /\ m < 0 /\ L + z = m
    BY <2>2, <1>3
  <2>. HIDE DEF m
  <2>. QED  BY <2>3, <1>1
<1>5. (0 + (k * q)) \div k = q
  <2>1. 0 \in Nat /\ 0 < k
    OBVIOUS
  <2>. QED  BY <2>1, <1>4, DivModOf
<1>6. (L + z) \div k = q
  BY <1>3, <1>4, <1>5
<1>. QED  BY <1>1, <1>3, <1>4, <1>6 DEF z

(* A control codeword with its fill: all of its bits are sent, and the     *)
(* decoder is led through it.                                              *)
LEMMA SendAligned ==
    ASSUME NEW w, NEW c, Shape(c), NEW g, NEW T \in Seq(Byte), Pending(w, c, g, T),
           NEW cw \in {CCW_ETM, CCW_FLUSH}, NEW h, Word(g, cw, h, T),
           c.cw_size = g.d.cw_size, CharSize < c.cw_size
    PROVE  \E s \in Seq(Byte) :
              /\ send_aligned(c, cw) = Put(c, s, 0, 0) /\ Decodes(w, s, h, T)
              /\ Viewed(h) /\ h.d.bit_len = 0 /\ h.d.bit_data = 0
              /\ CharSize * Len(s) <= c.bit_len + c.cw_size + CharSize
<1>. DEFINE L == c.bit_len + c.cw_size
            D == Wait(c, cw)
            y == send_aligned(c, cw)
<1>1. /\ c.bit_len \in Nat /\ c.cw_size \in Nat /\ cw \in Nat /\ L \in Nat /\ L >= CharSize
      /\ CharSize \in Nat /\ CharSize > 0 /\ c.bit_len < CharSize
  BY Constant, CompFields DEF Word, Viewed, Point, Pending
<1>2. cw < pow2[c.cw_size]
  <2>1. pow2[c.cw_size] > c.cw_size /\ pow2[c.cw_size] \in Nat
    BY <1>1, PowAbove, PowNat
  <2>. QED  BY <2>1, <1>1 DEF CCW_ETM, CCW_FLUSH
<1>3. D \in Nat /\ D < pow2[L]
  BY <1>1, <1>2, WaitFits
<1>4. PICK n \in Nat, z \in Nat : /\ z = (-L) % CharSize /\ z < CharSize /\ L + z = CharSize * n
                                  /\ (L + z) \div CharSize = n
  BY <1>1, RoundedUp
<1>5. y = put_bits(c, L + z, D)
  BY <1>4 DEF send_aligned, Wait
<1>. HIDE DEF D, L, y
<1>. DEFINE s == Chars(D, n)
<1>6. L + z \in Nat /\ (L + z) - (CharSize * n) = 0
  BY <1>1, <1>4
<1>7. D < pow2[CharSize * n]
  <2>1. pow2[L] <= pow2[L + z] /\ pow2[L] \in Nat /\ pow2[L + z] \in Nat
    BY <1>1, <1>6, PowMonotone, PowNat
  <2>. QED  BY <2>1, <1>3, <1>4
<1>8. Rest(D, n) = 0
  BY <1>3, <1>7, RestFits
<1>9. y = Put(c, s, 0, 0)
  <2>1. n = (L + z) \div CharSize
    BY <1>4
  <2>2. y = Put(c, Chars(D, n), (L + z) - (CharSize * n), Rest(D, n))
    BY <2>1, <1>3, <1>5, <1>6, PutBits
  <2>. QED  BY <2>2, <1>6, <1>8
<1>10. s \in Seq(Byte) /\ Len(s) = n
  BY <1>3, CharsAre
<1>11. Viewed(h) /\ h.d.bit_len = 0 /\ h.d.bit_data = 0
  BY YieldsViewed DEF Word, Viewed
<1>12. n >= 1
  <2>1. n # 0
    BY <1>1, <1>4, Times
  <2>. QED  BY <2>1
<1>121. ASSUME NEW i \in Nat, i >= 1, CharSize * i <= L
        PROVE  \E v : Reach(w, L, D, cw, h, T, i, v)
  <2>1. L = c.bit_len + g.d.cw_size /\ CharSize < g.d.cw_size /\ cw < pow2[g.d.cw_size]
    BY <1>2 DEF L
  <2>2. CharSize * i <= c.bit_len + g.d.cw_size
    BY <1>121, <2>1
  <2>3. \E v : Reach(w, c.bit_len + g.d.cw_size, Wait(c, cw), cw, h, T, i, v)
    BY <1>121, <2>1, <2>2, SendStart
  <2>. QED  BY <2>1, <2>3 DEF D
<1>. HIDE DEF s
<1>13. Decodes(w, s, h, T)
  <2>1. CASE z = 0
    <3>1. CharSize * n = L
      BY <2>1, <1>1, <1>4
    <3>2. PICK v : Reach(w, L, D, cw, h, T, n, v)
      BY <3>1, <1>1, <1>12, <1>121
    <3>3. ~ (CharSize * n < L)
      BY <3>1, <1>1
    <3>. QED  BY <3>2, <3>3 DEF Reach, s
  <2>2. CASE z # 0
    <3>. DEFINE j == n - 1
                k == CharSize * j
                r == CharSize - z
    <3>1. j \in Nat /\ n = j + 1
      BY <1>12
    <3>2. CharSize * n = k + CharSize /\ k \in Nat /\ (j >= 1 => k >= CharSize)
      BY <3>1, Times
    <3>. HIDE DEF k, j
    <3>3. r \in Nat /\ r > 0 /\ r <= CharSize /\ L = k + r /\ r < CharSize
      BY <1>1, <1>4, <2>2, <3>2
    <3>4. j >= 1
      <4>1. j # 0
        <5>1. k = 0 => L < CharSize
          BY <3>3, <1>1
        <5>2. j = 0 => k = 0
          BY Times DEF k
        <5>. QED  BY <5>1, <5>2, <1>1
      <4>. QED  BY <4>1, <3>1
    <3>5. k <= L /\ k < L /\ L - k = r
      BY <3>2, <3>3
    <3>6. PICK v : Reach(w, L, D, cw, h, T, j, v)
      BY <3>1, <3>4, <3>5, <1>121 DEF k
    <3>. DEFINE x == Rest(D, j)
    <3>7. Decodes(w, Chars(D, j), v, T) /\ Todo(v, r, x, cw, h, T)
      BY <3>5, <3>6 DEF Reach, k
    <3>. HIDE DEF r, x
    <3>8. x % TotalChars = x /\ x \in Byte /\ Step(v, x, h, T)
      BY <3>3, <3>7, TodoEnd
    <3>9. <<x>> \in Seq(Byte) /\ Decodes(v, <<x>>, h, T)
      BY <3>8, DecodesOne
    <3>10. Chars(D, j) \in Seq(Byte) /\ s = Chars(D, j) \o <<x>>
      <4>1. Chars(D, j) \in Seq(Byte) /\ Chars(D, j + 1) = Chars(D, j) \o <<Rest(D, j) % TotalChars>>
        BY <3>1, <1>3, CharsAre, CharsMore
      <4>2. Rest(D, j) % TotalChars = x
        BY <3>8 DEF x
      <4>3. s = Chars(D, j + 1)
        BY <3>1 DEF s
      <4>. QED  BY <4>1, <4>2, <4>3
    <3>. QED  BY <3>7, <3>9, <3>10, DecodesJoin
  <2>. QED  BY <2>1, <2>2
<1>14. CharSize * Len(s) <= L + CharSize
  BY <1>1, <1>4, <1>10
<1>15. c.bit_len + c.cw_size + CharSize = L + CharSize
  BY DEF L
<1>. QED  BY <1>9, <1>10, <1>11, <1>13, <1>14, <1>15 DEF y

-----------------------------------------------------------------------------
(* The way of the decoder, byte by byte.                                   *)

(* Sequences of one and of two bytes.                                      *)
LEMMA Pair ==
    ASSUME NEW x \in Byte, NEW y \in Byte
    PROVE  /\ <<x>> \in Seq(Byte) /\ <<x, y>> \in Seq(Byte) /\ <<x>> \o <<y>> = <<x, y>>
<1>1. <<x>> \in Seq(Byte) /\ <<y>> \in Seq(Byte) /\ <<x, y>> \in Seq(Byte)
  OBVIOUS
<1>. DEFINE a == <<x>> \o <<y>>
<1>2. Len(a) = 2 /\ a[1] = x /\ a[2] = y /\ a \in Seq(Byte)
  OBVIOUS
<1>. HIDE DEF a
<1>3. a = <<x, y>>
  BY <1>2
<1>. QED  BY <1>1, <1>3 DEF a

(* The decoder shows no character.                                         *)
LEMMA YieldsNone ==
    ASSUME NEW p, Viewed(p), NEW T \in Seq(Byte), p.n <= Len(T), p.d.flushed_len <= MaxString,
           NEW y \in CompType, ~ y.err, y.str = <<>>, y.obuf = <<>>
    PROVE  LET q == [d |-> y, n |-> p.n]
           IN  Yields(p, y, q, T) /\ Viewed(q) /\ q.d = y /\ q.n = p.n
<1>. DEFINE q == [d |-> y, n |-> p.n]
<1>1. p.n \in Nat /\ p.d \in CompType /\ p \in Point
  BY DEF Viewed, Point
<1>2. View(y) = y
  BY ViewViewed
<1>3. Len(y.obuf) = 0 /\ Len(y.str) = 0 /\ y.obuf \o y.str = <<>> /\ p.d.flushed_len \in Nat
  BY <1>1, CompFields
<1>4. SubSeq(T, p.n + 1, p.n) = <<>>
  BY <1>1
<1>5. q.d = y /\ q.n = p.n /\ q = [d |-> View(y), n |-> p.n]
  BY <1>2
<1>. HIDE DEF q
<1>6. p.n + 0 + 0 = p.n /\ p.d.flushed_len + 0 + 0 = p.d.flushed_len
  BY <1>1, <1>3
<1>7. Yields(p, y, q, T)
  BY <1>3, <1>4, <1>5, <1>6 DEF Yields
<1>8. Viewed(q)
  BY <1>1, <1>7, YieldsViewed
<1>. QED  BY <1>5, <1>7, <1>8 DEF q

(* F in transparent mode, with nothing on the way.                         *)
Open(F, T) ==
    /\ Viewed(F) /\ F.d.mode = "TRANSPARENT" /\ ~ F.d.escape /\ ~ F.d.err
    /\ F.d.bit_len = 0 /\ F.d.bit_data = 0
    /\ T \in Seq(Byte) /\ F.n <= Len(T) /\ F.d.flushed_len <= MaxString

(* G is F after the command ECM.                                           *)
Ecm(F, G) ==
    /\ Viewed(G) /\ G.n = F.n /\ G.d.mode = "COMPRESSED" /\ ~ G.d.escape /\ ~ G.d.err
    /\ G.d.bit_len = 0 /\ G.d.bit_data = 0 /\ G.d.cw_size = F.d.cw_size
    /\ G.d.escape_char = F.d.escape_char /\ SameDict(G.d, F.d)
    /\ G.d.last_added = F.d.last_added /\ G.d.update_at = F.d.last_matched
    /\ G.d.last_matched = 0 /\ G.d.flushed_len = 0

(* The escape character behind which a command comes.                      *)
LEMMA EscapePoint ==
    ASSUME NEW F, NEW T, Open(F, T)
    PROVE  LET P == [d |-> [F.d EXCEPT !.escape = TRUE], n |-> F.n]
           IN  Viewed(P) /\ Step(F, F.d.escape_char, P, T)
<1>. DEFINE e == [F.d EXCEPT !.escape = TRUE]
            P == [d |-> e, n |-> F.n]
            x == F.d.escape_char
<1>1. F.d \in CompType /\ F.d.str = <<>> /\ F.d.obuf = <<>> /\ Viewed(F)
  BY DEF Open, Viewed, Point
<1>2. e \in CompType /\ e.str = <<>> /\ e.obuf = <<>> /\ e.err = F.d.err
  BY <1>1 DEF CompType
<1>3. ~ e.err
  BY <1>2 DEF Open
<1>4. comp_decode(F.d, x) = e
  BY DEF comp_decode, Open
<1>. HIDE DEF e, x
<1>5. Yields(F, e, P, T) /\ Viewed(P)
  BY <1>2, <1>3, YieldsNone DEF Open
<1>6. Step(F, x, P, T)
  BY <1>1, <1>4, <1>5 DEF Step
<1>. QED  BY <1>5, <1>6 DEF e, x

(* The command ECM changes the mode of the decoder.                        *)
LEMMA EcmPoint ==
    ASSUME NEW F, NEW T, Open(F, T)
    PROVE  \E G : Decodes(F, <<F.d.escape_char, CC_ECM>>, G, T) /\ Ecm(F, G)
<1>. DEFINE c == F.d
            x == c.escape_char
            e == [c EXCEPT !.escape = TRUE]
            P == [d |-> e, n |-> F.n]
            f == [e EXCEPT !.escape = FALSE]
            s == send_string(f)
            y == [s EXCEPT !.mode = "COMPRESSED", !.update_at = f.last_matched, !.last_matched = 0]
            G == [d |-> y, n |-> F.n]
<1>1. c \in CompType /\ c.str = <<>> /\ c.obuf = <<>> /\ Viewed(F) /\ x \in Byte
      /\ ~ c.err /\ c.escape = FALSE
  BY CompFields DEF Open, Viewed, Point
<1>2. Viewed(P) /\ Step(F, x, P, T)
  BY EscapePoint
<1>3. f = c
  BY <1>1 DEF CompType
<1>4. P.d = e /\ P.n = F.n /\ e.mode = "TRANSPARENT" /\ e.escape /\ e.flushed_len = c.flushed_len
  BY <1>1 DEF Open, CompType
<1>5. comp_decode(e, CC_ECM) = y
  <2>. HIDE DEF e
  <2>1. comp_decode(e, CC_ECM) = decode_command(f, CC_ECM)
    BY <1>4 DEF comp_decode
  <2>2. decode_command(f, CC_ECM) = y
    BY DEF decode_command, CC_ECM, CC_EID, CC_RESET
  <2>. QED  BY <2>1, <2>2
<1>. HIDE DEF P, e, f
<1>6. s = [c EXCEPT !.obuf = <<>>, !.str = <<>>, !.flushed_len = 0]
  <2>1. c.obuf \o c.str = <<>>
    BY <1>1
  <2>. QED  BY <1>1, <1>3, <2>1 DEF send_string
<1>7. y = [s EXCEPT !.mode = "COMPRESSED", !.update_at = c.last_matched, !.last_matched = 0]
  BY <1>3
<1>. HIDE DEF s, y
<1>8. /\ y.mode = "COMPRESSED" /\ y.escape = c.escape /\ y.err = c.err
      /\ y.bit_len = c.bit_len /\ y.bit_data = c.bit_data /\ y.cw_size = c.cw_size
      /\ y.escape_char = c.escape_char /\ SameDict(y, c)
      /\ y.last_added = c.last_added /\ y.update_at = c.last_matched
      /\ y.last_matched = 0 /\ y.flushed_len = 0 /\ y.str = <<>> /\ y.obuf = <<>>
  BY <1>1, <1>6, <1>7, CompShape DEF Shape, SameDict
<1>9. y \in CompType
  <2>1. s \in CompType
    BY <1>1, <1>6 DEF CompType
  <2>2. 0 \in Codeword /\ c.last_matched \in Codeword
    BY <1>1, Commands, CompFields
  <2>. QED  BY <2>1, <2>2, <1>7 DEF CompType
<1>10. P.n <= Len(T) /\ P.d.flushed_len <= MaxString /\ T \in Seq(Byte) /\ ~ y.err
  BY <1>1, <1>4, <1>8 DEF Open
<1>11. Yields(P, y, [d |-> y, n |-> P.n], T) /\ Viewed([d |-> y, n |-> P.n])
  BY <1>2, <1>8, <1>9, <1>10, YieldsNone
<1>12. G = [d |-> y, n |-> P.n] /\ G.d = y /\ G.n = F.n
  BY <1>4
<1>. HIDE DEF G
<1>13. Step(P, CC_ECM, G, T) /\ Viewed(G)
  BY <1>2, <1>4, <1>5, <1>11, <1>12 DEF Step
<1>14. Decodes(F, <<x>>, P, T) /\ Decodes(P, <<CC_ECM>>, G, T)
  BY <1>2, <1>13, DecodesOne
<1>. HIDE DEF x
<1>15. <<x>> \in Seq(Byte) /\ <<CC_ECM>> \in Seq(Byte) /\ <<x>> \o <<CC_ECM>> = <<x, CC_ECM>>
  <2>1. x \in Byte /\ CC_ECM \in Byte
    BY <1>1, Commands
  <2>. QED  BY <2>1, Pair
<1>16. Decodes(F, <<x, CC_ECM>>, G, T)
  <2>1. Decodes(F, <<x>> \o <<CC_ECM>>, G, T)
    BY <1>14, <1>15, DecodesJoin
  <2>. QED  BY <2>1, <1>15
<1>17. Ecm(F, G)
  <2>1. ~ G.d.escape /\ ~ G.d.err
    BY <1>1, <1>8, <1>12
  <2>2. G.d.bit_len = 0 /\ G.d.bit_data = 0
    BY <1>8, <1>12 DEF Open
  <2>3. Viewed(G) /\ G.n = F.n
    BY <1>12, <1>13
  <2>. QED  BY <2>1, <2>2, <2>3, <1>8, <1>12 DEF Ecm
<1>. QED  BY <1>16, <1>17 DEF x

-----------------------------------------------------------------------------
(* A comp_state, of the encoder or of the decoder, between two characters. *)
Sound(c) ==
    /\ c \in CompType /\ DictOK(c)
    /\ c.update_at # c.next_free /\ c.last_matched # c.next_free
    /\ c.update_at # 0 => c.last_matched = 0
    /\ c.last_added = 0 \/ c.last_added \in FreeEntry

(* Without a string, a character ends none.                                *)
LEMMA NoEnd ==
    ASSUME NEW c, Sound(c), c.last_matched = 0, NEW x \in Byte
    PROVE  match_char(c, c.last_matched, x) = x + FirstEntry /\ ~ ends_string(c, x)
<1>1. x + FirstEntry # 0 /\ x + FirstEntry \notin FreeEntry
  BY Commands
<1>2. match_char(c, 0, x) = x + FirstEntry
  BY DEF match_char
<1>. QED  BY <1>1, <1>2 DEF ends_string, Sound

(* updated keeps a comp_state sound.                                       *)
LEMMA UpdatedSound ==
    ASSUME NEW c, Sound(c), NEW x \in Byte
    PROVE  Sound(updated(c, x)) /\ updated(c, x).update_at = 0
           /\ updated(c, x).last_matched = c.last_matched
<1>. DEFINE u == updated(c, x)
<1>1. c \in CompType /\ Shape(c)
  BY CompShape DEF Sound
<1>2. /\ u \in CompType /\ DictOK(u) /\ u.update_at = 0
      /\ \/ SameDict(u, c) /\ u.last_added = c.last_added
         \/ c.update_at # 0 /\ u.last_added = c.next_free
  BY <1>1, Updated DEF Sound
<1>3. u.last_matched = c.last_matched
  BY <1>1, UpdatedRest
<1>. HIDE DEF u
<1>4. u.next_free \in FreeEntry /\ c.next_free \in FreeEntry /\ 0 \notin FreeEntry
  BY <1>1, <1>2, CompFields, Commands
<1>5. Sound(u)
  BY <1>2, <1>3, <1>4 DEF Sound, SameDict
<1>. QED  BY <1>2, <1>3, <1>5 DEF u

(* A character that ends a string finds the comp_state up to date.         *)
LEMMA EndsLate ==
    ASSUME NEW c, Sound(c), NEW x \in Byte, ends_string(updated(c, x), x)
    PROVE  updated(c, x) = c /\ c.last_matched # 0 /\ c.update_at = 0
<1>1. Sound(updated(c, x)) /\ updated(c, x).last_matched = c.last_matched
  BY UpdatedSound
<1>2. c.last_matched # 0
  BY <1>1, NoEnd
<1>3. c.update_at = 0
  BY <1>2 DEF Sound
<1>. QED  BY <1>2, <1>3 DEF updated

(* string_ended keeps a comp_state sound.                                  *)
LEMMA EndedSound ==
    ASSUME NEW c, Sound(c), c.update_at = 0, NEW x \in Byte, NEW s \in CompType, SentOff(c, s)
    PROVE  LET e == string_ended(c, x, s)
           IN  Sound(e) /\ e.last_matched = 0 /\ e.str = <<>> /\ e.flushed_len = 0
<1>. DEFINE e == string_ended(c, x, s)
            t == [s EXCEPT !.last_matched = 0]
<1>1. 0 \in Codeword /\ 0 \notin FreeEntry /\ c.last_matched \in Codeword /\ c.next_free \in FreeEntry
  BY Commands, CompFields DEF Sound
<1>2. t \in CompType
  BY <1>1 DEF CompType
<1>3. e \in CompType
  <2>1. e = [t EXCEPT !.update_at = c.last_matched] \/ e = [t EXCEPT !.last_added = 0]
    BY DEF string_ended
  <2>. HIDE DEF e, t
  <2>2. CASE e = [t EXCEPT !.update_at = c.last_matched]
    BY <2>2, <1>1, <1>2 DEF CompType
  <2>3. CASE e = [t EXCEPT !.last_added = 0]
    BY <2>3, <1>1, <1>2 DEF CompType
  <2>. QED  BY <2>1, <2>2, <2>3
<1>4. /\ e.str = s.str /\ e.flushed_len = s.flushed_len /\ e.last_matched = 0
      /\ e.parent = s.parent /\ e.ch = s.ch /\ e.next_free = s.next_free
      /\ e.update_at = IF match_char(c, c.last_matched, x) = 0
                       THEN c.last_matched ELSE s.update_at
      /\ e.last_added = IF match_char(c, c.last_matched, x) = 0
                        THEN s.last_added ELSE 0
  BY EndedShape DEF SentOff
<1>. HIDE DEF e
<1>5. SameDict(c, e)
  BY <1>4 DEF SameDict, SentOff
<1>6. DictOK(e)
  BY <1>5, DictSame DEF Sound
<1>7. Sound(e)
  BY <1>1, <1>3, <1>4, <1>5, <1>6 DEF Sound, SentOff, SameDict
<1>. QED  BY <1>4, <1>7 DEF e, SentOff

(* collected keeps a comp_state sound.                                     *)
LEMMA CollectedSound ==
    ASSUME NEW c, Sound(c), c.update_at = 0, NEW x \in Byte, ~ ends_string(c, x)
    PROVE  LET w == collected(c, x)
           IN  Sound(w) /\ w.update_at = 0 /\ w.last_matched # 0
<1>. DEFINE w == collected(c, x)
            m == match_char(c, c.last_matched, x)
<1>1. c \in CompType /\ Shape(c) /\ c.last_matched \in Codeword /\ DictType(c)
  BY CompShape, CompFields DEF Sound
<1>2. m \in Codeword /\ m # c.next_free
  BY <1>1, MatchChar
<1>3. m # 0
  BY DEF ends_string
<1>4. Append(c.str, x) \in Seq(Byte)
  BY <1>1 DEF Shape
<1>5. w = [c EXCEPT !.last_matched = m, !.str = Append(c.str, x)]
  BY DEF collected
<1>. HIDE DEF m, w
<1>6. w \in CompType
  <2>. DEFINE s == Append(c.str, x)
  <2>1. s \in Seq(Byte) /\ w = [c EXCEPT !.last_matched = m, !.str = s]
    BY <1>4, <1>5
  <2>. HIDE DEF s
  <2>. QED  BY <1>1, <1>2, <2>1 DEF CompType
<1>7. /\ w.last_matched = m /\ w.parent = c.parent /\ w.ch = c.ch /\ w.next_free = c.next_free
      /\ w.update_at = c.update_at /\ w.last_added = c.last_added
  BY <1>1, <1>5 DEF Shape
<1>8. SameDict(c, w)
  BY <1>7 DEF SameDict
<1>9. DictOK(w)
  BY <1>8, DictSame DEF Sound
<1>10. Sound(w)
  BY <1>2, <1>6, <1>7, <1>9 DEF Sound
<1>. QED  BY <1>3, <1>7, <1>10 DEF w

(* string_full keeps a comp_state sound, with room in its string.          *)
LEMMA FullSound ==
    ASSUME NEW c, Sound(c), c.update_at = 0, c.last_matched # 0, NEW s \in CompType, SentOff(c, s),
           Len(c.str) + c.flushed_len <= MaxString
    PROVE  LET z == string_full(c, s)
           IN  /\ Sound(z) /\ z.update_at = 0 /\ Len(z.str) + z.flushed_len < MaxString
               /\ z.last_matched = 0 => z.str = <<>> /\ z.flushed_len = 0
<1>. DEFINE z == string_full(c, s)
<1>0. MaxString \in Nat /\ MaxString >= 1 /\ 0 \in Codeword /\ 0 \notin FreeEntry
  BY Constant, Commands
<1>1. CASE Len(c.str) + c.flushed_len = MaxString
  <2>1. z = [s EXCEPT !.last_matched = 0]
    BY <1>1 DEF string_full
  <2>. HIDE DEF z
  <2>2. z \in CompType
    BY <2>1, <1>0 DEF CompType
  <2>3. /\ z.str = <<>> /\ z.flushed_len = 0 /\ z.last_matched = 0 /\ SameDict(c, z)
        /\ z.update_at = 0 /\ z.last_added = c.last_added
    BY <2>1 DEF SentOff, Shape, SameDict
  <2>4. DictOK(z) /\ z.next_free \in FreeEntry
    BY <2>2, <2>3, DictSame, CompFields DEF Sound
  <2>5. Sound(z)
    BY <2>2, <2>3, <2>4, <1>0 DEF Sound
  <2>6. Len(<<>>) + 0 < MaxString
    BY <1>0
  <2>. QED  BY <2>3, <2>5, <2>6 DEF z
<1>2. CASE Len(c.str) + c.flushed_len # MaxString
  <2>1. z = c
    BY <1>2 DEF string_full
  <2>2. Len(c.str) + c.flushed_len < MaxString
    <3>1. Len(c.str) \in Nat /\ c.flushed_len \in Nat
      BY CompFields DEF Sound
    <3>. DEFINE k == Len(c.str)
    <3>. HIDE DEF k
    <3>2. k \in Nat /\ k + c.flushed_len <= MaxString /\ k + c.flushed_len # MaxString
      BY <3>1, <1>2 DEF k
    <3>3. k + c.flushed_len < MaxString
      BY <3>1, <3>2, <1>0
    <3>. QED  BY <3>3 DEF k
  <2>. QED  BY <2>1, <2>2
<1>. QED  BY <1>1, <1>2

(* A character is taken in.                                                *)
LEMMA BegunSound ==
    ASSUME NEW c, Sound(c), NEW x \in Byte, NEW s \in CompType, SentOff(updated(c, x), s),
           Len(c.str) + c.flushed_len < MaxString
    PROVE  LET w == begun(c, x, s)
           IN  /\ Sound(w) /\ w.update_at = 0 /\ w.last_matched # 0
               /\ Len(w.str) + w.flushed_len <= MaxString
<1>. DEFINE u == updated(c, x)
            e == string_ended(u, x, s)
            v == IF ends_string(u, x) THEN updated(e, x) ELSE u
            w == collected(v, x)
<1>1. Sound(u) /\ u.update_at = 0 /\ u.str = c.str /\ u.flushed_len = c.flushed_len
  BY UpdatedSound, UpdatedRest, CompShape DEF Sound
<1>. HIDE DEF u
<1>2. SentOff(u, s)
  BY DEF u
<1>3. Sound(e) /\ e.last_matched = 0 /\ e.str = <<>> /\ e.flushed_len = 0
  BY <1>1, <1>2, EndedSound
<1>. HIDE DEF e
<1>4. /\ Sound(updated(e, x)) /\ updated(e, x).update_at = 0 /\ updated(e, x).last_matched = 0
      /\ updated(e, x).str = <<>> /\ updated(e, x).flushed_len = 0
  BY <1>3, UpdatedSound, UpdatedRest, CompShape DEF Sound
<1>5. MaxString \in Nat /\ MaxString >= 1
  BY Constant
<1>6. Sound(v) /\ v.update_at = 0 /\ ~ ends_string(v, x) /\ Len(v.str) + v.flushed_len < MaxString
  <2>1. CASE ends_string(u, x)
    <3>1. v = updated(e, x)
      BY <2>1
    <3>2. ~ ends_string(updated(e, x), x)
      BY <1>4, NoEnd
    <3>3. Len(<<>>) + 0 < MaxString
      BY <1>5
    <3>. QED  BY <3>1, <3>2, <3>3, <1>4
  <2>2. CASE ~ ends_string(u, x)
    BY <2>2, <1>1
  <2>. QED  BY <2>1, <2>2
<1>. HIDE DEF v
<1>7. Sound(w) /\ w.update_at = 0 /\ w.last_matched # 0
  BY <1>6, CollectedSound
<1>8. w.str = Append(v.str, x) /\ w.flushed_len = v.flushed_len
  BY <1>6, CompShape, CollectedShape DEF Sound
<1>9. Len(w.str) + w.flushed_len <= MaxString
  <2>. DEFINE k == Len(v.str)
  <2>1. k \in Nat /\ v.flushed_len \in Nat /\ Len(Append(v.str, x)) = k + 1
    BY <1>6, CompFields DEF Sound
  <2>2. k + v.flushed_len < MaxString
    BY <1>6
  <2>. HIDE DEF k
  <2>3. (k + 1) + v.flushed_len <= MaxString
    BY <2>1, <2>2, <1>5
  <2>. QED  BY <2>1, <2>3, <1>8
<1>10. begun(c, x, s) = w
  BY DEF begun, w, v, e, u
<1>. QED  BY <1>7, <1>9, <1>10

(* send_string keeps the type of a comp_state.                             *)
LEMMA SendStringType ==
    ASSUME NEW c \in CompType
    PROVE  send_string(c) \in CompType
<1>. DEFINE o == c.obuf \o c.str
<1>1. o \in Seq(Byte) /\ <<>> \in Seq(Byte) /\ 0 \in Nat
  BY CompFields
<1>2. send_string(c) = [c EXCEPT !.obuf = o, !.str = <<>>, !.flushed_len = 0]
  BY DEF send_string, CompType
<1>. HIDE DEF o
<1>. QED  BY <1>1, <1>2 DEF CompType

(* The view of a sound comp_state is sound and like it.                    *)
LEMMA ViewSound ==
    ASSUME NEW c, Sound(c)
    PROVE  Sound(View(c)) /\ Alike(View(c), c) /\ SameRest(View(c), c)
<1>1. c \in CompType
  BY DEF Sound
<1>2. /\ View(c) \in CompType /\ View(c).update_at = c.update_at
      /\ View(c).next_free = c.next_free /\ View(c).last_matched = c.last_matched
      /\ View(c).last_added = c.last_added /\ View(c).parent = c.parent /\ View(c).ch = c.ch
  BY <1>1, ViewType
<1>3. SameDict(c, View(c))
  BY <1>2 DEF SameDict
<1>4. DictOK(View(c))
  BY <1>3, DictSame DEF Sound
<1>5. Sound(View(c))
  BY <1>2, <1>4 DEF Sound
<1>6. Alike(c, View(c)) /\ SameRest(c, View(c))
  BY <1>1, ViewAlike
<1>. QED  BY <1>5, <1>6 DEF Alike, SameRest

(* A character in transparent mode, for a decoder that has been flushed.   *)
LEMMA CharYields ==
    ASSUME NEW p, Viewed(p), NEW f, Sound(f), f.str = <<>>, f.obuf = <<>>,
           f.mode = "TRANSPARENT", ~ f.err, f.flushed_len = p.d.flushed_len,
           f.flushed_len < MaxString, NEW T \in Seq(Byte), p.n + 1 <= Len(T),
           NEW x \in Byte, T[p.n + 1] = x
    PROVE  LET y == decode_char(f, x)
               G == [d |-> View(y), n |-> p.n + 1]
           IN  /\ Yields(p, y, G, T) /\ Viewed(G) /\ Sound(G.d) /\ Alike(G.d, y)
               /\ SameRest(G.d, f) /\ G.d.flushed_len < MaxString
               /\ G.d.last_matched = 0 => G.d.flushed_len = 0
               /\ G.d.update_at = 0
<1>. DEFINE u == updated(f, x)
            s == send_string(u)
            w == begun(f, x, s)
            r == send_string(w)
            y == decode_char(f, x)
            G == [d |-> View(y), n |-> p.n + 1]
<1>1. f \in CompType /\ Shape(f) /\ p.n \in Nat /\ p \in Point /\ f.flushed_len \in Nat
  BY CompShape, CompFields DEF Sound, Viewed, Point
<1>2. Sound(u) /\ u \in CompType /\ Shape(u)
  BY <1>1, UpdatedSound, CompShape DEF Sound
<1>3. s \in CompType /\ SentOff(u, s)
  BY <1>2, SendStringType, SendString
<1>4. Len(f.str) + f.flushed_len < MaxString
  BY <1>1
<1>. HIDE DEF s
<1>5. /\ Sound(w) /\ w.update_at = 0 /\ w.last_matched # 0 /\ Len(w.str) + w.flushed_len <= MaxString
  BY <1>3, <1>4, BegunSound
<1>. HIDE DEF u, w
<1>6. r \in CompType /\ SentOff(w, r)
  BY <1>5, CompShape, SendStringType, SendString DEF Sound
<1>7. y = string_full(w, r)
  BY DecodeCharBegun DEF w, s, u
<1>. HIDE DEF r
<1>8. /\ Sound(y) /\ y.update_at = 0 /\ Len(y.str) + y.flushed_len < MaxString
      /\ y.last_matched = 0 => y.str = <<>> /\ y.flushed_len = 0
  BY <1>5, <1>6, <1>7, FullSound
<1>9. Shape(y) /\ SameRest(y, f) /\ y.obuf \o y.str = (f.obuf \o f.str) \o <<x>>
  BY <1>1, DecodeChar
<1>. HIDE DEF y
<1>10. y \in CompType /\ y.obuf \in Seq(Byte) /\ y.str \in Seq(Byte) /\ y.flushed_len \in Nat
  BY <1>8, CompFields DEF Sound
<1>11. y.obuf \o y.str = <<x>>
  <2>1. (f.obuf \o f.str) \o <<x>> = <<x>>
    OBVIOUS
  <2>. QED  BY <2>1, <1>9
<1>12. Len(y.obuf) + Len(y.str) = 1 /\ Len(y.obuf) \in Nat /\ Len(y.str) \in Nat
  <2>1. Len(y.obuf \o y.str) = Len(y.obuf) + Len(y.str)
    BY <1>10
  <2>2. Len(<<x>>) = 1 /\ Len(y.obuf) \in Nat /\ Len(y.str) \in Nat
    BY <1>10
  <2>. QED  BY <2>1, <2>2, <1>11
<1>13. SubSeq(T, p.n + 1, p.n + 1) = <<x>>
  <2>. DEFINE k == p.n + 1
  <2>1. k \in 1 .. Len(T) /\ T[k] = x
    BY <1>1
  <2>. HIDE DEF k
  <2>2. SubSeq(T, k, k) = <<T[k]>>
    <3>. DEFINE q == SubSeq(T, k, k)
    <3>1. q \in Seq(Byte) /\ Len(q) = 1
      BY <2>1
    <3>2. q[1] = T[k]
      BY <2>1
    <3>. HIDE DEF q
    <3>3. q = <<T[k]>>
      BY <3>1, <3>2
    <3>. QED  BY <3>3 DEF q
  <2>. QED  BY <2>1, <2>2 DEF k
<1>. DEFINE i == Len(y.obuf)
            j == Len(y.str)
<1>14. i \in Nat /\ j \in Nat /\ i + j = 1 /\ p.n + i + j = p.n + 1
       /\ p.d.flushed_len + i + j <= MaxString
  <2>1. i \in Nat /\ j \in Nat /\ i + j = 1
    BY <1>12
  <2>2. p.d.flushed_len \in Nat /\ p.d.flushed_len < MaxString /\ MaxString \in Nat
    BY <1>1, Constant
  <2>. HIDE DEF i, j
  <2>. QED  BY <2>1, <2>2, <1>1
<1>15. G = [d |-> View(y), n |-> p.n + i + j] /\ G.n = p.n + 1 /\ G.d = View(y)
  BY <1>14
<1>. HIDE DEF G
<1>16. ~ y.err /\ y.mode = "TRANSPARENT"
  BY <1>9 DEF SameRest
<1>17. Yields(p, y, G, T)
  BY <1>10, <1>11, <1>13, <1>14, <1>15, <1>16 DEF Yields
<1>18. Viewed(G)
  BY <1>1, <1>17, YieldsViewed
<1>19. Sound(G.d) /\ Alike(G.d, y) /\ SameRest(G.d, y)
  BY <1>8, <1>15, ViewSound
<1>20. G.d.flushed_len = y.flushed_len + Len(y.str) /\ G.d.last_matched = y.last_matched
       /\ G.d.update_at = y.update_at
  BY <1>10, <1>15, ViewType
<1>21. G.d.flushed_len < MaxString
  <2>1. y.flushed_len + j = j + y.flushed_len
    BY <1>10, <1>12
  <2>. QED  BY <2>1, <1>8, <1>20
<1>22. G.d.last_matched = 0 => G.d.flushed_len = 0
  BY <1>8, <1>20
<1>23. SameRest(G.d, f)
  BY <1>9, <1>19 DEF SameRest
<1>. QED  BY <1>8, <1>17, <1>18, <1>19, <1>20, <1>21, <1>22, <1>23 DEF y, G

(* How a character is sent in transparent mode.                            *)
CharBytes(E, x) == IF x = E THEN <<x, CC_EID>> ELSE <<x>>
CharEscape(E, x) == IF x = E THEN (E + EscapeStep) % TotalChars ELSE E

(* The bytes of a character in transparent mode lead the decoder to where  *)
(* it has taken it in.                                                     *)
LEMMA CharPoint ==
    ASSUME NEW F, NEW T, Open(F, T), Sound(F.d), F.d.flushed_len < MaxString,
           F.n + 1 <= Len(T), NEW x \in Byte, T[F.n + 1] = x
    PROVE  \E G : /\ Decodes(F, CharBytes(F.d.escape_char, x), G, T)
                  /\ Open(G, T) /\ Sound(G.d) /\ G.n = F.n + 1
                  /\ Alike(G.d, decode_char(F.d, x))
                  /\ G.d.escape_char = CharEscape(F.d.escape_char, x)
                  /\ G.d.cw_size = F.d.cw_size
                  /\ G.d.flushed_len < MaxString /\ G.d.update_at = 0
                  /\ G.d.last_matched = 0 => G.d.flushed_len = 0
<1>. DEFINE c == F.d
            E == c.escape_char
<1>1. /\ c \in CompType /\ c.str = <<>> /\ c.obuf = <<>> /\ Viewed(F) /\ E \in Byte
      /\ ~ c.err /\ c.escape = FALSE /\ T \in Seq(Byte) /\ c.mode = "TRANSPARENT"
      /\ c.bit_len = 0 /\ c.bit_data = 0 /\ Shape(c)
  BY CompFields, CompShape DEF Open, Viewed, Point
<1>2. CASE x # E
  <2>. DEFINE y == decode_char(c, x)
              G == [d |-> View(y), n |-> F.n + 1]
  <2>1. /\ Yields(F, y, G, T) /\ Viewed(G) /\ Sound(G.d) /\ Alike(G.d, y)
        /\ SameRest(G.d, c) /\ G.d.flushed_len < MaxString
        /\ G.d.last_matched = 0 => G.d.flushed_len = 0
        /\ G.d.update_at = 0
    BY <1>1, CharYields
  <2>2. comp_decode(c, x) = y
    BY <1>1, <1>2 DEF comp_decode
  <2>3. G.n = F.n + 1
    OBVIOUS
  <2>. HIDE DEF y, G
  <2>4. Step(F, x, G, T)
    BY <1>1, <2>1, <2>2 DEF Step
  <2>5. Decodes(F, <<x>>, G, T)
    BY <2>4, DecodesOne
  <2>6. CharBytes(E, x) = <<x>> /\ CharEscape(E, x) = E
    BY <1>2 DEF CharBytes, CharEscape
  <2>7. Open(G, T)
    <3>1. G.d.flushed_len <= MaxString
      BY <2>1, Constant, CompFields DEF Viewed, Point
    <3>2. G.n <= Len(T)
      BY <2>3
    <3>3. ~ G.d.escape /\ ~ G.d.err
      BY <1>1, <2>1 DEF SameRest
    <3>. QED  BY <1>1, <2>1, <3>1, <3>2, <3>3 DEF Open, SameRest
  <2>8. G.d.escape_char = E /\ G.d.cw_size = c.cw_size
    BY <2>1 DEF SameRest
  <2>. QED  BY <2>1, <2>3, <2>5, <2>6, <2>7, <2>8 DEF y
<1>3. CASE x = E
  <2>. DEFINE k == (E + EscapeStep) % TotalChars
              e == [c EXCEPT !.escape = TRUE]
              P == [d |-> e, n |-> F.n]
              h == [e EXCEPT !.escape = FALSE]
              f == [c EXCEPT !.escape_char = k]
              y == decode_char(f, x)
              G == [d |-> View(y), n |-> P.n + 1]
  <2>1. Viewed(P) /\ Step(F, E, P, T)
    BY EscapePoint
  <2>2. h = c
    BY <1>1 DEF Shape
  <2>3. k \in Byte
    BY <1>1, Commands
  <2>. HIDE DEF k
  <2>4. /\ f \in CompType /\ f.str = <<>> /\ f.obuf = <<>> /\ f.mode = "TRANSPARENT"
        /\ f.err = c.err /\ f.escape = c.escape
        /\ f.flushed_len = c.flushed_len /\ f.escape_char = k /\ f.cw_size = c.cw_size
        /\ f.bit_len = c.bit_len /\ f.bit_data = c.bit_data
        /\ SameDict(c, f) /\ f.update_at = c.update_at /\ f.last_matched = c.last_matched
        /\ f.last_added = c.last_added /\ f.parent = c.parent /\ f.ch = c.ch
        /\ f.next_free = c.next_free
    BY <1>1, <2>3 DEF CompType, SameDict
  <2>5. P.d = e /\ P.n = F.n /\ e.mode = "TRANSPARENT" /\ e.escape
        /\ e.flushed_len = c.flushed_len
    BY <1>1 DEF Shape
  <2>6. comp_decode(e, CC_EID) = y
    <3>. HIDE DEF e
    <3>1. comp_decode(e, CC_EID) = decode_command(h, CC_EID)
      BY <2>5 DEF comp_decode
    <3>2. decode_command(c, CC_EID) = y
      BY <1>3 DEF decode_command, CC_ECM, CC_EID, CC_RESET, k
    <3>. QED  BY <2>2, <3>1, <3>2
  <2>. HIDE DEF e, P, h, f
  <2>7. Sound(f)
    <3>1. DictOK(f)
      BY <2>4, DictSame DEF Sound
    <3>. QED  BY <2>4, <3>1 DEF Sound
  <2>8. ~ f.err /\ f.flushed_len = P.d.flushed_len /\ f.flushed_len < MaxString
        /\ P.n + 1 <= Len(T) /\ T[P.n + 1] = x
    BY <1>1, <2>4, <2>5
  <2>9. /\ Yields(P, y, G, T) /\ Viewed(G) /\ Sound(G.d) /\ Alike(G.d, y)
        /\ SameRest(G.d, f) /\ G.d.flushed_len < MaxString
        /\ G.d.last_matched = 0 => G.d.flushed_len = 0
        /\ G.d.update_at = 0
    BY <1>1, <2>1, <2>4, <2>7, <2>8, CharYields, ZenonT(60)
  <2>10. G.n = F.n + 1
    BY <2>5
  <2>. HIDE DEF G
  <2>11. Step(P, CC_EID, G, T)
    BY <2>1, <2>5, <2>6, <2>9 DEF Step
  <2>12. Decodes(F, <<E>>, P, T) /\ Decodes(P, <<CC_EID>>, G, T)
    BY <2>1, <2>11, DecodesOne
  <2>13. <<E>> \in Seq(Byte) /\ <<CC_EID>> \in Seq(Byte) /\ <<E>> \o <<CC_EID>> = <<E, CC_EID>>
    <3>1. E \in Byte /\ CC_EID \in Byte
      BY <1>1, Commands
    <3>. QED  BY <3>1, Pair
  <2>14. Decodes(F, <<E, CC_EID>>, G, T)
    <3>1. Decodes(F, <<E>> \o <<CC_EID>>, G, T)
      BY <2>12, <2>13, DecodesJoin
    <3>. QED  BY <3>1, <2>13
  <2>15. CharBytes(E, x) = <<E, CC_EID>> /\ CharEscape(E, x) = k
    BY <1>3 DEF CharBytes, CharEscape, k
  <2>16. Open(G, T)
    <3>1. G.d.flushed_len <= MaxString
      BY <2>9, Constant, CompFields DEF Viewed, Point
    <3>2. G.n <= Len(T)
      BY <2>10
    <3>3. ~ G.d.escape /\ ~ G.d.err
      BY <1>1, <2>4, <2>9 DEF SameRest
    <3>. QED  BY <1>1, <2>4, <2>9, <3>1, <3>2, <3>3 DEF Open, SameRest
  <2>17. G.d.escape_char = k /\ G.d.cw_size = c.cw_size
    BY <2>4, <2>9 DEF SameRest
  <2>18. Alike(G.d, decode_char(c, x))
    <3>1. Shape(f) /\ Alike(f, c)
      <4>1. f.str = c.str /\ f.flushed_len = c.flushed_len
        BY <1>1, <2>4
      <4>2. Alike(f, c)
        BY <4>1, <2>4 DEF Alike
      <4>. QED  BY <4>2, <2>4, CompShape
    <3>2. Alike(updated(f, x), updated(c, x))
      BY <1>1, <3>1, AlikeUpdated
    <3>3. Alike(y, decode_char(c, x))
      BY <1>1, <3>1, <3>2, AlikeDecodeChar
    <3>. QED  BY <3>3, <2>9 DEF Alike
  <2>. QED  BY <2>9, <2>10, <2>14, <2>15, <2>16, <2>17, <2>18
<1>. QED  BY <1>2, <1>3

(* g in compressed mode, with nothing on the way.                          *)
Closed(g, T) ==
    /\ Viewed(g) /\ g.d.mode = "COMPRESSED" /\ ~ g.d.escape /\ ~ g.d.err
    /\ g.d.bit_len = 0 /\ g.d.bit_data = 0 /\ g.d.flushed_len = 0 /\ g.d.last_matched = 0
    /\ Sound(g.d) /\ T \in Seq(Byte) /\ g.n <= Len(T)
    /\ CharSize < g.d.cw_size /\ g.d.cw_size <= MaxCwSize

SameText(g, h) ==
    /\ h.n = g.n /\ SameDict(h.d, g.d) /\ h.d.update_at = g.d.update_at
    /\ h.d.escape_char = g.d.escape_char

(* A codeword that stands for no string.                                   *)
LEMMA ControlWord ==
    ASSUME NEW g, NEW T, Closed(g, T), NEW m \in 0 .. 2, NEW y \in CompType,
           y = codeword(g.d, m), ~ y.err, y.str = <<>>, y.obuf = <<>>,
           y.bit_len = 0, y.bit_data = 0
    PROVE  LET G == [d |-> y, n |-> g.n]
           IN  Word(g, m, G, T) /\ Viewed(G)
<1>. DEFINE G == [d |-> y, n |-> g.n]
<1>1. g.d.flushed_len <= MaxString
  BY Constant DEF Closed
<1>2. Yields(g, y, G, T) /\ Viewed(G)
  <2>1. Viewed(g) /\ T \in Seq(Byte) /\ g.n <= Len(T)
    BY DEF Closed
  <2>. QED  BY <1>1, <2>1, YieldsNone
<1>3. m \in Nat /\ ~ (m >= FirstEntry)
  BY DEF FirstEntry
<1>4. G.d.bit_len = 0 /\ G.d.bit_data = 0
  OBVIOUS
<1>. HIDE DEF G
<1>5. Word(g, m, G, T)
  BY <1>2, <1>3, <1>4 DEF Word, Closed, Sound
<1>. QED  BY <1>2, <1>5 DEF G

(* STEPUP makes the decoder's codewords one bit wider.                     *)
LEMMA StepupWord ==
    ASSUME NEW g, NEW T, Closed(g, T), g.d.cw_size < MaxCwSize
    PROVE  \E G : /\ Word(g, CCW_STEPUP, G, T) /\ Closed(G, T) /\ SameText(g, G)
                  /\ G.d.cw_size = g.d.cw_size + 1
<1>. DEFINE c == g.d
            k == c.cw_size + 1
            y == codeword(c, CCW_STEPUP)
            G == [d |-> y, n |-> g.n]
<1>1. /\ c \in CompType /\ Shape(c) /\ c.str = <<>> /\ c.obuf = <<>> /\ c.cw_size \in Nat
      /\ MaxCwSize \in Nat
  BY CompShape, CompFields, Constant DEF Closed, Viewed, Point
<1>2. k \in Nat /\ k <= MaxCwSize /\ ~ (k > MaxCwSize) /\ CharSize < k
  BY <1>1, Constant DEF Closed
<1>3. y = [c EXCEPT !.cw_size = k, !.err = FALSE]
  <2>1. y = [c EXCEPT !.cw_size = k, !.err = k > MaxCwSize]
    BY DEF codeword, CCW_ETM, CCW_FLUSH, CCW_STEPUP
  <2>2. (k > MaxCwSize) = FALSE
    BY <1>2
  <2>. QED  BY <2>1, <2>2
<1>. HIDE DEF y, k
<1>4. y \in CompType
  BY <1>1, <1>2, <1>3 DEF CompType
<1>5. /\ y.err = FALSE /\ y.str = <<>> /\ y.obuf = <<>> /\ y.bit_len = c.bit_len
      /\ y.bit_data = c.bit_data /\ y.mode = c.mode /\ y.escape = c.escape /\ y.cw_size = k
      /\ y.flushed_len = c.flushed_len /\ y.last_matched = c.last_matched
      /\ y.update_at = c.update_at /\ y.last_added = c.last_added
      /\ y.escape_char = c.escape_char /\ y.parent = c.parent /\ y.ch = c.ch
      /\ y.next_free = c.next_free
  BY <1>1, <1>3 DEF Shape
<1>6. y.bit_len = 0 /\ y.bit_data = 0 /\ ~ y.err
  BY <1>5 DEF Closed
<1>7. Word(g, CCW_STEPUP, G, T) /\ Viewed(G)
  <2>1. y = codeword(g.d, CCW_STEPUP) /\ CCW_STEPUP \in 0 .. 2
    BY DEF y, CCW_STEPUP
  <2>2. y.str = <<>> /\ y.obuf = <<>>
    BY <1>5
  <2>. QED  BY <2>1, <2>2, <1>4, <1>6, ControlWord
<1>8. G.d = y /\ G.n = g.n
  OBVIOUS
<1>. HIDE DEF G
<1>9. SameDict(c, y)
  BY <1>5 DEF SameDict
<1>10. Sound(y)
  <2>1. DictOK(y)
    BY <1>9, DictSame DEF Closed, Sound
  <2>. QED  BY <2>1, <1>4, <1>5 DEF Closed, Sound
<1>11. ~ y.escape
  BY <1>5 DEF Closed
<1>12. Closed(G, T)
  BY <1>2, <1>5, <1>6, <1>7, <1>8, <1>10, <1>11 DEF Closed
<1>13. SameText(g, G)
  BY <1>5, <1>8 DEF SameText, SameDict
<1>. QED  BY <1>5, <1>7, <1>8, <1>12, <1>13 DEF k

(* FLUSH leaves the decoder where it is.                                   *)
LEMMA FlushWord ==
    ASSUME NEW g, NEW T, Closed(g, T)
    PROVE  Word(g, CCW_FLUSH, g, T)
<1>. DEFINE c == g.d
            y == codeword(c, CCW_FLUSH)
<1>1. /\ c \in CompType /\ Shape(c) /\ c.str = <<>> /\ c.obuf = <<>> /\ g = [d |-> c, n |-> g.n]
      /\ ~ c.err /\ c.bit_len = 0 /\ c.bit_data = 0
  BY CompShape DEF Closed, Viewed, Point
<1>2. y = c
  <2>1. y = [c EXCEPT !.bit_len = 0]
    BY DEF codeword, CCW_ETM, CCW_FLUSH, CCW_STEPUP
  <2>. QED  BY <1>1, <2>1 DEF Shape
<1>. HIDE DEF y
<1>3. Word(g, CCW_FLUSH, [d |-> y, n |-> g.n], T)
  <2>1. y = codeword(g.d, CCW_FLUSH) /\ CCW_FLUSH \in 0 .. 2
    BY DEF y, CCW_FLUSH
  <2>2. y \in CompType /\ ~ y.err /\ y.str = <<>> /\ y.obuf = <<>> /\ y.bit_len = 0
        /\ y.bit_data = 0
    BY <1>1, <1>2
  <2>. QED  BY <2>1, <2>2, ControlWord
<1>. QED  BY <1>1, <1>2, <1>3

(* ETM changes the mode of the decoder.                                    *)
LEMMA EtmWord ==
    ASSUME NEW g, NEW T, Closed(g, T)
    PROVE  \E G : /\ Word(g, CCW_ETM, G, T) /\ Open(G, T) /\ Sound(G.d) /\ SameText(g, G)
                  /\ G.d.cw_size = g.d.cw_size /\ G.d.last_matched = 0 /\ G.d.last_added = 0
                  /\ G.d.flushed_len = 0
<1>. DEFINE c == g.d
            y == codeword(c, CCW_ETM)
            G == [d |-> y, n |-> g.n]
<1>1. c \in CompType /\ Shape(c) /\ c.str = <<>> /\ c.obuf = <<>>
  BY CompShape DEF Closed, Viewed, Point
<1>2. y = [c EXCEPT !.bit_len = 0, !.mode = "TRANSPARENT", !.last_matched = 0, !.last_added = 0]
  BY DEF codeword, CCW_ETM, CCW_FLUSH, CCW_STEPUP
<1>. HIDE DEF y
<1>3. 0 \in Nat /\ 0 \in Codeword
  BY Commands
<1>4. y \in CompType
  BY <1>1, <1>2, <1>3 DEF CompType
<1>5. /\ y.err = c.err /\ y.str = <<>> /\ y.obuf = <<>> /\ y.bit_len = 0
      /\ y.bit_data = c.bit_data /\ y.mode = "TRANSPARENT" /\ y.escape = c.escape
      /\ y.cw_size = c.cw_size /\ y.flushed_len = c.flushed_len /\ y.last_matched = 0
      /\ y.update_at = c.update_at /\ y.last_added = 0
      /\ y.escape_char = c.escape_char /\ y.parent = c.parent /\ y.ch = c.ch
      /\ y.next_free = c.next_free
  BY <1>1, <1>2 DEF Shape
<1>6. y.bit_len = 0 /\ y.bit_data = 0 /\ ~ y.err /\ ~ y.escape
  BY <1>5 DEF Closed
<1>7. Word(g, CCW_ETM, G, T) /\ Viewed(G)
  <2>1. y = codeword(g.d, CCW_ETM) /\ CCW_ETM \in 0 .. 2
    BY DEF y, CCW_ETM
  <2>2. y.str = <<>> /\ y.obuf = <<>>
    BY <1>5
  <2>. QED  BY <2>1, <2>2, <1>4, <1>6, ControlWord
<1>8. G.d = y /\ G.n = g.n
  OBVIOUS
<1>. HIDE DEF G
<1>9. SameDict(c, y)
  BY <1>5 DEF SameDict
<1>10. Sound(y)
  <2>1. DictOK(y)
    BY <1>9, DictSame DEF Closed, Sound
  <2>2. y.next_free \in FreeEntry /\ 0 \notin FreeEntry
    BY <1>4, CompFields, Commands
  <2>. QED  BY <2>1, <2>2, <1>4, <1>5 DEF Closed, Sound
<1>11. y.flushed_len = 0 /\ y.flushed_len <= MaxString
  BY <1>5, Constant DEF Closed
<1>12. Open(G, T)
  BY <1>5, <1>6, <1>7, <1>8, <1>11 DEF Open, Closed
<1>13. SameText(g, G)
  BY <1>5, <1>8 DEF SameText, SameDict
<1>. QED  BY <1>5, <1>7, <1>8, <1>10, <1>11, <1>12, <1>13

(* A comp_state whose fields have their types.                             *)
LEMMA ShapeType ==
    ASSUME NEW c, Shape(c), c.mode \in {"TRANSPARENT", "COMPRESSED"}, c.escape \in BOOLEAN,
           c.err \in BOOLEAN, c.update_at \in Codeword, c.next_free \in FreeEntry,
           c.last_matched \in Codeword, c.last_added \in Codeword, c.cw_size \in Nat,
           c.escape_char \in Byte, c.parent \in [FreeEntry -> Codeword],
           c.ch \in [FreeEntry -> Byte], c.bit_len \in Nat, c.bit_data \in Nat
    PROVE  c \in CompType
BY DEF Shape, CompType

(* updated in the words of regular_codeword.                               *)
LEMMA UpdatedAsks ==
    ASSUME NEW c, Shape(c), NEW S
    PROVE  SameDict(IF Asks(c, S) THEN add_char(c, c.update_at, S[1]) ELSE c, updated(c, S[1]))
<1>. DEFINE x == S[1]
            a == add_char(c, c.update_at, x)
<1>1. a = Redict(c, a)
  BY AddShape
<1>. HIDE DEF a
<1>2. CASE c.update_at = 0
  <2>1. updated(c, x) = c
    BY <1>2 DEF updated
  <2>. QED  BY <1>2, <2>1 DEF SameDict, Asks
<1>3. CASE c.update_at # 0 /\ match_char(c, c.update_at, x) = 0
  <2>1. updated(c, x) = [a EXCEPT !.update_at = 0]
    BY <1>3 DEF updated, a
  <2>2. a = [c EXCEPT !.parent = a.parent, !.ch = a.ch, !.last_added = a.last_added,
                      !.next_free = a.next_free, !.update_at = a.update_at]
    BY <1>1 DEF Redict
  <2>3. Shape(c)
    OBVIOUS
  <2>4. /\ updated(c, x).parent = a.parent /\ updated(c, x).ch = a.ch
        /\ updated(c, x).next_free = a.next_free
    BY <2>1, <2>2
  <2>. QED  BY <1>3, <2>4 DEF SameDict, Asks, a
<1>4. CASE c.update_at # 0 /\ match_char(c, c.update_at, x) # 0
  <2>1. updated(c, x) = [c EXCEPT !.update_at = 0]
    BY <1>4 DEF updated
  <2>2. /\ updated(c, x).parent = c.parent /\ updated(c, x).ch = c.ch
        /\ updated(c, x).next_free = c.next_free
    BY <2>1
  <2>. QED  BY <1>4, <2>2 DEF SameDict, Asks
<1>. QED  BY <1>2, <1>3, <1>4

(* The codeword of a string that is the next of the text.                  *)
LEMMA StringWord ==
    ASSUME NEW g, NEW T, Closed(g, T), NEW m \in Codeword, m >= FirstEntry, NEW S \in Seq(Byte),
           S = strings(g.d)[m], Allowed(g.d, S, m), 1 <= Len(S), Len(S) <= MaxString,
           g.n + Len(S) <= Len(T), S = SubSeq(T, g.n + 1, g.n + Len(S))
    PROVE  \E G : /\ Word(g, m, G, T) /\ Closed(G, T) /\ G.n = g.n + Len(S)
                  /\ G.d.cw_size = g.d.cw_size
                  /\ G.d.escape_char = escape_after(g.d.escape_char, S)
                  /\ G.d.update_at = IF Len(S) = MaxString THEN 0 ELSE m
                  /\ SameDict(G.d, updated(g.d, S[1]))
<1>. DEFINE c == g.d
            x == S[1]
            a == IF Asks(c, S) THEN add_char(c, c.update_at, x) ELSE c
            y == regular_codeword(c, m)
            G == [d |-> View(y), n |-> g.n + Len(y.obuf) + Len(y.str)]
<1>1. /\ c \in CompType /\ Shape(c) /\ c.str = <<>> /\ c.obuf = <<>> /\ DictOK(c)
      /\ g \in Point /\ g.n \in Nat
  BY CompShape DEF Closed, Viewed, Point, Sound
<1>2. x \in Byte /\ Len(S) \in Nat
  OBVIOUS
<1>3. Regular(c, S, m, y)
  <2>1. S = strings(c)[m] /\ Allowed(c, S, m)
    OBVIOUS
  <2>2. strings(c)[m] \in Seq(Byte)
    BY <2>1
  <2>. HIDE DEF c, y
  <2>. QED  BY <2>1, <2>2, <1>1, RegularWord DEF y
<1>4. codeword(c, m) = y
  BY DEF codeword, CCW_ETM, CCW_FLUSH, CCW_STEPUP, FirstEntry, Codeword
<1>5. a \in CompType /\ DictOK(a) /\ (a.last_added = 0 \/ a.last_added \in FreeEntry)
  <2>1. CASE Asks(c, S)
    <3>1. c.update_at \in Codeword /\ c.update_at # 0 /\ c.update_at # c.next_free
          /\ c.next_free \in FreeEntry
      BY <2>1, <1>1, CompFields DEF Asks, Closed, Sound
    <3>. QED  BY <2>1, <3>1, <1>1, <1>2, AddChar
  <2>2. CASE ~ Asks(c, S)
    BY <2>2, <1>1 DEF Closed, Sound
  <2>. QED  BY <2>1, <2>2
<1>6. m # a.next_free
  BY DEF Allowed
<1>7. SameDict(a, updated(c, x))
  BY <1>1, UpdatedAsks
<1>. HIDE DEF y, a
<1>8. /\ Shape(y) /\ y.mode = c.mode /\ y.escape = c.escape /\ y.err = c.err
      /\ y.cw_size = c.cw_size /\ y.bit_len = c.bit_len /\ y.bit_data = c.bit_data
      /\ y.last_matched = c.last_matched
      /\ y.escape_char = escape_after(c.escape_char, S)
      /\ y.str = <<>> /\ y.flushed_len = 0 /\ y.obuf = c.obuf \o S
      /\ y.update_at = IF Len(S) + c.flushed_len = MaxString THEN 0 ELSE m
      /\ SameDict(y, a)
      /\ (y.last_added = 0 \/ y.last_added = a.last_added)
  BY <1>3 DEF Regular, a
<1>9. y.obuf = S
  BY <1>1, <1>8
<1>10. y.update_at = IF Len(S) = MaxString THEN 0 ELSE m
  BY <1>2, <1>8 DEF Closed
<1>11. y \in CompType
  <2>1. /\ y.parent = a.parent /\ y.ch = a.ch /\ y.next_free = a.next_free
    BY <1>8 DEF SameDict
  <2>2. y.parent \in [FreeEntry -> Codeword] /\ y.ch \in [FreeEntry -> Byte]
        /\ y.next_free \in FreeEntry /\ y.last_added \in Codeword
    BY <1>5, <1>8, <2>1, CompFields, Commands
  <2>3. y.update_at \in Codeword /\ y.escape_char \in Byte
    <3>1. c.escape_char \in Byte
      BY <1>1, CompFields
    <3>2. y.escape_char \in Byte
      BY <1>8, <3>1, EscapesType
    <3>. QED  BY <1>10, <3>2, Commands
  <2>4. /\ y.mode \in {"TRANSPARENT", "COMPRESSED"} /\ y.escape \in BOOLEAN
        /\ y.err \in BOOLEAN /\ y.last_matched \in Codeword /\ y.cw_size \in Nat
        /\ y.bit_len \in Nat /\ y.bit_data \in Nat
    BY <1>1, <1>8, CompFields
  <2>5. Shape(y)
    BY <1>8
  <2>. QED  BY <2>2, <2>3, <2>4, <2>5, ShapeType
<1>12. Sound(y)
  <2>1. DictOK(y)
    <3>1. SameDict(a, y)
      BY <1>8 DEF SameDict
    <3>. QED  BY <3>1, <1>5, DictSame
  <2>2. y.next_free = a.next_free /\ 0 # a.next_free
    BY <1>5, <1>8, CompFields, Commands DEF SameDict
  <2>3. y.update_at # y.next_free
    BY <1>6, <1>10, <2>2
  <2>4. y.last_matched = 0
    BY <1>8 DEF Closed
  <2>5. y.last_added = 0 \/ y.last_added \in FreeEntry
    BY <1>5, <1>8
  <2>. QED  BY <1>11, <2>1, <2>2, <2>3, <2>4, <2>5 DEF Sound
<1>13. ~ y.err /\ ~ y.escape
  BY <1>8 DEF Closed
<1>14. G.d = View(y) /\ G.n = g.n + Len(y.obuf) + Len(y.str)
  OBVIOUS
<1>15. G.n = g.n + Len(S)
  BY <1>1, <1>2, <1>8, <1>9
<1>16. Yields(g, y, G, T)
  <2>1. y.obuf \o y.str = SubSeq(T, g.n + 1, G.n)
    BY <1>8, <1>9, <1>15
  <2>2. g.d.flushed_len + Len(y.obuf) + Len(y.str) <= MaxString
    BY <1>2, <1>8, <1>9 DEF Closed
  <2>. HIDE DEF G
  <2>3. G.n <= Len(T)
    BY <1>15
  <2>. QED  BY <1>8, <1>11, <1>13, <1>14, <2>1, <2>2, <2>3 DEF Yields, G
<1>. HIDE DEF G
<1>17. Viewed(G)
  BY <1>1, <1>16, YieldsViewed
<1>18. /\ Sound(G.d) /\ Alike(G.d, y) /\ SameRest(G.d, y)
  BY <1>12, <1>14, ViewSound
<1>19. G.d.flushed_len = 0
  BY <1>8, <1>11, <1>14, ViewType
<1>20. /\ G.d.mode = "COMPRESSED" /\ ~ G.d.escape /\ ~ G.d.err /\ G.d.bit_len = 0
       /\ G.d.bit_data = 0 /\ G.d.last_matched = 0 /\ G.d.cw_size = c.cw_size
       /\ G.d.escape_char = y.escape_char /\ G.d.update_at = y.update_at
  BY <1>8, <1>13, <1>18 DEF SameRest, Alike, Closed
<1>21. Closed(G, T)
  <2>1. T \in Seq(Byte) /\ G.n <= Len(T)
    BY <1>15 DEF Closed
  <2>2. CharSize < G.d.cw_size /\ G.d.cw_size <= MaxCwSize
    BY <1>20 DEF Closed
  <2>. QED  BY <1>17, <1>18, <1>19, <1>20, <2>1, <2>2 DEF Closed
<1>22. Word(g, m, G, T)
  <2>1. m \in Nat /\ strings(g.d)[m] \in Seq(Byte)
    BY Commands
  <2>. QED  BY <1>1, <1>4, <1>16, <1>20, <2>1 DEF Word, Closed
<1>23. SameDict(G.d, updated(c, x))
  BY <1>7, <1>8, <1>18 DEF SameDict, Alike
<1>. QED  BY <1>8, <1>10, <1>15, <1>20, <1>21, <1>22, <1>23

=============================================================================
