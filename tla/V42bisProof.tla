----------------------------- MODULE V42bisProof -----------------------------
(***************************************************************************)
(* TLAPS proofs about V42bis: the decoder finds no error in what an        *)
(* encoder sends (NoDecoderError), and in frames that have room for what   *)
(* one character makes, as those of the code have, the terminal sees what  *)
(* the other one wrote (ShownAsWritten), nothing is left behind            *)
(* (FlushComplete) and the two dictionaries are the same once all is       *)
(* decoded (InStep).                                                       *)
(*                                                                         *)
(* None of these is inductive: between a character's encoding and its      *)
(* decoding lie the encoder's output, the frame that is filled, the frames *)
(* under way and the rest of one, and in compressed mode a string that the *)
(* encoder has added entries for and the decoder has not heard of.  The    *)
(* argument is about ways: Decodes(p, s, q, T) says that the bytes s lead  *)
(* the decoder from the point p (its view, and how much of the text T it   *)
(* has) to the point q, without error and showing T.  The inductive        *)
(* invariant IInv says that the bytes under way are such a way, and that   *)
(* at its end the decoder is related to the encoder (Rel): in transparent  *)
(* mode it has taken in the same characters (RelT), in compressed mode its *)
(* dictionary is the encoder's but for what the string at hand, once its   *)
(* codeword is complete, will make of it (RelC).                           *)
(*                                                                         *)
(* V42bisDecoderProof has what is about the decoder and its ways.  The     *)
(* parts here: the encoder in either mode, with a bound on the bits that   *)
(* it sends; the buffers and frames; the invariant and its preservation,   *)
(* one lemma per action; the theorems.                                     *)
(***************************************************************************)
EXTENDS V42bisDecoderProof

-----------------------------------------------------------------------------
(* The encoder steps up the size of the codewords.                         *)

(* W bits are enough for every entry.                                      *)
Wide(W) == W \in Nat /\ DictSize <= pow2[W]

(* Codewords do not become wider than the entries need.                    *)
Narrow(k) == \A W : Wide(W) => k <= W

(* c with the bytes q and the bits b sent, and codewords of k bits.        *)
Raised(c, q, l, b, k) ==
    [c EXCEPT !.obuf = c.obuf \o q, !.bit_len = l, !.bit_data = b, !.cw_size = k]

UpNext(a) == [SEND_CW(a, CCW_STEPUP) EXCEPT !.cw_size = @ + 1]

(* The fields of an encoder with wider codewords.                          *)
LEMMA RaisedShape ==
    ASSUME NEW c, Shape(c), NEW q \in Seq(Byte), NEW l, NEW b, NEW k
    PROVE  LET e == Raised(c, q, l, b, k)
           IN  /\ Shape(e) /\ e.mode = c.mode /\ e.escape = c.escape /\ e.err = c.err
               /\ e.cw_size = k /\ e.bit_len = l /\ e.bit_data = b
               /\ e.last_matched = c.last_matched /\ e.last_added = c.last_added
               /\ e.escape_char = c.escape_char /\ e.str = c.str /\ e.obuf = c.obuf \o q
               /\ e.flushed_len = c.flushed_len /\ e.update_at = c.update_at
               /\ e.parent = c.parent /\ e.ch = c.ch /\ e.next_free = c.next_free
               /\ SameDict(e, c)
<1>. DEFINE e == Raised(c, q, l, b, k)
            o == c.obuf \o q
<1>1. o \in Seq(Byte)
  BY DEF Shape
<1>. HIDE DEF o
<1>2. e = [c EXCEPT !.obuf = o, !.bit_len = l, !.bit_data = b, !.cw_size = k]
  BY DEF Raised, o
<1>. HIDE DEF e
<1>3. Shape(e)
  BY <1>1, <1>2 DEF Shape
<1>4. /\ e.mode = c.mode /\ e.escape = c.escape /\ e.err = c.err
      /\ e.cw_size = k /\ e.bit_len = l /\ e.bit_data = b
      /\ e.last_matched = c.last_matched /\ e.last_added = c.last_added
      /\ e.escape_char = c.escape_char /\ e.str = c.str /\ e.obuf = o
      /\ e.flushed_len = c.flushed_len /\ e.update_at = c.update_at
      /\ e.parent = c.parent /\ e.ch = c.ch /\ e.next_free = c.next_free
  BY <1>2 DEF Shape
<1>5. SameDict(e, c)
  BY <1>4 DEF SameDict
<1>. QED  BY <1>3, <1>4, <1>5 DEF e, o

(* Wider codewords keep the type of a comp_state.                          *)
LEMMA RaisedType ==
    ASSUME NEW c \in CompType, NEW q \in Seq(Byte), NEW l \in Nat, NEW b \in Nat, NEW k \in Nat
    PROVE  Raised(c, q, l, b, k) \in CompType
<1>. DEFINE e == Raised(c, q, l, b, k)
<1>1. Shape(c)
  BY CompShape
<1>2. /\ Shape(e) /\ e.mode = c.mode /\ e.escape = c.escape /\ e.err = c.err
      /\ e.cw_size = k /\ e.bit_len = l /\ e.bit_data = b
      /\ e.last_matched = c.last_matched /\ e.last_added = c.last_added
      /\ e.escape_char = c.escape_char /\ e.update_at = c.update_at
      /\ e.parent = c.parent /\ e.ch = c.ch /\ e.next_free = c.next_free
  BY <1>1, RaisedShape
<1>. HIDE DEF e
<1>3. e \in CompType
  BY <1>2, CompFields, ShapeType
<1>. QED  BY <1>3 DEF e

(* Sent on top of what was sent.                                           *)
LEMMA RaisedTwice ==
    ASSUME NEW c, Shape(c), NEW q \in Seq(Byte), NEW l, NEW b, NEW k,
           NEW s \in Seq(Byte), NEW i, NEW j, NEW n
    PROVE  /\ Raised(Raised(c, q, l, b, k), s, i, j, n) = Raised(c, q \o s, i, j, n)
           /\ Put(Raised(c, q, l, b, k), s, i, j) = Raised(c, q \o s, i, j, k)
           /\ Raised(c, <<>>, c.bit_len, c.bit_data, c.cw_size) = c
<1>1. (c.obuf \o q) \o s = c.obuf \o (q \o s) /\ c.obuf \o <<>> = c.obuf
  BY SMTT(30) DEF Shape
<1>. DEFINE o == c.obuf \o q
            u == q \o s
            v == c.obuf \o (q \o s)
<1>2. o \o s = v /\ c.obuf \o u = v
  BY <1>1
<1>3. Raised(c, q, l, b, k) = [c EXCEPT !.obuf = o, !.bit_len = l, !.bit_data = b, !.cw_size = k]
  BY DEF Raised
<1>4. /\ Raised(c, u, i, j, n) = [c EXCEPT !.obuf = v, !.bit_len = i, !.bit_data = j, !.cw_size = n]
      /\ Raised(c, u, i, j, k) = [c EXCEPT !.obuf = v, !.bit_len = i, !.bit_data = j, !.cw_size = k]
  BY <1>2 DEF Raised
<1>. HIDE DEF o, u, v
<1>. DEFINE R == Raised(c, q, l, b, k)
<1>5. R.obuf = o /\ R.obuf \o s = v
  BY <1>2, <1>3 DEF Shape
<1>6. Raised(R, s, i, j, n) = [R EXCEPT !.obuf = v, !.bit_len = i, !.bit_data = j, !.cw_size = n]
  BY <1>5 DEF Raised
<1>7. Put(R, s, i, j) = [R EXCEPT !.obuf = v, !.bit_len = i, !.bit_data = j]
  BY <1>5 DEF Put
<1>8. R = [c EXCEPT !.obuf = o, !.bit_len = l, !.bit_data = b, !.cw_size = k]
  BY <1>3
<1>. HIDE DEF R
<1>9. Raised(R, s, i, j, n) = Raised(c, u, i, j, n)
  BY <1>4, <1>6, <1>8 DEF Shape
<1>10. Put(R, s, i, j) = Raised(c, u, i, j, k)
  BY <1>4, <1>7, <1>8 DEF Shape
<1>11. Raised(c, <<>>, c.bit_len, c.bit_data, c.cw_size) = c
  BY <1>1 DEF Raised, Shape
<1>. QED  BY <1>9, <1>10, <1>11 DEF R, u

(* SEND_CW keeps the type of a comp_state.                                 *)
LEMMA SendCwType ==
    ASSUME NEW c \in CompType, NEW cw \in Nat
    PROVE  SEND_CW(c, cw) \in CompType
<1>. DEFINE len == c.bit_len + c.cw_size
            data == c.bit_data + cw * pow2[c.bit_len]
            n == len \div CharSize
<1>1. c.bit_len \in Nat /\ c.cw_size \in Nat /\ c.bit_data \in Nat /\ Shape(c)
  BY CompFields, CompShape
<1>2. len \in Nat /\ data \in Nat
  BY <1>1, PowNat
<1>3. SEND_CW(c, cw) = put_bits(c, len, data)
  BY DEF SEND_CW
<1>. HIDE DEF len, data
<1>4. n \in Nat /\ len - (CharSize * n) \in Nat
  <2>1. CharSize \in Nat /\ CharSize > 0
    BY Constant
  <2>2. len = (CharSize * n) + (len % CharSize) /\ len % CharSize \in Nat /\ n \in Nat
    BY <1>2, <2>1, DivMod
  <2>3. CharSize * n \in Nat
    BY <2>2, Times
  <2>. QED  BY <2>2, <2>3
<1>. HIDE DEF n
<1>5. put_bits(c, len, data) = Put(c, Chars(data, n), len - (CharSize * n), Rest(data, n))
  BY <1>1, <1>2, <1>4, PutBits DEF n
<1>. DEFINE q == Chars(data, n)
            l == len - (CharSize * n)
            b == Rest(data, n)
<1>6. q \in Seq(Byte) /\ l \in Nat /\ b \in Nat
  BY <1>2, <1>4, CharsAre, RestNext
<1>7. SEND_CW(c, cw) = Put(c, q, l, b)
  BY <1>3, <1>5
<1>. HIDE DEF q, l, b
<1>8. Put(c, q, l, b) = Raised(c, q, l, b, c.cw_size)
  BY <1>1 DEF Put, Raised, Shape
<1>. QED  BY <1>1, <1>6, <1>7, <1>8, RaisedType

(* One more STEPUP keeps the type of a comp_state.                         *)
LEMMA UpNextType ==
    ASSUME NEW a \in CompType
    PROVE  UpNext(a) \in CompType
<1>1. SEND_CW(a, CCW_STEPUP) \in CompType
  BY SendCwType DEF CCW_STEPUP
<1>. DEFINE s == SEND_CW(a, CCW_STEPUP)
<1>2. UpNext(a) = [s EXCEPT !.cw_size = s.cw_size + 1]
  BY DEF UpNext
<1>. HIDE DEF s
<1>3. s \in CompType /\ s.cw_size + 1 \in Nat
  BY <1>1, CompFields DEF s
<1>. QED  BY <1>2, <1>3 DEF CompType

Ups == [i \in 1 .. DictSize |-> [a \in CompType |-> UpNext(a)]]

(* Every step is one more STEPUP.                                          *)
LEMMA UpsType ==
    /\ Ups \in [1 .. DictSize -> [CompType -> CompType]]
    /\ \A i \in 1 .. DictSize, a \in CompType : Ups[i][a] = UpNext(a)
BY UpNextType DEF Ups

(* How many times the size is stepped up.                                  *)
UpTimes(c, cw, n) ==
    /\ cw < pow2[c.cw_size + n]
    /\ n = 0 \/ cw >= pow2[c.cw_size + n - 1]

(* There is a number of times that is enough.                              *)
LEMMA UpTimesExists ==
    ASSUME NEW c \in CompType, NEW cw \in Codeword
    PROVE  \E n \in 0 .. DictSize : UpTimes(c, cw, n)
<1>. DEFINE k == c.cw_size
            E == {n \in Nat : cw < pow2[k + n]}
<1>1. k \in Nat /\ DictSize \in Nat /\ cw \in Nat /\ cw < DictSize
  BY CompFields, Constant DEF Codeword
<1>2. DictSize \in E
  <2>1. pow2[DictSize] > DictSize /\ pow2[DictSize] <= pow2[k + DictSize]
    BY <1>1, PowAbove, PowMonotone
  <2>2. pow2[DictSize] \in Nat /\ pow2[k + DictSize] \in Nat
    BY <1>1, PowNat
  <2>. QED  BY <1>1, <2>1, <2>2
<1>3. PICK n \in E : \A m \in E : n <= m
  BY <1>2, Least
<1>4. n \in 0 .. DictSize
  BY <1>1, <1>2, <1>3
<1>5. n = 0 \/ cw >= pow2[k + n - 1]
  <2>1. SUFFICES ASSUME n # 0 PROVE cw >= pow2[k + n - 1]
    OBVIOUS
  <2>2. n - 1 \in Nat /\ ~ (n <= n - 1) /\ k + (n - 1) = k + n - 1 /\ k + n - 1 \in Nat
    BY <2>1, <1>1
  <2>3. n - 1 \notin E
    BY <2>2, <1>3
  <2>4. ~ (cw < pow2[k + n - 1])
    BY <2>2, <2>3
  <2>. QED  BY <2>2, <2>4, <1>1, PowNat
<1>. QED  BY <1>3, <1>4, <1>5 DEF UpTimes

(* The recursive function of step_up, unfolded: one STEPUP after the other *)
(* until the codeword fits.                                                *)
LEMMA StepUpDef ==
    ASSUME NEW c \in CompType, NEW cw \in Codeword
    PROVE  \E e, n : /\ Iterates(e, CompType, c, Ups, DictSize)
                     /\ n \in 0 .. DictSize /\ UpTimes(c, cw, n) /\ step_up(c, cw) = e[n]
<1>. DEFINE R(f) == f = [i \in 0 .. DictSize |-> IF i = 0 THEN c ELSE UpNext(f[i - 1])]
            e == CHOOSE f : R(f)
            n == CHOOSE i \in 0 .. DictSize : UpTimes(c, cw, i)
<1>1. DictSize \in Nat
  BY Constant
<1>2. PICK g : Iterates(g, CompType, c, Ups, DictSize)
  BY <1>1, UpsType, IterationExists
<1>3. R(g)
  <2>1. g \in [0 .. DictSize -> CompType]
    BY <1>2 DEF Iterates
  <2>2. \A i \in 0 .. DictSize : g[i] = IF i = 0 THEN c ELSE UpNext(g[i - 1])
    <3>. TAKE i \in 0 .. DictSize
    <3>1. CASE i = 0
      BY <3>1, <1>2 DEF Iterates
    <3>2. CASE i # 0
      <4>1. i \in 1 .. DictSize /\ g[i - 1] \in CompType
        BY <3>2, <2>1, <1>1
      <4>2. g[i] = Ups[i][g[i - 1]]
        BY <3>2, <1>2 DEF Iterates
      <4>. QED  BY <4>1, <4>2, <3>2, UpsType
    <3>. QED  BY <3>1, <3>2
  <2>. QED  BY <2>1, <2>2
<1>4. step_up(c, cw) = e[n]
  BY DEF step_up, UpNext, UpTimes
<1>. HIDE DEF R
<1>5. R(e)
  BY <1>3
<1>6. n \in 0 .. DictSize /\ UpTimes(c, cw, n)
  BY UpTimesExists
<1>. HIDE DEF e, n
<1>7. /\ e = [i \in 0 .. DictSize |-> e[i]]
      /\ \A i \in 0 .. DictSize : e[i] = IF i = 0 THEN c ELSE UpNext(e[i - 1])
  BY <1>5 DEF R
<1>8. \A i \in 0 .. DictSize : e[i] \in CompType
  <2>. DEFINE B == {i \in Nat : i <= DictSize /\ e[i] \notin CompType}
  <2>1. SUFFICES ASSUME B # {} PROVE FALSE
    BY <1>1
  <2>2. PICK i \in B : \A j \in B : i <= j
    BY <2>1, Least
  <2>3. i \in 0 .. DictSize /\ e[i] \notin CompType
    BY <1>1
  <2>4. i # 0
    BY <2>3, <1>7
  <2>5. i - 1 \in Nat /\ i - 1 <= DictSize /\ ~ (i <= i - 1)
    BY <2>3, <2>4, <1>1
  <2>6. e[i - 1] \in CompType
    BY <2>2, <2>5
  <2>7. e[i] = UpNext(e[i - 1])
    BY <2>3, <2>4, <1>7
  <2>. QED  BY <2>3, <2>6, <2>7, UpNextType
<1>9. e \in [0 .. DictSize -> CompType]
  BY <1>7, <1>8
<1>10. \A i \in 0 .. DictSize : e[i] = IF i = 0 THEN c ELSE Ups[i][e[i - 1]]
  <2>. TAKE i \in 0 .. DictSize
  <2>1. CASE i = 0
    BY <2>1, <1>7
  <2>2. CASE i # 0
    <3>1. i \in 1 .. DictSize /\ i - 1 \in 0 .. DictSize
      BY <2>2, <1>1
    <3>2. e[i] = UpNext(e[i - 1]) /\ e[i - 1] \in CompType
      BY <2>2, <3>1, <1>7, <1>8
    <3>. QED  BY <2>2, <3>1, <3>2, UpsType
  <2>. QED  BY <2>1, <2>2
<1>11. Iterates(e, CompType, c, Ups, DictSize)
  BY <1>9, <1>10 DEF Iterates
<1>. QED  BY <1>4, <1>6, <1>11

(* Multiples of a size.                                                    *)
LEMMA Multiple ==
    ASSUME NEW W \in Nat, NEW i \in Nat
    PROVE  W * i \in Nat /\ W * (i + 1) = (W * i) + W /\ W * 0 = 0
OBVIOUS

(* d is c with the size of the codewords stepped up i times: the bytes q   *)
(* are sent, and the bits b wait.                                          *)
UpBy(w, c, g, T, d, i, q, l, b, v, h) ==
    /\ q \in Seq(Byte) /\ l \in Nat /\ b \in Nat
    /\ d = Raised(c, q, l, b, c.cw_size + i) /\ Decodes(w, q, v, T) /\ Pending(v, d, h, T)
    /\ Closed(h, T) /\ SameText(g, h) /\ h.d.cw_size = c.cw_size + i
    /\ \A W : Wide(W) => (CharSize * Len(q)) + l <= c.bit_len + (W * i)

UpTo(w, c, g, T, d, i) == \E q, l, b, v, h : UpBy(w, c, g, T, d, i, q, l, b, v, h)

(* Only the bits that wait count.                                          *)
LEMMA PendingSame ==
    ASSUME NEW w, NEW c, NEW g, NEW T, Pending(w, c, g, T), NEW d,
           d.bit_len = c.bit_len, d.bit_data = c.bit_data
    PROVE  Pending(w, d, g, T)
BY DEF Pending

(* The bytes that are sent lead to a point.                                *)
LEMMA PendingViewed ==
    ASSUME NEW w, NEW c, NEW g, NEW T, Pending(w, c, g, T)
    PROVE  Viewed(w)
BY DEF Pending, Todo

(* No STEPUP: nothing is sent ...                                          *)
LEMMA UpNone ==
    ASSUME NEW w, NEW c \in CompType, NEW g, NEW T, Pending(w, c, g, T), Closed(g, T),
           c.cw_size = g.d.cw_size
    PROVE  UpTo(w, c, g, T, c, 0)
<1>1. Shape(c) /\ c.cw_size \in Nat /\ c.bit_len \in Nat /\ c.bit_data \in Nat
  BY CompShape, CompFields
<1>2. <<>> \in Seq(Byte) /\ Len(<<>>) = 0
  OBVIOUS
<1>3. c.cw_size + 0 = c.cw_size
  BY <1>1
<1>4. Raised(c, <<>>, c.bit_len, c.bit_data, c.cw_size) = c
  BY <1>1, <1>2, RaisedTwice
<1>5. Decodes(w, <<>>, w, T)
  BY PendingViewed, DecodesNil
<1>6. SameText(g, g)
  BY DEF SameText, SameDict
<1>7. \A W : Wide(W) => (CharSize * Len(<<>>)) + c.bit_len <= c.bit_len + (W * 0)
  <2>. TAKE W
  <2>. HAVE Wide(W)
  <2>1. CharSize * Len(<<>>) = 0
    BY <1>2, Times
  <2>2. W * 0 = 0
    BY Multiple DEF Wide
  <2>. QED  BY <1>1, <2>1, <2>2
<1>8. UpBy(w, c, g, T, c, 0, <<>>, c.bit_len, c.bit_data, w, g)
  BY <1>1, <1>2, <1>3, <1>4, <1>5, <1>6, <1>7 DEF UpBy
<1>. QED  BY <1>8 DEF UpTo

(* ... and one more leads the decoder to wider codewords, too.             *)
LEMMA UpMore ==
    ASSUME NEW w, NEW c \in CompType, NEW g, NEW T \in Seq(Byte), NEW d, NEW i \in Nat,
           UpTo(w, c, g, T, d, i), Narrow(c.cw_size + (i + 1))
    PROVE  UpTo(w, c, g, T, UpNext(d), i + 1)
<1>1. PICK q, l, b, v, h : UpBy(w, c, g, T, d, i, q, l, b, v, h)
  BY DEF UpTo
<1>. DEFINE k == c.cw_size + i
            n == c.cw_size + (i + 1)
<1>2. Shape(c) /\ c.cw_size \in Nat /\ c.bit_len \in Nat
  BY CompShape, CompFields
<1>3. /\ q \in Seq(Byte) /\ l \in Nat /\ b \in Nat
      /\ d = Raised(c, q, l, b, k) /\ Decodes(w, q, v, T) /\ Pending(v, d, h, T)
      /\ Closed(h, T) /\ SameText(g, h) /\ h.d.cw_size = k
  BY <1>1 DEF UpBy
<1>4. \A W : Wide(W) => (CharSize * Len(q)) + l <= c.bit_len + (W * i)
  BY <1>1 DEF UpBy
<1>5. k \in Nat /\ n = k + 1
  BY <1>2
<1>. HIDE DEF k, n
<1>6. Shape(d) /\ d.cw_size = k /\ d.bit_len = l
  BY <1>2, <1>3, RaisedShape
<1>7. n <= MaxCwSize
  <2>1. Wide(MaxCwSize)
    BY Constant DEF Wide
  <2>. QED  BY <2>1 DEF Narrow, n
<1>8. k < MaxCwSize
  BY <1>5, <1>7, Constant
<1>9. PICK G : /\ Word(h, CCW_STEPUP, G, T) /\ Closed(G, T) /\ SameText(h, G)
               /\ G.d.cw_size = h.d.cw_size + 1
  BY <1>3, <1>8, StepupWord
<1>10. CharSize < d.cw_size /\ CCW_STEPUP < pow2[d.cw_size] /\ CCW_STEPUP # CCW_ETM
       /\ CCW_STEPUP # CCW_FLUSH
  <2>1. CharSize < k
    BY <1>3 DEF Closed
  <2>2. k >= 2 /\ pow2[k] > k /\ pow2[k] \in Nat
    BY <2>1, <1>5, Constant, PowAbove, PowNat
  <2>3. 2 < pow2[k]
    BY <2>2, <1>5
  <2>. QED  BY <2>1, <2>3, <1>6 DEF CCW_STEPUP, CCW_ETM, CCW_FLUSH
<1>11. d.cw_size = h.d.cw_size
  BY <1>3, <1>6
<1>30. PICK v2 : \E s \in Seq(Byte), l2 \in Nat, b2 \in Nat :
                     CwSent(v, d, CCW_STEPUP, G, T, s, l2, b2, v2)
  BY <1>3, <1>6, <1>9, <1>10, <1>11, SendCw
<1>12. PICK s \in Seq(Byte), l2 \in Nat, b2 \in Nat :
          /\ SEND_CW(d, CCW_STEPUP) = Put(d, s, l2, b2) /\ Decodes(v, s, v2, T)
          /\ Pending(v2, SEND_CW(d, CCW_STEPUP), G, T)
          /\ (CharSize * Len(s)) + l2 = d.bit_len + d.cw_size
  BY <1>30 DEF CwSent
<1>13. Put(d, s, l2, b2) = Raised(c, q \o s, l2, b2, k)
  BY <1>2, <1>3, RaisedTwice
<1>14. UpNext(d) = Raised(c, q \o s, l2, b2, n)
  <2>. DEFINE e == SEND_CW(d, CCW_STEPUP)
              u == q \o s
              o == c.obuf \o u
  <2>1. UpNext(d) = [e EXCEPT !.cw_size = e.cw_size + 1]
    BY DEF UpNext
  <2>2. e = Raised(c, u, l2, b2, k)
    BY <1>12, <1>13
  <2>3. u \in Seq(Byte)
    BY <1>3
  <2>. HIDE DEF e, u
  <2>4. e.cw_size = k
    BY <2>2, <2>3, <1>2, RaisedShape
  <2>5. e = [c EXCEPT !.obuf = o, !.bit_len = l2, !.bit_data = b2, !.cw_size = k]
    BY <2>2 DEF Raised
  <2>6. Raised(c, u, l2, b2, n) = [c EXCEPT !.obuf = o, !.bit_len = l2, !.bit_data = b2, !.cw_size = n]
    BY DEF Raised
  <2>. HIDE DEF o
  <2>7. UpNext(d) = [c EXCEPT !.obuf = o, !.bit_len = l2, !.bit_data = b2, !.cw_size = n]
    BY <2>1, <2>4, <2>5, <1>5, <1>2 DEF Shape
  <2>. QED  BY <2>6, <2>7 DEF u
<1>15. q \o s \in Seq(Byte) /\ Len(q \o s) = Len(q) + Len(s)
  BY <1>3
<1>16. Decodes(w, q \o s, v2, T)
  BY <1>3, <1>12, DecodesJoin
<1>17. Pending(v2, UpNext(d), G, T)
  <2>. DEFINE u == q \o s
              e == Raised(c, u, l2, b2, n)
  <2>3. u \in Seq(Byte) /\ UpNext(d) = e
    BY <1>14, <1>15
  <2>. HIDE DEF u
  <2>4. e.bit_len = l2 /\ e.bit_data = b2
    BY <1>2, <2>3, RaisedShape
  <2>1. UpNext(d).bit_len = l2 /\ UpNext(d).bit_data = b2
    BY <2>3, <2>4
  <2>2. SEND_CW(d, CCW_STEPUP).bit_len = l2 /\ SEND_CW(d, CCW_STEPUP).bit_data = b2
    BY <1>6, <1>12, PutShape
  <2>. QED  BY <1>12, <2>1, <2>2, PendingSame
<1>18. SameText(g, G)
  BY <1>3, <1>9 DEF SameText, SameDict
<1>19. G.d.cw_size = n
  BY <1>3, <1>5, <1>9
<1>20. \A W : Wide(W) => (CharSize * Len(q \o s)) + l2 <= c.bit_len + (W * (i + 1))
  <2>. TAKE W
  <2>. HAVE Wide(W)
  <2>. DEFINE a == CharSize * Len(q)
              f == CharSize * Len(s)
              p == W * i
  <2>1. W \in Nat /\ k <= W
    <3>1. n <= W
      BY DEF Narrow, n
    <3>. QED  BY <3>1, <1>5 DEF Wide
  <2>2. W * (i + 1) = p + W /\ p \in Nat
    BY <2>1, Multiple
  <2>3. Len(q) \in Nat /\ Len(s) \in Nat /\ CharSize \in Nat
    BY <1>3, Constant
  <2>4. CharSize * Len(q \o s) = a + f /\ a \in Nat /\ f \in Nat
    <3>. DEFINE j == Len(q)
                m == Len(s)
    <3>1. j \in Nat /\ m \in Nat /\ Len(q \o s) = j + m
      BY <2>3, <1>15
    <3>. HIDE DEF j, m
    <3>2. CharSize * (j + m) = (CharSize * j) + (CharSize * m) /\ CharSize * j \in Nat
          /\ CharSize * m \in Nat
      BY <3>1, <2>3
    <3>. QED  BY <3>1, <3>2 DEF j, m
  <2>5. a + l <= c.bit_len + p
    BY <1>4
  <2>6. f + l2 = l + k
    BY <1>6, <1>12
  <2>. HIDE DEF a, f, p
  <2>7. (a + f) + l2 <= c.bit_len + (p + W) /\ l2 \in Nat
    <3>. DEFINE o == c.bit_len
    <3>1. /\ a \in Nat /\ f \in Nat /\ p \in Nat /\ W \in Nat /\ k \in Nat /\ k <= W
          /\ o \in Nat /\ l \in Nat /\ l2 \in Nat
      BY <2>1, <2>2, <2>4, <1>2, <1>3, <1>5
    <3>2. a + l <= o + p /\ f + l2 = l + k
      BY <2>5, <2>6
    <3>. HIDE DEF o
    <3>3. (a + f) + l2 <= o + (p + W)
      BY <3>1, <3>2
    <3>. QED  BY <3>1, <3>3 DEF o
  <2>. DEFINE y == CharSize * Len(q \o s)
              z == W * (i + 1)
  <2>8. y = a + f /\ z = p + W
    BY <2>2, <2>4
  <2>. HIDE DEF y, z
  <2>9. y + l2 <= c.bit_len + z
    BY <2>7, <2>8
  <2>. QED  BY <2>9 DEF y, z
<1>21. UpBy(w, c, g, T, UpNext(d), i + 1, q \o s, l2, b2, v2, G)
  BY <1>9, <1>14, <1>15, <1>16, <1>17, <1>18, <1>19, <1>20 DEF UpBy, n
<1>. QED  BY <1>21 DEF UpTo

(* step_up: codewords are now wide enough for cw, and not too wide.        *)
LEMMA StepUp ==
    ASSUME NEW w, NEW c \in CompType, NEW g, NEW T \in Seq(Byte), Pending(w, c, g, T),
           Closed(g, T), c.cw_size = g.d.cw_size, Narrow(c.cw_size), NEW cw \in Codeword
    PROVE  \E i \in Nat : /\ UpTo(w, c, g, T, step_up(c, cw), i)
                          /\ Narrow(c.cw_size + i) /\ cw < pow2[c.cw_size + i]
<1>1. PICK e, n : /\ Iterates(e, CompType, c, Ups, DictSize)
                  /\ n \in 0 .. DictSize /\ UpTimes(c, cw, n) /\ step_up(c, cw) = e[n]
  BY StepUpDef
<1>. DEFINE k == c.cw_size
<1>2. k \in Nat /\ DictSize \in Nat /\ cw \in Nat /\ cw < DictSize /\ n \in Nat /\ n <= DictSize
  BY <1>1, CompFields, Constant DEF Codeword
<1>3. cw < pow2[k + n]
  BY <1>1 DEF UpTimes
<1>4. \A i \in 0 .. n : Narrow(k + i)
  <2>. TAKE i \in 0 .. n
  <2>1. SUFFICES ASSUME NEW W, Wide(W) PROVE k + i <= W
    BY DEF Narrow
  <2>2. W \in Nat /\ DictSize <= pow2[W] /\ pow2[W] \in Nat
    <3>1. W \in Nat /\ DictSize <= pow2[W]
      BY <2>1 DEF Wide
    <3>. QED  BY <3>1, PowNat
  <2>3. CASE i = 0
    <3>1. k <= W
      BY <2>1 DEF Narrow
    <3>. QED  BY <2>3, <3>1, <1>2
  <2>4. CASE i # 0
    <3>1. n # 0 /\ k + n - 1 \in Nat
      BY <2>4, <1>2
    <3>2. pow2[k + n - 1] <= cw /\ pow2[k + n - 1] \in Nat
      BY <3>1, <1>1, PowNat, <1>2 DEF UpTimes
    <3>3. pow2[k + n - 1] < pow2[W]
      BY <3>2, <2>2, <1>2
    <3>4. k + n - 1 < W
      BY <3>1, <3>3, <2>2, PowLess
    <3>. QED  BY <3>1, <3>4, <2>2, <1>2
  <2>. QED  BY <2>3, <2>4
<1>5. \A i \in Nat : i <= n => UpTo(w, c, g, T, e[i], i)
  <2>. DEFINE B == {i \in Nat : i <= n /\ ~ UpTo(w, c, g, T, e[i], i)}
  <2>1. SUFFICES ASSUME B # {} PROVE FALSE
    OBVIOUS
  <2>2. PICK i \in B : \A j \in B : i <= j
    BY <2>1, Least
  <2>3. i \in Nat /\ i <= n /\ ~ UpTo(w, c, g, T, e[i], i)
    OBVIOUS
  <2>4. i # 0
    <3>1. e[0] = c
      BY <1>1, <1>2, SMTT(30) DEF Iterates
    <3>. QED  BY <3>1, <2>3, UpNone
  <2>5. i - 1 \in Nat /\ i - 1 <= n /\ ~ (i <= i - 1) /\ (i - 1) + 1 = i /\ i \in 0 .. n
        /\ i \in 1 .. DictSize
    BY <2>3, <2>4, <1>2
  <2>6. UpTo(w, c, g, T, e[i - 1], i - 1)
    BY <2>2, <2>5
  <2>7. e[i] = UpNext(e[i - 1])
    <3>1. i \in 0 .. DictSize /\ i - 1 \in 0 .. DictSize
      BY <2>5, <1>2
    <3>2. e[i] = Ups[i][e[i - 1]] /\ e[i - 1] \in CompType
      BY <3>1, <2>4, <1>1 DEF Iterates
    <3>. QED  BY <3>2, <2>5, UpsType
  <2>8. Narrow(c.cw_size + ((i - 1) + 1))
    BY <1>4, <2>5
  <2>9. UpTo(w, c, g, T, UpNext(e[i - 1]), (i - 1) + 1)
    BY <2>5, <2>6, <2>8, UpMore
  <2>. QED  BY <2>3, <2>5, <2>7, <2>9
<1>6. UpTo(w, c, g, T, step_up(c, cw), n)
  BY <1>1, <1>2, <1>5
<1>7. Narrow(k + n)
  BY <1>2, <1>4
<1>. QED  BY <1>2, <1>3, <1>6, <1>7

-----------------------------------------------------------------------------
(* The encoder in compressed mode.                                         *)

(* c with its string sent: the bytes q, and the bits b that wait.          *)
Sent(c, q, l, b, k, esc) ==
    [c EXCEPT !.obuf = c.obuf \o q, !.bit_len = l, !.bit_data = b, !.cw_size = k,
              !.escape_char = esc, !.str = <<>>, !.flushed_len = 0]

(* The fields of an encoder that has sent its string.                      *)
LEMMA SentShape ==
    ASSUME NEW c, Shape(c), NEW q \in Seq(Byte), NEW l, NEW b, NEW k, NEW esc
    PROVE  LET e == Sent(c, q, l, b, k, esc)
           IN  /\ Shape(e) /\ e.mode = c.mode /\ e.escape = c.escape /\ e.err = c.err
               /\ e.cw_size = k /\ e.bit_len = l /\ e.bit_data = b
               /\ e.escape_char = esc /\ e.obuf = c.obuf \o q /\ SentOff(c, e)
<1>. DEFINE e == Sent(c, q, l, b, k, esc)
            o == c.obuf \o q
<1>1. o \in Seq(Byte) /\ <<>> \in Seq(Byte) /\ 0 \in Nat
  BY DEF Shape
<1>. HIDE DEF o
<1>2. e = [c EXCEPT !.obuf = o, !.bit_len = l, !.bit_data = b, !.cw_size = k,
                    !.escape_char = esc, !.str = <<>>, !.flushed_len = 0]
  BY DEF Sent, o
<1>. HIDE DEF e
<1>3. /\ e.mode = c.mode /\ e.escape = c.escape /\ e.err = c.err
      /\ e.cw_size = k /\ e.bit_len = l /\ e.bit_data = b
      /\ e.last_matched = c.last_matched /\ e.last_added = c.last_added
      /\ e.escape_char = esc /\ e.str = <<>> /\ e.obuf = o
      /\ e.flushed_len = 0 /\ e.update_at = c.update_at
      /\ e.parent = c.parent /\ e.ch = c.ch /\ e.next_free = c.next_free
  BY <1>2 DEF Shape
<1>4. Shape(e)
  BY <1>1, <1>2 DEF Shape
<1>. QED  BY <1>3, <1>4 DEF SentOff, e, o

(* Sending the string keeps the type of a comp_state.                      *)
LEMMA SentType ==
    ASSUME NEW c \in CompType, NEW q \in Seq(Byte), NEW l \in Nat, NEW b \in Nat, NEW k \in Nat,
           NEW esc \in Byte
    PROVE  Sent(c, q, l, b, k, esc) \in CompType
<1>. DEFINE e == Sent(c, q, l, b, k, esc)
<1>1. Shape(c)
  BY CompShape
<1>2. /\ Shape(e) /\ e.mode = c.mode /\ e.escape = c.escape /\ e.err = c.err
      /\ e.cw_size = k /\ e.bit_len = l /\ e.bit_data = b
      /\ e.escape_char = esc /\ SentOff(c, e)
  BY <1>1, SentShape
<1>. HIDE DEF e
<1>3. /\ e.last_matched = c.last_matched /\ e.last_added = c.last_added
      /\ e.update_at = c.update_at
      /\ e.parent = c.parent /\ e.ch = c.ch /\ e.next_free = c.next_free
  BY <1>2 DEF SentOff
<1>4. e \in CompType
  BY <1>2, <1>3, CompFields, ShapeType
<1>. QED  BY <1>4 DEF e

(* What the bits of a string's codeword take, with what steps up the size. *)
StringBits(W) == W * (W - CharSize)

(* The decoder at g and the encoder c, both in compressed mode.            *)
Linked(g, c, T) ==
    /\ Closed(g, T) /\ Sound(c) /\ c.mode = "COMPRESSED" /\ c.cw_size = g.d.cw_size
    /\ Narrow(c.cw_size) /\ c.escape_char = g.d.escape_char /\ c.flushed_len = 0

(* The encoder is between two strings: the decoder has all of the text ... *)
SyncC(g, c, T) ==
    /\ Linked(g, c, T) /\ c.str = <<>> /\ c.last_matched = 0
    /\ SameDict(g.d, c) /\ g.n = Len(T)

(* ... or has a string that the decoder does not know of: the dictionary   *)
(* is what that string will make of the decoder's.                         *)
StrC(g, c, T) ==
    LET m == c.last_matched
    IN  /\ Linked(g, c, T) /\ c.update_at = 0 /\ c.str # <<>> /\ Len(c.str) <= MaxString
        /\ g.n + Len(c.str) = Len(T) /\ c.str = SubSeq(T, g.n + 1, Len(T))
        /\ SameDict(c, updated(g.d, c.str[1])) /\ m >= FirstEntry /\ m # g.d.next_free
        /\ strings(c)[m] = c.str /\ g.d.next_free \in {c.next_free, c.last_added}

(* The decoder finds in its dictionary what the encoder found.             *)
LEMMA StrCAllowed ==
    ASSUME NEW g, NEW c, NEW T, StrC(g, c, T), NEW h, Closed(h, T), SameText(g, h)
    PROVE  /\ strings(h.d)[c.last_matched] = c.str
           /\ Allowed(h.d, c.str, c.last_matched)
           /\ SameDict(c, updated(h.d, c.str[1]))
<1>. DEFINE m == c.last_matched
            S == c.str
            x == S[1]
            d == g.d
            e == h.d
            u == updated(d, x)
            v == updated(e, x)
<1>1. /\ Sound(d) /\ Sound(e) /\ Sound(c) /\ d \in CompType /\ e \in CompType /\ c \in CompType
      /\ Shape(d) /\ Shape(e)
  BY CompShape DEF StrC, Linked, Closed, Sound
<1>2. S \in Seq(Byte) /\ S # <<>> /\ m \in Codeword
  BY <1>1, CompFields DEF StrC
<1>3. x \in Byte
  BY <1>2
<1>4. SameDict(d, e) /\ d.update_at = e.update_at
  BY DEF SameText, SameDict
<1>5. SameDict(c, u)
  BY DEF StrC
<1>6. SameDict(u, v)
  BY <1>1, <1>4, UpdatedSame
<1>7. SameDict(c, v)
  BY <1>5, <1>6 DEF SameDict
<1>8. m # e.next_free /\ m # c.next_free
  BY <1>1, <1>4 DEF StrC, SameDict, Sound
<1>9. strings(e)[m] = S
  <2>1. strings(v)[m] = strings(e)[m]
    BY <1>1, <1>2, <1>3, <1>8, Updated DEF Sound
  <2>2. strings(c) = strings(v)
    BY <1>1, <1>7, DictSame DEF Sound
  <2>3. strings(c)[m] = S
    BY DEF StrC
  <2>. QED  BY <2>1, <2>2, <2>3
<1>10. Allowed(e, S, m)
  <2>1. SameDict(IF Asks(e, S) THEN add_char(e, e.update_at, S[1]) ELSE e, v)
    BY <1>1, UpdatedAsks
  <2>2. Asks(e, S) => add_char(e, e.update_at, S[1]).next_free = c.next_free
    BY <2>1, <1>7 DEF SameDict
  <2>3. ~ (m >= DictSize)
    BY <1>2, Constant DEF Codeword
  <2>. QED  BY <1>8, <2>2, <2>3 DEF Allowed
<1>. QED  BY <1>7, <1>9, <1>10

(* The bits of i times STEPUP and of the codeword itself are bounded.      *)
LEMMA StringCost ==
    ASSUME NEW W \in Nat, NEW k \in Nat, CharSize < k, NEW i \in Nat, k + i <= W
    PROVE  (W * i) + (k + i) <= StringBits(W)
<1>. DEFINE n == W - CharSize
<1>1. n \in Nat /\ i + 1 <= n
  BY Constant
<1>. HIDE DEF n
<1>2. W * (i + 1) <= W * n
  BY <1>1
<1>3. W * (i + 1) = (W * i) + W /\ W * i \in Nat
  BY Multiple
<1>4. (W * i) + (k + i) <= (W * i) + W
  BY <1>3
<1>5. W * n = StringBits(W)
  BY DEF n, StringBits
<1>. DEFINE p == W * i
            q == W * n
<1>6. p \in Nat /\ p + W <= q /\ p + (k + i) <= p + W /\ q \in Nat
  BY <1>1, <1>2, <1>3, <1>4
<1>. HIDE DEF p, q
<1>7. p + (k + i) <= q
  BY <1>6
<1>. QED  BY <1>5, <1>7 DEF p, q

(* What is known of the encoder once its string is sent.                   *)
StringSent(w, c, g, T, s, q, l, b, k, v, h) ==
    LET esc == escape_after(c.escape_char, c.str)
    IN  /\ q \in Seq(Byte) /\ l \in Nat /\ b \in Nat /\ k \in Nat
        /\ s = Sent(c, q, l, b, k, esc) /\ Decodes(w, q, v, T) /\ Pending(v, s, h, T)
        /\ Closed(h, T) /\ h.n = Len(T) /\ h.d.cw_size = k /\ Narrow(k)
        /\ h.d.escape_char = esc /\ SameDict(h.d, c)
        /\ h.d.update_at = IF Len(c.str) = MaxString THEN 0 ELSE c.last_matched
        /\ \A W : Wide(W) => (CharSize * Len(q)) + l <= c.bit_len + StringBits(W)

(* send_data in compressed mode: the codeword of the string.               *)
LEMMA SendDataC ==
    ASSUME NEW w, NEW c, NEW g, NEW T, Pending(w, c, g, T), StrC(g, c, T)
    PROVE  \E q, l, b, k, v, h : StringSent(w, c, g, T, send_data(c), q, l, b, k, v, h)
<1>. DEFINE m == c.last_matched
            S == c.str
            d == step_up(c, m)
            esc == escape_after(c.escape_char, S)
<1>1. /\ c \in CompType /\ Shape(c) /\ Closed(g, T) /\ c.cw_size = g.d.cw_size
      /\ Narrow(c.cw_size) /\ T \in Seq(Byte) /\ c.mode = "COMPRESSED"
      /\ c.escape_char = g.d.escape_char
  BY CompShape DEF StrC, Linked, Sound, Closed
<1>2. /\ m \in Codeword /\ S \in Seq(Byte) /\ c.cw_size \in Nat /\ c.bit_len \in Nat
      /\ c.escape_char \in Byte /\ esc \in Byte
  BY <1>1, CompFields, EscapesType
<1>3. PICK i \in Nat : UpTo(w, c, g, T, d, i) /\ Narrow(c.cw_size + i) /\ m < pow2[c.cw_size + i]
  BY <1>1, <1>2, StepUp
<1>. DEFINE k == c.cw_size + i
<1>4. k \in Nat
  BY <1>2
<1>5. PICK q, l, b, v, h : UpBy(w, c, g, T, d, i, q, l, b, v, h)
  BY <1>3 DEF UpTo
<1>6. /\ q \in Seq(Byte) /\ l \in Nat /\ b \in Nat
      /\ d = Raised(c, q, l, b, k) /\ Decodes(w, q, v, T) /\ Pending(v, d, h, T)
      /\ Closed(h, T) /\ SameText(g, h) /\ h.d.cw_size = k
  BY <1>5 DEF UpBy
<1>7. \A W : Wide(W) => (CharSize * Len(q)) + l <= c.bit_len + (W * i)
  BY <1>5 DEF UpBy
<1>8. strings(h.d)[m] = S /\ Allowed(h.d, S, m) /\ SameDict(c, updated(h.d, S[1]))
  BY <1>6, StrCAllowed
<1>9. PICK G : /\ Word(h, m, G, T) /\ Closed(G, T) /\ G.n = h.n + Len(S)
               /\ G.d.cw_size = h.d.cw_size
               /\ G.d.escape_char = escape_after(h.d.escape_char, S)
               /\ G.d.update_at = IF Len(S) = MaxString THEN 0 ELSE m
               /\ SameDict(G.d, updated(h.d, S[1]))
  <2>1. /\ m >= FirstEntry /\ Len(S) <= MaxString /\ S # <<>>
        /\ g.n + Len(S) = Len(T) /\ S = SubSeq(T, g.n + 1, Len(T))
    BY DEF StrC
  <2>5. h.n = g.n
    BY <1>6 DEF SameText
  <2>6. S \in Seq(Byte) /\ S # <<>> /\ T \in Seq(Byte)
    BY <2>1, <1>1, <1>2
  <2>. HIDE DEF S
  <2>7. 1 <= Len(S) /\ Len(T) \in Nat
    BY <2>6
  <2>2. h.n = g.n /\ 1 <= Len(S)
    BY <2>5, <2>7
  <2>3. h.n + Len(S) = Len(T) /\ Len(T) \in Nat
    <3>1. g.n + Len(S) = Len(T)
      BY <2>1
    <3>. QED  BY <3>1, <2>5, <2>7
  <2>4. h.n + Len(S) <= Len(T) /\ S = SubSeq(T, h.n + 1, h.n + Len(S))
    <3>. DEFINE j == h.n + Len(S)
    <3>1. j = Len(T)
      BY <2>3
    <3>. HIDE DEF j
    <3>2. S = SubSeq(T, h.n + 1, Len(T))
      BY <2>1, <2>5
    <3>3. S = SubSeq(T, h.n + 1, j) /\ j <= Len(T)
      BY <3>1, <3>2, <2>7
    <3>. QED  BY <3>3 DEF j
  <2>. HIDE DEF m
  <2>. QED  BY <2>1, <2>2, <2>4, <2>6, <1>2, <1>6, <1>8, StringWord
<1>10. Shape(d) /\ d.cw_size = k /\ d.bit_len = l
  BY <1>1, <1>6, RaisedShape
<1>11. CharSize < d.cw_size /\ d.cw_size = h.d.cw_size /\ m < pow2[d.cw_size]
       /\ m # CCW_ETM /\ m # CCW_FLUSH
  BY <1>2, <1>3, <1>6, <1>10, SMTT(30) DEF Closed, StrC, FirstEntry, CCW_ETM, CCW_FLUSH
<1>. HIDE DEF d, k
<1>30. PICK v2 : \E s \in Seq(Byte), l2 \in Nat, b2 \in Nat :
                     CwSent(v, d, m, G, T, s, l2, b2, v2)
  BY <1>1, <1>6, <1>9, <1>10, <1>11, SendCw
<1>12. PICK s \in Seq(Byte), l2 \in Nat, b2 \in Nat :
          /\ SEND_CW(d, m) = Put(d, s, l2, b2) /\ Decodes(v, s, v2, T)
          /\ Pending(v2, SEND_CW(d, m), G, T)
          /\ (CharSize * Len(s)) + l2 = d.bit_len + d.cw_size
  BY <1>30 DEF CwSent
<1>. DEFINE u == q \o s
            o == c.obuf \o u
            z == send_data(c)
<1>13. SEND_CW(d, m) = Raised(c, u, l2, b2, k)
  BY <1>1, <1>6, <1>12, RaisedTwice
<1>14. z = Sent(c, u, l2, b2, k, esc)
  <2>. DEFINE e == SEND_CW(d, m)
  <2>1. z = [e EXCEPT !.escape_char = esc, !.str = <<>>, !.flushed_len = 0]
    BY <1>1 DEF send_data, d
  <2>2. e = [c EXCEPT !.obuf = o, !.bit_len = l2, !.bit_data = b2, !.cw_size = k]
    BY <1>13 DEF Raised
  <2>3. Sent(c, u, l2, b2, k, esc) =
          [c EXCEPT !.obuf = o, !.bit_len = l2, !.bit_data = b2, !.cw_size = k,
                    !.escape_char = esc, !.str = <<>>, !.flushed_len = 0]
    BY DEF Sent
  <2>. HIDE DEF e, u, o, z, esc, m
  <2>. QED  BY <2>1, <2>2, <2>3, <1>1 DEF Shape
<1>15. u \in Seq(Byte) /\ Len(u) = Len(q) + Len(s)
  BY <1>6
<1>16. Decodes(w, u, v2, T)
  BY <1>6, <1>12, DecodesJoin
<1>. HIDE DEF z
<1>17. Pending(v2, z, G, T)
  <2>1. SEND_CW(d, m).bit_len = l2 /\ SEND_CW(d, m).bit_data = b2
    BY <1>10, <1>12, PutShape
  <2>. DEFINE e == Sent(c, u, l2, b2, k, esc)
  <2>2. z = e
    BY <1>14
  <2>3. u \in Seq(Byte)
    BY <1>15
  <2>. HIDE DEF u, esc
  <2>4. e.bit_len = l2 /\ e.bit_data = b2
    BY <1>1, <2>3, SentShape
  <2>5. z.bit_len = l2 /\ z.bit_data = b2
    BY <2>2, <2>4
  <2>. QED  BY <2>1, <2>5, <1>12, PendingSame
<1>18. G.n = Len(T)
  BY <1>6, <1>9 DEF SameText, StrC
<1>19. G.d.escape_char = esc
  BY <1>1, <1>6, <1>9 DEF SameText
<1>20. SameDict(G.d, c)
  BY <1>8, <1>9 DEF SameDict
<1>21. \A W : Wide(W) => (CharSize * Len(u)) + l2 <= c.bit_len + StringBits(W)
  <2>. TAKE W
  <2>. HAVE Wide(W)
  <2>. DEFINE a == CharSize * Len(q)
              f == CharSize * Len(s)
              p == W * i
              y == CharSize * Len(u)
  <2>1. W \in Nat /\ k <= W
    BY <1>3 DEF Wide, Narrow, k
  <2>2. p \in Nat
    BY <2>1, Multiple
  <2>3. y = a + f /\ a \in Nat /\ f \in Nat
    <3>. DEFINE j == Len(q)
                n == Len(s)
    <3>1. j \in Nat /\ n \in Nat /\ Len(u) = j + n /\ CharSize \in Nat
      BY <1>6, <1>15, Constant
    <3>. HIDE DEF j, n
    <3>2. CharSize * (j + n) = (CharSize * j) + (CharSize * n) /\ CharSize * j \in Nat
          /\ CharSize * n \in Nat
      BY <3>1
    <3>. QED  BY <3>1, <3>2 DEF j, n
  <2>4. a + l <= c.bit_len + p
    BY <1>7
  <2>5. f + l2 = l + k
    BY <1>10, <1>12
  <2>6. p + k <= StringBits(W)
    <3>1. CharSize < c.cw_size
      BY <1>1 DEF Closed
    <3>. QED  BY <2>1, <3>1, <1>2, StringCost DEF k
  <2>7. StringBits(W) \in Int
    BY <2>1, Constant DEF StringBits
  <2>. HIDE DEF a, f, p, y
  <2>8. y + l2 <= c.bit_len + (p + k)
    BY <2>2, <2>3, <2>4, <2>5, <1>2, <1>4, <1>6, <1>12
  <2>9. y + l2 <= c.bit_len + StringBits(W)
    BY <2>2, <2>3, <2>6, <2>7, <2>8, <1>2, <1>4, <1>12
  <2>. QED  BY <2>9 DEF y
<1>22. Narrow(k) /\ k \in Nat /\ G.d.cw_size = k
  BY <1>3, <1>4, <1>6, <1>9 DEF k
<1>. HIDE DEF u
<1>23. StringSent(w, c, g, T, z, u, l2, b2, k, v2, G)
  BY <1>9, <1>14, <1>15, <1>16, <1>17, <1>18, <1>19, <1>20, <1>21, <1>22 DEF StringSent
<1>. QED  BY <1>23 DEF z

-----------------------------------------------------------------------------
(* What the encoder sends, and how much of it.                             *)

(* A character takes two bytes at most.                                    *)
LEMMA EscapedLen ==
    ASSUME NEW esc \in Byte, NEW str \in Seq(Byte)
    PROVE  Len(escaped(esc, str)) <= 2 * Len(str)
<1>. DEFINE E == escapes(esc, str)
            N == Len(str)
            B == {i \in Nat : i <= N /\ ~ (Len(E[i].out) <= 2 * i)}
<1>1. N \in Nat /\ Iterates(E, Escaped, escape_first(esc), EscapeSteps(str), N)
  BY EscapesDef
<1>2. SUFFICES ASSUME B # {} PROVE FALSE
  <2>1. N \notin B => Len(E[N].out) <= 2 * N
    BY <1>1
  <2>. QED  BY <2>1 DEF escaped
<1>. HIDE DEF E
<1>3. PICK i \in B : \A j \in B : i <= j
  BY <1>2, Least
<1>4. i \in 0 .. N /\ ~ (Len(E[i].out) <= 2 * i)
  BY <1>1
<1>5. i # 0
  <2>1. CASE i = 0
    <3>1. E[0] = escape_first(esc)
      BY <2>1, <1>1, <1>4 DEF Iterates
    <3>2. E[0].out = <<>>
      BY <3>1 DEF escape_first
    <3>. QED  BY <3>2, <2>1, <1>4
  <2>. QED  BY <2>1
<1>6. i - 1 \in Nat /\ i - 1 <= N /\ ~ (i <= i - 1) /\ i \in 1 .. N /\ i - 1 \in 0 .. N
  BY <1>1, <1>4, <1>5
<1>. DEFINE a == E[i - 1]
            x == str[i]
<1>7. Len(a.out) <= 2 * (i - 1)
  BY <1>3, <1>6
<1>8. a \in Escaped /\ x \in Byte
  BY <1>1, <1>6 DEF Iterates
<1>9. E[i] = escape_next(a, x)
  <2>1. E[i] = EscapeSteps(str)[i][a]
    BY <1>1, <1>4, <1>5 DEF Iterates
  <2>. QED  BY <2>1, <1>6, <1>8, EscapeStepsType
<1>. HIDE DEF a, x, B
<1>10. Len(E[i].out) <= Len(a.out) + 2 /\ Len(a.out) \in Nat
  <2>1. a.out \in Seq(Byte) /\ CC_EID \in Byte
    BY <1>8, Commands DEF Escaped
  <2>. DEFINE p == <<x, CC_EID>>
  <2>2. p \in Seq(Byte) /\ Len(p) = 2
    BY <2>1, <1>8
  <2>3. E[i].out = a.out \o p \/ E[i].out = Append(a.out, x)
    <3>1. CASE x = a.esc
      <4>1. escape_next(a, x).out = a.out \o p
        BY <3>1 DEF escape_next
      <4>. QED  BY <4>1, <1>9
    <3>2. CASE x # a.esc
      <4>1. escape_next(a, x).out = Append(a.out, x)
        BY <3>2 DEF escape_next
      <4>. QED  BY <4>1, <1>9
    <3>. QED  BY <3>1, <3>2
  <2>. HIDE DEF p
  <2>4. Len(a.out \o p) = Len(a.out) + 2 /\ Len(Append(a.out, x)) = Len(a.out) + 1
        /\ Len(a.out) \in Nat
    <3>. DEFINE o == a.out
    <3>1. o \in Seq(Byte)
      BY <2>1
    <3>. HIDE DEF o
    <3>2. Len(o) \in Nat /\ Len(Append(o, x)) = Len(o) + 1
      BY <3>1, <1>8
    <3>3. Len(o \o p) = Len(o) + 2
      <4>1. Len(o \o p) = Len(o) + Len(p)
        BY <2>2, <3>1, ConcatProperties
      <4>. QED  BY <4>1, <2>2
    <3>. QED  BY <3>2, <3>3 DEF o
  <2>. QED  BY <2>3, <2>4
<1>11. Len(E[i].out) <= 2 * i
  <2>1. E[i].out \in Seq(Byte)
    BY <1>1, <1>4 DEF Iterates, Escaped
  <2>2. Len(E[i].out) \in Nat
    BY <2>1
  <2>. QED  BY <2>2, <1>6, <1>7, <1>10
<1>. QED  BY <1>4, <1>11

(* send_data in transparent mode: the characters of the string.            *)
LEMMA SendDataT ==
    ASSUME NEW c \in CompType, c.mode = "TRANSPARENT"
    PROVE  LET q == escaped(c.escape_char, c.str)
               esc == escape_after(c.escape_char, c.str)
           IN  /\ send_data(c) = Sent(c, q, c.bit_len, c.bit_data, c.cw_size, esc)
               /\ q \in Seq(Byte) /\ esc \in Byte
<1>. DEFINE q == escaped(c.escape_char, c.str)
            esc == escape_after(c.escape_char, c.str)
            o == c.obuf \o q
<1>1. Shape(c) /\ c.escape_char \in Byte /\ c.str \in Seq(Byte)
  BY CompShape, CompFields
<1>2. q \in Seq(Byte) /\ esc \in Byte
  BY <1>1, EscapesType
<1>3. send_data(c) = [[c EXCEPT !.obuf = o] EXCEPT !.escape_char = esc, !.str = <<>>, !.flushed_len = 0]
  BY DEF send_data
<1>4. Sent(c, q, c.bit_len, c.bit_data, c.cw_size, esc) =
        [c EXCEPT !.obuf = o, !.bit_len = c.bit_len, !.bit_data = c.bit_data,
                  !.cw_size = c.cw_size, !.escape_char = esc, !.str = <<>>, !.flushed_len = 0]
  BY DEF Sent
<1>. HIDE DEF o, q, esc
<1>5. send_data(c) = Sent(c, q, c.bit_len, c.bit_data, c.cw_size, esc)
  BY <1>1, <1>3, <1>4 DEF Shape
<1>. QED  BY <1>2, <1>5 DEF q, esc

(* The bits that a change of the mode takes.                               *)
SwitchBits(W) == W + (2 * CharSize)

(* The bits that wait in the encoder, or may be needed for its string.     *)
Load(c) == c.bit_len + (2 * (CharSize * Len(c.str)))

Bound(c, z, q, a, b) ==
    \A W : Wide(W) => (CharSize * Len(q)) + Load(z)
                        <= Load(c) + (a * StringBits(W)) + (b * SwitchBits(W))

(* From c to z the encoder sends what leads the decoder from w to v: with  *)
(* a strings and b changes of the mode.                                    *)
Emits(c, z, w, v, T, a, b) ==
    \E q \in Seq(Byte) :
       z.obuf = c.obuf \o q /\ Decodes(w, q, v, T) /\ Bound(c, z, q, a, b)

(* The load is a natural number.                                           *)
LEMMA LoadType ==
    ASSUME NEW c \in CompType
    PROVE  Load(c) \in Nat
<1>1. c.bit_len \in Nat /\ Len(c.str) \in Nat /\ CharSize \in Nat
  BY CompFields, Constant
<1>2. CharSize * Len(c.str) \in Nat
  BY <1>1
<1>. QED  BY <1>1, <1>2 DEF Load

(* Nothing is sent.                                                        *)
LEMMA EmitsNone ==
    ASSUME NEW c \in CompType, NEW z \in CompType, z.obuf = c.obuf, Load(z) <= Load(c),
           NEW w, Viewed(w), NEW T
    PROVE  Emits(c, z, w, w, T, 0, 0)
<1>. DEFINE q == <<>>
<1>1. q \in Seq(Byte) /\ Len(q) = 0 /\ c.obuf \o q = c.obuf /\ Decodes(w, q, w, T)
  BY CompFields, DecodesNil
<1>. HIDE DEF q
<1>2. CharSize * Len(q) = 0
  BY <1>1, Times
<1>3. Load(z) \in Nat /\ Load(c) \in Nat
  BY LoadType
<1>4. Bound(c, z, q, 0, 0)
  <2>1. SUFFICES ASSUME NEW W, Wide(W)
                 PROVE  (CharSize * Len(q)) + Load(z)
                          <= Load(c) + (0 * StringBits(W)) + (0 * SwitchBits(W))
    BY DEF Bound
  <2>2. StringBits(W) \in Int /\ SwitchBits(W) \in Int
    <3>1. W \in Nat /\ CharSize \in Nat
      BY Constant, <2>1 DEF Wide
    <3>. QED  BY <3>1 DEF StringBits, SwitchBits
  <2>. DEFINE i == StringBits(W)
              j == SwitchBits(W)
  <2>3. 0 * i = 0 /\ 0 * j = 0
    BY <2>2
  <2>. QED  BY <1>2, <1>3, <2>3
<1>. QED  BY <1>1, <1>4 DEF Emits

(* What is sent one after the other.                                       *)
LEMMA EmitsJoin ==
    ASSUME NEW c \in CompType, NEW y \in CompType, NEW z \in CompType, NEW w, NEW v, NEW r, NEW T,
           NEW a \in Nat, NEW b \in Nat, NEW d \in Nat, NEW e \in Nat,
           Emits(c, y, w, v, T, a, b), Emits(y, z, v, r, T, d, e)
    PROVE  Emits(c, z, w, r, T, a + d, b + e)
<1>1. PICK q \in Seq(Byte) : y.obuf = c.obuf \o q /\ Decodes(w, q, v, T) /\ Bound(c, y, q, a, b)
  BY DEF Emits
<1>2. PICK s \in Seq(Byte) : z.obuf = y.obuf \o s /\ Decodes(v, s, r, T) /\ Bound(y, z, s, d, e)
  BY DEF Emits
<1>3. c.obuf \in Seq(Byte)
  BY CompFields
<1>4. z.obuf = c.obuf \o (q \o s)
  <2>. DEFINE o == c.obuf
  <2>1. o \in Seq(Byte)
    BY <1>3
  <2>. HIDE DEF o
  <2>2. (o \o q) \o s = o \o (q \o s)
    BY <2>1
  <2>. QED  BY <2>2, <1>1, <1>2 DEF o
<1>5. Decodes(w, q \o s, r, T) /\ q \o s \in Seq(Byte)
  BY <1>1, <1>2, DecodesJoin
<1>6. Bound(c, z, q \o s, a + d, b + e)
  <2>1. SUFFICES ASSUME NEW W, Wide(W)
                 PROVE  (CharSize * Len(q \o s)) + Load(z) <=
                          Load(c) + ((a + d) * StringBits(W)) + ((b + e) * SwitchBits(W))
    BY DEF Bound
  <2>. DEFINE i == StringBits(W)
              j == SwitchBits(W)
              m == CharSize * Len(q)
              n == CharSize * Len(s)
              k == CharSize * Len(q \o s)
  <2>2. i \in Int /\ j \in Int
    <3>1. W \in Nat /\ CharSize \in Nat
      BY Constant, <2>1 DEF Wide
    <3>. QED  BY <3>1 DEF StringBits, SwitchBits
  <2>3. m + Load(y) <= Load(c) + (a * i) + (b * j)
    BY <1>1, <2>1 DEF Bound
  <2>4. n + Load(z) <= Load(y) + (d * i) + (e * j)
    BY <1>2, <2>1 DEF Bound
  <2>5. k = m + n /\ m \in Nat /\ n \in Nat
    <3>. DEFINE mm == Len(q)
                nn == Len(s)
    <3>1. mm \in Nat /\ nn \in Nat /\ Len(q \o s) = mm + nn /\ CharSize \in Nat
      BY Constant
    <3>. HIDE DEF mm, nn
    <3>2. CharSize * (mm + nn) = (CharSize * mm) + (CharSize * nn) /\ CharSize * mm \in Nat
          /\ CharSize * nn \in Nat
      BY <3>1
    <3>. QED  BY <3>1, <3>2 DEF mm, nn
  <2>6. Load(c) \in Nat /\ Load(y) \in Nat /\ Load(z) \in Nat
    BY LoadType
  <2>. HIDE DEF i, j, m, n, k
  <2>7. (a + d) * i = (a * i) + (d * i) /\ (b + e) * j = (b * j) + (e * j)
        /\ a * i \in Int /\ d * i \in Int /\ b * j \in Int /\ e * j \in Int
    BY <2>2
  <2>. DEFINE ai == a * i
              di == d * i
              bj == b * j
              ej == e * j
              A == (a + d) * i
              C == (b + e) * j
              lc == Load(c)
              ly == Load(y)
              lz == Load(z)
  <2>8. /\ A = ai + di /\ C = bj + ej /\ ai \in Int /\ di \in Int /\ bj \in Int /\ ej \in Int
        /\ m + ly <= lc + ai + bj /\ n + lz <= ly + di + ej
    BY <2>3, <2>4, <2>7
  <2>10. lc \in Nat /\ ly \in Nat /\ lz \in Nat
    BY <2>6
  <2>. HIDE DEF ai, di, bj, ej, A, C, lc, ly, lz
  <2>9. k + lz <= lc + A + C
    <3>1. m + n + lz <= lc + ai + bj + di + ej
      BY <2>5, <2>8, <2>10
    <3>. QED  BY <3>1, <2>5, <2>8, <2>10
  <2>. QED  BY <2>9 DEF k, A, C, i, j, lc, lz
<1>. QED  BY <1>4, <1>5, <1>6 DEF Emits

(* More is allowed.                                                        *)
LEMMA EmitsMore ==
    ASSUME NEW c \in CompType, NEW z \in CompType, NEW w, NEW v, NEW T,
           NEW a \in Nat, NEW b \in Nat, NEW d \in Nat, NEW e \in Nat, a <= d, b <= e,
           Emits(c, z, w, v, T, a, b)
    PROVE  Emits(c, z, w, v, T, d, e)
<1>1. PICK q \in Seq(Byte) : z.obuf = c.obuf \o q /\ Decodes(w, q, v, T) /\ Bound(c, z, q, a, b)
  BY DEF Emits
<1>2. Bound(c, z, q, d, e)
  <2>1. SUFFICES ASSUME NEW W, Wide(W)
                 PROVE  (CharSize * Len(q)) + Load(z) <=
                          Load(c) + (d * StringBits(W)) + (e * SwitchBits(W))
    BY DEF Bound
  <2>. DEFINE i == StringBits(W)
              j == SwitchBits(W)
              m == CharSize * Len(q)
  <2>2. i \in Nat /\ j \in Nat
    <3>1. W \in Nat /\ DictSize <= pow2[W]
      BY <2>1 DEF Wide
    <3>2. CharSize \in Nat /\ FirstFree < DictSize /\ TotalChars < FirstFree /\ TotalChars \in Nat
          /\ DictSize \in Nat /\ FirstFree \in Nat
      BY Constant
    <3>3. pow2[CharSize] < pow2[W]
      BY <3>1, <3>2, PowNat DEF TotalChars
    <3>4. CharSize < W
      BY <3>1, <3>2, <3>3, PowLess
    <3>5. W - CharSize \in Nat
      BY <3>1, <3>2, <3>4
    <3>. QED  BY <3>1, <3>2, <3>5 DEF StringBits, SwitchBits
  <2>3. m + Load(z) <= Load(c) + (a * i) + (b * j)
    BY <1>1, <2>1 DEF Bound
  <2>4. Load(c) \in Nat /\ Load(z) \in Nat /\ m \in Nat
    <3>1. Len(q) \in Nat
      OBVIOUS
    <3>. QED  BY <3>1, LoadType, Times
  <2>. HIDE DEF i, j, m
  <2>5. a * i <= d * i /\ b * j <= e * j /\ a * i \in Nat /\ d * i \in Nat /\ b * j \in Nat
        /\ e * j \in Nat
    BY <2>2
  <2>. DEFINE ai == a * i
              di == d * i
              bj == b * j
              ej == e * j
  <2>6. /\ ai <= di /\ bj <= ej /\ ai \in Nat /\ di \in Nat /\ bj \in Nat /\ ej \in Nat
        /\ m + Load(z) <= Load(c) + ai + bj
    BY <2>3, <2>5
  <2>. HIDE DEF ai, di, bj, ej
  <2>7. m + Load(z) <= Load(c) + di + ej
    BY <2>4, <2>6
  <2>. QED  BY <2>7 DEF di, ej, i, j, m
<1>. QED  BY <1>1, <1>2 DEF Emits

-----------------------------------------------------------------------------
(* The encoder in transparent mode.                                        *)

(* The decoder at F has all of the text, the encoder c too.                *)
Base(F, c, T) ==
    /\ Open(F, T) /\ Sound(F.d) /\ F.d.flushed_len < MaxString /\ F.n = Len(T)
    /\ Sound(c) /\ c.mode = "TRANSPARENT" /\ c.bit_len = 0 /\ c.bit_data = 0
    /\ c.cw_size = F.d.cw_size /\ CharSize < c.cw_size /\ Narrow(c.cw_size)
    /\ F.d.escape_char = escape_after(c.escape_char, c.str)

(* The characters of the encoder's string lead from w to F.                *)
Leads(w, c, F, T) == Decodes(w, escaped(c.escape_char, c.str), F, T)

(* Between two characters.                                                 *)
AtT(F, c, T) ==
    /\ Base(F, c, T) /\ Alike(F.d, c)
    /\ c.last_matched = 0 => c.str = <<>> /\ c.flushed_len = 0

RelT(w, c, T) == \E F : Leads(w, c, F, T) /\ AtT(F, c, T)

(* The string that x ends has been dealt with, if there is one.            *)
ReadyT(w, t, x, T) ==
    \E F : /\ Leads(w, t, F, T) /\ Base(F, t, T) /\ Len(t.str) + t.flushed_len < MaxString
           /\ ~ ends_string(updated(t, x), x)
           /\ Alike(begun(F.d, x, send_string(updated(F.d, x))), collected(updated(t, x), x))

(* The last character is in the string, which may be full.                 *)
HeldT(w, c, T) ==
    \E F : /\ Leads(w, c, F, T) /\ Base(F, c, T) /\ c.update_at = 0 /\ c.last_matched # 0
           /\ Len(c.str) + c.flushed_len <= MaxString
           /\ Alike(F.d, string_full(c, send_data(c)))

(* Emits depends on the output, the bits and the string only.              *)
LEMMA EmitsSame ==
    ASSUME NEW c, NEW y, NEW z, NEW w, NEW v, NEW T, NEW a, NEW b, Emits(c, y, w, v, T, a, b),
           z.obuf = y.obuf, z.bit_len = y.bit_len, z.str = y.str
    PROVE  Emits(c, z, w, v, T, a, b)
BY DEF Emits, Bound, Load

(* A comp_state with a sound dictionary and sound places in it is sound.   *)
LEMMA SoundSame ==
    ASSUME NEW c, Sound(c), NEW z \in CompType, SameDict(c, z), z.update_at # z.next_free,
           z.last_matched # z.next_free, z.update_at # 0 => z.last_matched = 0,
           z.last_added = 0 \/ z.last_added \in FreeEntry
    PROVE  Sound(z)
<1>1. DictOK(z)
  BY DictSame DEF Sound
<1>. QED  BY <1>1 DEF Sound

(* send_data when the decoder has all that it sends.                       *)
LEMMA SentT ==
    ASSUME NEW w, NEW c, NEW F, NEW T, Leads(w, c, F, T), Base(F, c, T)
    PROVE  LET s == send_data(c)
           IN  /\ Emits(c, s, w, F, T, 0, 0) /\ s \in CompType /\ Shape(s) /\ SentOff(c, s)
               /\ s.mode = "TRANSPARENT" /\ s.bit_len = 0 /\ s.bit_data = 0
               /\ s.cw_size = c.cw_size /\ s.escape_char = F.d.escape_char
<1>. DEFINE s == send_data(c)
            q == escaped(c.escape_char, c.str)
            esc == escape_after(c.escape_char, c.str)
<1>1. c \in CompType /\ Shape(c) /\ c.mode = "TRANSPARENT" /\ c.bit_len = 0 /\ c.bit_data = 0
      /\ esc = F.d.escape_char
  BY CompShape DEF Base, Sound
<1>2. c.cw_size \in Nat /\ c.escape_char \in Byte /\ c.str \in Seq(Byte) /\ c.bit_len \in Nat
      /\ c.bit_data \in Nat
  BY <1>1, CompFields
<1>3. s = Sent(c, q, c.bit_len, c.bit_data, c.cw_size, esc) /\ q \in Seq(Byte) /\ esc \in Byte
  BY <1>1, SendDataT
<1>. HIDE DEF s, esc
<1>4. s \in CompType
  BY <1>1, <1>2, <1>3, SentType
<1>5. /\ Shape(s) /\ s.mode = c.mode /\ s.cw_size = c.cw_size /\ s.bit_len = c.bit_len
      /\ s.bit_data = c.bit_data /\ s.escape_char = esc /\ s.obuf = c.obuf \o q /\ SentOff(c, s)
  <2>. HIDE DEF q
  <2>. QED  BY <1>1, <1>3, SentShape
<1>6. Bound(c, s, q, 0, 0)
  <2>1. SUFFICES ASSUME NEW W, Wide(W)
                 PROVE  (CharSize * Len(q)) + Load(s)
                          <= Load(c) + (0 * StringBits(W)) + (0 * SwitchBits(W))
    BY DEF Bound
  <2>2. StringBits(W) \in Int /\ SwitchBits(W) \in Int
    <3>1. W \in Nat /\ CharSize \in Nat
      BY Constant, <2>1 DEF Wide
    <3>. QED  BY <3>1 DEF StringBits, SwitchBits
  <2>. DEFINE i == StringBits(W)
              j == SwitchBits(W)
              n == Len(q)
              m == Len(c.str)
              k == CharSize * n
              p == CharSize * m
  <2>3. 0 * i = 0 /\ 0 * j = 0
    BY <2>2
  <2>4. s.str = <<>> /\ Len(s.str) = 0
    BY <1>5 DEF SentOff
  <2>5. CharSize * Len(s.str) = 0
    BY <2>4, Times
  <2>6. Load(s) = 0
    BY <2>5, <1>1, <1>5 DEF Load
  <2>7. n \in Nat /\ m \in Nat /\ n <= 2 * m
    BY <1>2, <1>3, EscapedLen
  <2>. HIDE DEF n, m
  <2>8. k \in Nat /\ p \in Nat /\ k <= 2 * p
    <3>1. CharSize \in Nat
      BY Constant
    <3>2. k <= CharSize * (2 * m) /\ CharSize * (2 * m) = 2 * p /\ k \in Nat /\ p \in Nat
      BY <3>1, <2>7
    <3>. QED  BY <3>2
  <2>9. Load(c) = 2 * p
    BY <1>1, <2>8 DEF Load, m
  <2>. HIDE DEF k, p
  <2>10. k + Load(s) <= Load(c) + 0 + 0
    BY <2>6, <2>8, <2>9
  <2>. QED  BY <2>3, <2>10 DEF k, n
<1>7. Emits(c, s, w, F, T, 0, 0)
  BY <1>3, <1>5, <1>6 DEF Emits, Leads
<1>. QED  BY <1>1, <1>4, <1>5, <1>7 DEF s

(* Base for a state with the string sent.                                  *)
LEMMA BaseSent ==
    ASSUME NEW c, NEW F, NEW T, Base(F, c, T), NEW z, Sound(z), z.mode = "TRANSPARENT",
           z.bit_len = 0, z.bit_data = 0, z.cw_size = c.cw_size, z.str = <<>>,
           z.escape_char = F.d.escape_char
    PROVE  Base(F, z, T) /\ Leads(F, z, F, T)
<1>1. z.escape_char \in Byte
  BY CompFields DEF Sound
<1>2. escaped(z.escape_char, z.str) = <<>> /\ escape_after(z.escape_char, z.str) = z.escape_char
  BY <1>1, EscapesNil
<1>3. Decodes(F, <<>>, F, T)
  BY DecodesNil DEF Base, Open
<1>4. Leads(F, z, F, T)
  BY <1>2, <1>3 DEF Leads
<1>5. Base(F, z, T)
  BY <1>2 DEF Base
<1>. QED  BY <1>4, <1>5

(* A character that ends a string in transparent mode.                     *)
LEMMA EndsT ==
    ASSUME NEW w, NEW c, NEW T, RelT(w, c, T), NEW x \in Byte, ends_string(updated(c, x), x)
    PROVE  LET e == string_ended(c, x, send_data(c))
           IN  /\ updated(c, x) = c
               /\ \E F : /\ Emits(c, e, w, F, T, 0, 0) /\ Base(F, e, T) /\ Leads(F, e, F, T)
                         /\ e.str = <<>> /\ e.last_matched = 0 /\ e.flushed_len = 0
                         /\ SameDict(F.d, e) /\ F.d.last_matched = c.last_matched
                         /\ c.last_matched # 0
                         /\ \/ e.update_at = c.last_matched
                            \/ e.update_at = 0 /\ match_char(e, c.last_matched, x) # 0
                         /\ Alike(begun(F.d, x, send_string(updated(F.d, x))),
                                  collected(updated(e, x), x))
<1>1. PICK F : Leads(w, c, F, T) /\ AtT(F, c, T)
  BY DEF RelT
<1>2. Base(F, c, T) /\ Alike(F.d, c) /\ Sound(c) /\ Sound(F.d)
  BY <1>1 DEF AtT, Base
<1>3. updated(c, x) = c /\ c.last_matched # 0 /\ c.update_at = 0
  BY <1>2, EndsLate
<1>. DEFINE s == send_data(c)
            e == string_ended(c, x, s)
<1>4. /\ Emits(c, s, w, F, T, 0, 0) /\ s \in CompType /\ Shape(s) /\ SentOff(c, s)
      /\ s.mode = "TRANSPARENT" /\ s.bit_len = 0 /\ s.bit_data = 0
      /\ s.cw_size = c.cw_size /\ s.escape_char = F.d.escape_char
  BY <1>1, <1>2, SentT
<1>5. Alike(begun(F.d, x, send_string(updated(F.d, x))), collected(updated(e, x), x))
  <2>1. Shape(F.d) /\ Shape(c)
    BY <1>2, CompShape DEF Sound
  <2>2. Alike(updated(F.d, x), updated(c, x)) /\ Shape(updated(F.d, x))
    BY <2>1, <1>2, AlikeUpdated, UpdatedShape
  <2>3. SentOff(updated(F.d, x), send_string(updated(F.d, x)))
    BY <2>2, SendString
  <2>4. SentOff(updated(c, x), s)
    BY <1>3, <1>4
  <2>5. begun(c, x, s) = collected(updated(e, x), x)
    BY <1>3 DEF begun
  <2>. HIDE DEF e, s
  <2>6. Alike(begun(F.d, x, send_string(updated(F.d, x))), begun(c, x, s))
    BY <2>1, <2>2, <2>3, <2>4, AlikeBegun
  <2>. QED  BY <2>5, <2>6
<1>. HIDE DEF s
<1>6. /\ Shape(e) /\ SameRest(e, s) /\ e.str = s.str /\ e.obuf = s.obuf
      /\ e.flushed_len = s.flushed_len /\ e.last_matched = 0
      /\ e.parent = s.parent /\ e.ch = s.ch /\ e.next_free = s.next_free
      /\ e.update_at = IF match_char(c, c.last_matched, x) = 0
                       THEN c.last_matched ELSE s.update_at
  BY <1>4, EndedShape
<1>7. Sound(e) /\ e.str = <<>> /\ e.flushed_len = 0
  BY <1>2, <1>3, <1>4, EndedSound
<1>. HIDE DEF e
<1>8. SameDict(c, e) /\ SameDict(F.d, e) /\ s.update_at = 0 /\ F.d.last_matched = c.last_matched
  BY <1>2, <1>3, <1>4, <1>6 DEF SentOff, SameDict, Alike
<1>9. \/ e.update_at = c.last_matched
      \/ e.update_at = 0 /\ match_char(e, c.last_matched, x) # 0
  <2>1. match_char(c, c.last_matched, x) = match_char(e, c.last_matched, x)
    BY <1>8, MatchSame
  <2>. QED  BY <2>1, <1>6, <1>8
<1>10. /\ e.mode = "TRANSPARENT" /\ e.bit_len = 0 /\ e.bit_data = 0 /\ e.cw_size = c.cw_size
       /\ e.escape_char = F.d.escape_char
  BY <1>4, <1>6 DEF SameRest
<1>11. Base(F, e, T) /\ Leads(F, e, F, T)
  BY <1>2, <1>7, <1>10, BaseSent
<1>12. Emits(c, e, w, F, T, 0, 0)
  BY <1>4, <1>6, <1>10, EmitsSame
<1>13. e.last_matched = 0
  BY <1>6
<1>. QED  BY <1>3, <1>5, <1>7, <1>8, <1>9, <1>11, <1>12, <1>13 DEF e, s

(* Being alike is transitive.                                              *)
LEMMA AlikeTrans ==
    ASSUME NEW a, NEW b, NEW c, Alike(a, b), Alike(b, c)
    PROVE  Alike(a, c)
BY DEF Alike

(* send_data in transparent mode leaves no string.                         *)
LEMMA SendOffT ==
    ASSUME NEW c \in CompType, c.mode = "TRANSPARENT"
    PROVE  SentOff(c, send_data(c)) /\ send_data(c) \in CompType
<1>. DEFINE q == escaped(c.escape_char, c.str)
            esc == escape_after(c.escape_char, c.str)
            s == send_data(c)
<1>1. Shape(c) /\ c.bit_len \in Nat /\ c.bit_data \in Nat /\ c.cw_size \in Nat
  BY CompShape, CompFields
<1>2. s = Sent(c, q, c.bit_len, c.bit_data, c.cw_size, esc) /\ q \in Seq(Byte) /\ esc \in Byte
  BY SendDataT
<1>. HIDE DEF q, esc, s
<1>3. SentOff(c, s) /\ s \in CompType
  BY <1>1, <1>2, SentShape, SentType
<1>. QED  BY <1>3 DEF s

(* A character that ends no string.                                        *)
LEMMA ReadyNowT ==
    ASSUME NEW w, NEW c, NEW T, RelT(w, c, T), NEW x \in Byte, ~ ends_string(updated(c, x), x)
    PROVE  ReadyT(w, c, x, T)
<1>1. PICK F : Leads(w, c, F, T) /\ AtT(F, c, T)
  BY DEF RelT
<1>2. Base(F, c, T) /\ Alike(F.d, c) /\ Sound(c) /\ Sound(F.d) /\ Viewed(F)
  BY <1>1 DEF AtT, Base, Open
<1>3. Shape(F.d) /\ Shape(c)
  BY <1>2, CompShape DEF Sound
<1>4. Alike(updated(F.d, x), updated(c, x)) /\ Shape(updated(F.d, x)) /\ Shape(updated(c, x))
  BY <1>2, <1>3, AlikeUpdated, UpdatedShape
<1>. DEFINE s == send_string(updated(F.d, x))
            t == send_string(updated(c, x))
<1>5. SentOff(updated(F.d, x), s) /\ SentOff(updated(c, x), t)
  BY <1>4, SendString
<1>6. begun(c, x, t) = collected(updated(c, x), x)
  BY DEF begun
<1>. HIDE DEF s, t
<1>7. Alike(begun(F.d, x, s), begun(c, x, t))
  BY <1>3, <1>4, <1>5, AlikeBegun
<1>8. Len(c.str) + c.flushed_len < MaxString
  <2>1. F.d.str = <<>> /\ Len(F.d.str) = 0 /\ F.d.flushed_len \in Nat
    BY <1>2, CompFields DEF Viewed, Sound
  <2>2. Len(F.d.str) + F.d.flushed_len = Len(c.str) + c.flushed_len
    BY <1>2 DEF Alike
  <2>3. F.d.flushed_len < MaxString
    BY <1>2 DEF Base
  <2>. QED  BY <2>1, <2>2, <2>3
<1>. QED  BY <1>1, <1>2, <1>6, <1>7, <1>8 DEF ReadyT, s

(* The character is put into the string.                                   *)
LEMMA CollectT ==
    ASSUME NEW w, NEW t, NEW x \in Byte, NEW T, ReadyT(w, t, x, T)
    PROVE  LET B == collected(updated(t, x), x)
           IN  /\ HeldT(w, B, Append(T, x)) /\ B \in CompType /\ B.obuf = t.obuf
               /\ B.bit_len = t.bit_len /\ B.str = Append(t.str, x)
<1>1. PICK F :
         /\ Leads(w, t, F, T) /\ Base(F, t, T) /\ Len(t.str) + t.flushed_len < MaxString
         /\ ~ ends_string(updated(t, x), x)
         /\ Alike(begun(F.d, x, send_string(updated(F.d, x))), collected(updated(t, x), x))
  BY DEF ReadyT
<1>. DEFINE u == updated(t, x)
            B == collected(u, x)
            N == Append(T, x)
            E == F.d.escape_char
            f == begun(F.d, x, send_string(updated(F.d, x)))
<1>2. /\ Sound(t) /\ t \in CompType /\ Shape(t) /\ Sound(F.d) /\ Open(F, T) /\ F.n = Len(T)
      /\ F.d.flushed_len < MaxString /\ Viewed(F) /\ T \in Seq(Byte)
      /\ E = escape_after(t.escape_char, t.str) /\ t.mode = "TRANSPARENT"
  BY <1>1, CompShape DEF Base, Sound, Open
<1>3. N \in Seq(Byte) /\ Len(N) = Len(T) + 1 /\ N[Len(T) + 1] = x /\ Len(T) \in Nat
  BY <1>2
<1>4. /\ SameRest(u, t) /\ u.str = t.str /\ u.obuf = t.obuf
      /\ u.flushed_len = t.flushed_len /\ u.update_at = 0 /\ Shape(u)
  BY <1>2, UpdatedRest
<1>5. Sound(u) /\ ~ ends_string(u, x)
  BY <1>1, <1>2, UpdatedSound
<1>6. Alike(f, B)
  BY <1>1
<1>. HIDE DEF u
<1>7. Sound(B) /\ B.update_at = 0 /\ B.last_matched # 0
  BY <1>4, <1>5, CollectedSound
<1>8. /\ Shape(B) /\ SameRest(B, u) /\ B.str = Append(u.str, x) /\ B.obuf = u.obuf
      /\ B.flushed_len = u.flushed_len
  BY <1>4, CollectedShape
<1>. HIDE DEF B, N
<1>9. Open(F, N) /\ F.n + 1 <= Len(N) /\ N[F.n + 1] = x
  BY <1>2, <1>3 DEF Open
<1>10. PICK G : /\ Decodes(F, CharBytes(E, x), G, N)
                /\ Open(G, N) /\ Sound(G.d) /\ G.n = F.n + 1
                /\ Alike(G.d, decode_char(F.d, x))
                /\ G.d.escape_char = CharEscape(E, x)
                /\ G.d.cw_size = F.d.cw_size
                /\ G.d.flushed_len < MaxString /\ G.d.update_at = 0
  BY <1>2, <1>9, CharPoint
<1>11. t.escape_char \in Byte /\ t.str \in Seq(Byte) /\ E \in Byte /\ t.flushed_len \in Nat
  BY <1>2, CompFields DEF Sound
<1>12. B.mode = "TRANSPARENT" /\ B.escape_char = t.escape_char /\ B.str = Append(t.str, x)
       /\ B.obuf = t.obuf /\ B.bit_len = t.bit_len /\ B.bit_data = t.bit_data
       /\ B.cw_size = t.cw_size /\ B.flushed_len = t.flushed_len
  BY <1>2, <1>4, <1>8 DEF SameRest
<1>13. /\ escaped(B.escape_char, B.str) = escaped(t.escape_char, t.str) \o CharBytes(E, x)
       /\ escape_after(B.escape_char, B.str) = CharEscape(E, x)
  <2>. DEFINE S == t.str
              a == t.escape_char
  <2>1. a \in Byte /\ S \in Seq(Byte) /\ E = escape_after(a, S)
    BY <1>2, <1>11
  <2>2. B.escape_char = a /\ B.str = Append(S, x)
    BY <1>12
  <2>. HIDE DEF a, S, E
  <2>3. /\ escaped(a, Append(S, x)) = escaped(a, S) \o CharBytes(E, x)
        /\ escape_after(a, Append(S, x)) = CharEscape(E, x)
    BY <2>1, EscapesAppend DEF CharBytes, CharEscape
  <2>. QED  BY <2>2, <2>3 DEF a, S
<1>14. Leads(w, B, G, N)
  <2>1. Decodes(w, escaped(t.escape_char, t.str), F, N) /\ escaped(t.escape_char, t.str) \in Seq(Byte)
    BY <1>1, <1>2, <1>11, DecodesGrow, EscapesType DEF Leads, N
  <2>2. CharBytes(E, x) \in Seq(Byte)
    BY <1>11, Commands DEF CharBytes
  <2>. DEFINE p == escaped(t.escape_char, t.str)
              q == CharBytes(E, x)
  <2>. HIDE DEF p, q
  <2>3. Decodes(w, p \o q, G, N)
    BY <2>1, <2>2, <1>10, DecodesJoin DEF p, q
  <2>. QED  BY <2>3, <1>13 DEF Leads, p, q
<1>15. Base(G, B, N)
  <2>1. G.n = Len(N)
    BY <1>2, <1>3, <1>10
  <2>2. B.bit_len = 0 /\ B.bit_data = 0 /\ B.cw_size = G.d.cw_size /\ CharSize < B.cw_size
        /\ Narrow(B.cw_size)
    BY <1>1, <1>10, <1>12 DEF Base
  <2>. QED  BY <1>7, <1>10, <1>12, <1>13, <2>1, <2>2 DEF Base
<1>16. Len(B.str) + B.flushed_len <= MaxString
  <2>1. Len(Append(t.str, x)) = Len(t.str) + 1 /\ Len(t.str) \in Nat
    BY <1>11
  <2>2. Len(t.str) + t.flushed_len < MaxString /\ MaxString \in Nat
    BY <1>1, Constant
  <2>. QED  BY <2>1, <2>2, <1>11, <1>12
<1>17. Alike(G.d, string_full(B, send_data(B)))
  <2>1. B \in CompType /\ SentOff(B, send_data(B))
    BY <1>7, <1>12, SendOffT DEF Sound
  <2>2. f \in CompType /\ Shape(f)
    <3>1. Shape(F.d) /\ Shape(updated(F.d, x)) /\ updated(F.d, x) \in CompType
      BY <1>2, CompShape, UpdatedSound DEF Sound
    <3>2. send_string(updated(F.d, x)) \in CompType
          /\ SentOff(updated(F.d, x), send_string(updated(F.d, x)))
      BY <3>1, SendStringType, SendString
    <3>3. Len(F.d.str) + F.d.flushed_len < MaxString
      <4>1. F.d.str = <<>> /\ Len(F.d.str) = 0 /\ F.d.flushed_len \in Nat
        BY <1>2, CompFields DEF Viewed, Sound
      <4>. QED  BY <4>1, <1>2
    <3>4. Sound(f)
      BY <1>2, <3>2, <3>3, BegunSound
    <3>. QED  BY <3>4, CompShape DEF Sound
  <2>3. decode_char(F.d, x) = string_full(f, send_string(f))
    BY DecodeCharBegun
  <2>. HIDE DEF f
  <2>4. SentOff(f, send_string(f))
    BY <2>2, SendString
  <2>5. Alike(string_full(f, send_string(f)), string_full(B, send_data(B)))
    BY <2>1, <2>2, <2>4, <1>6, <1>8, AlikeFull
  <2>. QED  BY <2>3, <2>5, <1>10, AlikeTrans
<1>18. HeldT(w, B, N)
  BY <1>7, <1>14, <1>15, <1>16, <1>17 DEF HeldT
<1>19. B \in CompType
  BY <1>7 DEF Sound
<1>. QED  BY <1>12, <1>18, <1>19 DEF B, u, N

(* A string of full length is sent.                                        *)
LEMMA FullT ==
    ASSUME NEW w, NEW c, NEW T, HeldT(w, c, T)
    PROVE  LET z == string_full(c, send_data(c))
           IN  /\ z \in CompType /\ z.update_at = 0
               /\ \E v : Emits(c, z, w, v, T, 0, 0) /\ RelT(v, z, T)
<1>1. PICK F : /\ Leads(w, c, F, T) /\ Base(F, c, T) /\ c.update_at = 0 /\ c.last_matched # 0
               /\ Len(c.str) + c.flushed_len <= MaxString
               /\ Alike(F.d, string_full(c, send_data(c)))
  BY DEF HeldT
<1>. DEFINE s == send_data(c)
            z == string_full(c, s)
<1>2. /\ Emits(c, s, w, F, T, 0, 0) /\ s \in CompType /\ Shape(s) /\ SentOff(c, s)
      /\ s.mode = "TRANSPARENT" /\ s.bit_len = 0 /\ s.bit_data = 0
      /\ s.cw_size = c.cw_size /\ s.escape_char = F.d.escape_char
  BY <1>1, SentT
<1>3. Sound(c) /\ c \in CompType /\ Shape(c)
  BY <1>1, CompShape DEF Base, Sound
<1>4. Alike(F.d, z)
  BY <1>1
<1>. HIDE DEF s
<1>5. /\ Sound(z) /\ z.update_at = 0 /\ Len(z.str) + z.flushed_len < MaxString
      /\ z.last_matched = 0 => z.str = <<>> /\ z.flushed_len = 0
  BY <1>1, <1>2, <1>3, FullSound
<1>6. CASE Len(c.str) + c.flushed_len = MaxString
  <2>1. /\ Shape(z) /\ SameRest(z, s) /\ z.str = s.str /\ z.obuf = s.obuf
        /\ z.flushed_len = s.flushed_len
    BY <1>2, <1>3, <1>6, FullShape
  <2>. HIDE DEF z
  <2>2. /\ z.mode = "TRANSPARENT" /\ z.bit_len = 0 /\ z.bit_data = 0 /\ z.cw_size = c.cw_size
        /\ z.escape_char = F.d.escape_char /\ z.str = <<>>
    BY <2>1, <1>2 DEF SameRest, SentOff
  <2>3. Base(F, z, T) /\ Leads(F, z, F, T)
    BY <2>2, <1>1, <1>5, BaseSent
  <2>4. Emits(c, z, w, F, T, 0, 0)
    BY <2>1, <2>2, <1>2, EmitsSame
  <2>5. RelT(F, z, T)
    BY <2>3, <1>4, <1>5 DEF RelT, AtT
  <2>. QED  BY <2>4, <2>5, <1>5 DEF z, s, Sound
<1>7. CASE Len(c.str) + c.flushed_len # MaxString
  <2>1. z = c
    BY <1>7 DEF string_full
  <2>. HIDE DEF z
  <2>2. Load(c) <= Load(c) /\ Viewed(w)
    BY <1>1, <1>3, LoadType DEF Leads, Decodes
  <2>3. Emits(c, z, w, w, T, 0, 0)
    BY <2>1, <2>2, <1>3, EmitsNone
  <2>4. RelT(w, z, T)
    BY <2>1, <1>1, <1>4, <1>5 DEF RelT, AtT
  <2>. QED  BY <2>3, <2>4, <1>5 DEF z, s, Sound
<1>. QED  BY <1>6, <1>7

-----------------------------------------------------------------------------
(* The encoder changes to compressed mode.                                 *)

(* Between two characters in compressed mode.                              *)
AtC(g, c, T) ==
    \/ StrC(g, c, T) /\ Len(c.str) < MaxString
    \/ /\ SyncC(g, c, T) /\ g.d.update_at = c.update_at
       /\ c.update_at # 0 => c.bit_len = 0

RelC(w, c, T) == \E g : Pending(w, c, g, T) /\ AtC(g, c, T)

(* Between two strings, before x: the decoder may look for an entry where  *)
(* the encoder knows that there is one.                                    *)
MidC(g, t, x, T) ==
    /\ SyncC(g, t, T)
    /\ \/ g.d.update_at = t.update_at
       \/ t.update_at = 0 /\ g.d.update_at # 0 /\ match_char(t, g.d.update_at, x) # 0

ReadyC(w, t, x, T) ==
    \E g : /\ Pending(w, t, g, T)
           /\ \/ MidC(g, t, x, T)
              \/ /\ StrC(g, t, T) /\ Len(t.str) < MaxString
                 /\ ~ ends_string(updated(t, x), x)

HeldC(w, c, T) == \E g : Pending(w, c, g, T) /\ StrC(g, c, T)

EcmState(d) ==
    [d EXCEPT !.obuf = d.obuf \o <<d.escape_char, CC_ECM>>, !.bit_data = 0, !.mode = "COMPRESSED"]

(* The fields of the encoder that has sent ECM.                            *)
LEMMA EcmShape ==
    ASSUME NEW d \in CompType
    PROVE  LET z == EcmState(d)
           IN  /\ z \in CompType /\ z.mode = "COMPRESSED" /\ z.cw_size = d.cw_size
               /\ z.bit_len = d.bit_len /\ z.bit_data = 0
               /\ z.escape_char = d.escape_char /\ z.str = d.str
               /\ z.obuf = d.obuf \o <<d.escape_char, CC_ECM>>
               /\ z.flushed_len = d.flushed_len /\ z.update_at = d.update_at
               /\ z.last_matched = d.last_matched /\ z.last_added = d.last_added
               /\ SameDict(d, z)
<1>. DEFINE z == EcmState(d)
            q == <<d.escape_char, CC_ECM>>
            o == d.obuf \o q
<1>1. d.escape_char \in Byte /\ CC_ECM \in Byte /\ d.obuf \in Seq(Byte) /\ Shape(d)
  BY CompFields, CompShape, Commands
<1>2. q \in Seq(Byte)
  BY <1>1
<1>. HIDE DEF q
<1>3. o \in Seq(Byte)
  BY <1>1, <1>2
<1>4. z = [d EXCEPT !.obuf = o, !.bit_data = 0, !.mode = "COMPRESSED"]
  BY DEF EcmState, q
<1>. HIDE DEF z, o
<1>5. /\ z.mode = "COMPRESSED" /\ z.cw_size = d.cw_size
      /\ z.bit_len = d.bit_len /\ z.bit_data = 0 /\ z.escape_char = d.escape_char
      /\ z.str = d.str /\ z.obuf = o
      /\ z.flushed_len = d.flushed_len /\ z.update_at = d.update_at
      /\ z.last_matched = d.last_matched /\ z.last_added = d.last_added
      /\ z.parent = d.parent /\ z.ch = d.ch /\ z.next_free = d.next_free
  BY <1>1, <1>4 DEF Shape
<1>6. z \in CompType
  BY <1>3, <1>4 DEF CompType
<1>. QED  BY <1>5, <1>6 DEF SameDict, z, o, q

(* The widest codewords are wide enough.                                   *)
LEMMA WideMax ==
    Wide(MaxCwSize)
BY Constant DEF Wide

(* The command ECM, sent when there is no string.                          *)
LEMMA EcmT ==
    ASSUME NEW F, NEW d, NEW T, Base(F, d, T), d.str = <<>>, d.flushed_len = 0,
           d.last_matched = 0, SameDict(F.d, d)
    PROVE  LET z == EcmState(d)
           IN  \E G : /\ Emits(d, z, F, G, T, 0, 1) /\ SyncC(G, z, T) /\ Pending(G, z, G, T)
                      /\ G.d.update_at = F.d.last_matched /\ z.update_at = d.update_at
                      /\ SameDict(d, z) /\ z \in CompType /\ z.bit_len = 0
<1>. DEFINE z == EcmState(d)
            q == <<d.escape_char, CC_ECM>>
<1>1. /\ Open(F, T) /\ Sound(F.d) /\ Sound(d) /\ d \in CompType /\ F.d \in CompType
      /\ d.bit_len = 0 /\ d.cw_size = F.d.cw_size /\ CharSize < d.cw_size /\ Narrow(d.cw_size)
      /\ F.n = Len(T) /\ T \in Seq(Byte)
  BY DEF Base, Sound, Open
<1>2. d.escape_char \in Byte /\ F.d.escape_char = d.escape_char
  <2>1. d.escape_char \in Byte
    BY <1>1, CompFields
  <2>2. escape_after(d.escape_char, d.str) = d.escape_char
    BY <2>1, EscapesNil
  <2>. QED  BY <2>1, <2>2 DEF Base
<1>3. /\ z \in CompType /\ z.mode = "COMPRESSED" /\ z.cw_size = d.cw_size
      /\ z.bit_len = d.bit_len /\ z.bit_data = 0
      /\ z.escape_char = d.escape_char /\ z.str = d.str /\ z.obuf = d.obuf \o q
      /\ z.flushed_len = d.flushed_len /\ z.update_at = d.update_at
      /\ z.last_matched = d.last_matched /\ z.last_added = d.last_added
      /\ SameDict(d, z)
  BY <1>1, EcmShape
<1>. HIDE DEF z
<1>4. PICK G : Decodes(F, <<F.d.escape_char, CC_ECM>>, G, T) /\ Ecm(F, G)
  BY <1>1, EcmPoint
<1>5. Decodes(F, q, G, T)
  BY <1>2, <1>4
<1>6. /\ Viewed(G) /\ G.n = F.n /\ G.d.mode = "COMPRESSED" /\ ~ G.d.escape /\ ~ G.d.err
      /\ G.d.bit_len = 0 /\ G.d.bit_data = 0 /\ G.d.cw_size = F.d.cw_size
      /\ G.d.escape_char = F.d.escape_char /\ SameDict(G.d, F.d)
      /\ G.d.last_added = F.d.last_added /\ G.d.update_at = F.d.last_matched
      /\ G.d.last_matched = 0 /\ G.d.flushed_len = 0
  BY <1>4 DEF Ecm
<1>7. Sound(G.d)
  <2>1. G.d \in CompType /\ G.d.next_free = F.d.next_free /\ SameDict(F.d, G.d)
    BY <1>6 DEF Viewed, Point, SameDict
  <2>2. F.d.next_free # 0 /\ F.d.last_matched # F.d.next_free
    BY <1>1, CompFields, Commands DEF Sound
  <2>3. F.d.last_added = 0 \/ F.d.last_added \in FreeEntry
    BY <1>1 DEF Sound
  <2>. QED  BY <1>1, <1>6, <2>1, <2>2, <2>3, SoundSame
<1>8. Closed(G, T)
  <2>1. d.cw_size <= MaxCwSize
    BY <1>1, WideMax DEF Narrow
  <2>2. G.n <= Len(T)
    BY <1>1, <1>6
  <2>. QED  BY <1>1, <1>6, <1>7, <2>1, <2>2 DEF Closed
<1>9. Sound(z)
  <2>1. z.next_free = d.next_free
    BY <1>3 DEF SameDict
  <2>. QED  BY <1>1, <1>3, <2>1, SoundSame DEF Sound
<1>10. SameDict(G.d, z)
  BY <1>3, <1>6 DEF SameDict
<1>11. SyncC(G, z, T)
  BY <1>1, <1>2, <1>3, <1>6, <1>8, <1>9, <1>10 DEF SyncC, Linked
<1>12. Pending(G, z, G, T)
  BY <1>1, <1>3, <1>6, Constant DEF Pending
<1>13. q \in Seq(Byte) /\ Len(q) = 2
  BY <1>2, Commands
<1>. HIDE DEF q
<1>14. Bound(d, z, q, 0, 1)
  <2>1. SUFFICES ASSUME NEW W, Wide(W)
                 PROVE  (CharSize * Len(q)) + Load(z)
                          <= Load(d) + (0 * StringBits(W)) + (1 * SwitchBits(W))
    BY DEF Bound
  <2>2. W \in Nat /\ CharSize \in Nat
    BY <2>1, Constant DEF Wide
  <2>3. StringBits(W) \in Int /\ SwitchBits(W) = W + (2 * CharSize)
    BY <2>2 DEF StringBits, SwitchBits
  <2>. DEFINE i == StringBits(W)
              j == SwitchBits(W)
  <2>4. 0 * i = 0 /\ 1 * j = j
    BY <2>2, <2>3
  <2>5. Load(d) = 0 /\ Load(z) = 0
    <3>1. d.str = <<>> /\ z.str = <<>> /\ Len(<<>>) = 0
      BY <1>3
    <3>2. CharSize * Len(<<>>) = 0
      BY <3>1, Times
    <3>. QED  BY <3>1, <3>2, <1>1, <1>3 DEF Load
  <2>6. CharSize * Len(q) = 2 * CharSize
    BY <1>13, <2>2
  <2>7. (CharSize * Len(q)) + Load(z) <= Load(d) + 0 + j
    BY <2>2, <2>3, <2>5, <2>6
  <2>. QED  BY <2>4, <2>7
<1>15. Emits(d, z, F, G, T, 0, 1)
  BY <1>3, <1>5, <1>13, <1>14 DEF Emits
<1>. QED  BY <1>1, <1>3, <1>6, <1>11, <1>12, <1>15 DEF z

(* test_mode in transparent mode, between two characters.                  *)
LEMMA SwitchT ==
    ASSUME NEW w, NEW c, NEW T, RelT(w, c, T), c.update_at = 0
    PROVE  LET z == test_mode(c, TRUE)
           IN  z \in CompType /\ \E v : Emits(c, z, w, v, T, 0, 1) /\ RelC(v, z, T)
<1>1. PICK F : Leads(w, c, F, T) /\ AtT(F, c, T)
  BY DEF RelT
<1>2. /\ Base(F, c, T) /\ Alike(F.d, c) /\ Sound(c) /\ Sound(F.d) /\ Viewed(F)
      /\ c.mode = "TRANSPARENT" /\ c \in CompType /\ Shape(c)
  BY <1>1, CompShape DEF AtT, Base, Open, Sound
<1>. DEFINE s == send_data(c)
            d == IF c.last_matched = 0 THEN c
                 ELSE [s EXCEPT !.update_at = c.last_matched, !.last_matched = 0]
            z == test_mode(c, TRUE)
<1>3. z = EcmState(d)
  BY <1>2 DEF test_mode, EcmState
<1>4. SameDict(F.d, c) /\ F.d.last_matched = c.last_matched
  BY <1>2 DEF Alike, SameDict
<1>5. /\ Emits(c, d, w, F, T, 0, 0) /\ Base(F, d, T) /\ d.str = <<>> /\ d.flushed_len = 0
      /\ d.last_matched = 0 /\ SameDict(F.d, d) /\ d.update_at = c.last_matched /\ d \in CompType
  <2>1. CASE c.last_matched = 0
    <3>1. d = c /\ c.str = <<>> /\ c.flushed_len = 0
      BY <2>1, <1>1 DEF AtT
    <3>2. escaped(c.escape_char, c.str) = <<>>
      BY <3>1, <1>2, CompFields, EscapesNil
    <3>3. w = F
      BY <3>2, <1>1, DecodesNilSame DEF Leads
    <3>4. Emits(c, c, F, F, T, 0, 0)
      BY <1>2, LoadType, EmitsNone
    <3>. QED  BY <2>1, <3>1, <3>3, <3>4, <1>2, <1>4
  <2>2. CASE c.last_matched # 0
    <3>1. d = [s EXCEPT !.update_at = c.last_matched, !.last_matched = 0]
      BY <2>2
    <3>2. /\ Emits(c, s, w, F, T, 0, 0) /\ s \in CompType /\ Shape(s) /\ SentOff(c, s)
          /\ s.mode = "TRANSPARENT" /\ s.bit_len = 0 /\ s.bit_data = 0
          /\ s.cw_size = c.cw_size /\ s.escape_char = F.d.escape_char
      BY <1>1, <1>2, SentT
    <3>. HIDE DEF s, d
    <3>3. /\ d.mode = s.mode /\ d.cw_size = s.cw_size /\ d.bit_len = s.bit_len
          /\ d.bit_data = s.bit_data /\ d.escape_char = s.escape_char /\ d.str = s.str
          /\ d.obuf = s.obuf /\ d.flushed_len = s.flushed_len /\ d.update_at = c.last_matched
          /\ d.last_matched = 0 /\ d.last_added = s.last_added /\ d.parent = s.parent
          /\ d.ch = s.ch /\ d.next_free = s.next_free
      BY <3>1, <3>2 DEF Shape
    <3>4. d \in CompType
      <4>1. c.last_matched \in Codeword /\ 0 \in Codeword
        BY <1>2, CompFields, Commands
      <4>. QED  BY <3>1, <3>2, <4>1 DEF CompType
    <3>5. SameDict(c, d) /\ d.str = <<>> /\ d.flushed_len = 0
      BY <3>2, <3>3 DEF SentOff, SameDict
    <3>6. Sound(d)
      <4>1. c.last_matched # c.next_free /\ c.next_free # 0
        BY <1>2, CompFields, Commands DEF Sound
      <4>2. d.next_free = c.next_free /\ d.last_added = c.last_added
        BY <3>2, <3>3 DEF SentOff
      <4>3. c.last_added = 0 \/ c.last_added \in FreeEntry
        BY <1>2 DEF Sound
      <4>. QED  BY <1>2, <3>3, <3>4, <3>5, <4>1, <4>2, <4>3, SoundSame
    <3>7. Base(F, d, T)
      BY <1>2, <3>2, <3>3, <3>5, <3>6, BaseSent
    <3>8. Emits(c, d, w, F, T, 0, 0)
      BY <3>2, <3>3, EmitsSame
    <3>9. SameDict(F.d, d)
      BY <1>4, <3>5 DEF SameDict
    <3>. QED  BY <3>3, <3>4, <3>5, <3>7, <3>8, <3>9
  <2>. QED  BY <2>1, <2>2
<1>. HIDE DEF d
<1>6. PICK G : /\ Emits(d, z, F, G, T, 0, 1) /\ SyncC(G, z, T) /\ Pending(G, z, G, T)
               /\ G.d.update_at = F.d.last_matched /\ z.update_at = d.update_at
               /\ SameDict(d, z) /\ z \in CompType /\ z.bit_len = 0
  BY <1>3, <1>5, EcmT
<1>. HIDE DEF z
<1>7. Emits(c, z, w, G, T, 0, 1)
  <2>1. Emits(c, z, w, G, T, 0 + 0, 0 + 1)
    BY <1>2, <1>5, <1>6, EmitsJoin
  <2>. QED  BY <2>1
<1>8. RelC(G, z, T)
  BY <1>4, <1>5, <1>6 DEF RelC, AtC
<1>. QED  BY <1>6, <1>7, <1>8 DEF z

(* A character that ends a string in transparent mode, and the mode.       *)
LEMMA EndsSwitchT ==
    ASSUME NEW w, NEW c, NEW T, RelT(w, c, T), NEW x \in Byte, ends_string(updated(c, x), x)
    PROVE  LET t == test_mode(string_ended(c, x, send_data(c)), TRUE)
           IN  t \in CompType /\ \E v : Emits(c, t, w, v, T, 0, 1) /\ ReadyC(v, t, x, T)
<1>. DEFINE e == string_ended(c, x, send_data(c))
            t == test_mode(e, TRUE)
<1>1. PICK F : /\ Emits(c, e, w, F, T, 0, 0) /\ Base(F, e, T)
               /\ e.str = <<>> /\ e.last_matched = 0 /\ e.flushed_len = 0
               /\ SameDict(F.d, e) /\ F.d.last_matched = c.last_matched
               /\ c.last_matched # 0
               /\ \/ e.update_at = c.last_matched
                  \/ e.update_at = 0 /\ match_char(e, c.last_matched, x) # 0
  BY EndsT
<1>. HIDE DEF e
<1>2. e.mode = "TRANSPARENT" /\ e \in CompType
  BY <1>1 DEF Base, Sound
<1>3. t = EcmState(e)
  BY <1>1, <1>2 DEF test_mode, EcmState
<1>4. PICK G : /\ Emits(e, t, F, G, T, 0, 1) /\ SyncC(G, t, T) /\ Pending(G, t, G, T)
               /\ G.d.update_at = F.d.last_matched /\ t.update_at = e.update_at
               /\ SameDict(e, t) /\ t \in CompType
  BY <1>1, <1>3, EcmT
<1>. HIDE DEF t
<1>5. c \in CompType
  BY DEF RelT, AtT, Base, Sound
<1>6. Emits(c, t, w, G, T, 0, 1)
  <2>1. Emits(c, t, w, G, T, 0 + 0, 0 + 1)
    BY <1>1, <1>2, <1>4, <1>5, EmitsJoin
  <2>. QED  BY <2>1
<1>7. MidC(G, t, x, T)
  <2>1. match_char(e, c.last_matched, x) = match_char(t, c.last_matched, x)
    BY <1>4, MatchSame
  <2>. QED  BY <2>1, <1>1, <1>4 DEF MidC
<1>8. ReadyC(G, t, x, T)
  BY <1>4, <1>7 DEF ReadyC
<1>. QED  BY <1>4, <1>6, <1>8 DEF t, e

-----------------------------------------------------------------------------
(* The encoder's steps in compressed mode.                                 *)

(* What waits still leads on when the text grows.                          *)
LEMMA PendingGrow ==
    ASSUME NEW w, NEW c, NEW g, NEW T \in Seq(Byte), Pending(w, c, g, T), NEW x \in Byte
    PROVE  Pending(w, c, g, Append(T, x))
<1>1. CASE c.bit_len = 0
  BY <1>1 DEF Pending
<1>2. CASE c.bit_len # 0
  <2>1. PICK m : m # CCW_ETM /\ m # CCW_FLUSH /\ Todo(w, c.bit_len, c.bit_data, m, g, T)
    BY <1>2 DEF Pending
  <2>. DEFINE p == Bits(w, 0, 0)
  <2>2. Word(p, m, g, T)
    BY <2>1 DEF Todo
  <2>. HIDE DEF p
  <2>3. Yields(p, codeword(p.d, m), g, Append(T, x))
    <3>1. p \in Point /\ Yields(p, codeword(p.d, m), g, T)
      BY <2>2 DEF Word, Viewed
    <3>. QED  BY <3>1, YieldsGrow
  <2>4. Word(p, m, g, Append(T, x))
    BY <2>2, <2>3 DEF Word
  <2>5. Todo(w, c.bit_len, c.bit_data, m, g, Append(T, x))
    BY <2>1, <2>4 DEF Todo, p
  <2>. QED  BY <1>2, <2>1, <2>5 DEF Pending
<1>. QED  BY <1>1, <1>2

(* s is c with its string sent.                                            *)
After(w, c, s, v, h, T) ==
    /\ Emits(c, s, w, v, T, 1, 0) /\ Pending(v, s, h, T) /\ Closed(h, T) /\ h.n = Len(T)
    /\ h.d.cw_size = s.cw_size /\ Narrow(s.cw_size) /\ h.d.escape_char = s.escape_char
    /\ SameDict(h.d, c)
    /\ h.d.update_at = IF Len(c.str) = MaxString THEN 0 ELSE c.last_matched

(* send_data in compressed mode leaves no string, and the decoder is led   *)
(* through it.                                                             *)
LEMMA SentC ==
    ASSUME NEW w, NEW c, NEW g, NEW T, Pending(w, c, g, T), StrC(g, c, T)
    PROVE  LET s == send_data(c)
           IN  /\ s \in CompType /\ Shape(s) /\ SentOff(c, s) /\ s.mode = "COMPRESSED"
               /\ \E v, h : After(w, c, s, v, h, T)
<1>. DEFINE s == send_data(c)
            esc == escape_after(c.escape_char, c.str)
<1>1. PICK q, l, b, k, v, h : StringSent(w, c, g, T, s, q, l, b, k, v, h)
  BY SendDataC
<1>. HIDE DEF s
<1>2. c \in CompType /\ Shape(c) /\ c.mode = "COMPRESSED"
  BY CompShape DEF StrC, Linked, Sound
<1>3. /\ q \in Seq(Byte) /\ l \in Nat /\ b \in Nat /\ k \in Nat
      /\ s = Sent(c, q, l, b, k, esc) /\ Decodes(w, q, v, T) /\ Pending(v, s, h, T)
      /\ Closed(h, T) /\ h.n = Len(T) /\ h.d.cw_size = k /\ Narrow(k)
      /\ h.d.escape_char = esc /\ SameDict(h.d, c)
      /\ h.d.update_at = IF Len(c.str) = MaxString THEN 0 ELSE c.last_matched
  BY <1>1 DEF StringSent
<1>4. \A W : Wide(W) => (CharSize * Len(q)) + l <= c.bit_len + StringBits(W)
  BY <1>1 DEF StringSent
<1>5. esc \in Byte
  BY <1>2, CompFields, EscapesType
<1>. HIDE DEF esc
<1>6. s \in CompType
  BY <1>2, <1>3, <1>5, SentType
<1>7. /\ Shape(s) /\ s.mode = c.mode /\ s.cw_size = k /\ s.bit_len = l /\ s.bit_data = b
      /\ s.escape_char = esc /\ s.obuf = c.obuf \o q /\ SentOff(c, s)
  BY <1>2, <1>3, SentShape, SMTT(30)
<1>8. Bound(c, s, q, 1, 0)
  <2>1. SUFFICES ASSUME NEW W, Wide(W)
                 PROVE  (CharSize * Len(q)) + Load(s)
                          <= Load(c) + (1 * StringBits(W)) + (0 * SwitchBits(W))
    BY DEF Bound
  <2>2. W \in Nat /\ CharSize \in Nat
    BY <2>1, Constant DEF Wide
  <2>. DEFINE i == StringBits(W)
              j == SwitchBits(W)
              k1 == CharSize * Len(q)
              p == CharSize * Len(c.str)
  <2>3. i \in Int /\ j \in Int
    BY <2>2 DEF StringBits, SwitchBits
  <2>4. 1 * i = i /\ 0 * j = 0
    BY <2>3
  <2>5. k1 + l <= c.bit_len + i
    BY <1>4, <2>1
  <2>6. Load(s) = l
    <3>1. s.str = <<>> /\ Len(<<>>) = 0
      BY <1>7 DEF SentOff
    <3>2. CharSize * Len(<<>>) = 0
      BY <3>1, Times
    <3>. QED  BY <3>1, <3>2, <1>3, <1>7 DEF Load
  <2>7. Load(c) = c.bit_len + (2 * p)
    BY DEF Load
  <2>8. p \in Nat /\ k1 \in Nat /\ c.bit_len \in Nat
    <3>1. Len(c.str) \in Nat /\ Len(q) \in Nat /\ c.bit_len \in Nat
      BY <1>2, <1>3, CompFields
    <3>. QED  BY <3>1, Times
  <2>. HIDE DEF i, j, k1, p
  <2>9. k1 + Load(s) <= Load(c) + i + 0
    BY <2>3, <2>5, <2>6, <2>7, <2>8, <1>3
  <2>. QED  BY <2>4, <2>9 DEF i, j, k1
<1>9. Emits(c, s, w, v, T, 1, 0)
  BY <1>3, <1>7, <1>8 DEF Emits
<1>10. After(w, c, s, v, h, T)
  BY <1>3, <1>7, <1>9 DEF After
<1>. QED  BY <1>2, <1>6, <1>7, <1>10 DEF s

(* Whatever becomes of s, there is now no string.                          *)
LEMMA SyncOf ==
    ASSUME NEW w, NEW c, NEW s, NEW v, NEW h, NEW T, After(w, c, s, v, h, T),
           s.mode = "COMPRESSED", SentOff(c, s), NEW d, Sound(d), SameRest(d, s),
           d.obuf = s.obuf, d.str = <<>>, d.flushed_len = 0, d.last_matched = 0, SameDict(c, d)
    PROVE  SyncC(h, d, T) /\ Pending(v, d, h, T) /\ Emits(c, d, w, v, T, 1, 0)
<1>1. /\ d.mode = s.mode /\ d.cw_size = s.cw_size /\ d.escape_char = s.escape_char
      /\ d.bit_len = s.bit_len /\ d.bit_data = s.bit_data
  BY DEF SameRest
<1>2. d.str = s.str
  BY DEF SentOff
<1>3. Pending(v, d, h, T)
  BY <1>1, PendingSame DEF After
<1>4. Emits(c, d, w, v, T, 1, 0)
  BY <1>1, <1>2, EmitsSame DEF After
<1>5. SameDict(h.d, d)
  BY DEF After, SameDict
<1>6. SyncC(h, d, T)
  BY <1>1, <1>5 DEF SyncC, Linked, After
<1>. QED  BY <1>3, <1>4, <1>6

(* A character that ends a string in compressed mode.                      *)
LEMMA EndsC ==
    ASSUME NEW w, NEW c, NEW T, RelC(w, c, T), NEW x \in Byte, ends_string(updated(c, x), x)
    PROVE  LET e == string_ended(c, x, send_data(c))
           IN  /\ updated(c, x) = c /\ e \in CompType /\ e.mode = "COMPRESSED"
               /\ \E v, h : Emits(c, e, w, v, T, 1, 0) /\ Pending(v, e, h, T) /\ MidC(h, e, x, T)
<1>1. PICK g : Pending(w, c, g, T) /\ AtC(g, c, T)
  BY DEF RelC
<1>2. Sound(c)
  BY <1>1 DEF AtC, StrC, SyncC, Linked
<1>3. updated(c, x) = c /\ c.last_matched # 0 /\ c.update_at = 0
  BY <1>2, EndsLate
<1>4. StrC(g, c, T) /\ Len(c.str) < MaxString
  BY <1>1, <1>3 DEF AtC, SyncC
<1>. DEFINE s == send_data(c)
            e == string_ended(c, x, s)
<1>5. s \in CompType /\ Shape(s) /\ SentOff(c, s) /\ s.mode = "COMPRESSED"
  BY <1>1, <1>4, SentC
<1>6. PICK v, h : After(w, c, s, v, h, T)
  BY <1>1, <1>4, SentC
<1>. HIDE DEF s
<1>7. /\ Shape(e) /\ SameRest(e, s) /\ e.str = s.str /\ e.obuf = s.obuf
      /\ e.flushed_len = s.flushed_len /\ e.last_matched = 0
      /\ e.parent = s.parent /\ e.ch = s.ch /\ e.next_free = s.next_free
      /\ e.update_at = IF match_char(c, c.last_matched, x) = 0
                       THEN c.last_matched ELSE s.update_at
  BY <1>5, EndedShape
<1>8. Sound(e) /\ e.str = <<>> /\ e.flushed_len = 0
  BY <1>2, <1>3, <1>5, EndedSound
<1>. HIDE DEF e
<1>9. SameDict(c, e) /\ s.update_at = 0
  BY <1>3, <1>5, <1>7 DEF SentOff, SameDict
<1>10. SyncC(h, e, T) /\ Pending(v, e, h, T) /\ Emits(c, e, w, v, T, 1, 0)
  BY <1>5, <1>6, <1>7, <1>8, <1>9, SyncOf
<1>11. h.d.update_at = c.last_matched
  <2>1. Len(c.str) # MaxString
    <3>1. Len(c.str) \in Nat /\ MaxString \in Nat
      BY <1>2, CompFields, Constant DEF Sound
    <3>. QED  BY <3>1, <1>4
  <2>. QED  BY <2>1, <1>6 DEF After
<1>12. MidC(h, e, x, T)
  <2>1. match_char(c, c.last_matched, x) = match_char(e, c.last_matched, x)
    BY <1>9, MatchSame
  <2>. QED  BY <2>1, <1>3, <1>7, <1>9, <1>10, <1>11 DEF MidC
<1>13. e \in CompType /\ e.mode = "COMPRESSED"
  BY <1>5, <1>7, <1>8 DEF Sound, SameRest
<1>. QED  BY <1>3, <1>10, <1>12, <1>13 DEF e, s

(* A string of full length is sent.                                        *)
LEMMA FullC ==
    ASSUME NEW w, NEW c, NEW T, HeldC(w, c, T)
    PROVE  LET z == string_full(c, send_data(c))
           IN  /\ z \in CompType /\ z.update_at = 0
               /\ \E v : Emits(c, z, w, v, T, 1, 0) /\ RelC(v, z, T)
<1>1. PICK g : Pending(w, c, g, T) /\ StrC(g, c, T)
  BY DEF HeldC
<1>. DEFINE s == send_data(c)
            z == string_full(c, s)
<1>2. /\ Sound(c) /\ c \in CompType /\ Shape(c) /\ c.update_at = 0 /\ c.flushed_len = 0
      /\ Len(c.str) <= MaxString /\ c.last_matched # 0
  <2>1. /\ Sound(c) /\ c.update_at = 0 /\ c.flushed_len = 0
        /\ Len(c.str) <= MaxString /\ c.last_matched >= FirstEntry
    BY <1>1 DEF StrC, Linked
  <2>2. c \in CompType
    BY <2>1 DEF Sound
  <2>3. c.last_matched # 0
    BY <2>1, Constant
  <2>. QED  BY <2>1, <2>2, <2>3, CompShape
<1>3. Len(c.str) \in Nat /\ Len(c.str) + c.flushed_len = Len(c.str)
      /\ Len(c.str) + c.flushed_len <= MaxString /\ MaxString \in Nat
  BY <1>2, CompFields, Constant
<1>4. s \in CompType /\ Shape(s) /\ SentOff(c, s) /\ s.mode = "COMPRESSED"
  BY <1>1, SentC
<1>5. PICK v, h : After(w, c, s, v, h, T)
  BY <1>1, SentC
<1>. HIDE DEF s
<1>6. /\ Sound(z) /\ z.update_at = 0
      /\ z.last_matched = 0 => z.str = <<>> /\ z.flushed_len = 0
  BY <1>2, <1>3, <1>4, FullSound
<1>7. CASE Len(c.str) + c.flushed_len = MaxString
  <2>1. /\ Shape(z) /\ SameRest(z, s) /\ z.str = s.str /\ z.obuf = s.obuf
        /\ z.flushed_len = s.flushed_len /\ z.last_matched = 0
        /\ z.parent = s.parent /\ z.ch = s.ch /\ z.next_free = s.next_free
    BY <1>2, <1>4, <1>7, FullShape
  <2>. HIDE DEF z
  <2>2. SameDict(c, z) /\ z.str = <<>> /\ z.flushed_len = 0
    BY <2>1, <1>4 DEF SentOff, SameDict
  <2>3. SyncC(h, z, T) /\ Pending(v, z, h, T) /\ Emits(c, z, w, v, T, 1, 0)
    BY <2>1, <2>2, <1>4, <1>5, <1>6, SyncOf
  <2>4. h.d.update_at = 0
    BY <1>3, <1>5, <1>7 DEF After
  <2>5. RelC(v, z, T)
    BY <2>3, <2>4, <1>6 DEF RelC, AtC
  <2>. QED  BY <2>3, <2>5, <1>6 DEF z, s, Sound
<1>8. CASE Len(c.str) + c.flushed_len # MaxString
  <2>1. z = c
    BY <1>8 DEF string_full
  <2>. HIDE DEF z
  <2>2. Load(c) <= Load(c) /\ Viewed(w)
    BY <1>1, <1>2, LoadType, PendingViewed
  <2>3. Emits(c, z, w, w, T, 0, 0)
    BY <2>1, <2>2, <1>2, EmitsNone
  <2>4. Emits(c, z, w, w, T, 1, 0)
    BY <2>1, <2>3, <1>2, EmitsMore
  <2>5. RelC(w, z, T)
    <3>1. Len(c.str) < MaxString
      BY <1>3, <1>8
    <3>. QED  BY <2>1, <3>1, <1>1 DEF RelC, AtC
  <2>. QED  BY <2>4, <2>5, <1>6 DEF z, s, Sound
<1>. QED  BY <1>7, <1>8

-----------------------------------------------------------------------------
(* The encoder changes to transparent mode.                                *)

Fresh(d) == [d EXCEPT !.last_added = 0]
EtmState(d) == [send_aligned(Fresh(d), CCW_ETM) EXCEPT !.mode = "TRANSPARENT"]

(* What the codeword ETM, in the bytes s, makes of the encoder.            *)
LEMMA EtmShape ==
    ASSUME NEW d \in CompType, NEW s \in Seq(Byte), send_aligned(Fresh(d), CCW_ETM) = Put(Fresh(d), s, 0, 0)
    PROVE  LET z == EtmState(d)
           IN  /\ z \in CompType /\ z.mode = "TRANSPARENT" /\ z.cw_size = d.cw_size
               /\ z.bit_len = 0 /\ z.bit_data = 0
               /\ z.escape_char = d.escape_char /\ z.str = d.str /\ z.obuf = d.obuf \o s
               /\ z.flushed_len = d.flushed_len /\ z.update_at = d.update_at
               /\ z.last_matched = d.last_matched /\ z.last_added = 0
               /\ SameDict(d, z)
<1>. DEFINE f == Fresh(d)
            p == Put(f, s, 0, 0)
            z == EtmState(d)
<1>1. 0 \in Codeword
  BY Commands
<1>2. f \in CompType
  BY <1>1 DEF CompType, Fresh
<1>3. /\ f.mode = d.mode /\ f.cw_size = d.cw_size /\ f.escape_char = d.escape_char
      /\ f.str = d.str /\ f.obuf = d.obuf /\ f.flushed_len = d.flushed_len
      /\ f.update_at = d.update_at /\ f.last_matched = d.last_matched /\ f.last_added = 0
      /\ f.parent = d.parent /\ f.ch = d.ch /\ f.next_free = d.next_free
  <2>1. Shape(d)
    BY CompShape
  <2>. QED  BY <2>1 DEF Shape, Fresh
<1>. HIDE DEF f
<1>4. /\ Shape(p) /\ p.escape = f.escape /\ p.err = f.err
      /\ p.cw_size = f.cw_size /\ p.bit_len = 0 /\ p.bit_data = 0
      /\ p.last_matched = f.last_matched /\ p.last_added = f.last_added
      /\ p.escape_char = f.escape_char /\ p.str = f.str /\ p.obuf = f.obuf \o s
      /\ p.flushed_len = f.flushed_len /\ p.update_at = f.update_at
      /\ p.parent = f.parent /\ p.ch = f.ch /\ p.next_free = f.next_free
  <2>1. Shape(f)
    BY <1>2, CompShape
  <2>. QED  BY <2>1, PutShape
<1>5. p \in CompType
  <2>1. f.obuf \o s \in Seq(Byte)
    BY <1>2, CompFields
  <2>. QED  BY <1>2, <2>1 DEF Put, CompType
<1>6. z = [p EXCEPT !.mode = "TRANSPARENT"]
  BY DEF EtmState, f
<1>. HIDE DEF p, z
<1>7. z \in CompType
  BY <1>5, <1>6 DEF CompType
<1>8. /\ z.mode = "TRANSPARENT" /\ z.cw_size = p.cw_size
      /\ z.bit_len = p.bit_len /\ z.bit_data = p.bit_data
      /\ z.escape_char = p.escape_char /\ z.str = p.str /\ z.obuf = p.obuf
      /\ z.flushed_len = p.flushed_len /\ z.update_at = p.update_at
      /\ z.last_matched = p.last_matched /\ z.last_added = p.last_added
      /\ z.parent = p.parent /\ z.ch = p.ch /\ z.next_free = p.next_free
  BY <1>4, <1>6 DEF Shape
<1>9. /\ z.mode = "TRANSPARENT" /\ z.cw_size = d.cw_size /\ z.bit_len = 0 /\ z.bit_data = 0
      /\ z.escape_char = d.escape_char /\ z.str = d.str /\ z.obuf = d.obuf \o s
      /\ z.flushed_len = d.flushed_len /\ z.update_at = d.update_at
      /\ z.last_matched = d.last_matched /\ z.last_added = 0
      /\ z.parent = d.parent /\ z.ch = d.ch /\ z.next_free = d.next_free
  BY <1>3, <1>4, <1>8
<1>. QED  BY <1>7, <1>9 DEF SameDict, z

(* The bits of an aligned control codeword.                                *)
LEMMA AlignedBound ==
    ASSUME NEW d \in CompType, NEW z \in CompType, d.str = <<>>, z.str = <<>>, z.bit_len = 0,
           Narrow(d.cw_size), NEW s \in Seq(Byte),
           CharSize * Len(s) <= d.bit_len + d.cw_size + CharSize
    PROVE  Bound(d, z, s, 0, 1)
<1>1. SUFFICES ASSUME NEW W, Wide(W)
               PROVE  (CharSize * Len(s)) + Load(z)
                        <= Load(d) + (0 * StringBits(W)) + (1 * SwitchBits(W))
  BY DEF Bound
<1>2. W \in Nat /\ CharSize \in Nat
  BY <1>1, Constant DEF Wide
<1>3. StringBits(W) \in Int /\ SwitchBits(W) = W + (2 * CharSize)
  BY <1>2 DEF StringBits, SwitchBits
<1>. DEFINE i == StringBits(W)
            j == SwitchBits(W)
            k == CharSize * Len(s)
<1>4. 0 * i = 0 /\ 1 * j = j
  BY <1>2, <1>3
<1>5. Load(d) = d.bit_len /\ Load(z) = 0
  <2>1. Len(<<>>) = 0
    OBVIOUS
  <2>2. CharSize * Len(<<>>) = 0
    BY <2>1, Times
  <2>3. d.bit_len \in Nat
    BY CompFields
  <2>. QED  BY <2>2, <2>3 DEF Load
<1>6. k \in Nat /\ d.bit_len \in Nat /\ d.cw_size \in Nat /\ d.cw_size <= W
  <2>1. Len(s) \in Nat /\ d.bit_len \in Nat /\ d.cw_size \in Nat
    BY CompFields
  <2>2. d.cw_size <= W
    BY <1>1 DEF Narrow
  <2>. QED  BY <2>1, <2>2, Times
<1>7. k <= d.bit_len + d.cw_size + CharSize
  OBVIOUS
<1>. HIDE DEF k, i
<1>8. k + Load(z) <= Load(d) + 0 + j
  BY <1>2, <1>3, <1>5, <1>6, <1>7
<1>. QED  BY <1>4, <1>8 DEF k, i

(* z is d after the codeword ETM, which leads the decoder to G.            *)
Etm(d, z, w, g, G, T) ==
    /\ Emits(d, z, w, G, T, 0, 1) /\ Base(G, z, T) /\ Leads(G, z, G, T)
    /\ z \in CompType /\ z.str = <<>> /\ z.flushed_len = 0
    /\ z.last_matched = 0 /\ z.last_added = 0 /\ z.update_at = d.update_at
    /\ SameDict(d, z) /\ SameDict(G.d, z) /\ G.d.last_matched = 0
    /\ G.d.last_added = 0 /\ G.d.flushed_len = 0
    /\ G.d.update_at = g.d.update_at

(* The codeword ETM, sent when there is no string.                         *)
LEMMA EtmC ==
    ASSUME NEW w, NEW d, NEW g, NEW T, Pending(w, d, g, T), SyncC(g, d, T)
    PROVE  \E G : Etm(d, EtmState(d), w, g, G, T)
<1>. DEFINE f == Fresh(d)
            z == EtmState(d)
<1>1. /\ Closed(g, T) /\ Sound(d) /\ d.cw_size = g.d.cw_size /\ Narrow(d.cw_size)
      /\ d.escape_char = g.d.escape_char /\ d.flushed_len = 0 /\ d.str = <<>>
      /\ d.last_matched = 0 /\ SameDict(g.d, d) /\ g.n = Len(T)
  BY DEF SyncC, Linked
<1>2. d \in CompType /\ T \in Seq(Byte) /\ CharSize < d.cw_size
  BY <1>1 DEF Sound, Closed
<1>3. PICK G : /\ Word(g, CCW_ETM, G, T) /\ Open(G, T) /\ Sound(G.d) /\ SameText(g, G)
               /\ G.d.cw_size = g.d.cw_size /\ G.d.last_matched = 0 /\ G.d.last_added = 0
               /\ G.d.flushed_len = 0
  BY <1>1, EtmWord
<1>4. /\ Shape(f) /\ f.cw_size = d.cw_size /\ f.bit_len = d.bit_len /\ f.bit_data = d.bit_data
  <2>1. Shape(d)
    BY <1>2, CompShape
  <2>2. /\ f.cw_size = d.cw_size /\ f.bit_len = d.bit_len /\ f.bit_data = d.bit_data
    BY <2>1 DEF Shape, Fresh
  <2>3. f \in CompType
    BY <1>2, Commands DEF CompType, Fresh
  <2>. QED  BY <2>2, <2>3, CompShape
<1>5. Pending(w, f, g, T)
  BY <1>4, PendingSame
<1>. HIDE DEF f
<1>6. PICK s \in Seq(Byte) :
              /\ send_aligned(f, CCW_ETM) = Put(f, s, 0, 0) /\ Decodes(w, s, G, T)
              /\ CharSize * Len(s) <= f.bit_len + f.cw_size + CharSize
  BY <1>1, <1>2, <1>3, <1>4, <1>5, SendAligned
<1>7. /\ z \in CompType /\ z.mode = "TRANSPARENT" /\ z.cw_size = d.cw_size
      /\ z.bit_len = 0 /\ z.bit_data = 0
      /\ z.escape_char = d.escape_char /\ z.str = d.str /\ z.obuf = d.obuf \o s
      /\ z.flushed_len = d.flushed_len /\ z.update_at = d.update_at
      /\ z.last_matched = d.last_matched /\ z.last_added = 0
      /\ SameDict(d, z)
  BY <1>2, <1>6, EtmShape DEF f
<1>. HIDE DEF z
<1>8. Sound(z)
  <2>1. z.next_free = d.next_free
    BY <1>7 DEF SameDict
  <2>2. d.update_at # d.next_free /\ d.last_matched # d.next_free
    BY <1>1 DEF Sound
  <2>. QED  BY <1>1, <1>7, <2>1, <2>2, SoundSame
<1>9. SameDict(G.d, z) /\ G.d.update_at = g.d.update_at /\ G.n = Len(T)
      /\ G.d.escape_char = d.escape_char
  BY <1>1, <1>3, <1>7 DEF SameText, SameDict
<1>10. d.escape_char \in Byte
  BY <1>2, CompFields
<1>11. Base(G, z, T)
  <2>1. escape_after(z.escape_char, z.str) = z.escape_char
    BY <1>1, <1>7, <1>10, EscapesNil
  <2>2. G.d.flushed_len < MaxString
    BY <1>3, Constant
  <2>. QED  BY <1>1, <1>2, <1>3, <1>7, <1>8, <1>9, <2>1, <2>2 DEF Base
<1>12. Leads(G, z, G, T)
  <2>1. escaped(z.escape_char, z.str) = <<>>
    BY <1>1, <1>7, <1>10, EscapesNil
  <2>2. Viewed(G)
    BY <1>3 DEF Open
  <2>. QED  BY <2>1, <2>2, DecodesNil DEF Leads
<1>13. Bound(d, z, s, 0, 1)
  <2>1. z.str = <<>>
    BY <1>1, <1>7
  <2>2. CharSize * Len(s) <= d.bit_len + d.cw_size + CharSize
    BY <1>4, <1>6
  <2>. QED  BY <1>1, <1>2, <1>7, <2>1, <2>2, AlignedBound
<1>14. Emits(d, z, w, G, T, 0, 1)
  BY <1>6, <1>7, <1>13 DEF Emits
<1>. QED  BY <1>1, <1>3, <1>7, <1>9, <1>11, <1>12, <1>14 DEF z, Etm

(* test_mode in compressed mode, between two characters.                   *)
LEMMA SwitchC ==
    ASSUME NEW w, NEW c, NEW T, RelC(w, c, T)
    PROVE  LET z == test_mode(c, TRUE)
           IN  z \in CompType /\ \E v : Emits(c, z, w, v, T, 1, 1) /\ RelT(v, z, T)
<1>1. PICK g : Pending(w, c, g, T) /\ AtC(g, c, T)
  BY DEF RelC
<1>2. Sound(c) /\ c.mode = "COMPRESSED"
  BY <1>1 DEF AtC, StrC, SyncC, Linked
<1>3. c \in CompType /\ Shape(c)
  BY <1>2, CompShape DEF Sound
<1>. DEFINE s == send_data(c)
            d == IF c.last_matched = 0 THEN c
                 ELSE [s EXCEPT !.update_at = c.last_matched, !.last_matched = 0]
            z == test_mode(c, TRUE)
<1>4. z = EtmState(d)
  BY <1>2 DEF test_mode, EtmState, Fresh
<1>5. \E v, h : /\ Emits(c, d, w, v, T, 1, 0) /\ Pending(v, d, h, T) /\ SyncC(h, d, T)
                /\ h.d.update_at = d.update_at
  <2>1. CASE c.last_matched = 0
    <3>1. d = c
      BY <2>1
    <3>2. ~ StrC(g, c, T)
      <4>1. ~ (c.last_matched >= FirstEntry)
        BY <2>1, Constant
      <4>. QED  BY <4>1 DEF StrC
    <3>3. SyncC(g, c, T) /\ g.d.update_at = c.update_at
      BY <3>2, <1>1 DEF AtC
    <3>4. Viewed(w) /\ Load(c) <= Load(c)
      BY <1>1, <1>3, PendingViewed, LoadType
    <3>5. Emits(c, c, w, w, T, 0, 0)
      BY <3>4, <1>3, EmitsNone
    <3>6. Emits(c, c, w, w, T, 1, 0)
      BY <3>5, <1>3, EmitsMore
    <3>. QED  BY <3>1, <3>3, <3>6, <1>1
  <2>2. CASE c.last_matched # 0
    <3>1. d = [s EXCEPT !.update_at = c.last_matched, !.last_matched = 0]
      BY <2>2
    <3>2. StrC(g, c, T) /\ Len(c.str) < MaxString
      BY <2>2, <1>1 DEF AtC, SyncC
    <3>3. s \in CompType /\ Shape(s) /\ SentOff(c, s) /\ s.mode = "COMPRESSED"
      BY <1>1, <3>2, SentC
    <3>4. PICK v, h : After(w, c, s, v, h, T)
      BY <1>1, <3>2, SentC
    <3>. HIDE DEF s, d
    <3>5. /\ d.mode = s.mode /\ d.escape = s.escape /\ d.err = s.err
          /\ d.cw_size = s.cw_size /\ d.bit_len = s.bit_len
          /\ d.bit_data = s.bit_data /\ d.escape_char = s.escape_char /\ d.str = s.str
          /\ d.obuf = s.obuf /\ d.flushed_len = s.flushed_len /\ d.update_at = c.last_matched
          /\ d.last_matched = 0 /\ d.last_added = s.last_added /\ d.parent = s.parent
          /\ d.ch = s.ch /\ d.next_free = s.next_free
      BY <3>1, <3>3 DEF Shape
    <3>6. d \in CompType
      <4>1. c.last_matched \in Codeword /\ 0 \in Codeword
        BY <1>3, CompFields, Commands
      <4>. QED  BY <3>1, <3>3, <4>1 DEF CompType
    <3>7. SameDict(c, d) /\ d.str = <<>> /\ d.flushed_len = 0
      BY <3>3, <3>5 DEF SentOff, SameDict
    <3>8. Sound(d)
      <4>1. c.last_matched # c.next_free /\ c.next_free # 0
        BY <1>2, <1>3, CompFields, Commands DEF Sound
      <4>2. d.next_free = c.next_free /\ d.last_added = c.last_added
        BY <3>3, <3>5 DEF SentOff
      <4>3. c.last_added = 0 \/ c.last_added \in FreeEntry
        BY <1>2 DEF Sound
      <4>. QED  BY <1>2, <3>5, <3>6, <3>7, <4>1, <4>2, <4>3, SoundSame
    <3>9. SameRest(d, s)
      BY <3>5 DEF SameRest
    <3>10. SyncC(h, d, T) /\ Pending(v, d, h, T) /\ Emits(c, d, w, v, T, 1, 0)
      BY <3>3, <3>4, <3>5, <3>7, <3>8, <3>9, SyncOf
    <3>11. h.d.update_at = c.last_matched
      <4>1. Len(c.str) # MaxString
        <5>1. Len(c.str) \in Nat /\ MaxString \in Nat
          BY <1>3, CompFields, Constant
        <5>. QED  BY <5>1, <3>2
      <4>. QED  BY <4>1, <3>4 DEF After
    <3>. QED  BY <3>5, <3>10, <3>11
  <2>. QED  BY <2>1, <2>2
<1>. HIDE DEF d
<1>6. PICK v, h : /\ Emits(c, d, w, v, T, 1, 0) /\ Pending(v, d, h, T) /\ SyncC(h, d, T)
                  /\ h.d.update_at = d.update_at
  BY <1>5
<1>10. \E G : Etm(d, EtmState(d), v, h, G, T)
  BY <1>6, EtmC
<1>. HIDE DEF z
<1>11. PICK G : Etm(d, z, v, h, G, T)
  BY <1>4, <1>10
<1>7. /\ Emits(d, z, v, G, T, 0, 1) /\ Base(G, z, T) /\ Leads(G, z, G, T)
      /\ z \in CompType /\ z.str = <<>> /\ z.flushed_len = 0
      /\ z.last_matched = 0 /\ z.last_added = 0 /\ z.update_at = d.update_at
      /\ SameDict(G.d, z) /\ G.d.last_matched = 0
      /\ G.d.last_added = 0 /\ G.d.flushed_len = 0
      /\ G.d.update_at = h.d.update_at
  BY <1>11 DEF Etm
<1>8. Emits(c, z, w, G, T, 1, 1)
  <2>1. d \in CompType
    BY <1>6 DEF SyncC, Linked, Sound
  <2>2. Emits(c, z, w, G, T, 1 + 0, 0 + 1)
    BY <1>3, <1>6, <1>7, <2>1, EmitsJoin
  <2>. QED  BY <2>2
<1>9. Alike(G.d, z)
  <2>1. G.d.str = <<>>
    BY <1>7 DEF Base, Open, Viewed
  <2>2. Len(G.d.str) + G.d.flushed_len = Len(z.str) + z.flushed_len
    BY <1>7, <2>1
  <2>3. G.d.update_at = z.update_at
    BY <1>6, <1>7
  <2>. QED  BY <1>7, <2>2, <2>3 DEF Alike, SameDict
<1>12. RelT(G, z, T)
  BY <1>7, <1>9 DEF RelT, AtT
<1>. QED  BY <1>7, <1>8, <1>12 DEF z

(* Without a string, a character is taken in alike.                        *)
LEMMA AlikeCollect ==
    ASSUME NEW a, Sound(a), NEW b, Sound(b), b.last_matched = 0, NEW x \in Byte,
           Alike(updated(a, x), updated(b, x))
    PROVE  /\ ~ ends_string(updated(b, x), x)
           /\ Alike(begun(a, x, send_string(updated(a, x))), collected(updated(b, x), x))
<1>. DEFINE s == send_string(updated(a, x))
            t == send_string(updated(b, x))
<1>1. Shape(a) /\ Shape(b)
  BY CompShape DEF Sound
<1>2. Shape(updated(a, x)) /\ Shape(updated(b, x))
  BY <1>1, UpdatedRest
<1>3. SentOff(updated(a, x), s) /\ SentOff(updated(b, x), t)
  BY <1>2, SendString
<1>4. Sound(updated(b, x)) /\ updated(b, x).last_matched = 0
  BY UpdatedSound
<1>5. ~ ends_string(updated(b, x), x)
  BY <1>4, NoEnd
<1>. HIDE DEF s, t
<1>6. Alike(begun(a, x, s), begun(b, x, t))
  BY <1>1, <1>3, AlikeBegun
<1>7. begun(b, x, t) = collected(updated(b, x), x)
  BY <1>5 DEF begun
<1>. QED  BY <1>5, <1>6, <1>7 DEF s

(* A character that ends a string in compressed mode, and the mode.        *)
LEMMA EndsSwitchC ==
    ASSUME NEW w, NEW c, NEW T, RelC(w, c, T), NEW x \in Byte, ends_string(updated(c, x), x)
    PROVE  LET t == test_mode(string_ended(c, x, send_data(c)), TRUE)
           IN  t \in CompType /\ \E v : Emits(c, t, w, v, T, 1, 1) /\ ReadyT(v, t, x, T)
<1>. DEFINE e == string_ended(c, x, send_data(c))
            t == test_mode(e, TRUE)
<1>1. e \in CompType /\ e.mode = "COMPRESSED"
  BY EndsC
<1>2. PICK v, h : Emits(c, e, w, v, T, 1, 0) /\ Pending(v, e, h, T) /\ MidC(h, e, x, T)
  BY EndsC
<1>. HIDE DEF e
<1>3. SyncC(h, e, T) /\ e.last_matched = 0
  BY <1>2 DEF MidC, SyncC
<1>4. t = EtmState(e)
  BY <1>1, <1>3 DEF test_mode, EtmState, Fresh
<1>13. \E G : Etm(e, EtmState(e), v, h, G, T)
  BY <1>2, <1>3, EtmC
<1>. HIDE DEF t
<1>14. PICK G : Etm(e, t, v, h, G, T)
  BY <1>4, <1>13
<1>5. /\ Emits(e, t, v, G, T, 0, 1) /\ Base(G, t, T) /\ Leads(G, t, G, T)
      /\ t \in CompType /\ t.str = <<>> /\ t.flushed_len = 0
      /\ t.last_matched = 0 /\ t.last_added = 0 /\ t.update_at = e.update_at
      /\ SameDict(e, t) /\ SameDict(G.d, t) /\ G.d.last_matched = 0
      /\ G.d.last_added = 0 /\ G.d.flushed_len = 0
      /\ G.d.update_at = h.d.update_at
  BY <1>14 DEF Etm
<1>6. c \in CompType
  BY DEF RelC, AtC, StrC, SyncC, Linked, Sound
<1>7. Emits(c, t, w, G, T, 1, 1)
  <2>1. Emits(c, t, w, G, T, 1 + 0, 0 + 1)
    BY <1>1, <1>2, <1>5, <1>6, EmitsJoin
  <2>. QED  BY <2>1
<1>8. Sound(G.d) /\ Sound(t) /\ Shape(G.d) /\ Shape(t) /\ G.d.str = <<>>
  <2>1. Sound(G.d) /\ Sound(t) /\ G.d.str = <<>>
    BY <1>5 DEF Base, Open, Viewed
  <2>. QED  BY <2>1, CompShape DEF Sound
<1>9. Alike(updated(G.d, x), updated(t, x))
  <2>3. Len(G.d.str) + G.d.flushed_len = Len(t.str) + t.flushed_len
    BY <1>5, <1>8
  <2>1. CASE h.d.update_at = e.update_at
    <3>2. G.d.update_at = t.update_at
      BY <2>1, <1>5
    <3>1. Alike(G.d, t)
      BY <2>3, <3>2, <1>5 DEF Alike, SameDict
    <3>. QED  BY <3>1, <1>8, AlikeUpdated
  <2>2. CASE e.update_at = 0 /\ h.d.update_at # 0 /\ match_char(e, h.d.update_at, x) # 0
    <3>1. updated(t, x) = t
      BY <2>2, <1>5 DEF updated
    <3>2. match_char(G.d, G.d.update_at, x) # 0
      <4>1. SameDict(e, G.d)
        BY <1>5 DEF SameDict
      <4>2. match_char(e, h.d.update_at, x) = match_char(G.d, h.d.update_at, x)
        BY <4>1, MatchSame
      <4>. QED  BY <4>2, <2>2, <1>5
    <3>3. updated(G.d, x) = [G.d EXCEPT !.update_at = 0]
      BY <2>2, <3>2, <1>5 DEF updated
    <3>. DEFINE u == updated(G.d, x)
    <3>4. /\ u.parent = G.d.parent /\ u.ch = G.d.ch /\ u.next_free = G.d.next_free
          /\ u.update_at = 0 /\ u.last_matched = G.d.last_matched
          /\ u.last_added = G.d.last_added /\ u.str = G.d.str
          /\ u.flushed_len = G.d.flushed_len
      BY <3>3, <1>8 DEF Shape
    <3>. HIDE DEF u
    <3>5. Alike(u, t)
      BY <2>2, <2>3, <3>4, <1>5 DEF Alike, SameDict
    <3>. QED  BY <3>1, <3>5 DEF u
  <2>. QED  BY <2>1, <2>2, <1>2 DEF MidC
<1>10. /\ ~ ends_string(updated(t, x), x)
       /\ Alike(begun(G.d, x, send_string(updated(G.d, x))), collected(updated(t, x), x))
  BY <1>5, <1>8, <1>9, AlikeCollect
<1>11. Len(t.str) + t.flushed_len < MaxString
  <2>1. Len(t.str) = 0
    BY <1>5
  <2>. QED  BY <2>1, <1>5, Constant
<1>12. ReadyT(G, t, x, T)
  BY <1>5, <1>10, <1>11 DEF ReadyT
<1>. QED  BY <1>5, <1>7, <1>12 DEF t, e

-----------------------------------------------------------------------------
(* A character is taken in.                                                *)

(* A character that ends no string, in compressed mode.                    *)
LEMMA ReadyNowC ==
    ASSUME NEW w, NEW c, NEW T, RelC(w, c, T), NEW x \in Byte, ~ ends_string(updated(c, x), x)
    PROVE  ReadyC(w, c, x, T)
<1>1. PICK g : Pending(w, c, g, T) /\ AtC(g, c, T)
  BY DEF RelC
<1>2. CASE StrC(g, c, T) /\ Len(c.str) < MaxString
  BY <1>1, <1>2 DEF ReadyC
<1>3. CASE SyncC(g, c, T) /\ g.d.update_at = c.update_at
  <2>1. MidC(g, c, x, T)
    BY <1>3 DEF MidC
  <2>. QED  BY <1>1, <2>1 DEF ReadyC
<1>. QED  BY <1>1, <1>2, <1>3 DEF AtC

(* A character that ends a string, the mode being kept.                    *)
LEMMA ReadyEndC ==
    ASSUME NEW w, NEW c, NEW T, RelC(w, c, T), NEW x \in Byte, ends_string(updated(c, x), x)
    PROVE  LET e == string_ended(c, x, send_data(c))
           IN  e \in CompType /\ \E v : Emits(c, e, w, v, T, 1, 0) /\ ReadyC(v, e, x, T)
<1>. DEFINE e == string_ended(c, x, send_data(c))
<1>1. e \in CompType
  BY EndsC
<1>2. PICK v, h : Emits(c, e, w, v, T, 1, 0) /\ Pending(v, e, h, T) /\ MidC(h, e, x, T)
  BY EndsC
<1>. HIDE DEF e
<1>3. ReadyC(v, e, x, T)
  BY <1>2 DEF ReadyC
<1>. QED  BY <1>1, <1>2, <1>3 DEF e

(* The same in transparent mode.                                           *)
LEMMA ReadyEndT ==
    ASSUME NEW w, NEW c, NEW T, RelT(w, c, T), NEW x \in Byte, ends_string(updated(c, x), x)
    PROVE  LET e == string_ended(c, x, send_data(c))
           IN  e \in CompType /\ \E v : Emits(c, e, w, v, T, 0, 0) /\ ReadyT(v, e, x, T)
<1>. DEFINE e == string_ended(c, x, send_data(c))
<1>1. PICK F : /\ Emits(c, e, w, F, T, 0, 0) /\ Base(F, e, T) /\ Leads(F, e, F, T)
               /\ e.str = <<>> /\ e.last_matched = 0 /\ e.flushed_len = 0
               /\ Alike(begun(F.d, x, send_string(updated(F.d, x))),
                        collected(updated(e, x), x))
  BY EndsT
<1>. HIDE DEF e
<1>2. Sound(e) /\ e \in CompType
  BY <1>1 DEF Base, Sound
<1>3. Sound(updated(e, x)) /\ updated(e, x).last_matched = 0
  BY <1>1, <1>2, UpdatedSound
<1>4. ~ ends_string(updated(e, x), x)
  BY <1>3, NoEnd
<1>5. Len(e.str) + e.flushed_len < MaxString
  <2>1. Len(e.str) = 0
    BY <1>1
  <2>. QED  BY <2>1, <1>1, Constant
<1>6. ReadyT(F, e, x, T)
  BY <1>1, <1>4, <1>5 DEF ReadyT
<1>. QED  BY <1>1, <1>2, <1>6 DEF e

(* The text has a character more.                                          *)
LEMMA LinkedGrow ==
    ASSUME NEW g, NEW c, NEW T, Linked(g, c, T), NEW x \in Byte, NEW B, Sound(B), SameRest(B, c),
           B.flushed_len = 0
    PROVE  Linked(g, B, Append(T, x))
<1>1. Closed(g, T) /\ T \in Seq(Byte) /\ g.n <= Len(T) /\ g.n \in Nat
  BY DEF Linked, Closed, Viewed, Point
<1>2. Append(T, x) \in Seq(Byte) /\ Len(Append(T, x)) = Len(T) + 1 /\ Len(T) \in Nat
  BY <1>1
<1>3. g.n <= Len(Append(T, x))
  BY <1>1, <1>2
<1>4. Closed(g, Append(T, x))
  BY <1>1, <1>2, <1>3 DEF Closed
<1>. QED  BY <1>4 DEF Linked, SameRest

(* What the first character of a string does to the two dictionaries.      *)
LEMMA MidSame ==
    ASSUME NEW g, NEW t, NEW x \in Byte, NEW T, MidC(g, t, x, T)
    PROVE  SameDict(updated(t, x), updated(g.d, x))
<1>1. SameDict(g.d, t) /\ Sound(g.d) /\ Sound(t)
  BY DEF MidC, SyncC, Linked, Closed
<1>2. Shape(g.d) /\ Shape(t)
  BY <1>1, CompShape DEF Sound
<1>3. CASE g.d.update_at = t.update_at
  <2>1. SameDict(updated(g.d, x), updated(t, x))
    BY <1>1, <1>2, <1>3, UpdatedSame
  <2>. QED  BY <2>1 DEF SameDict
<1>4. CASE t.update_at = 0 /\ g.d.update_at # 0 /\ match_char(t, g.d.update_at, x) # 0
  <2>1. updated(t, x) = t
    BY <1>4 DEF updated
  <2>2. match_char(g.d, g.d.update_at, x) # 0
    <3>1. match_char(g.d, g.d.update_at, x) = match_char(t, g.d.update_at, x)
      BY <1>1, MatchSame
    <3>. QED  BY <3>1, <1>4
  <2>3. updated(g.d, x) = [g.d EXCEPT !.update_at = 0]
    BY <1>4, <2>2 DEF updated
  <2>. DEFINE u == updated(g.d, x)
  <2>4. u.parent = g.d.parent /\ u.ch = g.d.ch /\ u.next_free = g.d.next_free
    BY <2>3, <1>2 DEF Shape
  <2>. HIDE DEF u
  <2>5. SameDict(t, u)
    BY <2>4, <1>1 DEF SameDict
  <2>. QED  BY <2>1, <2>5 DEF u
<1>. QED  BY <1>3, <1>4 DEF MidC

(* A sequence and one character more.                                      *)
LEMMA Appended ==
    ASSUME NEW S \in Seq(Byte), NEW x \in Byte
    PROVE  /\ Append(S, x) \in Seq(Byte) /\ Len(Append(S, x)) = Len(S) + 1 /\ Len(S) \in Nat
           /\ \A i \in 1 .. Len(S) : Append(S, x)[i] = S[i]
           /\ Append(S, x)[Len(S) + 1] = x
BY AppendProperties

(* The last character of a text.                                           *)
LEMMA TextEnd ==
    ASSUME NEW T \in Seq(Byte), NEW n \in Nat, NEW S \in Seq(Byte), n + Len(S) = Len(T),
           S = SubSeq(T, n + 1, Len(T)), NEW x \in Byte
    PROVE  /\ n + Len(Append(S, x)) = Len(Append(T, x))
           /\ Append(S, x) = SubSeq(Append(T, x), n + 1, Len(Append(T, x)))
<1>. DEFINE U == Append(T, x)
            R == Append(S, x)
            V == SubSeq(U, n + 1, Len(U))
<1>1. /\ U \in Seq(Byte) /\ Len(U) = Len(T) + 1 /\ Len(T) \in Nat
      /\ \A i \in 1 .. Len(T) : U[i] = T[i]
      /\ U[Len(T) + 1] = x
  BY Appended
<1>2. /\ R \in Seq(Byte) /\ Len(R) = Len(S) + 1 /\ Len(S) \in Nat
      /\ \A i \in 1 .. Len(S) : R[i] = S[i]
      /\ R[Len(S) + 1] = x
  BY Appended
<1>. HIDE DEF U, R
<1>3. Len(U) - n = Len(R) /\ n + 1 <= Len(U)
  BY <1>1, <1>2
<1>4. V \in Seq(Byte) /\ Len(V) = Len(R) /\ \A i \in 1 .. Len(V) : V[i] = U[n + i]
  <2>1. \A i \in (n + 1) .. Len(U) : U[i] \in Byte
    BY <1>1
  <2>2. V \in Seq(Byte) /\ Len(V) = Len(U) - (n + 1) + 1
         /\ \A i \in 1 .. Len(U) - (n + 1) + 1 : V[i] = U[(n + 1) + i - 1]
    BY <1>1, <1>3, SubSeqProperties
  <2>. QED  BY <2>2, <1>1, <1>3
<1>5. \A i \in 1 .. Len(S) : S[i] = T[n + i]
  OBVIOUS
<1>. HIDE DEF V
<1>6. \A i \in 1 .. Len(R) : R[i] = V[i]
  <2>1. SUFFICES ASSUME NEW i \in 1 .. Len(R) PROVE R[i] = U[n + i]
    BY <1>4
  <2>2. CASE i \in 1 .. Len(S)
    <3>1. n + i \in 1 .. Len(T)
      BY <2>2, <1>2
    <3>. DEFINE k == n + i
    <3>2. R[i] = S[i] /\ S[i] = T[k]
      BY <2>2, <1>2, <1>5
    <3>. HIDE DEF k
    <3>3. U[k] = T[k]
      BY <3>1, <1>1 DEF k
    <3>. QED  BY <3>2, <3>3 DEF k
  <2>3. CASE i = Len(S) + 1
    <3>. DEFINE k == n + i
                l == Len(T) + 1
                o == Len(S) + 1
    <3>1. k = l /\ i = o
      BY <2>3, <1>2
    <3>2. R[o] = x /\ U[l] = x
      BY <1>1, <1>2
    <3>. HIDE DEF k, l, o
    <3>3. R[i] = U[k]
      BY <3>1, <3>2
    <3>. QED  BY <3>3 DEF k
  <2>4. i \in 1 .. Len(S) \/ i = Len(S) + 1
    <3>. DEFINE l == Len(S)
    <3>1. i \in 1 .. (l + 1) /\ l \in Nat
      BY <1>2
    <3>. HIDE DEF l
    <3>2. i \in 1 .. l \/ i = l + 1
      BY <3>1
    <3>. QED  BY <3>2 DEF l
  <2>. QED  BY <2>2, <2>3, <2>4
<1>7. R = V
  BY <1>2, <1>4, <1>6, SeqEqual
<1>8. n + Len(R) = Len(U)
  <2>. DEFINE l == Len(R)
              k == Len(U)
  <2>1. k - n = l /\ k \in Nat
    BY <1>1, <1>3
  <2>. HIDE DEF l, k
  <2>2. n + l = k
    BY <2>1
  <2>. QED  BY <2>2 DEF l, k
<1>. QED  BY <1>7, <1>8 DEF U, R, V

(* A first character.                                                      *)
LEMMA FirstC ==
    ASSUME NEW g, NEW t, NEW x \in Byte, NEW T, MidC(g, t, x, T)
    PROVE  LET B == collected(updated(t, x), x)
           IN  /\ StrC(g, B, Append(T, x)) /\ SameRest(B, t) /\ B.obuf = t.obuf
               /\ B.str = Append(t.str, x)
<1>. DEFINE u == updated(t, x)
            B == collected(u, x)
<1>1. /\ SameDict(g.d, t) /\ Sound(g.d) /\ Sound(t) /\ t.str = <<>> /\ t.last_matched = 0
      /\ g.n = Len(T) /\ T \in Seq(Byte) /\ Linked(g, t, T) /\ t.flushed_len = 0
  BY DEF MidC, SyncC, Linked, Closed
<1>2. t \in CompType /\ Shape(t)
  BY <1>1, CompShape DEF Sound
<1>3. /\ SameRest(u, t) /\ u.str = t.str /\ u.obuf = t.obuf
      /\ u.flushed_len = t.flushed_len /\ u.last_matched = t.last_matched
      /\ u.update_at = 0 /\ Shape(u)
  BY <1>2, UpdatedRest
<1>4. Sound(u)
  BY <1>1, UpdatedSound
<1>5. SameDict(u, updated(g.d, x))
  BY MidSame
<1>6. g.d.next_free \in {u.next_free, u.last_added}
  <2>1. \/ SameDict(u, t)
        \/ u.last_added = t.next_free
    <3>1. DictOK(t) /\ t.update_at # t.next_free
      BY <1>1 DEF Sound
    <3>. QED  BY <3>1, <1>2, Updated
  <2>. QED  BY <2>1, <1>1 DEF SameDict
<1>. HIDE DEF u
<1>7. match_char(u, u.last_matched, x) = x + FirstEntry /\ ~ ends_string(u, x)
  BY <1>1, <1>3, <1>4, NoEnd
<1>8. /\ SameRest(B, u) /\ B.str = Append(u.str, x) /\ B.obuf = u.obuf
      /\ B.flushed_len = u.flushed_len /\ B.last_matched = x + FirstEntry
      /\ B.parent = u.parent /\ B.ch = u.ch /\ B.next_free = u.next_free
      /\ B.update_at = u.update_at /\ B.last_added = u.last_added
  BY <1>3, <1>7, CollectedShape
<1>9. Sound(B) /\ B.update_at = 0
  BY <1>3, <1>4, <1>7, CollectedSound
<1>. HIDE DEF B
<1>10. SameRest(B, t)
  BY <1>3, <1>8 DEF SameRest
<1>11. B.flushed_len = 0
  BY <1>1, <1>3, <1>8
<1>12. Linked(g, B, Append(T, x))
  BY <1>1, <1>9, <1>10, <1>11, LinkedGrow
<1>13. B.str = <<x>> /\ B.str = Append(t.str, x) /\ B.str[1] = x /\ Len(B.str) = 1 /\ B.str # <<>>
  <2>1. B.str = Append(<<>>, x)
    BY <1>1, <1>3, <1>8
  <2>. QED  BY <2>1, <1>1
<1>14. g.n + Len(B.str) = Len(Append(T, x)) /\ B.str = SubSeq(Append(T, x), g.n + 1, Len(Append(T, x)))
  <2>. DEFINE n == Len(T)
              S == <<>>
  <2>1. n \in Nat /\ S \in Seq(Byte) /\ n + Len(S) = Len(T) /\ S = SubSeq(T, n + 1, Len(T))
    BY <1>1
  <2>2. g.n = n /\ B.str = Append(S, x)
    BY <1>1, <1>13
  <2>. HIDE DEF n, S
  <2>3. /\ n + Len(Append(S, x)) = Len(Append(T, x))
        /\ Append(S, x) = SubSeq(Append(T, x), n + 1, Len(Append(T, x)))
    BY <2>1, <1>1, TextEnd
  <2>. QED  BY <2>2, <2>3
<1>15. SameDict(u, B) /\ SameDict(B, updated(g.d, B.str[1]))
  BY <1>5, <1>8, <1>13 DEF SameDict
<1>16. B.last_matched >= FirstEntry /\ B.last_matched # g.d.next_free
  <2>1. x + FirstEntry >= FirstEntry /\ x + FirstEntry \notin FreeEntry
    BY Commands
  <2>2. g.d.next_free \in FreeEntry
    BY <1>1, CompFields DEF Sound
  <2>. QED  BY <1>8, <2>1, <2>2
<1>17. strings(B)[B.last_matched] = B.str
  <2>1. DictOK(u) /\ 0 \in Codeword /\ match_char(u, 0, x) = x + FirstEntry /\ x + FirstEntry # 0
    BY <1>1, <1>3, <1>4, <1>7, Commands DEF Sound
  <2>2. strings(u)[x + FirstEntry] = <<x>>
    BY <2>1, MatchSpells
  <2>3. strings(u) = strings(B)
    BY <2>1, <1>15, DictSame
  <2>. QED  BY <2>2, <2>3, <1>8, <1>13
<1>18. g.d.next_free \in {B.next_free, B.last_added}
  BY <1>6, <1>8
<1>19. Len(B.str) <= MaxString
  BY <1>13, Constant
<1>20. StrC(g, B, Append(T, x))
  BY <1>9, <1>12, <1>13, <1>14, <1>15, <1>16, <1>17, <1>18, <1>19 DEF StrC
<1>. QED  BY <1>3, <1>8, <1>10, <1>13, <1>20 DEF B, u

(* One more character of a string.                                         *)
LEMMA MoreC ==
    ASSUME NEW g, NEW t, NEW x \in Byte, NEW T, StrC(g, t, T), Len(t.str) < MaxString,
           ~ ends_string(updated(t, x), x)
    PROVE  LET B == collected(updated(t, x), x)
           IN  /\ StrC(g, B, Append(T, x)) /\ SameRest(B, t) /\ B.obuf = t.obuf
               /\ B.str = Append(t.str, x)
<1>. DEFINE B == collected(updated(t, x), x)
            m == match_char(t, t.last_matched, x)
<1>1. /\ Linked(g, t, T) /\ t.update_at = 0 /\ t.str # <<>>
      /\ g.n + Len(t.str) = Len(T) /\ t.str = SubSeq(T, g.n + 1, Len(T))
      /\ SameDict(t, updated(g.d, t.str[1])) /\ t.last_matched >= FirstEntry
      /\ strings(t)[t.last_matched] = t.str /\ g.d.next_free \in {t.next_free, t.last_added}
  BY DEF StrC
<1>2. /\ Sound(t) /\ t \in CompType /\ Shape(t) /\ t.flushed_len = 0 /\ T \in Seq(Byte)
      /\ g.n \in Nat
  BY <1>1, CompShape DEF Linked, Sound, Closed, Viewed, Point
<1>3. updated(t, x) = t
  BY <1>1 DEF updated
<1>4. B = collected(t, x) /\ ~ ends_string(t, x)
  BY <1>3
<1>5. m # 0 /\ m # t.last_added
  BY <1>4 DEF ends_string
<1>6. /\ SameRest(B, t) /\ B.str = Append(t.str, x) /\ B.obuf = t.obuf
      /\ B.flushed_len = t.flushed_len /\ B.last_matched = m
      /\ B.parent = t.parent /\ B.ch = t.ch /\ B.next_free = t.next_free
      /\ B.update_at = t.update_at /\ B.last_added = t.last_added
  BY <1>2, <1>4, CollectedShape
<1>7. Sound(B) /\ B.update_at = 0
  BY <1>1, <1>2, <1>4, CollectedSound
<1>. HIDE DEF B
<1>8. t.last_matched \in Codeword /\ t.last_matched # 0 /\ DictType(t) /\ DictOK(t)
  <2>1. t.last_matched \in Codeword /\ DictType(t) /\ DictOK(t)
    BY <1>2, CompFields DEF Sound
  <2>2. t.last_matched # 0
    BY <1>1, Constant
  <2>. QED  BY <2>1, <2>2
<1>9. m # t.next_free /\ m \in FreeEntry
  BY <1>5, <1>8, MatchChar
<1>10. strings(t)[m] = Append(strings(t)[t.last_matched], x)
  BY <1>5, <1>8, MatchSpells
<1>. HIDE DEF m
<1>11. SameDict(t, B)
  BY <1>6 DEF SameDict
<1>12. strings(B)[B.last_matched] = B.str
  <2>1. strings(t) = strings(B)
    BY <1>8, <1>11, DictSame
  <2>. QED  BY <2>1, <1>1, <1>6, <1>10
<1>13. B.last_matched >= FirstEntry /\ B.last_matched # g.d.next_free
  <2>1. m >= FirstEntry
    BY <1>9, Constant DEF FreeEntry
  <2>. QED  BY <2>1, <1>1, <1>5, <1>6, <1>9
<1>14. g.d.next_free \in {B.next_free, B.last_added}
  BY <1>1, <1>6
<1>15. Linked(g, B, Append(T, x))
  BY <1>1, <1>2, <1>6, <1>7, LinkedGrow
<1>16. t.str \in Seq(Byte) /\ Len(t.str) \in Nat
  BY <1>2, CompFields
<1>17. /\ g.n + Len(B.str) = Len(Append(T, x))
       /\ B.str = SubSeq(Append(T, x), g.n + 1, Len(Append(T, x)))
  <2>. DEFINE n == g.n
              S == t.str
  <2>1. n \in Nat /\ S \in Seq(Byte) /\ n + Len(S) = Len(T) /\ S = SubSeq(T, n + 1, Len(T))
    BY <1>1, <1>2, <1>16
  <2>2. B.str = Append(S, x)
    BY <1>6
  <2>. HIDE DEF n, S
  <2>3. /\ n + Len(Append(S, x)) = Len(Append(T, x))
        /\ Append(S, x) = SubSeq(Append(T, x), n + 1, Len(Append(T, x)))
    BY <2>1, <1>2, TextEnd, ZenonT(60)
  <2>. QED  BY <2>2, <2>3 DEF n
<1>18. B.str # <<>> /\ B.str[1] = t.str[1] /\ Len(B.str) <= MaxString
  <2>1. Len(t.str) >= 1
    BY <1>1, <1>16
  <2>2. Len(B.str) = Len(t.str) + 1 /\ B.str[1] = t.str[1]
    BY <2>1, <1>6, <1>16
  <2>. QED  BY <2>1, <2>2, <1>16, Constant
<1>19. SameDict(B, updated(g.d, B.str[1]))
  BY <1>1, <1>11, <1>18 DEF SameDict
<1>20. StrC(g, B, Append(T, x))
  BY <1>7, <1>12, <1>13, <1>14, <1>15, <1>17, <1>18, <1>19 DEF StrC
<1>. QED  BY <1>6, <1>20 DEF B

(* The character is put into the string.                                   *)
LEMMA CollectC ==
    ASSUME NEW w, NEW t, NEW x \in Byte, NEW T, ReadyC(w, t, x, T)
    PROVE  LET B == collected(updated(t, x), x)
           IN  /\ HeldC(w, B, Append(T, x)) /\ B \in CompType /\ B.obuf = t.obuf
               /\ B.bit_len = t.bit_len /\ B.str = Append(t.str, x)
<1>. DEFINE B == collected(updated(t, x), x)
<1>1. PICK g : /\ Pending(w, t, g, T)
               /\ \/ MidC(g, t, x, T)
                  \/ /\ StrC(g, t, T) /\ Len(t.str) < MaxString
                     /\ ~ ends_string(updated(t, x), x)
  BY DEF ReadyC
<1>2. /\ StrC(g, B, Append(T, x)) /\ SameRest(B, t) /\ B.obuf = t.obuf
      /\ B.str = Append(t.str, x)
  <2>1. CASE MidC(g, t, x, T)
    BY <2>1, FirstC
  <2>2. CASE StrC(g, t, T) /\ Len(t.str) < MaxString /\ ~ ends_string(updated(t, x), x)
    BY <2>2, MoreC
  <2>. QED  BY <1>1, <2>1, <2>2
<1>. HIDE DEF B
<1>3. T \in Seq(Byte)
  BY <1>1 DEF MidC, SyncC, StrC, Linked, Closed
<1>4. Pending(w, t, g, Append(T, x))
  BY <1>1, <1>3, PendingGrow
<1>5. B.bit_len = t.bit_len /\ B.bit_data = t.bit_data
  BY <1>2 DEF SameRest
<1>6. Pending(w, B, g, Append(T, x))
  BY <1>4, <1>5, PendingSame
<1>7. HeldC(w, B, Append(T, x))
  BY <1>2, <1>6 DEF HeldC
<1>8. B \in CompType
  BY <1>2 DEF StrC, Linked, Sound
<1>. QED  BY <1>2, <1>5, <1>7, <1>8 DEF B

-----------------------------------------------------------------------------
(* The encoder is flushed.                                                 *)

(* z is c with nothing left in it; the decoder is led to v.                *)
FlushedT(c, z, w, T) ==
    /\ z \in CompType /\ z.str = <<>> /\ z.bit_len = 0
    /\ \E v : Emits(c, z, w, v, T, 0, 0) /\ RelT(v, z, T)

FlushedC(c, z, w, T, a) ==
    /\ z \in CompType /\ z.str = <<>> /\ z.bit_len = 0
    /\ \E v : Emits(c, z, w, v, T, a, 1) /\ RelC(v, z, T)

(* comp_flush_encoder in transparent mode sends the characters of the      *)
(* string.                                                                 *)
LEMMA FlushT ==
    ASSUME NEW w, NEW c, NEW T, RelT(w, c, T)
    PROVE  FlushedT(c, comp_flush_encoder(c), w, T)
<1>1. PICK F : Leads(w, c, F, T) /\ AtT(F, c, T)
  BY DEF RelT
<1>2. /\ Base(F, c, T) /\ Alike(F.d, c) /\ Sound(c) /\ Viewed(w)
      /\ c.mode = "TRANSPARENT" /\ c \in CompType /\ Shape(c) /\ c.bit_len = 0
  <2>1. Base(F, c, T) /\ Alike(F.d, c) /\ Viewed(w)
    BY <1>1 DEF AtT, Leads, Decodes
  <2>2. Sound(c) /\ c.mode = "TRANSPARENT" /\ c.bit_len = 0
    BY <2>1 DEF Base
  <2>. QED  BY <2>1, <2>2, CompShape DEF Sound
<1>. DEFINE s == send_data(c)
            z == comp_flush_encoder(c)
<1>3. CASE c.last_matched = 0
  <2>1. z = c
    BY <1>2, <1>3 DEF comp_flush_encoder
  <2>2. c.str = <<>>
    BY <1>1, <1>3 DEF AtT
  <2>3. Emits(c, c, w, w, T, 0, 0)
    BY <1>2, LoadType, EmitsNone
  <2>. HIDE DEF z
  <2>4. FlushedT(c, z, w, T)
    BY <2>1, <2>2, <2>3, <1>2 DEF FlushedT
  <2>. QED  BY <2>4 DEF z
<1>4. CASE c.last_matched # 0
  <2>1. c.update_at = 0
    BY <1>2, <1>4 DEF Sound
  <2>2. z = [s EXCEPT !.flushed_len = c.flushed_len + Len(c.str)]
    BY <2>1, <1>2, <1>4 DEF comp_flush_encoder
  <2>3. /\ Emits(c, s, w, F, T, 0, 0) /\ s \in CompType /\ Shape(s) /\ SentOff(c, s)
        /\ s.mode = "TRANSPARENT" /\ s.bit_len = 0 /\ s.bit_data = 0
        /\ s.cw_size = c.cw_size /\ s.escape_char = F.d.escape_char
    BY <1>1, <1>2, SentT
  <2>. HIDE DEF s, z
  <2>4. /\ z.mode = s.mode /\ z.cw_size = s.cw_size /\ z.bit_len = s.bit_len
        /\ z.bit_data = s.bit_data /\ z.escape_char = s.escape_char /\ z.str = s.str
        /\ z.obuf = s.obuf /\ z.flushed_len = c.flushed_len + Len(c.str)
        /\ z.update_at = s.update_at /\ z.last_matched = s.last_matched
        /\ z.last_added = s.last_added /\ z.parent = s.parent
        /\ z.ch = s.ch /\ z.next_free = s.next_free
    BY <2>2, <2>3 DEF Shape
  <2>5. c.flushed_len + Len(c.str) \in Nat /\ c.flushed_len \in Nat /\ Len(c.str) \in Nat
    BY <1>2, CompFields
  <2>6. z \in CompType
    BY <2>2, <2>3, <2>5 DEF CompType
  <2>7. /\ SameDict(c, z) /\ z.str = <<>> /\ z.update_at = c.update_at
        /\ z.last_matched = c.last_matched /\ z.last_added = c.last_added
        /\ z.next_free = c.next_free
    BY <2>3, <2>4 DEF SentOff, SameDict
  <2>8. Sound(z)
    <3>1. /\ c.update_at # c.next_free /\ c.last_matched # c.next_free
          /\ c.update_at # 0 => c.last_matched = 0
          /\ c.last_added = 0 \/ c.last_added \in FreeEntry
      BY <1>2 DEF Sound
    <3>. QED  BY <3>1, <1>2, <2>6, <2>7, SoundSame
  <2>9. Base(F, z, T) /\ Leads(F, z, F, T)
    BY <1>2, <2>3, <2>4, <2>7, <2>8, BaseSent
  <2>10. Emits(c, z, w, F, T, 0, 0)
    BY <2>3, <2>4, EmitsSame
  <2>11. Alike(F.d, z)
    <3>1. Len(z.str) + z.flushed_len = Len(c.str) + c.flushed_len
      <4>1. Len(z.str) = 0
        BY <2>7
      <4>. QED  BY <4>1, <2>4, <2>5
    <3>. QED  BY <3>1, <1>2, <2>7 DEF Alike, SameDict
  <2>12. RelT(F, z, T)
    BY <1>4, <2>7, <2>9, <2>11 DEF RelT, AtT
  <2>13. FlushedT(c, z, w, T)
    BY <2>3, <2>4, <2>6, <2>7, <2>10, <2>12 DEF FlushedT
  <2>. QED  BY <2>13 DEF z
<1>. QED  BY <1>3, <1>4

(* The codeword FLUSH, sent when there is no string.                       *)
LEMMA FlushAligned ==
    ASSUME NEW w, NEW f, NEW g, NEW T, Pending(w, f, g, T), SyncC(g, f, T),
           g.d.update_at = f.update_at
    PROVE  FlushedC(f, send_aligned(f, CCW_FLUSH), w, T, 0)
<1>. DEFINE z == send_aligned(f, CCW_FLUSH)
<1>1. /\ Closed(g, T) /\ Sound(f) /\ f.cw_size = g.d.cw_size /\ Narrow(f.cw_size)
      /\ f.mode = "COMPRESSED"
      /\ f.escape_char = g.d.escape_char /\ f.flushed_len = 0 /\ f.str = <<>>
      /\ f.last_matched = 0 /\ SameDict(g.d, f) /\ g.n = Len(T)
  BY DEF SyncC, Linked
<1>2. f \in CompType /\ T \in Seq(Byte) /\ CharSize < f.cw_size /\ Shape(f)
  BY <1>1, CompShape DEF Sound, Closed
<1>3. Word(g, CCW_FLUSH, g, T)
  BY <1>1, FlushWord
<1>4. PICK s \in Seq(Byte) :
              /\ z = Put(f, s, 0, 0) /\ Decodes(w, s, g, T)
              /\ Viewed(g) /\ g.d.bit_len = 0 /\ g.d.bit_data = 0
              /\ CharSize * Len(s) <= f.bit_len + f.cw_size + CharSize
  BY <1>1, <1>2, <1>3, SendAligned
<1>5. /\ z.mode = f.mode /\ z.cw_size = f.cw_size
      /\ z.bit_len = 0 /\ z.bit_data = 0
      /\ z.last_matched = f.last_matched /\ z.last_added = f.last_added
      /\ z.escape_char = f.escape_char /\ z.str = f.str /\ z.obuf = f.obuf \o s
      /\ z.flushed_len = f.flushed_len /\ z.update_at = f.update_at
      /\ z.parent = f.parent /\ z.ch = f.ch /\ z.next_free = f.next_free
  BY <1>2, <1>4, PutShape
<1>6. z \in CompType
  <2>1. f.obuf \o s \in Seq(Byte)
    BY <1>2, CompFields
  <2>. HIDE DEF z
  <2>. QED  BY <1>2, <1>4, <2>1 DEF Put, CompType
<1>. HIDE DEF z
<1>7. SameDict(f, z)
  BY <1>5 DEF SameDict
<1>8. Sound(z)
  <2>1. /\ f.update_at # f.next_free /\ f.last_matched # f.next_free
        /\ f.update_at # 0 => f.last_matched = 0
        /\ f.last_added = 0 \/ f.last_added \in FreeEntry
    BY <1>1 DEF Sound
  <2>. QED  BY <2>1, <1>1, <1>5, <1>6, <1>7, SoundSame
<1>9. SyncC(g, z, T)
  <2>1. SameDict(g.d, z)
    BY <1>1, <1>7 DEF SameDict
  <2>. QED  BY <2>1, <1>1, <1>5, <1>8 DEF SyncC, Linked
<1>10. Pending(g, z, g, T)
  BY <1>4, <1>5, Constant DEF Pending
<1>11. RelC(g, z, T)
  BY <1>5, <1>9, <1>10 DEF RelC, AtC
<1>12. z.str = <<>>
  BY <1>1, <1>5
<1>13. Bound(f, z, s, 0, 1)
  BY <1>1, <1>2, <1>4, <1>5, <1>6, <1>12, AlignedBound
<1>14. Emits(f, z, w, g, T, 0, 1)
  BY <1>4, <1>5, <1>13 DEF Emits
<1>15. FlushedC(f, z, w, T, 0)
  BY <1>5, <1>6, <1>11, <1>12, <1>14 DEF FlushedC
<1>. QED  BY <1>15 DEF z

(* comp_flush_encoder in compressed mode sends the string's codeword and   *)
(* FLUSH, and leaves no bits.                                              *)
LEMMA FlushC ==
    ASSUME NEW w, NEW c, NEW T, RelC(w, c, T)
    PROVE  FlushedC(c, comp_flush_encoder(c), w, T, 1)
<1>1. PICK g : Pending(w, c, g, T) /\ AtC(g, c, T)
  BY DEF RelC
<1>2. Sound(c) /\ c.mode = "COMPRESSED"
  BY <1>1 DEF AtC, StrC, SyncC, Linked
<1>3. c \in CompType /\ Shape(c) /\ Viewed(w)
  BY <1>1, <1>2, CompShape, PendingViewed DEF Sound
<1>. DEFINE s == send_data(c)
            d == IF c.last_matched = 0 THEN c
                 ELSE [s EXCEPT !.flushed_len = c.flushed_len + Len(c.str)]
            f == [d EXCEPT !.update_at = c.last_matched, !.last_matched = 0, !.flushed_len = 0]
            z == comp_flush_encoder(c)
<1>4. Emits(c, c, w, w, T, 0, 0)
  BY <1>3, LoadType, EmitsNone
<1>5. CASE c.update_at # 0
  <2>1. z = c
    BY <1>5 DEF comp_flush_encoder
  <2>2. SyncC(g, c, T) /\ c.bit_len = 0 /\ c.str = <<>>
    BY <1>1, <1>5 DEF AtC, StrC, SyncC
  <2>3. Emits(c, c, w, w, T, 1, 1)
    BY <1>3, <1>4, EmitsMore
  <2>. HIDE DEF z
  <2>4. FlushedC(c, z, w, T, 1)
    BY <2>1, <2>2, <2>3, <1>3 DEF FlushedC
  <2>. QED  BY <2>4 DEF z
<1>6. CASE c.update_at = 0
  <2>1. z = send_aligned(f, CCW_FLUSH)
    BY <1>2, <1>6 DEF comp_flush_encoder
  <2>2. \E v, h : /\ Emits(c, f, w, v, T, 1, 0) /\ Pending(v, f, h, T) /\ SyncC(h, f, T)
                  /\ h.d.update_at = f.update_at
    <3>1. CASE c.last_matched = 0
      <4>1. ~ StrC(g, c, T)
        <5>1. ~ (c.last_matched >= FirstEntry)
          BY <3>1, Constant
        <5>. QED  BY <5>1 DEF StrC
      <4>2. SyncC(g, c, T) /\ g.d.update_at = c.update_at
        BY <4>1, <1>1 DEF AtC
      <4>3. c.flushed_len = 0
        BY <4>2 DEF SyncC, Linked
      <4>4. f = c
        <5>1. f = [c EXCEPT !.update_at = c.last_matched, !.last_matched = 0, !.flushed_len = 0]
          BY <3>1
        <5>. HIDE DEF f
        <5>. QED  BY <5>1, <3>1, <4>3, <1>3, <1>6 DEF CompType
      <4>5. Emits(c, c, w, w, T, 1, 0)
        BY <1>3, <1>4, EmitsMore
      <4>. HIDE DEF f
      <4>. QED  BY <4>2, <4>4, <4>5, <1>1
    <3>2. CASE c.last_matched # 0
      <4>1. f = [[s EXCEPT !.flushed_len = c.flushed_len + Len(c.str)]
                    EXCEPT !.update_at = c.last_matched, !.last_matched = 0, !.flushed_len = 0]
        BY <3>2
      <4>2. StrC(g, c, T) /\ Len(c.str) < MaxString
        BY <3>2, <1>1 DEF AtC, SyncC
      <4>3. s \in CompType /\ Shape(s) /\ SentOff(c, s) /\ s.mode = "COMPRESSED"
        BY <1>1, <4>2, SentC
      <4>4. PICK v, h : After(w, c, s, v, h, T)
        BY <1>1, <4>2, SentC
      <4>. HIDE DEF s, d, f
      <4>5. /\ f.mode = s.mode /\ f.escape = s.escape /\ f.err = s.err
            /\ f.cw_size = s.cw_size /\ f.bit_len = s.bit_len
            /\ f.bit_data = s.bit_data /\ f.escape_char = s.escape_char /\ f.str = s.str
            /\ f.obuf = s.obuf /\ f.flushed_len = 0 /\ f.update_at = c.last_matched
            /\ f.last_matched = 0 /\ f.last_added = s.last_added /\ f.parent = s.parent
            /\ f.ch = s.ch /\ f.next_free = s.next_free
        BY <4>1, <4>3 DEF Shape
      <4>6. f \in CompType
        <5>1. c.last_matched \in Codeword /\ 0 \in Codeword
          BY <1>3, CompFields, Commands
        <5>. QED  BY <4>1, <4>3, <5>1 DEF CompType
      <4>7. SameDict(c, f) /\ f.str = <<>>
        BY <4>3, <4>5 DEF SentOff, SameDict
      <4>8. Sound(f)
        <5>1. c.last_matched # c.next_free /\ c.next_free # 0
          BY <1>2, <1>3, CompFields, Commands DEF Sound
        <5>2. f.next_free = c.next_free /\ f.last_added = c.last_added
          BY <4>3, <4>5 DEF SentOff
        <5>3. c.last_added = 0 \/ c.last_added \in FreeEntry
          BY <1>2 DEF Sound
        <5>. QED  BY <1>2, <4>5, <4>6, <4>7, <5>1, <5>2, <5>3, SoundSame
      <4>9. SameRest(f, s)
        BY <4>5 DEF SameRest
      <4>10. SyncC(h, f, T) /\ Pending(v, f, h, T) /\ Emits(c, f, w, v, T, 1, 0)
        BY <4>3, <4>4, <4>5, <4>7, <4>8, <4>9, SyncOf
      <4>11. h.d.update_at = c.last_matched
        <5>1. Len(c.str) # MaxString
          <6>1. Len(c.str) \in Nat /\ MaxString \in Nat
            BY <1>3, CompFields, Constant
          <6>. QED  BY <6>1, <4>2
        <5>. QED  BY <5>1, <4>4 DEF After
      <4>. QED  BY <4>5, <4>10, <4>11
    <3>. QED  BY <3>1, <3>2
  <2>. HIDE DEF f, z
  <2>3. PICK v, h : /\ Emits(c, f, w, v, T, 1, 0) /\ Pending(v, f, h, T) /\ SyncC(h, f, T)
                    /\ h.d.update_at = f.update_at
    BY <2>2
  <2>4. FlushedC(f, z, v, T, 0)
    BY <2>1, <2>3, FlushAligned
  <2>5. /\ z \in CompType /\ z.str = <<>> /\ z.bit_len = 0
        /\ \E u : Emits(f, z, v, u, T, 0, 1) /\ RelC(u, z, T)
    BY <2>4 DEF FlushedC
  <2>6. PICK u : Emits(f, z, v, u, T, 0, 1) /\ RelC(u, z, T)
    BY <2>5
  <2>7. f \in CompType
    BY <2>3 DEF SyncC, Linked, Sound
  <2>8. Emits(c, z, w, u, T, 1 + 0, 0 + 1)
    BY <1>3, <2>3, <2>5, <2>6, <2>7, EmitsJoin
  <2>9. Emits(c, z, w, u, T, 1, 1)
    BY <2>8
  <2>10. FlushedC(c, z, w, T, 1)
    BY <2>5, <2>6, <2>9 DEF FlushedC
  <2>. QED  BY <2>10 DEF z
<1>. QED  BY <1>5, <1>6

-----------------------------------------------------------------------------
(* The encoder, in either mode.                                            *)

(* The bytes sent lead the decoder to w, where it follows the encoder c on *)
(* the text T: between two characters, ...                                 *)
Rel(w, c, T) == RelT(w, c, T) \/ RelC(w, c, T)

(* ... when the string that x ends has been dealt with, ...                *)
Ready(w, t, x, T) == ReadyT(w, t, x, T) \/ ReadyC(w, t, x, T)

(* ... and with the last character in the string.                          *)
Held(w, c, T) == HeldT(w, c, T) \/ HeldC(w, c, T)

(* What is known of the encoder between two characters.                    *)
LEMMA RelFacts ==
    ASSUME NEW w, NEW c, NEW T, Rel(w, c, T)
    PROVE  /\ c \in CompType /\ Sound(c) /\ Viewed(w) /\ T \in Seq(Byte)
           /\ c.bit_len < CharSize /\ Len(c.str) < MaxString
<1>1. CASE RelT(w, c, T)
  <2>1. PICK F : Leads(w, c, F, T) /\ AtT(F, c, T)
    BY <1>1 DEF RelT
  <2>2. /\ Base(F, c, T) /\ Alike(F.d, c) /\ Viewed(w)
    BY <2>1 DEF AtT, Leads, Decodes
  <2>3. /\ Sound(c) /\ c.bit_len = 0 /\ F.d.flushed_len < MaxString /\ F.d.str = <<>>
        /\ T \in Seq(Byte) /\ F.d \in CompType
    BY <2>2 DEF Base, Open, Viewed, Point
  <2>4. c \in CompType /\ Len(c.str) \in Nat /\ c.flushed_len \in Nat /\ F.d.flushed_len \in Nat
    BY <2>3, CompFields DEF Sound
  <2>5. Len(F.d.str) + F.d.flushed_len = Len(c.str) + c.flushed_len
    BY <2>2 DEF Alike
  <2>6. Len(F.d.str) = 0
    BY <2>3
  <2>7. Len(c.str) < MaxString
    BY <2>3, <2>4, <2>5, <2>6, Constant
  <2>8. c.bit_len < CharSize
    BY <2>3, Constant
  <2>. QED  BY <2>2, <2>3, <2>4, <2>7, <2>8
<1>2. CASE RelC(w, c, T)
  <2>1. PICK g : Pending(w, c, g, T) /\ AtC(g, c, T)
    BY <1>2 DEF RelC
  <2>2. Viewed(w) /\ c.bit_len < CharSize
    BY <2>1, PendingViewed DEF Pending
  <2>3. Linked(g, c, T)
    BY <2>1 DEF AtC, StrC, SyncC
  <2>4. Sound(c) /\ T \in Seq(Byte) /\ c \in CompType
    BY <2>3 DEF Linked, Closed, Sound
  <2>5. Len(c.str) < MaxString
    <3>1. CASE c.str = <<>>
      <4>1. Len(c.str) = 0
        BY <3>1
      <4>. QED  BY <4>1, Constant
    <3>2. CASE c.str # <<>>
      BY <3>2, <2>1 DEF AtC, SyncC
    <3>. QED  BY <3>1, <3>2
  <2>. QED  BY <2>2, <2>4, <2>5
<1>. QED  BY <1>1, <1>2 DEF Rel

(* test_mode that finds no reason to change the mode does nothing.         *)
LEMMA TestModeOff ==
    ASSUME NEW c
    PROVE  test_mode(c, FALSE) = c
BY DEF test_mode

(* z follows c, the decoder being led from w.                              *)
Follows(c, z, w, T, a, b) ==
    z \in CompType /\ \E v : Emits(c, z, w, v, T, a, b) /\ Rel(v, z, T)

(* The mode changes, or not, between two characters.                       *)
LEMMA TestModeRel ==
    ASSUME NEW w, NEW c, NEW T, Rel(w, c, T), c.update_at = 0, NEW sw \in BOOLEAN
    PROVE  Follows(c, test_mode(c, sw), w, T, 1, 1)
<1>1. c \in CompType /\ Viewed(w)
  BY RelFacts
<1>. DEFINE z == test_mode(c, sw)
<1>2. CASE sw = FALSE
  <2>1. z = c
    BY <1>2, TestModeOff
  <2>2. Emits(c, c, w, w, T, 0, 0)
    BY <1>1, LoadType, EmitsNone
  <2>3. Emits(c, c, w, w, T, 1, 1)
    BY <1>1, <2>2, EmitsMore
  <2>. HIDE DEF z
  <2>4. Follows(c, z, w, T, 1, 1)
    BY <2>1, <2>3, <1>1 DEF Follows
  <2>. QED  BY <2>4 DEF z
<1>3. CASE sw = TRUE
  <2>1. z = test_mode(c, TRUE)
    BY <1>3
  <2>2. CASE RelT(w, c, T)
    <3>1. z \in CompType /\ \E v : Emits(c, z, w, v, T, 0, 1) /\ RelC(v, z, T)
      BY <2>1, <2>2, SwitchT
    <3>. HIDE DEF z
    <3>2. PICK v : Emits(c, z, w, v, T, 0, 1) /\ RelC(v, z, T)
      BY <3>1
    <3>3. Emits(c, z, w, v, T, 1, 1)
      BY <3>1, <3>2, <1>1, EmitsMore
    <3>4. Follows(c, z, w, T, 1, 1)
      BY <3>1, <3>2, <3>3 DEF Follows, Rel
    <3>. QED  BY <3>4 DEF z
  <2>3. CASE RelC(w, c, T)
    <3>1. z \in CompType /\ \E v : Emits(c, z, w, v, T, 1, 1) /\ RelT(v, z, T)
      BY <2>1, <2>3, SwitchC
    <3>. HIDE DEF z
    <3>2. Follows(c, z, w, T, 1, 1)
      BY <3>1 DEF Follows, Rel
    <3>. QED  BY <3>2 DEF z
  <2>. QED  BY <2>2, <2>3 DEF Rel
<1>. QED  BY <1>2, <1>3

(* A string of full length is sent, in either mode.                        *)
LEMMA FullRel ==
    ASSUME NEW w, NEW c, NEW T, Held(w, c, T), c \in CompType
    PROVE  /\ Follows(c, string_full(c, send_data(c)), w, T, 1, 0)
           /\ string_full(c, send_data(c)).update_at = 0
<1>. DEFINE z == string_full(c, send_data(c))
<1>1. CASE HeldT(w, c, T)
  <2>1. z \in CompType /\ z.update_at = 0 /\ \E v : Emits(c, z, w, v, T, 0, 0) /\ RelT(v, z, T)
    BY <1>1, FullT
  <2>. HIDE DEF z
  <2>2. PICK v : Emits(c, z, w, v, T, 0, 0) /\ RelT(v, z, T)
    BY <2>1
  <2>3. Emits(c, z, w, v, T, 1, 0)
    BY <2>1, <2>2, EmitsMore
  <2>4. Follows(c, z, w, T, 1, 0)
    BY <2>1, <2>2, <2>3 DEF Follows, Rel
  <2>. QED  BY <2>1, <2>4 DEF z
<1>2. CASE HeldC(w, c, T)
  <2>1. z \in CompType /\ z.update_at = 0 /\ \E v : Emits(c, z, w, v, T, 1, 0) /\ RelC(v, z, T)
    BY <1>2, FullC
  <2>. HIDE DEF z
  <2>2. Follows(c, z, w, T, 1, 0)
    BY <2>1 DEF Follows, Rel
  <2>. QED  BY <2>1, <2>2 DEF z
<1>. QED  BY <1>1, <1>2 DEF Held

(* The character is put into the string, in either mode.                   *)
LEMMA CollectRel ==
    ASSUME NEW w, NEW t, NEW x \in Byte, NEW T, Ready(w, t, x, T)
    PROVE  LET B == collected(updated(t, x), x)
           IN  /\ Held(w, B, Append(T, x)) /\ B \in CompType /\ B.obuf = t.obuf
               /\ B.bit_len = t.bit_len /\ B.str = Append(t.str, x)
<1>1. CASE ReadyT(w, t, x, T)
  BY <1>1, CollectT DEF Held
<1>2. CASE ReadyC(w, t, x, T)
  BY <1>2, CollectC DEF Held
<1>. QED  BY <1>1, <1>2 DEF Ready

(* The character x, before it is taken in.                                 *)
prepared(c, x, sw) ==
    LET u == updated(c, x)
    IN  IF ends_string(u, x) THEN test_mode(string_ended(u, x, send_data(u)), sw) ELSE c

(* The string that the character ends is sent, and the mode may change.    *)
LEMMA PreparedRel ==
    ASSUME NEW w, NEW c, NEW T, Rel(w, c, T), NEW x \in Byte, NEW sw \in BOOLEAN
    PROVE  LET t == prepared(c, x, sw)
           IN  t \in CompType /\ \E v : Emits(c, t, w, v, T, 1, 1) /\ Ready(v, t, x, T)
<1>1. c \in CompType /\ Viewed(w) /\ Sound(c)
  BY RelFacts
<1>. DEFINE t == prepared(c, x, sw)
<1>2. CASE ~ ends_string(updated(c, x), x)
  <2>1. t = c
    BY <1>2 DEF prepared
  <2>2. Emits(c, c, w, w, T, 0, 0)
    BY <1>1, LoadType, EmitsNone
  <2>3. Emits(c, c, w, w, T, 1, 1)
    BY <1>1, <2>2, EmitsMore
  <2>4. Ready(w, c, x, T)
    BY <1>2, ReadyNowT, ReadyNowC DEF Rel, Ready
  <2>. HIDE DEF t
  <2>5. t \in CompType /\ \E v : Emits(c, t, w, v, T, 1, 1) /\ Ready(v, t, x, T)
    BY <2>1, <2>3, <2>4, <1>1
  <2>. QED  BY <2>5 DEF t
<1>3. CASE ends_string(updated(c, x), x)
  <2>. DEFINE e == string_ended(c, x, send_data(c))
  <2>1. updated(c, x) = c
    BY <1>1, <1>3, EndsLate
  <2>2. t = test_mode(e, sw)
    BY <1>3, <2>1 DEF prepared
  <2>3. CASE sw = FALSE
    <3>1. t = e
      BY <2>2, <2>3, TestModeOff
    <3>2. CASE RelT(w, c, T)
      <4>1. e \in CompType /\ \E v : Emits(c, e, w, v, T, 0, 0) /\ ReadyT(v, e, x, T)
        BY <3>2, <1>3, ReadyEndT
      <4>. HIDE DEF e, t
      <4>2. PICK v : Emits(c, e, w, v, T, 0, 0) /\ ReadyT(v, e, x, T)
        BY <4>1
      <4>3. Emits(c, e, w, v, T, 1, 1)
        BY <4>1, <4>2, <1>1, EmitsMore
      <4>4. t \in CompType /\ \E r : Emits(c, t, w, r, T, 1, 1) /\ Ready(r, t, x, T)
        BY <3>1, <4>1, <4>2, <4>3 DEF Ready
      <4>. QED  BY <4>4 DEF t
    <3>3. CASE RelC(w, c, T)
      <4>1. e \in CompType /\ \E v : Emits(c, e, w, v, T, 1, 0) /\ ReadyC(v, e, x, T)
        BY <3>3, <1>3, ReadyEndC
      <4>. HIDE DEF e, t
      <4>2. PICK v : Emits(c, e, w, v, T, 1, 0) /\ ReadyC(v, e, x, T)
        BY <4>1
      <4>3. Emits(c, e, w, v, T, 1, 1)
        BY <4>1, <4>2, <1>1, EmitsMore
      <4>4. t \in CompType /\ \E r : Emits(c, t, w, r, T, 1, 1) /\ Ready(r, t, x, T)
        BY <3>1, <4>1, <4>2, <4>3 DEF Ready
      <4>. QED  BY <4>4 DEF t
    <3>. QED  BY <3>2, <3>3 DEF Rel
  <2>4. CASE sw = TRUE
    <3>1. t = test_mode(e, TRUE)
      BY <2>2, <2>4
    <3>2. CASE RelT(w, c, T)
      <4>1. t \in CompType /\ \E v : Emits(c, t, w, v, T, 0, 1) /\ ReadyC(v, t, x, T)
        BY <3>1, <3>2, <1>3, EndsSwitchT
      <4>. HIDE DEF e, t
      <4>2. PICK v : Emits(c, t, w, v, T, 0, 1) /\ ReadyC(v, t, x, T)
        BY <4>1
      <4>3. Emits(c, t, w, v, T, 1, 1)
        BY <4>1, <4>2, <1>1, EmitsMore
      <4>4. t \in CompType /\ \E r : Emits(c, t, w, r, T, 1, 1) /\ Ready(r, t, x, T)
        BY <4>1, <4>2, <4>3 DEF Ready
      <4>. QED  BY <4>4 DEF t
    <3>3. CASE RelC(w, c, T)
      <4>1. t \in CompType /\ \E v : Emits(c, t, w, v, T, 1, 1) /\ ReadyT(v, t, x, T)
        BY <3>1, <3>3, <1>3, EndsSwitchC
      <4>. HIDE DEF e, t
      <4>4. t \in CompType /\ \E r : Emits(c, t, w, r, T, 1, 1) /\ Ready(r, t, x, T)
        BY <4>1 DEF Ready
      <4>. QED  BY <4>4 DEF t
    <3>. QED  BY <3>2, <3>3 DEF Rel
  <2>. QED  BY <2>3, <2>4
<1>. QED  BY <1>2, <1>3

(* comp_encode: the string that the character ends, the character, a full  *)
(* string, the mode.                                                       *)
LEMMA EncodeStages ==
    ASSUME NEW c, NEW x, NEW sw
    PROVE  LET B == collected(updated(prepared(c, x, sw[1]), x), x)
           IN  comp_encode(c, x, sw) = test_mode(string_full(B, send_data(B)), sw[2])
BY DEF comp_encode, prepared

(* At most so many bits come from one character, or from a flush.          *)
EncodeBits(W) ==
    CharSize + (2 * (CharSize * MaxString)) + (3 * StringBits(W)) + (2 * SwitchBits(W))

(* The encoder goes from c to z, from the text T to U, by the bytes q.     *)
Encodes(c, z, w, v, q, U) ==
    /\ z \in CompType /\ q \in Seq(Byte) /\ z.obuf = c.obuf \o q
    /\ Decodes(w, q, v, U) /\ Rel(v, z, U)
    /\ \A W : Wide(W) => CharSize * Len(q) <= EncodeBits(W)

(* The load of an encoder between two characters is bounded.               *)
LEMMA LoadLimit ==
    ASSUME NEW c \in CompType, c.bit_len < CharSize, Len(c.str) < MaxString
    PROVE  Load(c) + (2 * CharSize) <= CharSize + (2 * (CharSize * MaxString))
<1>. DEFINE n == Len(c.str)
<1>1. n \in Nat /\ c.bit_len \in Nat /\ n + 1 <= MaxString /\ MaxString \in Nat /\ CharSize \in Nat
  <2>1. n \in Nat /\ c.bit_len \in Nat
    BY CompFields
  <2>. QED  BY <2>1, Constant
<1>. DEFINE i == CharSize * n
            j == CharSize * (n + 1)
            k == CharSize * MaxString
<1>2. j = i + CharSize /\ i \in Nat
  BY <1>1, Times
<1>3. j <= k /\ k \in Nat
  BY <1>1
<1>4. Load(c) = c.bit_len + (2 * i)
  BY DEF Load
<1>. HIDE DEF n, i, j, k
<1>5. Load(c) + (2 * CharSize) <= CharSize + (2 * k)
  BY <1>1, <1>2, <1>3, <1>4
<1>. QED  BY <1>5 DEF k

(* A character more in the string.                                         *)
LEMMA LoadAppend ==
    ASSUME NEW t \in CompType, NEW x \in Byte, NEW B, B.bit_len = t.bit_len, B.str = Append(t.str, x)
    PROVE  Load(B) = Load(t) + (2 * CharSize) /\ Load(t) \in Nat
<1>. DEFINE n == Len(t.str)
<1>1. n \in Nat /\ t.bit_len \in Nat /\ Len(B.str) = n + 1 /\ CharSize \in Nat
  <2>1. t.str \in Seq(Byte) /\ t.bit_len \in Nat
    BY CompFields
  <2>. QED  BY <2>1, Constant
<1>. DEFINE i == CharSize * n
            j == CharSize * (n + 1)
<1>2. j = i + CharSize /\ i \in Nat
  BY <1>1, Times
<1>3. Load(t) = t.bit_len + (2 * i) /\ Load(B) = t.bit_len + (2 * j)
  BY <1>1 DEF Load
<1>. HIDE DEF n, i, j
<1>. QED  BY <1>1, <1>2, <1>3

(* comp_encode: the decoder is led to where it has the character too, or   *)
(* will have it with the string that is begun.                             *)
LEMMA Encode ==
    ASSUME NEW w, NEW c, NEW T, Rel(w, c, T), NEW x \in Byte, NEW sw \in [1 .. 2 -> BOOLEAN]
    PROVE  \E q, v : Encodes(c, comp_encode(c, x, sw), w, v, q, Append(T, x))
<1>. DEFINE U == Append(T, x)
            t == prepared(c, x, sw[1])
            B == collected(updated(t, x), x)
            z == string_full(B, send_data(B))
            y == test_mode(z, sw[2])
<1>1. sw[1] \in BOOLEAN /\ sw[2] \in BOOLEAN
  OBVIOUS
<1>2. /\ c \in CompType /\ T \in Seq(Byte) /\ c.bit_len < CharSize /\ Len(c.str) < MaxString
  BY RelFacts
<1>3. comp_encode(c, x, sw) = y
  BY EncodeStages
<1>4. t \in CompType /\ \E v : Emits(c, t, w, v, T, 1, 1) /\ Ready(v, t, x, T)
  BY <1>1, PreparedRel
<1>. HIDE DEF t
<1>5. PICK v1 : Emits(c, t, w, v1, T, 1, 1) /\ Ready(v1, t, x, T)
  BY <1>4
<1>6. /\ Held(v1, B, U) /\ B \in CompType /\ B.obuf = t.obuf
      /\ B.bit_len = t.bit_len /\ B.str = Append(t.str, x)
  BY <1>5, CollectRel
<1>. HIDE DEF B, U
<1>7. Follows(B, z, v1, U, 1, 0) /\ z.update_at = 0
  BY <1>6, FullRel
<1>. HIDE DEF z
<1>8. z \in CompType /\ \E v : Emits(B, z, v1, v, U, 1, 0) /\ Rel(v, z, U)
  BY <1>7 DEF Follows
<1>9. PICK v2 : Emits(B, z, v1, v2, U, 1, 0) /\ Rel(v2, z, U)
  BY <1>8
<1>10. Follows(z, y, v2, U, 1, 1)
  BY <1>1, <1>7, <1>9, TestModeRel
<1>. HIDE DEF y
<1>11. y \in CompType /\ \E v : Emits(z, y, v2, v, U, 1, 1) /\ Rel(v, y, U)
  BY <1>10 DEF Follows
<1>12. PICK v3 : Emits(z, y, v2, v3, U, 1, 1) /\ Rel(v3, y, U)
  BY <1>11
<1>13. Emits(B, y, v1, v3, U, 2, 1)
  <2>1. Emits(B, y, v1, v3, U, 1 + 1, 0 + 1)
    BY <1>6, <1>8, <1>9, <1>11, <1>12, EmitsJoin
  <2>. QED  BY <2>1
<1>14. PICK q1 \in Seq(Byte) :
          t.obuf = c.obuf \o q1 /\ Decodes(w, q1, v1, T) /\ Bound(c, t, q1, 1, 1)
  BY <1>5 DEF Emits
<1>15. PICK q2 \in Seq(Byte) :
          y.obuf = B.obuf \o q2 /\ Decodes(v1, q2, v3, U) /\ Bound(B, y, q2, 2, 1)
  BY <1>13 DEF Emits
<1>16. Decodes(w, q1, v1, U)
  BY <1>2, <1>14, DecodesGrow DEF U
<1>. DEFINE q == q1 \o q2
<1>17. q \in Seq(Byte) /\ Len(q) = Len(q1) + Len(q2)
  BY ConcatProperties
<1>18. Decodes(w, q, v3, U)
  BY <1>15, <1>16, DecodesJoin
<1>19. y.obuf = c.obuf \o q
  <2>1. c.obuf \in Seq(Byte)
    BY <1>2, CompFields
  <2>2. y.obuf = (c.obuf \o q1) \o q2
    BY <1>6, <1>14, <1>15
  <2>. DEFINE o == c.obuf
  <2>3. o \in Seq(Byte)
    BY <2>1
  <2>. HIDE DEF o
  <2>4. (o \o q1) \o q2 = o \o (q1 \o q2)
    BY <2>3
  <2>. QED  BY <2>2, <2>4 DEF o
<1>. HIDE DEF q
<1>20. ASSUME NEW W, Wide(W) PROVE CharSize * Len(q) <= EncodeBits(W)
  <2>1. W \in Nat /\ CharSize \in Nat
    BY <1>20, Constant DEF Wide
  <2>. DEFINE i == StringBits(W)
              j == SwitchBits(W)
              k1 == CharSize * Len(q1)
              k2 == CharSize * Len(q2)
              k == CharSize * Len(q)
              m == CharSize * MaxString
  <2>2. i \in Int /\ j \in Int
    BY <2>1 DEF StringBits, SwitchBits
  <2>3. k1 + Load(t) <= Load(c) + (1 * i) + (1 * j)
    BY <1>14, <1>20 DEF Bound
  <2>4. k2 + Load(y) <= Load(B) + (2 * i) + (1 * j)
    BY <1>15, <1>20 DEF Bound
  <2>5. k = k1 + k2 /\ k1 \in Nat /\ k2 \in Nat
    <3>. DEFINE a == Len(q1)
                b == Len(q2)
    <3>1. a \in Nat /\ b \in Nat /\ Len(q) = a + b
      BY <1>17
    <3>. HIDE DEF a, b
    <3>2. CharSize * (a + b) = (CharSize * a) + (CharSize * b)
      BY <3>1, <2>1
    <3>3. CharSize * a \in Nat /\ CharSize * b \in Nat
      BY <3>1, Times
    <3>. QED  BY <3>1, <3>2, <3>3 DEF a, b
  <2>6. Load(B) = Load(t) + (2 * CharSize) /\ Load(t) \in Nat
    BY <1>4, <1>6, LoadAppend
  <2>7. Load(y) \in Nat /\ Load(c) \in Nat
    BY <1>2, <1>11, LoadType
  <2>8. Load(c) + (2 * CharSize) <= CharSize + (2 * m) /\ m \in Nat
    <3>1. m \in Nat
      BY Constant, Times
    <3>. QED  BY <3>1, <1>2, LoadLimit
  <2>. DEFINE a == Load(t)
              b == Load(c)
              d == Load(y)
              e == Load(B)
  <2>. HIDE DEF i, j, k, k1, k2, m, a, b, d, e
  <2>10. a \in Nat /\ b \in Nat /\ d \in Nat /\ e = a + (2 * CharSize)
    BY <2>6, <2>7 DEF a, b, d, e
  <2>11. k1 + a <= b + i + j
    BY <2>2, <2>3, <2>10 DEF a, b
  <2>12. k2 + d <= e + (2 * i) + j
    BY <2>2, <2>4, <2>10, <2>1 DEF d, e
  <2>13. k1 + k2 <= b + (2 * CharSize) + (3 * i) + (2 * j)
    BY <2>1, <2>2, <2>5, <2>10, <2>11, <2>12
  <2>9. k <= CharSize + (2 * m) + (3 * i) + (2 * j)
    BY <2>1, <2>2, <2>5, <2>8, <2>10, <2>13 DEF b
  <2>. QED  BY <2>9 DEF EncodeBits, i, j, k, m
<1>21. Encodes(c, y, w, v3, q, U)
  BY <1>11, <1>12, <1>17, <1>18, <1>19, <1>20 DEF Encodes
<1>. QED  BY <1>3, <1>21 DEF U

(* comp_flush_encoder leaves nothing in the encoder.                       *)
LEMMA Flush ==
    ASSUME NEW w, NEW c, NEW T, Rel(w, c, T)
    PROVE  LET z == comp_flush_encoder(c)
           IN  z.str = <<>> /\ z.bit_len = 0 /\ \E q, v : Encodes(c, z, w, v, q, T)
<1>. DEFINE z == comp_flush_encoder(c)
<1>2. /\ c \in CompType /\ T \in Seq(Byte) /\ c.bit_len < CharSize /\ Len(c.str) < MaxString
  BY RelFacts
<1>3. /\ z \in CompType /\ z.str = <<>> /\ z.bit_len = 0
      /\ \E v : Emits(c, z, w, v, T, 1, 1) /\ Rel(v, z, T)
  <2>1. CASE RelT(w, c, T)
    <3>1. FlushedT(c, z, w, T)
      BY <2>1, FlushT
    <3>. HIDE DEF z
    <3>2. /\ z \in CompType /\ z.str = <<>> /\ z.bit_len = 0
          /\ \E v : Emits(c, z, w, v, T, 0, 0) /\ RelT(v, z, T)
      BY <3>1 DEF FlushedT
    <3>3. PICK v : Emits(c, z, w, v, T, 0, 0) /\ RelT(v, z, T)
      BY <3>2
    <3>4. Emits(c, z, w, v, T, 1, 1)
      BY <3>2, <3>3, <1>2, EmitsMore
    <3>. QED  BY <3>2, <3>3, <3>4 DEF Rel
  <2>2. CASE RelC(w, c, T)
    <3>1. FlushedC(c, z, w, T, 1)
      BY <2>2, FlushC
    <3>. HIDE DEF z
    <3>. QED  BY <3>1 DEF FlushedC, Rel
  <2>. QED  BY <2>1, <2>2 DEF Rel
<1>. HIDE DEF z
<1>4. PICK v : Emits(c, z, w, v, T, 1, 1) /\ Rel(v, z, T)
  BY <1>3
<1>5. PICK q \in Seq(Byte) :
          z.obuf = c.obuf \o q /\ Decodes(w, q, v, T) /\ Bound(c, z, q, 1, 1)
  BY <1>4 DEF Emits
<1>6. ASSUME NEW W, Wide(W) PROVE CharSize * Len(q) <= EncodeBits(W)
  <2>1. W \in Nat /\ CharSize \in Nat
    BY <1>6, Constant DEF Wide
  <2>. DEFINE i == StringBits(W)
              j == SwitchBits(W)
              k == CharSize * Len(q)
              m == CharSize * MaxString
  <2>2. j \in Nat
    BY <2>1 DEF SwitchBits
  <2>3. k + Load(z) <= Load(c) + (1 * i) + (1 * j)
    BY <1>5, <1>6 DEF Bound
  <2>4. Load(z) \in Nat /\ Load(c) \in Nat
    BY <1>2, <1>3, LoadType
  <2>5. Load(c) + (2 * CharSize) <= CharSize + (2 * m) /\ m \in Nat
    <3>1. m \in Nat
      BY Constant, Times
    <3>. QED  BY <3>1, <1>2, LoadLimit
  <2>6. k \in Nat
    BY Times
  <2>7. i \in Nat
    <3>1. CharSize < c.cw_size /\ c.cw_size <= W /\ c.cw_size \in Nat
      <4>1. CharSize < c.cw_size /\ Narrow(c.cw_size)
        BY DEF Rel, RelT, AtT, Base, RelC, AtC, StrC, SyncC, Linked, Closed
      <4>2. c.cw_size <= W
        BY <4>1, <1>6 DEF Narrow
      <4>. QED  BY <4>1, <4>2, <1>2, CompFields
    <3>2. W - CharSize \in Nat
      BY <3>1, <2>1
    <3>. DEFINE a == W - CharSize
    <3>. HIDE DEF a
    <3>3. W * a \in Nat
      BY <3>2, <2>1 DEF a
    <3>. QED  BY <3>3 DEF StringBits, a
  <2>. HIDE DEF i, j, k, m
  <2>8. k <= CharSize + (2 * m) + (3 * i) + (2 * j)
    BY <2>1, <2>2, <2>3, <2>4, <2>5, <2>6, <2>7
  <2>. QED  BY <2>8 DEF EncodeBits, i, j, k, m
<1>7. Encodes(c, z, w, v, q, T)
  BY <1>3, <1>4, <1>5, <1>6 DEF Encodes
<1>. QED  BY <1>3, <1>7 DEF z

-----------------------------------------------------------------------------
(* Buffers.                                                                *)

(* A sequence is what is taken of it and what is left.                     *)
LEMMA TakenLeft ==
    ASSUME NEW s \in Seq(Byte), NEW n \in Nat, n <= Len(s)
    PROVE  /\ Taken(s, n) \in Seq(Byte) /\ Left(s, n) \in Seq(Byte)
           /\ Len(Taken(s, n)) = n /\ Len(Left(s, n)) = Len(s) - n
           /\ Taken(s, n) \o Left(s, n) = s
           /\ n = Len(s) => Taken(s, n) = s /\ Left(s, n) = <<>>
<1>. DEFINE a == Taken(s, n)
            b == Left(s, n)
            l == Len(s)
<1>1. l \in Nat /\ \A i \in 1 .. l : s[i] \in Byte
  OBVIOUS
<1>2. /\ a \in Seq(Byte) /\ Len(a) = n /\ \A i \in 1 .. n : a[i] = s[i]
  <2>1. \A i \in 1 .. n : s[i] \in Byte
    BY <1>1
  <2>2. /\ SubSeq(s, 1, n) \in Seq(Byte)
        /\ Len(SubSeq(s, 1, n)) = IF 1 <= n THEN n - 1 + 1 ELSE 0
        /\ \A i \in 1 .. n - 1 + 1 : SubSeq(s, 1, n)[i] = s[1 + i - 1]
    BY <2>1, SubSeqProperties
  <2>. QED  BY <2>2 DEF Taken
<1>3. /\ b \in Seq(Byte) /\ Len(b) = l - n /\ \A i \in 1 .. l - n : b[i] = s[n + i]
  <2>1. \A i \in (n + 1) .. l : s[i] \in Byte
    BY <1>1
  <2>. DEFINE m == n + 1
  <2>2. m \in Int /\ l \in Int /\ \A i \in m .. l : s[i] \in Byte
    BY <2>1, <1>1
  <2>. HIDE DEF m, l
  <2>3. /\ SubSeq(s, m, l) \in Seq(Byte)
        /\ Len(SubSeq(s, m, l)) = IF m <= l THEN l - m + 1 ELSE 0
        /\ \A i \in 1 .. l - m + 1 : SubSeq(s, m, l)[i] = s[m + i - 1]
    BY <2>2, SubSeqProperties
  <2>4. b = SubSeq(s, m, l)
    BY DEF Left, m, l
  <2>5. n <= l /\ l \in Nat
    BY <1>1 DEF l
  <2>6. l - m + 1 = l - n /\ (IF m <= l THEN l - m + 1 ELSE 0) = l - n
    BY <2>5 DEF m
  <2>. HIDE DEF b
  <2>7. b \in Seq(Byte) /\ Len(b) = l - n
    BY <2>3, <2>4, <2>6
  <2>8. ASSUME NEW i \in 1 .. l - n PROVE b[i] = s[n + i]
    <3>1. b[i] = s[m + i - 1]
      BY <2>3, <2>4, <2>6
    <3>2. m + i - 1 = n + i
      BY <2>5 DEF m
    <3>. QED  BY <3>1, <3>2
  <2>. QED  BY <2>7, <2>8 DEF l
<1>. HIDE DEF a, b
<1>4. /\ a \o b \in Seq(Byte) /\ Len(a \o b) = n + (l - n)
      /\ \A i \in 1 .. Len(a) + Len(b) : (a \o b)[i] = IF i <= Len(a) THEN a[i] ELSE b[i - Len(a)]
  BY <1>2, <1>3, ConcatProperties
<1>5. \A i \in 1 .. Len(a \o b) : (a \o b)[i] = s[i]
  <2>1. SUFFICES ASSUME NEW i \in 1 .. Len(a \o b) PROVE (a \o b)[i] = s[i]
    OBVIOUS
  <2>2. i \in 1 .. n + (l - n) /\ i \in 1 .. l
    BY <1>1, <1>4
  <2>3. (a \o b)[i] = IF i <= n THEN a[i] ELSE b[i - n]
    BY <1>2, <1>3, <1>4, <2>2
  <2>4. CASE i <= n
    BY <2>2, <2>3, <2>4, <1>2
  <2>5. CASE ~ (i <= n)
    <3>. DEFINE j == i - n
    <3>1. j \in 1 .. l - n /\ n + j = i
      BY <2>2, <2>5, <1>1
    <3>. HIDE DEF j
    <3>2. b[j] = s[i]
      BY <3>1, <1>3
    <3>. QED  BY <3>2, <2>3, <2>5 DEF j
  <2>. QED  BY <2>4, <2>5
<1>6. Len(a \o b) = Len(s)
  BY <1>1, <1>4
<1>7. a \o b = s
  BY <1>4, <1>5, <1>6, SeqEqual
<1>8. n = Len(s) => a = s /\ b = <<>>
  <2>1. SUFFICES ASSUME n = Len(s) PROVE a = s /\ b = <<>>
    OBVIOUS
  <2>2. Len(b) = 0
    BY <2>1, <1>1, <1>3
  <2>3. b = <<>>
    BY <2>2, <1>3
  <2>. QED  BY <2>3, <1>2, <1>7
<1>. QED  BY <1>2, <1>3, <1>7, <1>8 DEF a, b, l

(* comp.buf.                                                               *)
OutType == [buf : [1 .. BufSize -> Byte], head : Nat, count : Nat]

(* What is in it is a part of it.                                          *)
Fits(p) == p \in OutType /\ p.head + p.count <= MaxString /\ (p.count = 0 => p.head = 0)

(* What the terminal takes is what lies in comp.buf from head on.          *)
LEMMA ShownType ==
    ASSUME NEW p, Fits(p), NEW k \in Nat, k <= p.count
    PROVE  /\ shown(p, k) \in Seq(Byte) /\ Len(shown(p, k)) = k
           /\ \A i \in 1 .. k : shown(p, k)[i] = p.buf[p.head + i]
           /\ \A i \in 1 .. k : p.head + i \in 1 .. BufSize
<1>1. /\ p.buf \in [1 .. BufSize -> Byte] /\ p.head \in Nat /\ p.count \in Nat
      /\ p.head + p.count <= MaxString /\ MaxString <= BufSize /\ BufSize \in Nat /\ MaxString \in Nat
  BY Constant DEF Fits, OutType
<1>. DEFINE m == p.head + 1
            n == p.head + k
            h == p.head
<1>2. m \in Int /\ n \in Int /\ n <= BufSize /\ m >= 1
  BY <1>1
<1>3. \A i \in m .. n : p.buf[i] \in Byte
  BY <1>1, <1>2
<1>. HIDE DEF m, n
<1>4. /\ SubSeq(p.buf, m, n) \in Seq(Byte)
      /\ Len(SubSeq(p.buf, m, n)) = IF m <= n THEN n - m + 1 ELSE 0
      /\ \A i \in 1 .. n - m + 1 : SubSeq(p.buf, m, n)[i] = p.buf[m + i - 1]
  BY <1>2, <1>3, SubSeqProperties
<1>5. n - m + 1 = k /\ (IF m <= n THEN n - m + 1 ELSE 0) = k
  BY <1>1 DEF m, n
<1>6. shown(p, k) = SubSeq(p.buf, m, n)
  BY DEF shown, m, n
<1>7. ASSUME NEW i \in 1 .. k PROVE shown(p, k)[i] = p.buf[p.head + i] /\ p.head + i \in 1 .. BufSize
  <2>1. shown(p, k)[i] = p.buf[m + i - 1]
    BY <1>4, <1>5, <1>6
  <2>2. m + i - 1 = p.head + i
    BY <1>1 DEF m
  <2>3. p.head + i \in 1 .. BufSize
    BY <1>1
  <2>. QED  BY <2>1, <2>2, <2>3
<1>. QED  BY <1>4, <1>5, <1>6, <1>7

(* The terminal takes k; the rest stays.                                   *)
LEMMA SendOutput ==
    ASSUME NEW p, Fits(p), NEW k \in 0 .. p.count
    PROVE  LET q == comp_send_output(p, k)
           IN  /\ Fits(q) /\ q.head + q.count <= p.head + p.count /\ q.count = p.count - k
               /\ shown(p, k) \in Seq(Byte)
               /\ shown(q, q.count) \in Seq(Byte)
               /\ shown(p, k) \o shown(q, q.count) = shown(p, p.count)
<1>. DEFINE q == comp_send_output(p, k)
            a == shown(p, k)
            b == shown(q, q.count)
            s == shown(p, p.count)
<1>1. /\ p.buf \in [1 .. BufSize -> Byte] /\ p.head \in Nat /\ p.count \in Nat
      /\ p.head + p.count <= MaxString /\ MaxString \in Nat /\ k \in Nat /\ k <= p.count
      /\ p = [buf |-> p.buf, head |-> p.head, count |-> p.count]
  BY Constant DEF Fits, OutType
<1>2. CASE k = p.count
  <2>1. q = [p EXCEPT !.head = 0, !.count = 0]
    BY <1>2 DEF comp_send_output
  <2>. HIDE DEF q
  <2>2. q.head = 0 /\ q.count = 0 /\ q.buf = p.buf /\ q \in OutType
    BY <2>1, <1>1 DEF OutType
  <2>3. Fits(q)
    BY <2>2, <1>1 DEF Fits
  <2>4. a \in Seq(Byte) /\ a = s
    BY <1>1, <1>2, ShownType
  <2>5. b \in Seq(Byte) /\ Len(b) = 0
    BY <2>2, <2>3, ShownType
  <2>6. b = <<>>
    BY <2>5
  <2>. HIDE DEF a, b, s
  <2>7. a \o b = s
    BY <2>4, <2>6
  <2>. QED  BY <2>2, <2>3, <2>4, <2>5, <2>7, <1>1, <1>2 DEF q, a, b, s
<1>3. CASE k # p.count
  <2>1. q = [p EXCEPT !.head = p.head + k, !.count = p.count - k]
    BY <1>3 DEF comp_send_output
  <2>. HIDE DEF q
  <2>2. q.head = p.head + k /\ q.count = p.count - k /\ q.buf = p.buf
    BY <2>1, <1>1
  <2>3. q.count \in Nat /\ q.count > 0 /\ q.head \in Nat /\ q.head + q.count = p.head + p.count
    BY <2>2, <1>1, <1>3
  <2>4. Fits(q)
    <3>1. p.head + k \in Nat /\ p.count - k \in Nat
      BY <1>1, <1>3
    <3>2. q \in OutType
      BY <2>1, <3>1, <1>1 DEF OutType
    <3>. QED  BY <2>3, <3>2, <1>1 DEF Fits
  <2>5. a \in Seq(Byte) /\ Len(a) = k /\ \A i \in 1 .. k : a[i] = p.buf[p.head + i]
    BY <1>1, ShownType
  <2>6. s \in Seq(Byte) /\ Len(s) = p.count /\ \A i \in 1 .. p.count : s[i] = p.buf[p.head + i]
    BY <1>1, ShownType
  <2>7. b \in Seq(Byte) /\ Len(b) = q.count /\ \A i \in 1 .. q.count : b[i] = q.buf[q.head + i]
    <3>. DEFINE n == q.count
    <3>1. n \in Nat /\ n <= q.count
      BY <2>3
    <3>. HIDE DEF n
    <3>2. /\ shown(q, n) \in Seq(Byte) /\ Len(shown(q, n)) = n
          /\ \A i \in 1 .. n : shown(q, n)[i] = q.buf[q.head + i]
      BY <3>1, <2>4, ShownType
    <3>. QED  BY <3>2 DEF n
  <2>. HIDE DEF a, b, s
  <2>8. /\ a \o b \in Seq(Byte) /\ Len(a \o b) = Len(a) + Len(b)
        /\ \A i \in 1 .. Len(a) + Len(b) :
              (a \o b)[i] = IF i <= Len(a) THEN a[i] ELSE b[i - Len(a)]
    BY <2>5, <2>7, ConcatProperties
  <2>9. Len(a) + Len(b) = p.count
    BY <2>2, <2>5, <2>7, <1>1
  <2>10. \A i \in 1 .. Len(a \o b) : (a \o b)[i] = s[i]
    <3>1. SUFFICES ASSUME NEW i \in 1 .. p.count PROVE (a \o b)[i] = s[i]
      BY <2>8, <2>9
    <3>2. (a \o b)[i] = IF i <= k THEN a[i] ELSE b[i - k]
      BY <2>5, <2>8, <2>9
    <3>3. s[i] = p.buf[p.head + i]
      BY <2>6
    <3>4. CASE i <= k
      <4>1. i \in 1 .. k
        BY <3>4, <1>1
      <4>. QED  BY <4>1, <3>2, <3>3, <3>4, <2>5
    <3>5. CASE ~ (i <= k)
      <4>. DEFINE j == i - k
      <4>1. j \in 1 .. q.count /\ q.head + j = p.head + i
        BY <3>5, <2>2, <1>1
      <4>. HIDE DEF j
      <4>2. b[j] = p.buf[q.head + j]
        BY <4>1, <2>2, <2>7
      <4>3. b[j] = p.buf[p.head + i]
        BY <4>1, <4>2
      <4>. QED  BY <4>3, <3>2, <3>3, <3>5 DEF j
    <3>. QED  BY <3>4, <3>5
  <2>11. a \o b = s
    BY <2>6, <2>8, <2>9, <2>10, SeqEqual
  <2>12. q.head + q.count <= p.head + p.count
    BY <2>3, <1>1
  <2>. QED  BY <2>2, <2>4, <2>5, <2>7, <2>11, <2>12 DEF q, a, b, s
<1>. QED  BY <1>2, <1>3

(* Output is put into comp.buf.                                            *)
LEMMA Stored ==
    ASSUME NEW p, Fits(p), NEW s \in Seq(Byte), p.head + p.count + Len(s) <= MaxString
    PROVE  LET q == stored(p, s)
           IN  /\ q \in OutType /\ q.head = p.head /\ q.count = p.count + Len(s)
               /\ s = <<>> => q = p
               /\ p.count = 0 => Fits(q) /\ shown(q, q.count) = s
               /\ p.count # 0 => Fits(q)
<1>. DEFINE q == stored(p, s)
            buf == [i \in 1 .. BufSize |-> IF i <= Len(s) THEN s[i] ELSE p.buf[i]]
<1>1. /\ p.buf \in [1 .. BufSize -> Byte] /\ p.head \in Nat /\ p.count \in Nat
      /\ p = [buf |-> p.buf, head |-> p.head, count |-> p.count]
      /\ BufSize \in Nat /\ MaxString <= BufSize /\ MaxString \in Nat /\ Len(s) \in Nat
      /\ p.count = 0 => p.head = 0
  BY Constant DEF Fits, OutType
<1>2. q = [buf |-> buf, head |-> p.head, count |-> p.count + Len(s)]
  <2>1. DOMAIN p.buf = 1 .. BufSize
    BY <1>1
  <2>2. q = [p EXCEPT !.buf = buf, !.count = p.count + Len(s)]
    BY <2>1 DEF stored
  <2>. HIDE DEF q, buf
  <2>. QED  BY <2>2, <1>1
<1>3. \A i \in 1 .. Len(s) : s[i] \in Byte
  OBVIOUS
<1>4. buf \in [1 .. BufSize -> Byte]
  BY <1>1, <1>3
<1>5. \A i \in 1 .. BufSize : i <= Len(s) => buf[i] = s[i]
  OBVIOUS
<1>6. s = <<>> => buf = p.buf
  <2>1. SUFFICES ASSUME s = <<>> PROVE \A i \in 1 .. BufSize : buf[i] = p.buf[i]
    BY <1>1, <1>4
  <2>2. Len(s) = 0
    BY <2>1
  <2>. QED  BY <2>2
<1>. HIDE DEF q, buf
<1>7. q \in OutType /\ q.head = p.head /\ q.count = p.count + Len(s) /\ q.buf = buf
  BY <1>1, <1>2, <1>4 DEF OutType
<1>8. s = <<>> => q = p
  <2>1. SUFFICES ASSUME s = <<>> PROVE q = p
    OBVIOUS
  <2>2. p.count + Len(s) = p.count
    BY <2>1, <1>1
  <2>. QED  BY <2>1, <2>2, <1>1, <1>2, <1>6
<1>9. Fits(q)
  BY <1>1, <1>7 DEF Fits
<1>10. p.count = 0 => shown(q, q.count) = s
  <2>1. SUFFICES ASSUME p.count = 0 PROVE shown(q, q.count) = s
    OBVIOUS
  <2>2. q.head = 0 /\ q.count = Len(s)
    BY <2>1, <1>1, <1>7
  <2>. DEFINE t == shown(q, q.count)
  <2>3. t \in Seq(Byte) /\ Len(t) = Len(s)
        /\ (\A i \in 1 .. Len(s) : t[i] = q.buf[q.head + i])
        /\ (\A i \in 1 .. Len(s) : q.head + i \in 1 .. BufSize)
    <3>1. q.count \in Nat /\ q.count <= q.count
      BY <1>1, <2>2
    <3>2. /\ t \in Seq(Byte) /\ Len(t) = q.count
          /\ \A i \in 1 .. q.count : t[i] = q.buf[q.head + i]
          /\ \A i \in 1 .. q.count : q.head + i \in 1 .. BufSize
      BY <3>1, <1>9, ShownType
    <3>. QED  BY <3>2, <2>2
  <2>. HIDE DEF t
  <2>4. \A i \in 1 .. Len(t) : t[i] = s[i]
    <3>1. SUFFICES ASSUME NEW i \in 1 .. Len(s) PROVE t[i] = s[i]
      BY <2>3
    <3>2. q.head + i = i
      BY <2>2, <1>1
    <3>3. t[i] = buf[i] /\ i \in 1 .. BufSize /\ i <= Len(s)
      BY <3>2, <2>3, <1>1, <1>7
    <3>. QED  BY <3>3, <1>5
  <2>5. t = s
    BY <2>3, <2>4, SeqEqual
  <2>. QED  BY <2>5 DEF t
<1>. QED  BY <1>7, <1>8, <1>9, <1>10 DEF q

-----------------------------------------------------------------------------
(* Frames.                                                                 *)

(* c with other output.                                                    *)
WithOut(c, o) == [c EXCEPT !.obuf = o]

(* The fields of a comp_state with other output.                           *)
LEMMA OutShape ==
    ASSUME NEW c \in CompType, NEW o \in Seq(Byte)
    PROVE  LET z == WithOut(c, o)
           IN  /\ z \in CompType /\ z.obuf = o /\ SameRest(z, c) /\ z.str = c.str
               /\ z.flushed_len = c.flushed_len /\ z.last_matched = c.last_matched
               /\ z.update_at = c.update_at /\ z.last_added = c.last_added
               /\ z.parent = c.parent /\ z.ch = c.ch /\ z.next_free = c.next_free
               /\ View(z) = View(c)
<1>. DEFINE z == WithOut(c, o)
<1>1. Shape(c)
  BY CompShape
<1>2. z \in CompType
  BY DEF CompType, WithOut
<1>3. /\ z.obuf = o /\ SameRest(z, c) /\ z.str = c.str
      /\ z.flushed_len = c.flushed_len /\ z.last_matched = c.last_matched
      /\ z.update_at = c.update_at /\ z.last_added = c.last_added
      /\ z.parent = c.parent /\ z.ch = c.ch /\ z.next_free = c.next_free
  BY <1>1 DEF Shape, WithOut, SameRest
<1>4. View(z) = View(c)
  <2>1. Alike(z, c)
    BY <1>3 DEF Alike
  <2>2. Shape(z)
    BY <1>2, CompShape
  <2>. QED  BY <1>3, <2>1, <2>2, AlikeView
<1>. QED  BY <1>2, <1>3, <1>4

(* What has been sent does not matter.                                     *)
LEMMA RelOut ==
    ASSUME NEW w, NEW c, NEW T, Rel(w, c, T), NEW o \in Seq(Byte)
    PROVE  Rel(w, WithOut(c, o), T)
<1>. DEFINE z == WithOut(c, o)
<1>1. c \in CompType /\ Sound(c)
  BY RelFacts
<1>2. /\ z \in CompType /\ SameRest(z, c) /\ z.str = c.str
      /\ z.flushed_len = c.flushed_len /\ z.last_matched = c.last_matched
      /\ z.update_at = c.update_at /\ z.last_added = c.last_added
      /\ z.parent = c.parent /\ z.ch = c.ch /\ z.next_free = c.next_free
  BY <1>1, OutShape
<1>. HIDE DEF z
<1>3. /\ z.mode = c.mode /\ z.cw_size = c.cw_size /\ z.escape_char = c.escape_char
      /\ z.bit_len = c.bit_len /\ z.bit_data = c.bit_data
  BY <1>2 DEF SameRest
<1>4. SameDict(c, z)
  BY <1>2 DEF SameDict
<1>5. Sound(z)
  <2>1. /\ c.update_at # c.next_free /\ c.last_matched # c.next_free
        /\ c.update_at # 0 => c.last_matched = 0
        /\ c.last_added = 0 \/ c.last_added \in FreeEntry
    BY <1>1 DEF Sound
  <2>. QED  BY <2>1, <1>1, <1>2, <1>4, SoundSame
<1>6. CASE RelT(w, c, T)
  <2>1. PICK F : Leads(w, c, F, T) /\ AtT(F, c, T)
    BY <1>6 DEF RelT
  <2>2. Leads(w, z, F, T)
    BY <2>1, <1>2, <1>3 DEF Leads
  <2>3. Base(F, z, T)
    BY <2>1, <1>2, <1>3, <1>5 DEF AtT, Base
  <2>4. Alike(F.d, z)
    BY <2>1, <1>2 DEF AtT, Alike
  <2>5. AtT(F, z, T)
    BY <2>1, <2>3, <2>4, <1>2 DEF AtT
  <2>. QED  BY <2>2, <2>5 DEF Rel, RelT, z
<1>7. CASE RelC(w, c, T)
  <2>1. PICK g : Pending(w, c, g, T) /\ AtC(g, c, T)
    BY <1>7 DEF RelC
  <2>2. Pending(w, z, g, T)
    BY <2>1, <1>3, PendingSame
  <2>3. Linked(g, z, T)
    <3>1. Linked(g, c, T)
      BY <2>1 DEF AtC, StrC, SyncC
    <3>. QED  BY <3>1, <1>2, <1>3, <1>5 DEF Linked
  <2>4. StrC(g, c, T) => StrC(g, z, T)
    <3>1. strings(c) = strings(z)
      BY <1>1, <1>4, DictSame DEF Sound
    <3>2. SUFFICES ASSUME StrC(g, c, T) PROVE StrC(g, z, T)
      OBVIOUS
    <3>3. SameDict(z, updated(g.d, z.str[1]))
      BY <3>2, <1>2 DEF StrC, SameDict
    <3>. QED  BY <3>1, <3>2, <3>3, <2>3, <1>2 DEF StrC
  <2>5. SyncC(g, c, T) => SyncC(g, z, T)
    BY <2>3, <1>2 DEF SyncC, SameDict
  <2>6. AtC(g, z, T)
    BY <2>1, <2>4, <2>5, <1>2, <1>3 DEF AtC
  <2>. QED  BY <2>2, <2>6 DEF Rel, RelC, z
<1>. QED  BY <1>6, <1>7 DEF Rel

(* Concatenation is associative.                                           *)
LEMMA Concat3 ==
    ASSUME NEW s \in Seq(Byte), NEW t \in Seq(Byte), NEW u \in Seq(Byte)
    PROVE  (s \o t) \o u = s \o (t \o u)
BY ConcatAssociative

(* Of the output of c, n bytes go into the frame f.                        *)
FillLeft(c, n) == [c EXCEPT !.obuf = Left(@, n)]
FillFrame(f, c, n) == f \o Taken(c.obuf, n)

(* Then e and the frame g lead where c and f did.                          *)
Fills(a, f, c, n, e, g, v, T) ==
    /\ e \in CompType /\ g \in Seq(Byte)
    /\ Decodes(a, g \o e.obuf, v, T) /\ Rel(v, e, T)
    /\ Len(g) = Len(f) + n /\ Len(e.obuf) = Len(c.obuf) - n
    /\ e.str = c.str /\ e.bit_len = c.bit_len

(* Bytes moved from the output to the frame are on the same way.           *)
LEMMA Fill ==
    ASSUME NEW a, NEW f \in Seq(Byte), NEW c \in CompType, NEW v, NEW T,
           Decodes(a, f \o c.obuf, v, T), Rel(v, c, T), NEW n \in Nat, n <= Len(c.obuf)
    PROVE  Fills(a, f, c, n, FillLeft(c, n), FillFrame(f, c, n), v, T)
<1>. DEFINE o == c.obuf
            l == Left(o, n)
            k == Taken(o, n)
            e == FillLeft(c, n)
            g == FillFrame(f, c, n)
<1>1. o \in Seq(Byte)
  BY CompFields
<1>2. /\ k \in Seq(Byte) /\ l \in Seq(Byte) /\ Len(k) = n /\ Len(l) = Len(o) - n /\ k \o l = o
  BY <1>1, TakenLeft
<1>3. e = WithOut(c, l) /\ g = f \o k
  BY DEF WithOut, FillLeft, FillFrame
<1>. HIDE DEF l, k, e, g
<1>4. e \in CompType /\ e.obuf = l /\ e.str = c.str /\ e.bit_len = c.bit_len
  <2>. DEFINE z == WithOut(c, l)
  <2>1. z \in CompType /\ z.obuf = l /\ SameRest(z, c) /\ z.str = c.str
    BY <1>2, OutShape
  <2>. HIDE DEF z
  <2>2. z.bit_len = c.bit_len
    BY <2>1 DEF SameRest
  <2>. QED  BY <2>1, <2>2, <1>3 DEF z
<1>5. Rel(v, e, T)
  BY <1>2, <1>3, RelOut
<1>6. g \in Seq(Byte) /\ Len(g) = Len(f) + n
  BY <1>2, <1>3, ConcatProperties
<1>7. g \o l = f \o o
  <2>0. k \in Seq(Byte) /\ l \in Seq(Byte)
    BY <1>2
  <2>1. (f \o k) \o l = f \o (k \o l)
    BY <2>0, Concat3
  <2>. QED  BY <2>1, <1>2, <1>3
<1>8. Decodes(a, g \o e.obuf, v, T)
  BY <1>4, <1>7
<1>9. Len(e.obuf) = Len(c.obuf) - n
  BY <1>2, <1>4
<1>10. Fills(a, f, c, n, e, g, v, T)
  BY <1>4, <1>5, <1>6, <1>8, <1>9 DEF Fills
<1>. QED  BY <1>10 DEF e, g

(* The frames of s lead from b[0] to b[Len(s)].                            *)
Frames(s, b, T) ==
    /\ b \in [0 .. Len(s) -> Point]
    /\ \A i \in 1 .. Len(s) : Decodes(b[i - 1], s[i], b[i], T)

(* The frames' ways when the text grows.                                   *)
LEMMA FramesGrow ==
    ASSUME NEW s \in Seq(Seq(Byte)), NEW b, NEW T \in Seq(Byte), Frames(s, b, T), NEW x \in Byte
    PROVE  Frames(s, b, Append(T, x))
<1>1. ASSUME NEW i \in 1 .. Len(s) PROVE Decodes(b[i - 1], s[i], b[i], Append(T, x))
  <2>. DEFINE p == b[i - 1]
              f == s[i]
              q == b[i]
  <2>1. f \in Seq(Byte) /\ Decodes(p, f, q, T)
    BY DEF Frames
  <2>. HIDE DEF p, f, q
  <2>2. Decodes(p, f, q, Append(T, x))
    BY <2>1, DecodesGrow
  <2>. QED  BY <2>2 DEF p, f, q
<1>. QED  BY <1>1 DEF Frames

(* One frame more at the end.                                              *)
LEMMA FramesAppend ==
    ASSUME NEW s \in Seq(Seq(Byte)), NEW b, NEW T, Frames(s, b, T), NEW f \in Seq(Byte), NEW k,
           Decodes(b[Len(s)], f, k, T)
    PROVE  \E d : Frames(Append(s, f), d, T) /\ d[0] = b[0] /\ d[Len(Append(s, f))] = k
<1>. DEFINE n == Len(s)
            r == Append(s, f)
            d == [i \in 0 .. n + 1 |-> IF i <= n THEN b[i] ELSE k]
<1>1. n \in Nat /\ Len(r) = n + 1 /\ (\A i \in 1 .. n : r[i] = s[i]) /\ r[n + 1] = f
  BY AppendProperties
<1>2. b \in [0 .. n -> Point] /\ \A i \in 1 .. n : Decodes(b[i - 1], s[i], b[i], T)
  BY DEF Frames
<1>3. k \in Point
  BY DEF Decodes, Viewed
<1>. HIDE DEF n, r
<1>4. d \in [0 .. n + 1 -> Point]
  BY <1>1, <1>2, <1>3
<1>5. (\A i \in 0 .. n : d[i] = b[i]) /\ d[n + 1] = k
  BY <1>1
<1>. HIDE DEF d
<1>6. ASSUME NEW i \in 1 .. n + 1 PROVE Decodes(d[i - 1], r[i], d[i], T)
  <2>1. CASE i \in 1 .. n
    <3>1. i - 1 \in 0 .. n /\ i \in 0 .. n
      BY <2>1, <1>1
    <3>2. d[i - 1] = b[i - 1] /\ d[i] = b[i] /\ r[i] = s[i]
      BY <2>1, <3>1, <1>1, <1>5
    <3>. QED  BY <2>1, <3>2, <1>2
  <2>2. CASE i = n + 1
    <3>1. i - 1 = n /\ n \in 0 .. n
      BY <2>2, <1>1
    <3>2. d[i - 1] = b[n] /\ d[i] = k /\ r[i] = f
      BY <2>2, <3>1, <1>1, <1>5
    <3>. QED  BY <3>2 DEF n
  <2>. QED  BY <2>1, <2>2, <1>1
<1>7. Frames(r, d, T)
  BY <1>1, <1>4, <1>6 DEF Frames
<1>8. d[0] = b[0] /\ d[Len(r)] = k
  BY <1>1, <1>5
<1>. QED  BY <1>7, <1>8 DEF r

(* The first frame is taken.                                               *)
LEMMA FramesTail ==
    ASSUME NEW s \in Seq(Seq(Byte)), s # <<>>, NEW b, NEW T, Frames(s, b, T)
    PROVE  /\ Head(s) \in Seq(Byte) /\ Head(s) = s[1] /\ Len(s) >= 1
           /\ \E d : /\ Frames(Tail(s), d, T) /\ Decodes(b[0], Head(s), d[0], T)
                     /\ d[Len(Tail(s))] = b[Len(s)]
<1>. DEFINE n == Len(s)
            r == Tail(s)
            d == [i \in 0 .. n - 1 |-> b[i + 1]]
<1>1. /\ n \in Nat /\ n >= 1 /\ Len(r) = n - 1 /\ (\A i \in 1 .. n - 1 : r[i] = s[i + 1])
      /\ Head(s) = s[1] /\ s[1] \in Seq(Byte)
  OBVIOUS
<1>2. b \in [0 .. n -> Point] /\ \A i \in 1 .. n : Decodes(b[i - 1], s[i], b[i], T)
  BY DEF Frames
<1>. HIDE DEF n, r
<1>3. d \in [0 .. n - 1 -> Point]
  BY <1>1, <1>2
<1>4. \A i \in 0 .. n - 1 : d[i] = b[i + 1]
  OBVIOUS
<1>. HIDE DEF d
<1>5. ASSUME NEW i \in 1 .. n - 1 PROVE Decodes(d[i - 1], r[i], d[i], T)
  <2>. DEFINE j == i + 1
  <2>1. j \in 1 .. n /\ i - 1 \in 0 .. n - 1 /\ i \in 0 .. n - 1 /\ (i - 1) + 1 = i /\ j - 1 = i
    BY <1>1
  <2>2. d[i - 1] = b[i] /\ d[i] = b[j] /\ r[i] = s[j]
    BY <2>1, <1>1, <1>4
  <2>. HIDE DEF j
  <2>3. Decodes(b[i], s[j], b[j], T)
    BY <2>1, <1>2
  <2>. QED  BY <2>2, <2>3
<1>6. Frames(r, d, T)
  BY <1>1, <1>3, <1>5 DEF Frames
<1>7. Decodes(b[0], Head(s), d[0], T)
  <2>1. 1 \in 1 .. n /\ 0 \in 0 .. n - 1 /\ 1 - 1 = 0 /\ 0 + 1 = 1
    BY <1>1
  <2>2. Decodes(b[0], s[1], b[1], T) /\ d[0] = b[1]
    BY <2>1, <1>2, <1>4
  <2>. QED  BY <2>2, <1>1
<1>8. d[Len(r)] = b[n]
  <2>1. n - 1 \in 0 .. n - 1 /\ (n - 1) + 1 = n
    BY <1>1
  <2>2. d[n - 1] = b[n]
    BY <2>1, <1>4
  <2>. QED  BY <2>2, <1>1
<1>. QED  BY <1>1, <1>6, <1>7, <1>8 DEF r, n

(* A part of a text behind its beginning.                                  *)
LEMMA TextPart ==
    ASSUME NEW T \in Seq(Byte), NEW m \in Nat, NEW n \in Nat, m <= n, n <= Len(T)
    PROVE  SubSeq(T, 1, m) \o SubSeq(T, m + 1, n) = SubSeq(T, 1, n)
<1>. DEFINE u == SubSeq(T, 1, n)
<1>1. \A i \in 1 .. n : T[i] \in Byte
  OBVIOUS
<1>2. /\ u \in Seq(Byte) /\ Len(u) = n /\ \A i \in 1 .. n : u[i] = T[i]
  <2>1. /\ SubSeq(T, 1, n) \in Seq(Byte)
        /\ Len(SubSeq(T, 1, n)) = IF 1 <= n THEN n - 1 + 1 ELSE 0
        /\ \A i \in 1 .. n - 1 + 1 : SubSeq(T, 1, n)[i] = T[1 + i - 1]
    BY <1>1, SubSeqProperties
  <2>. QED  BY <2>1
<1>. DEFINE a == SubSeq(T, 1, m)
            b == SubSeq(T, m + 1, n)
<1>3. /\ a \in Seq(Byte) /\ Len(a) = m /\ \A i \in 1 .. m : a[i] = T[i]
  <2>0. \A i \in 1 .. m : T[i] \in Byte
    BY <1>1
  <2>1. /\ SubSeq(T, 1, m) \in Seq(Byte)
        /\ Len(SubSeq(T, 1, m)) = IF 1 <= m THEN m - 1 + 1 ELSE 0
        /\ \A i \in 1 .. m - 1 + 1 : SubSeq(T, 1, m)[i] = T[1 + i - 1]
    BY <2>0, SubSeqProperties
  <2>. QED  BY <2>1
<1>4. /\ b \in Seq(Byte) /\ Len(b) = n - m /\ \A i \in 1 .. n - m : b[i] = T[m + i]
  <2>. DEFINE k == m + 1
  <2>0. k \in Int /\ \A i \in k .. n : T[i] \in Byte
    BY <1>1
  <2>2. b = SubSeq(T, k, n) /\ n - k + 1 = n - m /\ (IF k <= n THEN n - k + 1 ELSE 0) = n - m
    OBVIOUS
  <2>. HIDE DEF k, b
  <2>1. /\ SubSeq(T, k, n) \in Seq(Byte)
        /\ Len(SubSeq(T, k, n)) = IF k <= n THEN n - k + 1 ELSE 0
        /\ \A i \in 1 .. n - k + 1 : SubSeq(T, k, n)[i] = T[k + i - 1]
    BY <2>0, SubSeqProperties
  <2>3. ASSUME NEW i \in 1 .. n - m PROVE b[i] = T[m + i]
    <3>1. b[i] = T[k + i - 1]
      BY <2>1, <2>2
    <3>2. k + i - 1 = m + i
      BY DEF k
    <3>. QED  BY <3>1, <3>2
  <2>. QED  BY <2>1, <2>2, <2>3
<1>. HIDE DEF a, b, u
<1>5. /\ a \o b \in Seq(Byte) /\ Len(a \o b) = n
      /\ \A i \in 1 .. n : (a \o b)[i] = IF i <= m THEN a[i] ELSE b[i - m]
  <2>1. /\ a \o b \in Seq(Byte) /\ Len(a \o b) = Len(a) + Len(b)
        /\ \A i \in 1 .. Len(a) + Len(b) : (a \o b)[i] = IF i <= Len(a) THEN a[i] ELSE b[i - Len(a)]
    BY <1>3, <1>4, ConcatProperties
  <2>2. Len(a) + Len(b) = n
    BY <1>3, <1>4
  <2>. QED  BY <2>1, <2>2, <1>3
<1>6. \A i \in 1 .. n : (a \o b)[i] = u[i]
  <2>1. SUFFICES ASSUME NEW i \in 1 .. n PROVE (a \o b)[i] = T[i]
    BY <1>2
  <2>2. CASE i <= m
    BY <2>2, <1>3, <1>5
  <2>3. CASE ~ (i <= m)
    <3>. DEFINE j == i - m
    <3>1. j \in 1 .. n - m /\ m + j = i
      BY <2>3
    <3>. HIDE DEF j
    <3>2. b[j] = T[i]
      BY <3>1, <1>4
    <3>. QED  BY <3>2, <2>3, <1>5 DEF j
  <2>. QED  BY <2>2, <2>3
<1>7. a \o b = u
  BY <1>2, <1>5, <1>6, SeqEqual
<1>. QED  BY <1>7 DEF a, b, u

(* comp_decode, for a byte that the way from p takes.                      *)
Decoded(d, y, p, r, T) ==
    /\ y \in CompType /\ ~ y.err /\ r.d = View(y)
    /\ y.mode = "COMPRESSED" => y.str = <<>>
    /\ Len(y.obuf) + Len(y.str) <= MaxString
    /\ r.n <= Len(T) /\ p.n \in Nat /\ r.n \in Nat /\ p.n <= r.n
    /\ y.obuf \o y.str = d.str \o SubSeq(T, p.n + 1, r.n)

(* comp_decode on the next byte of a way goes to the next point.           *)
LEMMA DecodeByte ==
    ASSUME NEW d \in CompType, d.obuf = <<>>, d.mode = "COMPRESSED" => d.str = <<>>,
           NEW T \in Seq(Byte), NEW p, p.d = View(d), NEW x \in Byte, NEW r, Step(p, x, r, T)
    PROVE  Decoded(d, comp_decode(d, x), p, r, T)
<1>. DEFINE y == comp_decode(d, x)
            z == comp_decode(View(d), x)
<1>1. Viewed(p) /\ Yields(p, z, r, T)
  BY DEF Step
<1>2. /\ z \in CompType /\ ~ z.err
      /\ z.mode = "COMPRESSED" => z.str = <<>>
  BY <1>1 DEF Yields
<1>3. /\ y \in CompType /\ View(y) = View(z) /\ ~ y.err
      /\ y.obuf \o y.str = d.str \o (z.obuf \o z.str)
      /\ y.mode = "COMPRESSED" => y.str = <<>>
  BY <1>2, ViewStep
<1>. HIDE DEF y, z
<1>4. /\ r = [d |-> View(z), n |-> p.n + Len(z.obuf) + Len(z.str)] /\ r.n <= Len(T)
      /\ z.obuf \o z.str = SubSeq(T, p.n + 1, r.n)
      /\ p.d.flushed_len + Len(z.obuf) + Len(z.str) <= MaxString
  BY <1>1 DEF Yields
<1>5. r.d = View(y) /\ r.n = p.n + Len(z.obuf) + Len(z.str)
  BY <1>3, <1>4
<1>6. p.n \in Nat
  BY <1>1 DEF Viewed, Point
<1>7. /\ y.obuf \in Seq(Byte) /\ y.str \in Seq(Byte) /\ z.obuf \in Seq(Byte)
      /\ z.str \in Seq(Byte) /\ d.str \in Seq(Byte) /\ d.flushed_len \in Nat
  BY <1>2, <1>3, CompFields
<1>8. Len(y.obuf) + Len(y.str) <= MaxString
  <2>. DEFINE a == y.obuf
              b == y.str
              e == z.obuf
              f == z.str
              s == d.str
  <2>1. a \in Seq(Byte) /\ b \in Seq(Byte) /\ e \in Seq(Byte) /\ f \in Seq(Byte) /\ s \in Seq(Byte)
    BY <1>7
  <2>2. a \o b = s \o (e \o f)
    BY <1>3
  <2>3. p.d.flushed_len = d.flushed_len + Len(s)
    BY ViewType
  <2>4. p.d.flushed_len + Len(e) + Len(f) <= MaxString
    BY <1>4
  <2>. HIDE DEF a, b, e, f, s
  <2>5. Len(a \o b) = Len(a) + Len(b)
    BY <2>1, ConcatProperties
  <2>6. e \o f \in Seq(Byte) /\ Len(e \o f) = Len(e) + Len(f)
    BY <2>1, ConcatProperties
  <2>7. Len(s \o (e \o f)) = Len(s) + Len(e \o f)
    BY <2>1, <2>6, ConcatProperties
  <2>8. Len(a) + Len(b) = Len(s) + (Len(e) + Len(f))
    BY <2>2, <2>5, <2>6, <2>7
  <2>9. /\ Len(a) \in Nat /\ Len(b) \in Nat /\ Len(e) \in Nat /\ Len(f) \in Nat
        /\ Len(s) \in Nat /\ d.flushed_len \in Nat /\ MaxString \in Nat
    BY <2>1, <1>7, Constant
  <2>10. Len(a) + Len(b) <= MaxString
    BY <2>3, <2>4, <2>8, <2>9
  <2>. QED  BY <2>10 DEF a, b
<1>9. r.n \in Nat /\ p.n <= r.n
  BY <1>5, <1>6, <1>7
<1>10. y.obuf \o y.str = d.str \o SubSeq(T, p.n + 1, r.n)
  BY <1>3, <1>4
<1>11. Decoded(d, y, p, r, T)
  BY <1>3, <1>4, <1>5, <1>6, <1>8, <1>9, <1>10 DEF Decoded
<1>. QED  BY <1>11 DEF y

-----------------------------------------------------------------------------
(* The sender.                                                             *)

(* A frame has room for what comes of one character or of a flush: 128     *)
(* bytes, where 2048 entries and strings of 34 characters make at most 89. *)
LargeFrames == \E W : Wide(W) /\ EncodeBits(W) <= CharSize * InfoSize

(* One character or one flush makes no more than a frame.                  *)
LEMMA LargeOne ==
    ASSUME LargeFrames, NEW c, NEW z, NEW w, NEW v, NEW q, NEW U, Encodes(c, z, w, v, q, U)
    PROVE  Len(q) <= InfoSize
<1>1. PICK W : Wide(W) /\ EncodeBits(W) <= CharSize * InfoSize
  BY DEF LargeFrames
<1>2. q \in Seq(Byte) /\ CharSize * Len(q) <= EncodeBits(W)
  BY <1>1 DEF Encodes
<1>3. W \in Nat /\ CharSize \in Nat /\ MaxString \in Nat /\ InfoSize \in Nat /\ CharSize >= 1
  BY <1>1, Constant DEF Wide
<1>4. EncodeBits(W) \in Int
  <2>. DEFINE i == StringBits(W)
              j == SwitchBits(W)
              k == CharSize * MaxString
  <2>1. i \in Int /\ j \in Int /\ k \in Int
    BY <1>3 DEF StringBits, SwitchBits
  <2>. HIDE DEF i, j, k
  <2>2. CharSize + (2 * k) + (3 * i) + (2 * j) \in Int
    BY <2>1, <1>3
  <2>. QED  BY <2>2 DEF EncodeBits, i, j, k
<1>. DEFINE l == Len(q)
            e == EncodeBits(W)
<1>5. l \in Nat /\ CharSize * l <= e /\ e <= CharSize * InfoSize /\ e \in Int
  BY <1>1, <1>2, <1>4
<1>. HIDE DEF l, e
<1>6. CharSize * l \in Int /\ CharSize * InfoSize \in Int
  BY <1>3, <1>5
<1>7. CharSize * l <= CharSize * InfoSize
  BY <1>5, <1>6
<1>8. l <= InfoSize
  BY <1>3, <1>5, <1>7
<1>. QED  BY <1>8 DEF l

(* The encoder's output goes behind the frame f.                           *)
LEMMA OutputGrows ==
    ASSUME NEW a, NEW f \in Seq(Byte), NEW c \in CompType, NEW w, NEW U,
           Decodes(a, f \o c.obuf, w, U), NEW z, NEW q, NEW v, Encodes(c, z, w, v, q, U)
    PROVE  /\ z \in CompType /\ Decodes(a, f \o z.obuf, v, U) /\ Rel(v, z, U)
           /\ LargeFrames => Len(z.obuf) <= Len(c.obuf) + InfoSize
<1>1. /\ z \in CompType /\ q \in Seq(Byte) /\ z.obuf = c.obuf \o q
      /\ Decodes(w, q, v, U) /\ Rel(v, z, U)
  BY DEF Encodes
<1>. DEFINE o == c.obuf
<1>2. o \in Seq(Byte) /\ f \o o \in Seq(Byte)
  <2>1. o \in Seq(Byte)
    BY CompFields
  <2>. QED  BY <2>1, ConcatProperties
<1>3. z.obuf = o \o q /\ Decodes(a, f \o o, w, U)
  BY <1>1
<1>. HIDE DEF o
<1>4. Decodes(a, (f \o o) \o q, v, U)
  BY <1>1, <1>2, <1>3, DecodesJoin
<1>5. (f \o o) \o q = f \o (o \o q)
  BY <1>1, <1>2, Concat3
<1>6. Len(z.obuf) = Len(o) + Len(q) /\ Len(o) \in Nat /\ Len(q) \in Nat
  BY <1>1, <1>2, <1>3, ConcatProperties
<1>7. LargeFrames => Len(z.obuf) <= Len(o) + InfoSize
  BY <1>6, LargeOne, Constant
<1>. QED  BY <1>1, <1>3, <1>4, <1>5, <1>7 DEF o

(* modem_comp_encode.                                                      *)
LEMMA EncodeStep ==
    ASSUME NEW a, NEW f \in Seq(Byte), NEW c \in CompType, NEW w, NEW T \in Seq(Byte),
           Decodes(a, f \o c.obuf, w, T), Rel(w, c, T), NEW x \in Byte,
           NEW sw \in [1 .. 2 -> BOOLEAN], NEW room
    PROVE  LET z == modem_comp_encode(c, x, sw, room)
               U == Append(T, x)
           IN  \/ Len(c.obuf) >= room /\ z = c
               \/ /\ z \in CompType
                  /\ \E v : Decodes(a, f \o z.obuf, v, U) /\ Rel(v, z, U)
                  /\ LargeFrames => Len(z.obuf) <= Len(c.obuf) + InfoSize
<1>. DEFINE z == modem_comp_encode(c, x, sw, room)
            U == Append(T, x)
<1>1. CASE Len(c.obuf) >= room
  BY <1>1 DEF modem_comp_encode
<1>2. CASE ~ (Len(c.obuf) >= room)
  <2>1. z = comp_encode(c, x, sw)
    BY <1>2 DEF modem_comp_encode
  <2>2. PICK q, v : Encodes(c, comp_encode(c, x, sw), w, v, q, U)
    BY Encode
  <2>3. Encodes(c, z, w, v, q, U)
    BY <2>1, <2>2
  <2>. HIDE DEF z
  <2>4. Decodes(a, f \o c.obuf, w, U)
    <3>. DEFINE s == f \o c.obuf
    <3>1. c.obuf \in Seq(Byte)
      BY CompFields
    <3>2. s \in Seq(Byte) /\ Decodes(a, s, w, T)
      BY <3>1, ConcatProperties
    <3>. HIDE DEF s
    <3>3. Decodes(a, s, w, Append(T, x))
      BY <3>2, DecodesGrow
    <3>. QED  BY <3>3 DEF s
  <2>. HIDE DEF U
  <2>5. /\ z \in CompType /\ Decodes(a, f \o z.obuf, v, U) /\ Rel(v, z, U)
        /\ LargeFrames => Len(z.obuf) <= Len(c.obuf) + InfoSize
    BY <2>3, <2>4, OutputGrows
  <2>. QED  BY <2>5 DEF z, U
<1>. QED  BY <1>1, <1>2

(* modem_comp_flush_encoder.                                               *)
LEMMA FlushStep ==
    ASSUME NEW a, NEW f \in Seq(Byte), NEW c \in CompType, NEW w, NEW T \in Seq(Byte),
           Decodes(a, f \o c.obuf, w, T), Rel(w, c, T), NEW room
    PROVE  LET z == modem_comp_flush_encoder(c, room)
           IN  \/ Len(c.obuf) >= room /\ z = c
               \/ /\ z \in CompType /\ z.str = <<>> /\ z.bit_len = 0
                  /\ \E v : Decodes(a, f \o z.obuf, v, T) /\ Rel(v, z, T)
                  /\ LargeFrames => Len(z.obuf) <= Len(c.obuf) + InfoSize
<1>. DEFINE z == modem_comp_flush_encoder(c, room)
<1>1. CASE Len(c.obuf) >= room
  BY <1>1 DEF modem_comp_flush_encoder
<1>2. CASE ~ (Len(c.obuf) >= room)
  <2>1. z = comp_flush_encoder(c)
    BY <1>2 DEF modem_comp_flush_encoder
  <2>2. z.str = <<>> /\ z.bit_len = 0 /\ \E q, v : Encodes(c, z, w, v, q, T)
    BY <2>1, Flush
  <2>. HIDE DEF z
  <2>3. PICK q, v : Encodes(c, z, w, v, q, T)
    BY <2>2
  <2>4. /\ z \in CompType /\ Decodes(a, f \o z.obuf, v, T) /\ Rel(v, z, T)
        /\ LargeFrames => Len(z.obuf) <= Len(c.obuf) + InfoSize
    BY <2>3, OutputGrows
  <2>. QED  BY <2>2, <2>4 DEF z
<1>. QED  BY <1>1, <1>2

(* How many bytes go into a frame.                                         *)
LEMMA Room ==
    ASSUME NEW c \in CompType, NEW r \in Nat
    PROVE  LET n == get_odata(c, r)
           IN  /\ n \in Nat /\ n <= r /\ n <= Len(c.obuf)
               /\ n < r => n = Len(c.obuf)
<1>1. Len(c.obuf) \in Nat
  BY CompFields
<1>. QED  BY <1>1 DEF get_odata, AtMost

-----------------------------------------------------------------------------
(* The inductive invariant.                                                *)

(* The bytes under way lead from a, through the frame that is filled and   *)
(* the output behind it, to w, where the decoder follows the encoder.      *)
SentWay(T, a, w) == Decodes(a, frame \o enc.obuf, w, T) /\ Rel(w, enc, T)

(* The decoder is at p, and what is left of a frame and the frames of the  *)
(* link lead from there to the points of b.                                *)
RecvWay(T, p, b) ==
    /\ p.d = View(dec) /\ p.n <= Len(T)
    /\ Decodes(p, rest, b[0], T) /\ Frames(line, b, T)

(* What was shown, what waits in comp.buf and what the decoder keeps are   *)
(* the text up to p.                                                       *)
ShownTo(T, p) ==
    ~ overlaid => (got \o shown(out, out.count)) \o dec.str = SubSeq(T, 1, p.n)

(* T is the text that has been encoded.                                    *)
Way(T, p, b, w) ==
    /\ T \in Seq(Byte) /\ (LargeFrames => T = sent)
    /\ RecvWay(T, p, b) /\ SentWay(T, b[Len(line)], w) /\ ShownTo(T, p)

Receiver ==
    /\ dec.obuf = <<>> /\ ~ dec.err /\ (dec.mode = "COMPRESSED" => dec.str = <<>>)
    /\ putting => rest # <<>> /\ out.count = 0
    /\ Fits(out) /\ (rest = <<>> => dec.str = <<>>)
    /\ \A i \in 1 .. Len(line) : line[i] # <<>>

(* No more is left over than the next frame takes, so that no character    *)
(* that was fetched is dropped and every flush takes place.                *)
Sender ==
    LargeFrames =>
        /\ enc.obuf # <<>> => Len(frame) \in {0, InfoSize}
        /\ Len(enc.obuf) < InfoSize
        /\ flushed => enc.str = <<>> /\ enc.bit_len = 0

IInv == TypeOK /\ Receiver /\ Sender /\ \E T, p, b, w : Way(T, p, b, w)

-----------------------------------------------------------------------------
(* The beginning.                                                          *)

(* The fields of a comp_state that comp_init leaves.                       *)
New(c) ==
    /\ c \in CompType
    /\ c.mode = "TRANSPARENT" /\ ~ c.escape /\ ~ c.err
    /\ c.update_at = 0 /\ c.next_free = FirstFree /\ c.last_matched = 0
    /\ c.last_added = 0 /\ c.cw_size = CharSize + 1 /\ c.escape_char = 0
    /\ c.parent = [e \in FreeEntry |-> 0] /\ c.ch = [e \in FreeEntry |-> 0]
    /\ c.bit_len = 0 /\ c.bit_data = 0 /\ c.flushed_len = 0
    /\ c.str = <<>> /\ c.obuf = <<>>

(* comp_init leaves these fields.                                          *)
LEMMA NewIsNew == New(NewComp)
<1>. DEFINE r == [mode |-> "TRANSPARENT", escape |-> FALSE, err |-> FALSE,
               update_at |-> 0, next_free |-> FirstFree, last_matched |-> 0,
               last_added |-> 0, cw_size |-> 0, escape_char |-> 0,
               parent |-> [e \in FreeEntry |-> 0], ch |-> [e \in FreeEntry |-> 0],
               bit_len |-> 0, bit_data |-> 0, flushed_len |-> 0,
               str |-> <<>>, obuf |-> <<>>]
<1>1. FirstFree \in FreeEntry /\ 0 \in Codeword /\ 0 \in Byte /\ CharSize + 1 \in Nat
  BY Commands, Constant
<1>2. <<>> \in Seq(Byte)
  BY EmptySeq
<1>3. [e \in FreeEntry |-> 0] \in [FreeEntry -> Codeword] /\ [e \in FreeEntry |-> 0] \in [FreeEntry -> Byte]
  BY <1>1
<1>4. r \in CompType
  BY <1>1, <1>2, <1>3 DEF CompType
<1>5. /\ ~ r.err /\ r.bit_data = 0 /\ r.obuf = <<>> /\ r.ch = [e \in FreeEntry |-> 0]
  OBVIOUS
<1>6. NewComp = dict_init(r)
  BY DEF NewComp
<1>. HIDE DEF r
<1>7. dict_init(r) \in CompType
  BY <1>1, <1>2, <1>3, <1>4 DEF dict_init, CompType
<1>. DEFINE c == dict_init(r)
<1>8. /\ c.mode = "TRANSPARENT" /\ ~ c.escape /\ c.update_at = 0 /\ c.next_free = FirstFree
      /\ c.last_matched = 0 /\ c.last_added = 0 /\ c.cw_size = CharSize + 1 /\ c.escape_char = 0
  BY <1>4 DEF dict_init, CompType
<1>9. /\ c.parent = [e \in FreeEntry |-> 0] /\ c.bit_len = 0 /\ c.flushed_len = 0 /\ c.str = <<>>
  BY <1>4 DEF dict_init, CompType
<1>10. c.err = r.err /\ c.bit_data = r.bit_data /\ c.obuf = r.obuf /\ c.ch = r.ch
  BY <1>4 DEF dict_init, CompType
<1>. HIDE DEF c
<1>11. New(c)
  BY <1>5, <1>7, <1>8, <1>9, <1>10 DEF New, c
<1>. QED  BY <1>6, <1>11 DEF c

(* A new comp_state is sound: its entries spell the single characters.     *)
LEMMA NewSound ==
    ASSUME NEW c, New(c)
    PROVE  Sound(c)
<1>. DEFINE g == [e \in Codeword |-> IF e < FirstFree THEN <<e - FirstEntry>> ELSE <<0>>]
<1>1. /\ c \in CompType /\ c.next_free = FirstFree /\ c.update_at = 0 /\ c.last_matched = 0
      /\ c.last_added = 0 /\ c.parent = [e \in FreeEntry |-> 0] /\ c.ch = [e \in FreeEntry |-> 0]
  BY DEF New
<1>2. DictType(c)
  BY <1>1, CompFields
<1>3. 0 # FirstFree /\ Codeword \subseteq Nat /\ FirstEntry = 3
  BY Constant, Commands
<1>4. Spells(g, c)
  <2>1. g \in [Codeword -> Seq(Int)]
    <3>1. ASSUME NEW e \in Codeword
          PROVE  <<e - FirstEntry>> \in Seq(Int) /\ <<0>> \in Seq(Int)
      <4>1. e - FirstEntry \in Int /\ 0 \in Int
        BY <1>3
      <4>. QED  BY <4>1
    <3>. QED  BY <3>1
  <2>2. ASSUME NEW e \in Codeword
        PROVE  g[e] = IF e < FirstFree THEN <<e - FirstEntry>>
                      ELSE IF c.parent[e] = 0 THEN <<c.ch[e]>>
                      ELSE Append(g[c.parent[e]], c.ch[e])
    <3>1. CASE e < FirstFree
      BY <3>1
    <3>2. CASE ~ (e < FirstFree)
      <4>1. c.parent[e] = 0 /\ c.ch[e] = 0
        BY <3>2, <1>1, EntryFree
      <4>. QED  BY <3>2, <4>1
    <3>. QED  BY <3>1, <3>2
  <2>3. g = [e \in Codeword |-> g[e]]
    OBVIOUS
  <2>. QED  BY <2>1, <2>2, <2>3 DEF Spells, Builds
<1>5. \A f \in FreeEntry : c.parent[f] # c.next_free
  BY <1>1, <1>3
<1>6. DictOK(c)
  BY <1>2, <1>4, <1>5 DEF DictOK
<1>. QED  BY <1>1, <1>3, <1>6 DEF Sound

(* The view of a new comp_state is new.                                    *)
LEMMA NewView ==
    ASSUME NEW c, New(c)
    PROVE  New(View(c)) /\ View(c) \in CompType
<1>1. c.flushed_len + Len(c.str) = 0 /\ c \in CompType
  BY DEF New
<1>. QED  BY <1>1, ViewType DEF New

(* A new decoder follows a new encoder.                                    *)
LEMMA NewRel ==
    ASSUME NEW c, New(c), NEW w \in Point, New(w.d), w.n = 0
    PROVE  Viewed(w) /\ Rel(w, c, <<>>)
<1>. DEFINE e == <<>>
            d == w.d
<1>1. /\ c \in CompType /\ c.mode = "TRANSPARENT" /\ ~ c.escape /\ ~ c.err
      /\ c.update_at = 0 /\ c.last_matched = 0 /\ c.cw_size = CharSize + 1 /\ c.escape_char = 0
      /\ c.bit_len = 0 /\ c.bit_data = 0 /\ c.flushed_len = 0 /\ c.str = e /\ c.obuf = e
  BY DEF New
<1>2. Sound(c) /\ Sound(d)
  BY NewSound
<1>3. /\ d \in CompType /\ d.mode = "TRANSPARENT" /\ ~ d.escape /\ ~ d.err
      /\ d.update_at = 0 /\ d.last_matched = 0 /\ d.cw_size = CharSize + 1 /\ d.escape_char = 0
      /\ d.bit_len = 0 /\ d.bit_data = 0 /\ d.flushed_len = 0 /\ d.str = e /\ d.obuf = e
  BY DEF New
<1>4. e \in Seq(Byte) /\ Len(e) = 0
  BY EmptySeq
<1>5. Viewed(w)
  BY <1>3 DEF Viewed
<1>6. Open(w, e)
  BY <1>3, <1>4, <1>5, Constant DEF Open
<1>7. Narrow(CharSize + 1) /\ CharSize < CharSize + 1
  <2>1. ASSUME NEW W, Wide(W)
        PROVE  CharSize + 1 <= W
    <3>1. W \in Nat /\ DictSize <= pow2[W]
      BY <2>1 DEF Wide
    <3>2. pow2[CharSize] = TotalChars /\ TotalChars < DictSize /\ CharSize \in Nat /\ DictSize \in Nat
      BY Constant DEF TotalChars
    <3>3. pow2[W] \in Nat
      BY <3>1, PowNat
    <3>4. pow2[CharSize] < pow2[W]
      BY <3>1, <3>2, <3>3, Constant
    <3>5. CharSize < W
      BY <3>1, <3>2, <3>4, PowLess
    <3>. QED  BY <3>1, <3>2, <3>5
  <2>. QED  BY <2>1, Constant DEF Narrow
<1>8. 0 \in Byte /\ escaped(0, e) = e /\ escape_after(0, e) = 0
  BY Commands, EscapesNil
<1>9. Base(w, c, e)
  BY <1>1, <1>2, <1>3, <1>4, <1>6, <1>7, <1>8, Constant DEF Base
<1>10. Alike(w.d, c)
  BY DEF Alike, New
<1>11. AtT(w, c, e)
  BY <1>1, <1>9, <1>10 DEF AtT
<1>12. Decodes(w, e, w, e)
  BY <1>5, DecodesNil
<1>13. Leads(w, c, w, e)
  BY <1>1, <1>8, <1>12 DEF Leads
<1>14. Rel(w, c, e)
  BY <1>11, <1>13 DEF Rel, RelT
<1>. QED  BY <1>5, <1>14

(* The invariant holds at first.                                           *)
LEMMA IInvInit == Init => IInv
<1>. SUFFICES ASSUME Init
              PROVE  IInv
  OBVIOUS
<1>. DEFINE w == [d |-> View(NewComp), n |-> 0]
            b == [i \in 0 .. 0 |-> w]
            T == <<>>
<1>1. /\ enc = NewComp /\ dec = NewComp /\ frame = T /\ line = T /\ rest = T /\ putting = FALSE
      /\ out = [buf |-> [i \in 1 .. BufSize |-> 0], head |-> 0, count |-> 0]
      /\ sent = T /\ got = T /\ switched = 0 /\ shorts = 0
      /\ overlaid = FALSE /\ flushed = FALSE
  BY DEF Init
<1>2. /\ NewComp \in CompType /\ NewComp.mode = "TRANSPARENT" /\ NewComp.err = FALSE
      /\ NewComp.bit_len = 0 /\ NewComp.str = T /\ NewComp.obuf = T
  BY NewIsNew DEF New
<1>3. T \in Seq(Byte) /\ T \in Seq(Seq(Byte)) /\ Len(T) = 0 /\ 0 \in Byte
  BY EmptySeq, Commands
<1>4. out \in OutType /\ out.head = 0 /\ out.count = 0
  BY <1>1, <1>3 DEF OutType
<1>5. TypeOK
  <2>1. Len(frame) <= InfoSize /\ switched \in 0 .. MaxSwitch /\ shorts \in 0 .. MaxShort
    BY <1>1, <1>3, Constant, V42bisAssumption
  <2>2. /\ enc \in CompType /\ dec \in CompType /\ frame \in Seq(Byte)
        /\ line \in Seq(Seq(Byte)) /\ rest \in Seq(Byte)
        /\ sent \in Seq(Byte) /\ got \in Seq(Byte)
    BY <1>1, <1>2, <1>3
  <2>3. putting \in BOOLEAN /\ overlaid \in BOOLEAN /\ flushed \in BOOLEAN
    BY <1>1
  <2>. QED  BY <1>4, <2>1, <2>2, <2>3 DEF TypeOK, OutType
<1>6. Fits(out)
  BY <1>4, Constant DEF Fits
<1>7. Receiver
  BY <1>1, <1>2, <1>3, <1>6 DEF Receiver
<1>8. Sender
  BY <1>1, <1>2, <1>3, Constant DEF Sender
<1>9. Viewed(w) /\ Rel(w, NewComp, T) /\ w.d = View(NewComp) /\ w.n = 0
  <2>1. w.d = View(NewComp) /\ w.n = 0 /\ New(NewComp) /\ New(w.d) /\ w.d \in CompType
    BY NewView, NewIsNew
  <2>2. w \in Point
    BY <2>1 DEF Point
  <2>. HIDE DEF w
  <2>. QED  BY <2>1, <2>2, NewRel
<1>. HIDE DEF w
<1>10. Decodes(w, T, w, T) /\ T \o T = T
  BY <1>9, DecodesNil
<1>11. b[0] = w /\ b \in [0 .. Len(line) -> Point] /\ b[Len(line)] = w
  BY <1>1, <1>3, <1>9 DEF Viewed
<1>12. RecvWay(T, w, b)
  <2>1. Frames(line, b, T)
    BY <1>1, <1>3, <1>11 DEF Frames
  <2>2. w.d = View(dec)
    BY <1>1, <1>9
  <2>. QED  BY <1>1, <1>3, <1>9, <1>10, <1>11, <2>1, <2>2 DEF RecvWay
<1>13. SentWay(T, b[Len(line)], w)
  BY <1>1, <1>2, <1>9, <1>10, <1>11 DEF SentWay
<1>14. ShownTo(T, w)
  <2>1. shown(out, out.count) \in Seq(Byte) /\ Len(shown(out, out.count)) = 0
    BY <1>4, <1>6, ShownType
  <2>2. shown(out, out.count) = T
    BY <2>1, EmptySeq
  <2>3. SubSeq(T, 1, w.n) = T
    BY <1>3, <1>9
  <2>. QED  BY <1>1, <1>2, <1>10, <2>2, <2>3 DEF ShownTo
<1>15. Way(T, w, b, w)
  BY <1>1, <1>3, <1>12, <1>13, <1>14 DEF Way
<1>. HIDE DEF T, b
<1>16. \E T1, p1, b1, w1 : Way(T1, p1, b1, w1)
  BY <1>15
<1>. QED  BY <1>5, <1>7, <1>8, <1>16 DEF IInv

-----------------------------------------------------------------------------
(* The sender's steps.                                                     *)

(* An empty sequence, by its length.                                       *)
LEMMA LenNil ==
    ASSUME NEW s \in Seq(Byte)
    PROVE  Len(s) \in Nat /\ (Len(s) = 0 <=> s = <<>>)
  BY EmptySeq

(* What the invariant says of the sender, under way to a.                  *)
LEMMA SenderFacts ==
    ASSUME IInv
    PROVE  /\ enc \in CompType /\ frame \in Seq(Byte) /\ Len(frame) \in 0 .. InfoSize
           /\ line \in Seq(Seq(Byte)) /\ sent \in Seq(Byte)
           /\ enc.obuf \in Seq(Byte) /\ Len(enc.obuf) \in Nat
           /\ LargeFrames => Len(enc.obuf) = 0 \/ Len(frame) \in {0, InfoSize}
           /\ LargeFrames => Len(enc.obuf) < InfoSize
<1>1. /\ enc \in CompType /\ frame \in Seq(Byte) /\ Len(frame) <= InfoSize
      /\ line \in Seq(Seq(Byte)) /\ sent \in Seq(Byte)
  BY DEF IInv, TypeOK
<1>2. enc.obuf \in Seq(Byte) /\ Len(frame) \in Nat
  BY <1>1, CompFields, LenNil
<1>3. LargeFrames => (enc.obuf # <<>> => Len(frame) \in {0, InfoSize})
  BY DEF IInv, Sender
<1>4. LargeFrames => Len(enc.obuf) < InfoSize
  BY DEF IInv, Sender
<1>5. Len(enc.obuf) \in Nat /\ (Len(enc.obuf) = 0 <=> enc.obuf = <<>>)
  BY <1>2, LenNil
<1>. QED  BY <1>1, <1>2, <1>3, <1>4, <1>5, Constant

(* A frame of f bytes is filled, o having been left over and l being what  *)
(* there is now.                                                           *)
LEMMA FillNumbers ==
    ASSUME NEW f \in Nat, NEW o \in Nat, NEW l \in Nat, NEW n \in Nat, f <= InfoSize,
           n <= InfoSize - f, n <= l, n < InfoSize - f => n = l
    PROVE  /\ f + n <= InfoSize /\ l - n \in Nat
           /\ l - n # 0 => f + n = InfoSize
           /\ (o = 0 \/ f \in {0, InfoSize}) /\ o < InfoSize /\ l <= o + InfoSize
                /\ (f = InfoSize => l = o) => l - n < InfoSize
<1>1. InfoSize \in Nat
  BY Constant
<1>. QED  BY <1>1

(* Under LargeFrames there is room behind what was left over.              *)
LEMMA NoLoss ==
    ASSUME IInv, LargeFrames, Len(frame) < InfoSize
    PROVE  ~ (Len(enc.obuf) >= InfoSize - Len(frame))
<1>. DEFINE o == Len(enc.obuf)
            f == Len(frame)
<1>1. o \in Nat /\ f \in Nat /\ f < InfoSize /\ (o = 0 \/ f \in {0, InfoSize}) /\ o < InfoSize
  BY SenderFacts
<1>. HIDE DEF o, f
<1>2. ~ (o >= InfoSize - f)
  BY <1>1, Constant
<1>. QED  BY <1>2 DEF o, f

(* The receiver's side does not change, but for the text that may grow.    *)
LEMMA RecvKept ==
    ASSUME TypeOK, NEW T \in Seq(Byte), NEW p, NEW b, RecvWay(T, p, b), ShownTo(T, p), NEW x \in Byte,
           UNCHANGED decVars
    PROVE  /\ ShownTo(T, p)' /\ ShownTo(Append(T, x), p)'
           /\ RecvWay(Append(T, x), p, b)
           /\ line' = line => RecvWay(T, p, b)' /\ RecvWay(Append(T, x), p, b)'
<1>. DEFINE U == Append(T, x)
<1>1. U \in Seq(Byte) /\ Len(U) = Len(T) + 1 /\ Len(T) \in Nat /\ \A i \in 1 .. Len(T) : U[i] = T[i]
  BY Appended
<1>2. /\ p.d = View(dec) /\ p.n <= Len(T) /\ Decodes(p, rest, b[0], T) /\ Frames(line, b, T)
  BY DEF RecvWay
<1>3. /\ rest \in Seq(Byte) /\ line \in Seq(Seq(Byte))
  BY DEF TypeOK
<1>4. Viewed(p)
  BY <1>2 DEF Decodes
<1>5. p.n \in Nat
  BY <1>4 DEF Viewed, Point
<1>6. SubSeq(U, 1, p.n) = SubSeq(T, 1, p.n)
  <2>. HIDE DEF U
  <2>1. \A i \in 1 .. p.n : U[i] = T[i]
    BY <1>1, <1>2, <1>5
  <2>. QED  BY <1>1, <1>2, <1>5, <2>1
<1>7. Decodes(p, rest, b[0], U) /\ Frames(line, b, U) /\ p.n <= Len(U)
  <2>1. Decodes(p, rest, b[0], U)
    BY <1>2, <1>3, DecodesGrow
  <2>2. Frames(line, b, U)
    BY <1>2, <1>3, FramesGrow
  <2>. HIDE DEF U
  <2>3. p.n <= Len(U)
    BY <1>1, <1>2, <1>5
  <2>. QED  BY <2>1, <2>2, <2>3
<1>. HIDE DEF U
<1>8. dec' = dec /\ rest' = rest /\ out' = out /\ got' = got /\ overlaid' = overlaid
  BY DEF decVars
<1>9. RecvWay(U, p, b)
  BY <1>2, <1>7 DEF RecvWay
<1>10. line' = line => RecvWay(T, p, b)' /\ RecvWay(U, p, b)'
  BY <1>2, <1>7, <1>8 DEF RecvWay
<1>11. ShownTo(T, p)' /\ ShownTo(U, p)'
  BY <1>6, <1>8 DEF ShownTo
<1>. QED  BY <1>9, <1>10, <1>11 DEF U

(* The receiver's part is kept where only the sender moves.                *)
LEMMA ReceiverKept ==
    ASSUME Receiver, UNCHANGED decVars, \A i \in 1 .. Len(line') : line'[i] # <<>>
    PROVE  Receiver'
  BY DEF Receiver, decVars

(* A character is fetched and encoded.                                     *)
LEMMA GetCharKeeps ==
    ASSUME IInv, GetChar
    PROVE  IInv'
<1>. USE Constant
<1>1. PICK T, p, b, w : Way(T, p, b, w)
  BY DEF IInv
<1>2. PICK x \in Written, sw \in [1 .. 2 -> BOOLEAN] :
          /\ switched' = switched + (IF sw[1] THEN 1 ELSE 0) + (IF sw[2] THEN 1 ELSE 0)
          /\ switched' <= MaxSwitch
          /\ Filled(modem_comp_encode(enc, x, sw, InfoSize - Len(frame)))
          /\ sent' = Append(sent, x)
  BY DEF GetChar
<1>3. x \in Byte
  BY V42bisAssumption DEF Byte
<1>. DEFINE a == b[Len(line)]
            f == Len(frame)
            o == Len(enc.obuf)
            room == InfoSize - f
            z == modem_comp_encode(enc, x, sw, room)
            l == Len(z.obuf)
            n == get_odata(z, room)
<1>4. /\ enc \in CompType /\ frame \in Seq(Byte) /\ f \in Nat /\ f < InfoSize
      /\ line \in Seq(Seq(Byte)) /\ sent \in Seq(Byte) /\ o \in Nat
      /\ LargeFrames => o = 0 \/ f \in {0, InfoSize}
      /\ LargeFrames => o < InfoSize
  BY SenderFacts DEF GetChar
<1>5. /\ T \in Seq(Byte) /\ (LargeFrames => T = sent) /\ RecvWay(T, p, b)
      /\ Decodes(a, frame \o enc.obuf, w, T) /\ Rel(w, enc, T) /\ ShownTo(T, p)
  BY <1>1 DEF Way, SentWay
<1>6. /\ frame' = frame \o Taken(z.obuf, n) /\ enc' = [z EXCEPT !.obuf = Left(@, n)]
  BY <1>2 DEF Filled
<1>7. UNCHANGED decVars /\ line' = line /\ flushed' = FALSE
  BY DEF GetChar
<1>8. TypeOK /\ Receiver /\ Sender
  BY DEF IInv
<1>9. PICK U, v : /\ z \in CompType /\ Decodes(a, frame \o z.obuf, v, U) /\ Rel(v, z, U)
                  /\ U \in {T, Append(T, x)}
                  /\ LargeFrames => U = sent' /\ l <= o + InfoSize
  <2>1. CASE Len(enc.obuf) >= room /\ z = enc
    <3>1. ~ LargeFrames
      BY <2>1, <1>4, NoLoss
    <3>. QED  BY <2>1, <3>1, <1>4, <1>5
  <2>2. CASE /\ z \in CompType
             /\ \E v : Decodes(a, frame \o z.obuf, v, Append(T, x)) /\ Rel(v, z, Append(T, x))
             /\ LargeFrames => Len(z.obuf) <= Len(enc.obuf) + InfoSize
    <3>1. LargeFrames => Append(T, x) = sent'
      BY <1>2, <1>5
    <3>. HIDE DEF z, a, room
    <3>2. PICK v : Decodes(a, frame \o z.obuf, v, Append(T, x)) /\ Rel(v, z, Append(T, x))
      BY <2>2
    <3>. QED  BY <2>2, <3>1, <3>2
  <2>3. \/ Len(enc.obuf) >= room /\ z = enc
        \/ /\ z \in CompType
           /\ \E v : Decodes(a, frame \o z.obuf, v, Append(T, x)) /\ Rel(v, z, Append(T, x))
           /\ LargeFrames => Len(z.obuf) <= Len(enc.obuf) + InfoSize
    <3>. HIDE DEF a, room
    <3>. QED  BY <1>3, <1>4, <1>5, EncodeStep DEF z
  <2>. QED  BY <2>1, <2>2, <2>3
<1>10. U \in Seq(Byte)
  BY <1>3, <1>5, <1>9, Appended
<1>11. /\ n \in Nat /\ n <= room /\ n <= l /\ (n < room => n = l) /\ l \in Nat
  <2>1. room \in Nat
    BY <1>4
  <2>2. z.obuf \in Seq(Byte)
    BY <1>9, CompFields
  <2>. HIDE DEF z, room
  <2>3. l \in Nat
    BY <2>2, LenNil
  <2>. QED  BY <2>1, <2>3, <1>9, Room
<1>. HIDE DEF z, a, n
<1>12. /\ enc' \in CompType /\ frame' \in Seq(Byte)
       /\ Decodes(a, frame' \o enc'.obuf, v, U) /\ Rel(v, enc', U)
       /\ Len(frame') = f + n /\ Len(enc'.obuf) = l - n
  <2>1. n <= Len(z.obuf) /\ f = Len(frame) /\ l = Len(z.obuf)
    BY <1>11
  <2>. HIDE DEF f, l, room
  <2>2. /\ frame \in Seq(Byte) /\ z \in CompType /\ n \in Nat
        /\ Decodes(a, frame \o z.obuf, v, U) /\ Rel(v, z, U)
    BY <1>4, <1>9, <1>11
  <2>3. enc' = FillLeft(z, n) /\ frame' = FillFrame(frame, z, n)
    BY <1>6 DEF FillLeft, FillFrame
  <2>4. Fills(a, frame, z, n, FillLeft(z, n), FillFrame(frame, z, n), v, U)
    BY <2>1, <2>2, Fill
  <2>5. Fills(a, frame, z, n, enc', frame', v, U)
    BY <2>3, <2>4
  <2>. QED  BY <2>1, <2>5 DEF Fills
<1>. HIDE DEF f, o, l
<1>13. /\ f + n <= InfoSize
       /\ l - n # 0 => f + n = InfoSize
       /\ LargeFrames => l - n < InfoSize
  BY <1>4, <1>9, <1>11, FillNumbers DEF room
<1>14. TypeOK'
  <2>1. switched' \in 0 .. MaxSwitch
    <3>1. switched \in Nat /\ MaxSwitch \in Nat
      BY <1>8, V42bisAssumption DEF TypeOK
    <3>2. (IF sw[1] THEN 1 ELSE 0) \in Nat /\ (IF sw[2] THEN 1 ELSE 0) \in Nat
      OBVIOUS
    <3>. QED  BY <1>2, <3>1, <3>2
  <2>2. sent' \in Seq(Byte) /\ Len(frame') <= InfoSize /\ flushed' \in BOOLEAN
    BY <1>2, <1>3, <1>4, <1>7, <1>12, <1>13, Appended
  <2>. QED  BY <1>7, <1>8, <1>12, <2>1, <2>2 DEF TypeOK, decVars
<1>15. Receiver'
  <2>1. \A i \in 1 .. Len(line') : line'[i] # <<>>
    BY <1>7, <1>8 DEF Receiver
  <2>. QED  BY <1>7, <1>8, <2>1, ReceiverKept
<1>16. Sender'
  <2>1. enc'.obuf \in Seq(Byte)
    BY <1>12, CompFields
  <2>2. enc'.obuf # <<>> => Len(frame') \in {0, InfoSize}
    BY <1>12, <1>13, <2>1, LenNil
  <2>3. LargeFrames => Len(enc'.obuf) < InfoSize
    BY <1>12, <1>13
  <2>. QED  BY <1>7, <2>2, <2>3 DEF Sender
<1>17. RecvWay(U, p, b)' /\ ShownTo(U, p)'
  BY <1>3, <1>5, <1>7, <1>8, <1>9, RecvKept
<1>18. SentWay(U, b[Len(line)], v)'
  BY <1>7, <1>12 DEF SentWay, a
<1>19. Way(U, p, b, v)'
  BY <1>9, <1>10, <1>17, <1>18 DEF Way
<1>. QED  BY <1>14, <1>15, <1>16, <1>19 DEF IInv

(* modem_comp_flush_encoder makes z of c, or there is no room.             *)
Ended(c, z, room, a, f, T) ==
    \/ Len(c.obuf) >= room /\ z = c
    \/ /\ z \in CompType /\ z.str = <<>> /\ z.bit_len = 0
       /\ \E v : Decodes(a, f \o z.obuf, v, T) /\ Rel(v, z, T)
       /\ LargeFrames => Len(z.obuf) <= Len(c.obuf) + InfoSize

(* modem_comp_flush_encoder at the end of a frame.                         *)
LEMMA FlushEnds ==
    ASSUME NEW a, NEW f \in Seq(Byte), NEW c \in CompType, NEW w, NEW T \in Seq(Byte),
           Decodes(a, f \o c.obuf, w, T), Rel(w, c, T), NEW room
    PROVE  Ended(c, modem_comp_flush_encoder(c, room), room, a, f, T)
  BY FlushStep DEF Ended

(* The encoder at the end of a frame: flushed, unless there is no room.    *)
LEMMA FrameFlush ==
    ASSUME IInv, NEW T \in Seq(Byte), NEW a, NEW w, Decodes(a, frame \o enc.obuf, w, T),
           Rel(w, enc, T), NEW room, room = InfoSize - Len(frame), NEW c,
           c = IF room = 0 THEN enc ELSE modem_comp_flush_encoder(enc, room)
    PROVE  /\ c \in CompType /\ \E v : Decodes(a, frame \o c.obuf, v, T) /\ Rel(v, c, T)
           /\ LargeFrames => /\ Len(c.obuf) <= Len(enc.obuf) + InfoSize
                             /\ (room = 0 => c = enc)
                             /\ (room # 0 => c.str = <<>> /\ c.bit_len = 0)
<1>1. /\ enc \in CompType /\ frame \in Seq(Byte) /\ Len(frame) \in 0 .. InfoSize /\ Len(enc.obuf) \in Nat
  BY SenderFacts
<1>2. CASE room = 0
  BY <1>1, <1>2, Constant
<1>3. CASE room # 0 /\ Len(enc.obuf) >= room /\ c = enc
  <2>1. Len(frame) < InfoSize
    BY <1>1, <1>3, Constant
  <2>2. ~ LargeFrames
    BY <1>3, <2>1, NoLoss
  <2>. QED  BY <1>1, <1>3, <2>2
<1>4. CASE /\ room # 0 /\ c \in CompType /\ c.str = <<>> /\ c.bit_len = 0
           /\ \E v : Decodes(a, frame \o c.obuf, v, T) /\ Rel(v, c, T)
           /\ LargeFrames => Len(c.obuf) <= Len(enc.obuf) + InfoSize
  BY <1>4
<1>5. \/ room = 0
      \/ room # 0 /\ Len(enc.obuf) >= room /\ c = enc
      \/ /\ room # 0 /\ c \in CompType /\ c.str = <<>> /\ c.bit_len = 0
         /\ \E v : Decodes(a, frame \o c.obuf, v, T) /\ Rel(v, c, T)
         /\ LargeFrames => Len(c.obuf) <= Len(enc.obuf) + InfoSize
  <2>1. CASE room = 0
    BY <2>1
  <2>2. CASE room # 0
    <3>1. c = modem_comp_flush_encoder(enc, room)
      BY <2>2
    <3>2. \/ Len(enc.obuf) >= room /\ c = enc
          \/ /\ c \in CompType /\ c.str = <<>> /\ c.bit_len = 0
             /\ \E v : Decodes(a, frame \o c.obuf, v, T) /\ Rel(v, c, T)
             /\ LargeFrames => Len(c.obuf) <= Len(enc.obuf) + InfoSize
      <4>1. Ended(enc, modem_comp_flush_encoder(enc, room), room, a, frame, T)
        BY <1>1, FlushEnds
      <4>2. Ended(enc, c, room, a, frame, T)
        BY <3>1, <4>1
      <4>. QED  BY <4>2 DEF Ended
    <3>. QED  BY <2>2, <3>2
  <2>. QED  BY <2>1, <2>2
<1>. QED  BY <1>2, <1>3, <1>4, <1>5

(* The frame g ends, and is sent unless it is empty.                       *)
LEMMA LineGrows ==
    ASSUME TypeOK, NEW T \in Seq(Byte), NEW p, NEW b, RecvWay(T, p, b), ShownTo(T, p),
           NEW g \in Seq(Byte), NEW e \in Seq(Byte), NEW v, Decodes(b[Len(line)], g \o e, v, T),
           line' = (IF g = <<>> THEN line ELSE Append(line, g)), UNCHANGED decVars
    PROVE  \E d : RecvWay(T, p, d)' /\ Decodes(d[Len(line')], e, v, T)
<1>1. /\ p.d = View(dec) /\ p.n <= Len(T) /\ Decodes(p, rest, b[0], T) /\ Frames(line, b, T)
  BY DEF RecvWay
<1>2. dec' = dec /\ rest' = rest /\ line \in Seq(Seq(Byte))
  BY DEF decVars, TypeOK
<1>3. CASE g = <<>>
  <2>1. line' = line /\ g \o e = e
    BY <1>3
  <2>2. RecvWay(T, p, b)'
    BY <1>1, <1>2, <2>1 DEF RecvWay
  <2>. QED  BY <2>1, <2>2
<1>4. CASE g # <<>>
  <2>1. line' = Append(line, g)
    BY <1>4
  <2>2. PICK q : Decodes(b[Len(line)], g, q, T) /\ Decodes(q, e, v, T)
    BY DecodesSplit
  <2>3. PICK d : Frames(Append(line, g), d, T) /\ d[0] = b[0] /\ d[Len(Append(line, g))] = q
    <3>1. Frames(line, b, T) /\ Decodes(b[Len(line)], g, q, T) /\ line \in Seq(Seq(Byte))
      BY <1>1, <1>2, <2>2
    <3>. QED  BY <3>1, FramesAppend
  <2>4. RecvWay(T, p, d)'
    BY <1>1, <1>2, <2>1, <2>3 DEF RecvWay
  <2>. QED  BY <2>1, <2>2, <2>3, <2>4
<1>. QED  BY <1>3, <1>4

(* No empty frame is sent.                                                 *)
LEMMA LineFull ==
    ASSUME NEW s \in Seq(Seq(Byte)), NEW g \in Seq(Byte), g # <<>>,
           \A i \in 1 .. Len(s) : s[i] # <<>>
    PROVE  /\ Append(s, g) \in Seq(Seq(Byte))
           /\ \A i \in 1 .. Len(Append(s, g)) : Append(s, g)[i] # <<>>
  OBVIOUS

(* The frame ends.                                                         *)
LEMMA EndFrameKeeps ==
    ASSUME IInv, EndFrame
    PROVE  IInv'
<1>. USE Constant
<1>1. PICK T, p, b, w : Way(T, p, b, w)
  BY DEF IInv
<1>. DEFINE a == b[Len(line)]
            f == Len(frame)
            o == Len(enc.obuf)
            room == InfoSize - f
            c == IF room = 0 THEN enc ELSE modem_comp_flush_encoder(enc, room)
            l == Len(c.obuf)
            n == get_odata(c, room)
            g == FillFrame(frame, c, n)
<1>2. /\ enc \in CompType /\ frame \in Seq(Byte) /\ f \in Nat /\ f <= InfoSize
      /\ line \in Seq(Seq(Byte)) /\ sent \in Seq(Byte) /\ o \in Nat
      /\ LargeFrames => o = 0 \/ f \in {0, InfoSize}
      /\ LargeFrames => o < InfoSize
  BY SenderFacts
<1>3. /\ T \in Seq(Byte) /\ (LargeFrames => T = sent) /\ RecvWay(T, p, b)
      /\ Decodes(a, frame \o enc.obuf, w, T) /\ Rel(w, enc, T) /\ ShownTo(T, p)
  BY <1>1 DEF Way, SentWay
<1>4. /\ enc' = FillLeft(c, n) /\ line' = (IF g = <<>> THEN line ELSE Append(line, g))
      /\ flushed' = (room > 0)
  BY DEF EndFrame, FillLeft, FillFrame
<1>5. UNCHANGED decVars /\ sent' = sent /\ switched' = switched /\ frame' = <<>>
  BY DEF EndFrame
<1>6. TypeOK /\ Receiver /\ Sender
  BY DEF IInv
<1>7. /\ room \in Nat /\ (room = 0 => f = InfoSize) /\ (room # 0 => room > 0)
  BY <1>2
<1>8. room = InfoSize - Len(frame) /\ c = IF room = 0 THEN enc ELSE modem_comp_flush_encoder(enc, room)
  OBVIOUS
<1>. HIDE DEF room, c, a
<1>9. /\ c \in CompType /\ \E v : Decodes(a, frame \o c.obuf, v, T) /\ Rel(v, c, T)
      /\ LargeFrames => /\ Len(c.obuf) <= Len(enc.obuf) + InfoSize
                        /\ (room = 0 => c = enc)
                        /\ (room # 0 => c.str = <<>> /\ c.bit_len = 0)
  BY <1>3, <1>8, FrameFlush
<1>10. PICK v : Decodes(a, frame \o c.obuf, v, T) /\ Rel(v, c, T)
  BY <1>9
<1>11. /\ n \in Nat /\ n <= room /\ n <= l /\ (n < room => n = l) /\ l \in Nat
  <2>1. c.obuf \in Seq(Byte)
    BY <1>9, CompFields
  <2>2. l \in Nat
    BY <2>1, LenNil
  <2>. QED  BY <1>7, <1>9, <2>2, Room
<1>. HIDE DEF n
<1>12. Fills(a, frame, c, n, enc', g, v, T)
  <2>1. /\ frame \in Seq(Byte) /\ c \in CompType /\ n \in Nat /\ n <= Len(c.obuf)
        /\ Decodes(a, frame \o c.obuf, v, T) /\ Rel(v, c, T)
    BY <1>2, <1>9, <1>10, <1>11
  <2>2. Fills(a, frame, c, n, FillLeft(c, n), FillFrame(frame, c, n), v, T)
    BY <2>1, Fill
  <2>. QED  BY <1>4, <2>2
<1>. HIDE DEF g
<1>13. /\ enc' \in CompType /\ g \in Seq(Byte) /\ Decodes(a, g \o enc'.obuf, v, T)
       /\ Rel(v, enc', T) /\ Len(enc'.obuf) = l - n
       /\ enc'.str = c.str /\ enc'.bit_len = c.bit_len
  BY <1>12 DEF Fills
<1>14. enc'.obuf \in Seq(Byte)
  BY <1>13, CompFields
<1>15. LargeFrames => l <= o + InfoSize /\ (f = InfoSize => l = o)
  BY <1>2, <1>8, <1>9
<1>16. room = InfoSize - f
  BY <1>8
<1>. HIDE DEF f, o, l
<1>17. LargeFrames => l - n < InfoSize
  BY <1>2, <1>11, <1>15, <1>16, FillNumbers
<1>18. line' \in Seq(Seq(Byte)) /\ \A i \in 1 .. Len(line') : line'[i] # <<>>
  <2>1. \A i \in 1 .. Len(line) : line[i] # <<>>
    BY <1>6 DEF Receiver
  <2>2. CASE g = <<>>
    BY <1>2, <1>4, <2>1, <2>2
  <2>3. CASE g # <<>>
    BY <1>2, <1>4, <1>13, <2>1, <2>3, LineFull
  <2>. QED  BY <2>2, <2>3
<1>19. TypeOK'
  <2>1. frame' \in Seq(Byte) /\ Len(frame') <= InfoSize
    BY <1>5, EmptySeq
  <2>2. flushed' \in BOOLEAN
    BY <1>4
  <2>. QED  BY <1>5, <1>6, <1>13, <1>18, <2>1, <2>2 DEF TypeOK, decVars
<1>20. Receiver'
  BY <1>5, <1>6, <1>18, ReceiverKept
<1>21. Sender'
  <2>1. Len(frame') = 0
    BY <1>5
  <2>2. LargeFrames => Len(enc'.obuf) < InfoSize
    BY <1>13, <1>17
  <2>3. LargeFrames => (flushed' => enc'.str = <<>> /\ enc'.bit_len = 0)
    <3>1. flushed' => room > 0
      BY <1>4
    <3>2. LargeFrames => (room # 0 => c.str = <<>> /\ c.bit_len = 0)
      BY <1>9
    <3>3. room > 0 => room # 0
      BY <1>7
    <3>. QED  BY <1>13, <3>1, <3>2, <3>3
  <2>. QED  BY <2>1, <2>2, <2>3 DEF Sender
<1>22. PICK d : RecvWay(T, p, d)' /\ Decodes(d[Len(line')], enc'.obuf, v, T)
  BY <1>3, <1>4, <1>5, <1>6, <1>13, <1>14, LineGrows DEF a
<1>23. SentWay(T, d[Len(line)], v)'
  <2>1. frame' \o enc'.obuf = enc'.obuf
    BY <1>5, <1>14
  <2>. QED  BY <1>13, <1>22, <2>1 DEF SentWay
<1>24. ShownTo(T, p)'
  BY <1>3, <1>5 DEF ShownTo, decVars
<1>25. Way(T, p, d, v)'
  BY <1>3, <1>5, <1>22, <1>23, <1>24 DEF Way
<1>. QED  BY <1>19, <1>20, <1>21, <1>25 DEF IInv

-----------------------------------------------------------------------------
(* The receiver's steps.                                                   *)

(* What the terminal takes moves from comp.buf to what it has been shown.  *)
LEMMA Moves ==
    ASSUME NEW g \in Seq(Byte), NEW s \in Seq(Byte), NEW p, Fits(p), NEW k \in 0 .. p.count
    PROVE  LET q == comp_send_output(p, k)
           IN  /\ ((g \o shown(p, k)) \o shown(q, q.count)) \o s
                    = (g \o shown(p, p.count)) \o s
               /\ g \o shown(p, k) \in Seq(Byte)
<1>. DEFINE q == comp_send_output(p, k)
            i == shown(p, k)
            j == shown(q, q.count)
<1>1. i \in Seq(Byte) /\ j \in Seq(Byte) /\ i \o j = shown(p, p.count)
  BY SendOutput
<1>. HIDE DEF q, i, j
<1>2. (g \o i) \o j = g \o (i \o j)
  BY <1>1, Concat3
<1>3. g \o i \in Seq(Byte)
  BY <1>1, ConcatProperties
<1>. QED  BY <1>1, <1>2, <1>3 DEF q, i, j

(* A frame is taken from the line, unless there is a rest of one.          *)
TakesFrame ==
    /\ rest # <<>> \/ line # <<>>
    /\ rest' = IF rest = <<>> THEN Head(line) ELSE rest
    /\ line' = IF rest = <<>> THEN Tail(line) ELSE line

(* The decoder's way begins with the frame that is taken.                  *)
LEMMA NextFrame ==
    ASSUME TypeOK, Receiver, NEW T \in Seq(Byte), NEW p, NEW b, RecvWay(T, p, b),
           TakesFrame, dec' = dec
    PROVE  /\ rest' \in Seq(Byte) /\ rest' # <<>> /\ line' \in Seq(Seq(Byte))
           /\ \A i \in 1 .. Len(line') : line'[i] # <<>>
           /\ \E d : RecvWay(T, p, d)' /\ d[Len(line')] = b[Len(line)]
<1>1. /\ p.d = View(dec) /\ p.n <= Len(T) /\ Decodes(p, rest, b[0], T) /\ Frames(line, b, T)
  BY DEF RecvWay
<1>2. rest \in Seq(Byte) /\ line \in Seq(Seq(Byte)) /\ \A i \in 1 .. Len(line) : line[i] # <<>>
  BY DEF TypeOK, Receiver
<1>3. CASE rest # <<>>
  <2>1. rest' = rest /\ line' = line
    BY <1>3 DEF TakesFrame
  <2>2. RecvWay(T, p, b)'
    BY <1>1, <2>1 DEF RecvWay
  <2>. QED  BY <1>2, <1>3, <2>1, <2>2
<1>4. CASE rest = <<>>
  <2>1. rest' = Head(line) /\ line' = Tail(line) /\ line # <<>>
    BY <1>4 DEF TakesFrame
  <2>2. p = b[0]
    BY <1>1, <1>4, DecodesNilSame
  <2>3. /\ Head(line) \in Seq(Byte) /\ Head(line) = line[1] /\ Len(line) >= 1
        /\ \E d : /\ Frames(Tail(line), d, T) /\ Decodes(b[0], Head(line), d[0], T)
                  /\ d[Len(Tail(line))] = b[Len(line)]
    BY <1>1, <1>2, <2>1, FramesTail
  <2>4. PICK d : /\ Frames(Tail(line), d, T) /\ Decodes(b[0], Head(line), d[0], T)
                 /\ d[Len(Tail(line))] = b[Len(line)]
    BY <2>3
  <2>5. RecvWay(T, p, d)'
    BY <1>1, <2>1, <2>2, <2>4 DEF RecvWay
  <2>6. /\ Tail(line) \in Seq(Seq(Byte))
        /\ \A i \in 1 .. Len(Tail(line)) : Tail(line)[i] # <<>>
    BY <1>2, <2>1
  <2>7. Head(line) # <<>>
    BY <1>2, <2>3
  <2>. QED  BY <2>1, <2>3, <2>4, <2>5, <2>6, <2>7
<1>. QED  BY <1>3, <1>4

(* A frame is handed to the decoder, and the terminal takes what waits     *)
(* (modem_comp_put_chars).                                                 *)
LEMMA PutCharsKeeps ==
    ASSUME IInv, PutChars
    PROVE  IInv'
<1>1. PICK T, p, b, w : Way(T, p, b, w)
  BY DEF IInv
<1>2. PICK k \in 0 .. out.count :
          /\ out' = comp_send_output(out, k)
          /\ got' = got \o shown(out, k)
          /\ shorts' = shorts + short(out, k)
  BY DEF PutChars
<1>3. /\ shorts' <= MaxShort /\ putting' = (out'.count = 0)
      /\ UNCHANGED encVars /\ dec' = dec /\ overlaid' = overlaid /\ TakesFrame
  BY DEF PutChars, TakesFrame
<1>4. TypeOK /\ Receiver /\ Sender
  BY DEF IInv
<1>5. /\ T \in Seq(Byte) /\ (LargeFrames => T = sent) /\ RecvWay(T, p, b)
      /\ SentWay(T, b[Len(line)], w) /\ ShownTo(T, p)
  BY <1>1 DEF Way
<1>6. Fits(out) /\ got \in Seq(Byte) /\ dec \in CompType
  BY <1>4 DEF Receiver, TypeOK
<1>7. dec.str \in Seq(Byte)
  BY <1>6, CompFields
<1>8. Fits(out')
  BY <1>2, <1>6, SendOutput
<1>9. /\ rest' \in Seq(Byte) /\ rest' # <<>> /\ line' \in Seq(Seq(Byte))
      /\ \A i \in 1 .. Len(line') : line'[i] # <<>>
      /\ \E d : RecvWay(T, p, d)' /\ d[Len(line')] = b[Len(line)]
  BY <1>3, <1>4, <1>5, NextFrame
<1>10. PICK d : RecvWay(T, p, d)' /\ d[Len(line')] = b[Len(line)]
  BY <1>9
<1>11. /\ ((got' \o shown(out', out'.count)) \o dec.str) = (got \o shown(out, out.count)) \o dec.str
       /\ got' \in Seq(Byte)
  BY <1>2, <1>6, <1>7, Moves
<1>12. ShownTo(T, p)'
  BY <1>3, <1>5, <1>11 DEF ShownTo
<1>13. TypeOK'
  <2>1. shorts' \in 0 .. MaxShort
    <3>1. shorts \in Nat /\ MaxShort \in Nat
      BY <1>4, V42bisAssumption DEF TypeOK
    <3>2. short(out, k) \in Nat
      BY DEF short
    <3>. QED  BY <1>2, <1>3, <3>1, <3>2
  <2>2. out' \in [buf : [1 .. BufSize -> Byte], head : Nat, count : Nat]
    BY <1>8 DEF Fits, OutType
  <2>3. putting' \in BOOLEAN
    BY <1>3
  <2>. QED  BY <1>3, <1>4, <1>9, <1>11, <2>1, <2>2, <2>3 DEF TypeOK, encVars
<1>14. Receiver'
  <2>1. putting' => out'.count = 0
    BY <1>3
  <2>2. dec.obuf = <<>> /\ ~ dec.err /\ (dec.mode = "COMPRESSED" => dec.str = <<>>)
    BY <1>4 DEF Receiver
  <2>. QED  BY <1>3, <1>8, <1>9, <2>1, <2>2 DEF Receiver
<1>15. Sender'
  BY <1>3, <1>4 DEF Sender, encVars
<1>16. SentWay(T, d[Len(line)], w)'
  BY <1>3, <1>5, <1>10 DEF SentWay, encVars
<1>17. (LargeFrames => T = sent)'
  BY <1>3, <1>5 DEF encVars
<1>18. Way(T, p, d, w)'
  BY <1>5, <1>10, <1>12, <1>16, <1>17 DEF Way
<1>. QED  BY <1>13, <1>14, <1>15, <1>18 DEF IInv

(* A comp_state with the view and the mode of c, and the string s.         *)
Keeps(z, c, s) ==
    /\ z \in CompType /\ z.obuf = <<>> /\ z.str = s /\ View(z) = View(c)
    /\ z.err = c.err /\ z.mode = c.mode

(* All of the output of c is taken.                                        *)
LEMMA AllTaken ==
    ASSUME NEW c \in CompType, Len(c.obuf) <= BufSize
    PROVE  /\ Taken(c.obuf, get_odata(c, BufSize)) = c.obuf
           /\ FillLeft(c, get_odata(c, BufSize)) = WithOut(c, <<>>)
           /\ Keeps(WithOut(c, <<>>), c, c.str)
<1>1. c.obuf \in Seq(Byte) /\ Len(c.obuf) \in Nat
  BY CompFields
<1>2. get_odata(c, BufSize) = Len(c.obuf)
  BY <1>1, Constant DEF get_odata, AtMost
<1>3. Taken(c.obuf, Len(c.obuf)) = c.obuf /\ Left(c.obuf, Len(c.obuf)) = <<>>
  BY <1>1, TakenLeft
<1>4. FillLeft(c, Len(c.obuf)) = WithOut(c, <<>>)
  BY <1>3 DEF FillLeft, WithOut
<1>5. Keeps(WithOut(c, <<>>), c, c.str)
  <2>. DEFINE z == WithOut(c, <<>>)
  <2>1. <<>> \in Seq(Byte)
    BY EmptySeq
  <2>2. z \in CompType /\ z.obuf = <<>> /\ SameRest(z, c) /\ z.str = c.str /\ View(z) = View(c)
    BY <2>1, OutShape
  <2>. HIDE DEF z
  <2>3. Keeps(z, c, c.str)
    BY <2>2 DEF Keeps, SameRest
  <2>. QED  BY <2>3 DEF z
<1>. QED  BY <1>2, <1>3, <1>4, <1>5

(* comp_flush_decoder: the string is output, and counts as flushed.        *)
LEMMA FlushedAway ==
    ASSUME NEW d \in CompType, d.obuf = <<>>
    PROVE  /\ comp_flush_decoder(d).obuf = d.str
           /\ Keeps(WithOut(comp_flush_decoder(d), <<>>), d, <<>>)
<1>. DEFINE e == comp_flush_decoder(d)
            f == d.flushed_len + Len(d.str)
<1>1. d.str \in Seq(Byte) /\ d.flushed_len \in Nat /\ f \in Nat /\ <<>> \in Seq(Byte)
  BY CompFields, EmptySeq
<1>2. <<>> \o d.str = d.str
  BY <1>1
<1>3. send_string(d) = [d EXCEPT !.obuf = d.str, !.str = <<>>, !.flushed_len = 0]
  BY <1>2 DEF send_string
<1>4. e = [d EXCEPT !.obuf = d.str, !.str = <<>>, !.flushed_len = f]
  BY <1>3 DEF comp_flush_decoder, CompType
<1>. HIDE DEF e, f
<1>5. e \in CompType
  BY <1>1, <1>4 DEF CompType
<1>6. e.obuf = d.str /\ e.str = <<>> /\ e.flushed_len = f /\ e.err = d.err /\ e.mode = d.mode
  BY <1>4 DEF CompType
<1>7. View(e) = View(d)
  <2>1. e.flushed_len + Len(e.str) = f
    BY <1>1, <1>6
  <2>2. View(e) = [e EXCEPT !.str = <<>>, !.obuf = <<>>, !.flushed_len = f]
    BY <2>1 DEF View
  <2>3. View(d) = [d EXCEPT !.str = <<>>, !.obuf = <<>>, !.flushed_len = f]
    BY DEF View, f
  <2>. QED  BY <1>4, <2>2, <2>3 DEF CompType
<1>. DEFINE z == WithOut(e, <<>>)
<1>8. z \in CompType /\ z.obuf = <<>> /\ SameRest(z, e) /\ z.str = e.str /\ View(z) = View(e)
  BY <1>1, <1>5, OutShape
<1>. HIDE DEF z
<1>9. z.err = e.err /\ z.mode = e.mode
  BY <1>8 DEF SameRest
<1>10. Keeps(z, d, <<>>)
  BY <1>6, <1>7, <1>8, <1>9 DEF Keeps
<1>. QED  BY <1>6, <1>10 DEF e, z

(* The output y of a byte goes through the empty comp.buf o to a terminal  *)
(* that has been shown g and takes k of it; the string s is kept, ...      *)
OneShown(g, y, s, k, P, q) ==
    /\ Fits(P) /\ Fits(q) /\ q.head + q.count + Len(s) <= MaxString
    /\ g \o shown(P, k) \in Seq(Byte)
    /\ ((g \o shown(P, k)) \o shown(q, q.count)) \o s = (g \o y) \o s

(* The output of one byte, short of the terminal or not, stays in order.   *)
LEMMA ShownOne ==
    ASSUME NEW g \in Seq(Byte), NEW y \in Seq(Byte), NEW s \in Seq(Byte), NEW o, Fits(o), o.count = 0,
           Len(y) + Len(s) <= MaxString, NEW k \in 0 .. stored(o, y).count
    PROVE  OneShown(g, y, s, k, stored(o, y), comp_send_output(stored(o, y), k))
<1>. DEFINE P == stored(o, y)
            q == comp_send_output(P, k)
<1>1. o.head = 0 /\ Len(y) \in Nat /\ Len(s) \in Nat
  BY LenNil DEF Fits
<1>2. o.head + o.count + Len(y) <= MaxString
  BY <1>1, Constant
<1>3. P.head = o.head /\ P.count = o.count + Len(y) /\ Fits(P) /\ shown(P, P.count) = y
  BY <1>2, Stored
<1>. HIDE DEF P
<1>4. P.head = 0 /\ P.count = Len(y) /\ k \in 0 .. P.count
  BY <1>1, <1>3 DEF P
<1>5. Fits(q) /\ q.head + q.count <= P.head + P.count
  BY <1>3, <1>4, SendOutput
<1>6. q.head \in Nat /\ q.count \in Nat
  BY <1>5 DEF Fits, OutType
<1>7. q.head + q.count + Len(s) <= MaxString
  BY <1>1, <1>4, <1>5, <1>6, Constant
<1>8. /\ ((g \o shown(P, k)) \o shown(q, q.count)) \o s = (g \o shown(P, P.count)) \o s
      /\ g \o shown(P, k) \in Seq(Byte)
  BY <1>3, <1>4, Moves
<1>. HIDE DEF q
<1>9. OneShown(g, y, s, k, P, q)
  BY <1>3, <1>5, <1>7, <1>8 DEF OneShown
<1>. QED  BY <1>9 DEF P, q

(* ... or is flushed behind the last byte, and the terminal takes j of     *)
(* what is in comp.buf then.                                               *)
LastShown(h, s, q, j, S, R) ==
    /\ Fits(S) /\ Fits(R) /\ h \o shown(S, j) \in Seq(Byte)
    /\ q.count = 0 \/ s = <<>> =>
          ((h \o shown(S, j)) \o shown(R, R.count)) \o <<>> = (h \o shown(q, q.count)) \o s

(* The string flushed behind the last byte stays in order where comp.buf   *)
(* was empty.                                                              *)
LEMMA ShownLast ==
    ASSUME NEW h \in Seq(Byte), NEW s \in Seq(Byte), NEW q, Fits(q),
           q.head + q.count + Len(s) <= MaxString, NEW j \in 0 .. stored(q, s).count
    PROVE  LastShown(h, s, q, j, stored(q, s), comp_send_output(stored(q, s), j))
<1>. DEFINE S == stored(q, s)
            R == comp_send_output(S, j)
<1>0. j \in 0 .. S.count
  OBVIOUS
<1>1. /\ s = <<>> => S = q
      /\ q.count = 0 => Fits(S) /\ shown(S, S.count) = s
      /\ q.count # 0 => Fits(S)
  BY Stored
<1>. HIDE DEF S
<1>2. Fits(S)
  BY <1>1
<1>3. Fits(R)
  BY <1>0, <1>2, SendOutput
<1>4. <<>> \in Seq(Byte)
  BY EmptySeq
<1>5. /\ ((h \o shown(S, j)) \o shown(R, R.count)) \o <<>> = (h \o shown(S, S.count)) \o <<>>
      /\ h \o shown(S, j) \in Seq(Byte)
  <2>. DEFINE e == <<>>
  <2>1. e \in Seq(Byte)
    BY <1>4
  <2>. HIDE DEF e
  <2>2. LET r == comp_send_output(S, j)
        IN  /\ ((h \o shown(S, j)) \o shown(r, r.count)) \o e = (h \o shown(S, S.count)) \o e
            /\ h \o shown(S, j) \in Seq(Byte)
    BY <1>0, <1>2, <2>1, Moves
  <2>. QED  BY <2>2 DEF e
<1>6. q.count \in Nat /\ S.count \in Nat
  BY <1>2 DEF Fits, OutType
<1>7. /\ shown(q, q.count) \in Seq(Byte) /\ Len(shown(q, q.count)) = q.count
      /\ shown(S, S.count) \in Seq(Byte)
  BY <1>2, <1>6, ShownType
<1>. DEFINE i == shown(S, S.count)
            t == shown(q, q.count)
<1>8. i \in Seq(Byte) /\ t \in Seq(Byte)
  BY <1>7
<1>9. ASSUME q.count = 0
      PROVE  ((h \o shown(S, j)) \o shown(R, R.count)) \o <<>> = (h \o shown(q, q.count)) \o s
  <2>1. t = <<>> /\ i = s
    BY <1>1, <1>7, <1>9, LenNil
  <2>. HIDE DEF i, t
  <2>2. (h \o i) \o <<>> = (h \o t) \o s
    <3>1. h \o t = h /\ h \o s \in Seq(Byte)
      BY <2>1, ConcatProperties
    <3>. QED  BY <2>1, <3>1
  <2>. QED  BY <1>2, <1>3, <1>5, <2>2 DEF i, t
<1>10. ASSUME s = <<>>
       PROVE  ((h \o shown(S, j)) \o shown(R, R.count)) \o <<>> = (h \o shown(q, q.count)) \o s
  BY <1>1, <1>2, <1>3, <1>5, <1>10
<1>. HIDE DEF R
<1>11. LastShown(h, s, q, j, S, R)
  BY <1>2, <1>3, <1>5, <1>9, <1>10 DEF LastShown
<1>. QED  BY <1>11 DEF S, R

(* What has been shown before and after a byte, in one piece.              *)
GoesOn(g, u, y, s, T, m, n) ==
    /\ m <= n /\ n <= Len(T) /\ g \o u = SubSeq(T, 1, m)
    /\ y \o s = u \o SubSeq(T, m + 1, n)

Gone(g, u, y, s, T, m, n) == (g \o y) \o s = SubSeq(T, 1, n)

(* The pieces of the text join.                                            *)
LEMMA TextGoesOn ==
    ASSUME NEW g \in Seq(Byte), NEW u \in Seq(Byte), NEW y \in Seq(Byte), NEW s \in Seq(Byte),
           NEW T \in Seq(Byte), NEW m \in Nat, NEW n \in Nat, GoesOn(g, u, y, s, T, m, n)
    PROVE  Gone(g, u, y, s, T, m, n)
<1>0. /\ m <= n /\ n <= Len(T) /\ g \o u = SubSeq(T, 1, m)
      /\ y \o s = u \o SubSeq(T, m + 1, n)
  BY DEF GoesOn
<1>. DEFINE x == SubSeq(T, m + 1, n)
<1>1. x \in Seq(Byte) /\ SubSeq(T, 1, m) \o x = SubSeq(T, 1, n)
  <2>1. SubSeq(T, 1, m) \o x = SubSeq(T, 1, n)
    BY <1>0, TextPart
  <2>. DEFINE k == m + 1
  <2>2. k \in Int /\ \A i \in k .. n : T[i] \in Byte
    BY <1>0
  <2>. HIDE DEF k
  <2>3. SubSeq(T, k, n) \in Seq(Byte)
    BY <2>2, SubSeqProperties
  <2>. QED  BY <2>1, <2>3 DEF k
<1>2. y \o s = u \o x /\ g \o u = SubSeq(T, 1, m)
  BY <1>0
<1>. HIDE DEF x
<1>3. (g \o y) \o s = g \o (y \o s)
  BY Concat3, ZenonT(40)
<1>4. x \in Seq(Byte)
  BY <1>1
<1>5. (g \o u) \o x = g \o (u \o x)
  BY <1>4, Concat3, ZenonT(40)
<1>. QED  BY <1>1, <1>2, <1>3, <1>5 DEF Gone

(* What Decode does, c being the decoder behind the byte.                  *)
DecodesTo(c, k, j) ==
    LET P == stored(out, c.obuf)
        d == WithOut(c, <<>>)
        q == comp_send_output(P, k)
        S == stored(q, c.str)
    IN  /\ k \in 0 .. P.count
        /\ \/ /\ Len(rest) # 1 /\ dec' = d /\ out' = q /\ got' = got \o shown(P, k)
              /\ overlaid' = overlaid /\ putting' = (q.count = 0 /\ ~ c.err)
              /\ shorts' = shorts + short(P, k)
           \/ /\ Len(rest) = 1 /\ j \in 0 .. S.count
              /\ dec' = WithOut(comp_flush_decoder(d), <<>>)
              /\ out' = comp_send_output(S, j)
              /\ got' = (got \o shown(P, k)) \o shown(S, j)
              /\ overlaid' = (overlaid \/ (q.count > 0 /\ c.str # <<>>)) /\ putting' = FALSE
              /\ shorts' = shorts + short(P, k) + short(S, j)

(* Decode does one of the two.                                             *)
LEMMA DecodeCases ==
    ASSUME Decode, NEW c \in CompType, c = comp_decode(dec, Head(rest)), Len(c.obuf) <= BufSize,
           got \in Seq(Byte), shorts \in Nat, overlaid \in BOOLEAN,
           \A P, k : P = stored(out, c.obuf) /\ k \in 0 .. P.count => got \o shown(P, k) \in Seq(Byte)
    PROVE  \E k, j : DecodesTo(c, k, j)
<1>. DEFINE n == get_odata(c, BufSize)
            d == FillLeft(c, n)
            P == stored(out, Taken(c.obuf, n))
            last == Len(rest) = 1
            q(k) == comp_send_output(P, k)
            e == comp_flush_decoder(d)
            s(k) == stored(q(k), e.obuf)
<1>1. \E k \in 0 .. P.count :
        \E j \in IF last THEN 0 .. s(k).count ELSE {0} :
                   /\ dec' = IF last THEN [e EXCEPT !.obuf = <<>>] ELSE d
                   /\ out' = IF last THEN comp_send_output(s(k), j) ELSE q(k)
                   /\ got' = got \o shown(P, k) \o (IF last THEN shown(s(k), j) ELSE <<>>)
                   /\ shorts' = shorts + short(P, k) + (IF last THEN short(s(k), j) ELSE 0)
                   /\ overlaid' = (overlaid \/ (last /\ q(k).count > 0 /\ e.obuf # <<>>))
                   /\ putting' = (~ last /\ q(k).count = 0 /\ ~ c.err)
  BY ZenonT(60) DEF Decode, FillLeft
<1>2. Taken(c.obuf, n) = c.obuf /\ d = WithOut(c, <<>>) /\ Keeps(WithOut(c, <<>>), c, c.str)
  BY AllTaken
<1>. HIDE DEF n
<1>3. P = stored(out, c.obuf)
  BY <1>2
<1>. HIDE DEF d, P
<1>4. d \in CompType /\ d.obuf = <<>> /\ d.str = c.str
  BY <1>2 DEF Keeps
<1>5. e.obuf = c.str /\ [e EXCEPT !.obuf = <<>>] = WithOut(e, <<>>)
  BY <1>4, FlushedAway DEF WithOut
<1>. HIDE DEF e
<1>6. PICK k \in 0 .. P.count :
        \E j \in IF last THEN 0 .. s(k).count ELSE {0} :
                   /\ dec' = IF last THEN [e EXCEPT !.obuf = <<>>] ELSE d
                   /\ out' = IF last THEN comp_send_output(s(k), j) ELSE q(k)
                   /\ got' = got \o shown(P, k) \o (IF last THEN shown(s(k), j) ELSE <<>>)
                   /\ shorts' = shorts + short(P, k) + (IF last THEN short(s(k), j) ELSE 0)
                   /\ overlaid' = (overlaid \/ (last /\ q(k).count > 0 /\ e.obuf # <<>>))
                   /\ putting' = (~ last /\ q(k).count = 0 /\ ~ c.err)
  BY <1>1
<1>7. PICK j \in IF last THEN 0 .. s(k).count ELSE {0} :
                   /\ dec' = IF last THEN [e EXCEPT !.obuf = <<>>] ELSE d
                   /\ out' = IF last THEN comp_send_output(s(k), j) ELSE q(k)
                   /\ got' = got \o shown(P, k) \o (IF last THEN shown(s(k), j) ELSE <<>>)
                   /\ shorts' = shorts + short(P, k) + (IF last THEN short(s(k), j) ELSE 0)
                   /\ overlaid' = (overlaid \/ (last /\ q(k).count > 0 /\ e.obuf # <<>>))
                   /\ putting' = (~ last /\ q(k).count = 0 /\ ~ c.err)
  BY <1>6
<1>8. s(k) = stored(q(k), c.str)
  BY <1>5
<1>. HIDE DEF q, s
<1>9. CASE last
  <2>1. /\ j \in 0 .. s(k).count /\ dec' = [e EXCEPT !.obuf = <<>>]
        /\ out' = comp_send_output(s(k), j) /\ got' = got \o shown(P, k) \o shown(s(k), j)
        /\ shorts' = shorts + short(P, k) + short(s(k), j)
    BY <1>7, <1>9
  <2>2. overlaid' = (overlaid \/ (q(k).count > 0 /\ c.str # <<>>)) /\ putting' = FALSE
    BY <1>5, <1>7, <1>9
  <2>3. DecodesTo(c, k, j)
    BY <1>2, <1>3, <1>5, <1>8, <1>9, <2>1, <2>2 DEF DecodesTo, e, q
  <2>. QED  BY <2>3
<1>10. CASE ~ last
  <2>1. /\ dec' = d /\ out' = q(k) /\ got' = got \o shown(P, k) \o <<>>
        /\ shorts' = shorts + short(P, k) + 0
    BY <1>7, <1>10
  <2>2. overlaid' = (overlaid \/ FALSE) /\ putting' = (q(k).count = 0 /\ ~ c.err)
    BY <1>7, <1>10
  <2>3. got \o shown(P, k) \in Seq(Byte)
    BY <1>3
  <2>4. got' = got \o shown(P, k)
    BY <2>1, <2>3
  <2>5. shorts' = shorts + short(P, k)
    BY <2>1 DEF short
  <2>6. overlaid' = overlaid
    BY <2>2
  <2>7. DecodesTo(c, k, j)
    BY <1>2, <1>3, <1>10, <2>1, <2>2, <2>4, <2>5, <2>6 DEF DecodesTo, q
  <2>. QED  BY <2>7
<1>. QED  BY <1>9, <1>10, Zenon

(* The byte has been decoded: the decoder is at r.                         *)
ByteDone(c, p, r, T, b) ==
    /\ c = comp_decode(dec, Head(rest)) /\ c \in CompType /\ ~ c.err /\ r.d = View(c)
    /\ c.mode = "COMPRESSED" => c.str = <<>>
    /\ Len(c.obuf) + Len(c.str) <= MaxString
    /\ r.n <= Len(T) /\ p.n \in Nat /\ r.n \in Nat /\ p.n <= r.n
    /\ c.obuf \o c.str = dec.str \o SubSeq(T, p.n + 1, r.n)
    /\ Decodes(r, Tail(rest), b[0], T)

(* The next byte is on the decoder's way, so it finds no error.            *)
LEMMA ByteIsDone ==
    ASSUME TypeOK, Receiver, rest # <<>>, NEW T \in Seq(Byte), NEW p, NEW b, RecvWay(T, p, b)
    PROVE  \E c, r : ByteDone(c, p, r, T, b)
<1>1. p.d = View(dec) /\ Decodes(p, rest, b[0], T)
  BY DEF RecvWay
<1>2. dec \in CompType /\ rest \in Seq(Byte) /\ dec.obuf = <<>> /\ (dec.mode = "COMPRESSED" => dec.str = <<>>)
  BY DEF TypeOK, Receiver
<1>3. PICK r : Step(p, Head(rest), r, T) /\ Decodes(r, Tail(rest), b[0], T)
  BY <1>1, <1>2, DecodesHead
<1>4. Head(rest) \in Byte
  BY <1>2, HeadTailProperties
<1>. DEFINE x == Head(rest)
            c == comp_decode(dec, x)
<1>. HIDE DEF x
<1>5. Decoded(dec, c, p, r, T)
  <2>1. x \in Byte /\ Step(p, x, r, T)
    BY <1>3, <1>4 DEF x
  <2>. QED  BY <1>1, <1>2, <2>1, DecodeByte
<1>. HIDE DEF c
<1>6. ByteDone(c, p, r, T, b)
  <2>1. c = comp_decode(dec, Head(rest))
    BY DEF c, x
  <2>. QED  BY <1>3, <1>5, <2>1 DEF ByteDone, Decoded
<1>. QED  BY <1>6

(* The text is shown up to r, in either case of Decode.                    *)
LEMMA DecodeShows ==
    ASSUME TypeOK, Receiver, putting, NEW T \in Seq(Byte), NEW p, NEW b, NEW c, NEW r,
           ByteDone(c, p, r, T, b), ShownTo(T, p), NEW k, NEW j, DecodesTo(c, k, j)
    PROVE  /\ Fits(out') /\ got' \in Seq(Byte) /\ ShownTo(T, r)'
           /\ Keeps(dec', c, IF Len(rest) = 1 THEN <<>> ELSE c.str)
           /\ putting' = TRUE => Len(rest) # 1 /\ out'.count = 0
<1>. DEFINE y == c.obuf
            s == c.str
            P == stored(out, y)
            d == WithOut(c, <<>>)
            q == comp_send_output(P, k)
            S == stored(q, s)
            h == got \o shown(P, k)
<1>1. c \in CompType /\ y \in Seq(Byte) /\ s \in Seq(Byte) /\ Len(y) + Len(s) <= MaxString
  BY CompFields DEF ByteDone
<1>2. Fits(out) /\ out.count = 0 /\ got \in Seq(Byte) /\ dec \in CompType /\ overlaid \in BOOLEAN
  BY DEF Receiver, TypeOK
<1>3. dec.str \in Seq(Byte)
  BY <1>2, CompFields
<1>4. k \in 0 .. P.count
  BY DEF DecodesTo
<1>5. /\ Fits(P) /\ Fits(q) /\ q.head + q.count + Len(s) <= MaxString
      /\ h \in Seq(Byte) /\ (h \o shown(q, q.count)) \o s = (got \o y) \o s
  <2>. HIDE DEF y, s
  <2>1. OneShown(got, y, s, k, stored(out, y), comp_send_output(stored(out, y), k))
    BY <1>1, <1>2, <1>4, ShownOne
  <2>2. OneShown(got, y, s, k, P, q)
    BY <2>1
  <2>. HIDE DEF P, q
  <2>. QED  BY <2>2 DEF OneShown, h
<1>6. Len(y) \in Nat /\ Len(s) \in Nat /\ Len(y) <= BufSize
  <2>. HIDE DEF y, s
  <2>1. Len(y) \in Nat /\ Len(s) \in Nat
    BY <1>1, LenNil
  <2>. DEFINE i == Len(y)
              l == Len(s)
  <2>2. i \in Nat /\ l \in Nat /\ i + l <= MaxString
    BY <1>1, <2>1
  <2>. HIDE DEF i, l
  <2>3. i <= BufSize
    BY <2>2, Constant
  <2>. QED  BY <2>1, <2>3 DEF i
<1>7. Keeps(d, c, s)
  BY <1>1, <1>6, AllTaken
<1>8. Keeps(WithOut(comp_flush_decoder(d), <<>>), c, <<>>)
  <2>1. d \in CompType /\ d.obuf = <<>> /\ View(d) = View(c) /\ d.err = c.err /\ d.mode = c.mode
    BY <1>7 DEF Keeps
  <2>. HIDE DEF d
  <2>2. Keeps(WithOut(comp_flush_decoder(d), <<>>), d, <<>>)
    BY <2>1, FlushedAway
  <2>. QED  BY <2>1, <2>2 DEF Keeps
<1>9. ~ overlaid => (got \o y) \o s = SubSeq(T, 1, r.n)
  <2>1. CASE ~ overlaid
    <3>1. shown(out, out.count) \in Seq(Byte) /\ Len(shown(out, out.count)) = 0
      BY <1>2, ShownType
    <3>2. shown(out, out.count) = <<>>
      BY <3>1, LenNil
    <3>3. (got \o <<>>) \o dec.str = SubSeq(T, 1, p.n)
      BY <2>1, <3>2 DEF ShownTo
    <3>4. got \o <<>> = got
      BY <1>2
    <3>5. got \o dec.str = SubSeq(T, 1, p.n)
      BY <3>3, <3>4
    <3>6. /\ r.n <= Len(T) /\ p.n \in Nat /\ r.n \in Nat /\ p.n <= r.n
          /\ y \o s = dec.str \o SubSeq(T, p.n + 1, r.n)
      BY DEF ByteDone
    <3>. DEFINE m == p.n
                n == r.n
    <3>7. /\ n <= Len(T) /\ m \in Nat /\ n \in Nat /\ m <= n
          /\ y \o s = dec.str \o SubSeq(T, m + 1, n) /\ got \o dec.str = SubSeq(T, 1, m)
      BY <3>5, <3>6
    <3>. HIDE DEF m, n, y, s
    <3>8. GoesOn(got, dec.str, y, s, T, m, n)
      BY <3>7 DEF GoesOn
    <3>9. (got \o y) \o s = SubSeq(T, 1, n)
      <4>. DEFINE u == dec.str
      <4>1. /\ got \in Seq(Byte) /\ u \in Seq(Byte) /\ y \in Seq(Byte) /\ s \in Seq(Byte)
            /\ m \in Nat /\ n \in Nat /\ GoesOn(got, u, y, s, T, m, n)
        BY <1>1, <1>2, <1>3, <3>7, <3>8
      <4>. HIDE DEF u
      <4>2. Gone(got, u, y, s, T, m, n)
        BY <4>1, TextGoesOn
      <4>. QED  BY <4>2 DEF Gone
    <3>. QED  BY <3>9 DEF n
  <2>. QED  BY <2>1
<1>10. CASE Len(rest) # 1
  <2>1. /\ dec' = d /\ out' = q /\ got' = h
        /\ overlaid' = overlaid /\ putting' = (q.count = 0 /\ ~ c.err)
    BY <1>10 DEF DecodesTo
  <2>2. dec'.str = s
    BY <1>7, <2>1 DEF Keeps
  <2>3. ShownTo(T, r)'
    <3>1. ~ overlaid' => (got' \o shown(out', out'.count)) \o dec'.str = SubSeq(T, 1, r.n)
      BY <1>5, <1>9, <2>1, <2>2
    <3>. QED  BY <3>1 DEF ShownTo
  <2>. QED  BY <1>5, <1>7, <1>10, <2>1, <2>3
<1>11. CASE Len(rest) = 1
  <2>. DEFINE R == comp_send_output(S, j)
  <2>1. /\ j \in 0 .. S.count /\ dec' = WithOut(comp_flush_decoder(d), <<>>)
        /\ out' = R /\ got' = h \o shown(S, j)
        /\ overlaid' = (overlaid \/ (q.count > 0 /\ s # <<>>)) /\ putting' = FALSE
    BY <1>11 DEF DecodesTo
  <2>2. /\ Fits(S) /\ Fits(R) /\ h \o shown(S, j) \in Seq(Byte)
        /\ q.count = 0 \/ s = <<>> =>
             ((h \o shown(S, j)) \o shown(R, R.count)) \o <<>> = (h \o shown(q, q.count)) \o s
    <3>. HIDE DEF h, q, s
    <3>1. LastShown(h, s, q, j, stored(q, s), comp_send_output(stored(q, s), j))
      BY <1>1, <1>5, <2>1, ShownLast
    <3>2. LastShown(h, s, q, j, S, R)
      BY <3>1
    <3>. HIDE DEF S, R
    <3>. QED  BY <3>2 DEF LastShown
  <2>3. dec'.str = <<>>
    BY <1>8, <2>1 DEF Keeps
  <2>4. ~ overlaid' => ~ overlaid /\ (q.count = 0 \/ s = <<>>)
    <3>1. q.count \in Nat
      BY <1>5 DEF Fits, OutType
    <3>2. ~ (q.count > 0) => q.count = 0
      BY <3>1
    <3>. QED  BY <2>1, <3>2
  <2>. HIDE DEF h, q, s, S, R, y
  <2>5. ~ overlaid' => (got' \o shown(out', out'.count)) \o dec'.str = SubSeq(T, 1, r.n)
    BY <1>5, <1>9, <2>1, <2>2, <2>3, <2>4
  <2>6. ShownTo(T, r)'
    BY <2>5 DEF ShownTo
  <2>. QED  BY <1>8, <1>11, <2>1, <2>2, <2>6
<1>. QED  BY <1>10, <1>11

(* A byte is decoded.                                                      *)
LEMMA DecodeKeeps ==
    ASSUME IInv, Decode
    PROVE  IInv'
<1>1. PICK T, p, b, w : Way(T, p, b, w)
  BY DEF IInv
<1>2. TypeOK /\ Receiver /\ Sender /\ putting
  BY DEF IInv, Decode
<1>3. /\ T \in Seq(Byte) /\ (LargeFrames => T = sent) /\ RecvWay(T, p, b)
      /\ SentWay(T, b[Len(line)], w) /\ ShownTo(T, p)
  BY <1>1 DEF Way
<1>4. /\ rest \in Seq(Byte) /\ rest # <<>> /\ got \in Seq(Byte) /\ shorts \in Nat
      /\ overlaid \in BOOLEAN /\ Fits(out) /\ out.count = 0
  BY <1>2 DEF TypeOK, Receiver
<1>5. PICK c, r : ByteDone(c, p, r, T, b)
  BY <1>2, <1>3, <1>4, ByteIsDone
<1>6. /\ c = comp_decode(dec, Head(rest)) /\ c \in CompType /\ ~ c.err /\ r.d = View(c)
      /\ c.mode = "COMPRESSED" => c.str = <<>>
      /\ Len(c.obuf) + Len(c.str) <= MaxString
      /\ r.n <= Len(T) /\ Decodes(r, Tail(rest), b[0], T)
  BY <1>5 DEF ByteDone
<1>7. c.obuf \in Seq(Byte) /\ c.str \in Seq(Byte) /\ Len(c.obuf) \in Nat /\ Len(c.str) \in Nat
  BY <1>6, CompFields
<1>8. Len(c.obuf) <= BufSize
  <2>. DEFINE i == Len(c.obuf)
              l == Len(c.str)
  <2>1. i \in Nat /\ l \in Nat /\ i + l <= MaxString
    BY <1>6, <1>7
  <2>. HIDE DEF i, l
  <2>2. i <= BufSize
    BY <2>1, Constant
  <2>. QED  BY <2>2 DEF i
<1>9. ASSUME NEW k \in 0 .. stored(out, c.obuf).count
      PROVE  got \o shown(stored(out, c.obuf), k) \in Seq(Byte)
  <2>. DEFINE y == c.obuf
              s == c.str
  <2>1. y \in Seq(Byte) /\ s \in Seq(Byte) /\ Len(y) + Len(s) <= MaxString /\ k \in 0 .. stored(out, y).count
    BY <1>6, <1>7
  <2>. HIDE DEF y, s
  <2>2. OneShown(got, y, s, k, stored(out, y), comp_send_output(stored(out, y), k))
    BY <1>4, <2>1, ShownOne
  <2>. QED  BY <2>2 DEF OneShown, y
<1>10. PICK k, j : DecodesTo(c, k, j)
  <2>1. \A P, k : P = stored(out, c.obuf) /\ k \in 0 .. P.count => got \o shown(P, k) \in Seq(Byte)
    BY <1>9
  <2>. QED  BY <1>4, <1>6, <1>8, <2>1, DecodeCases
<1>11. /\ Fits(out') /\ got' \in Seq(Byte) /\ ShownTo(T, r)'
       /\ Keeps(dec', c, IF Len(rest) = 1 THEN <<>> ELSE c.str)
       /\ putting' = TRUE => Len(rest) # 1 /\ out'.count = 0
  BY <1>2, <1>3, <1>5, <1>10, DecodeShows
<1>12. rest' = Tail(rest) /\ UNCHANGED encVars /\ line' = line /\ shorts' <= MaxShort
  BY DEF Decode
<1>13. /\ dec' \in CompType /\ dec'.obuf = <<>> /\ View(dec') = View(c)
       /\ dec'.err = c.err /\ dec'.mode = c.mode
       /\ dec'.str = IF Len(rest) = 1 THEN <<>> ELSE c.str
  BY <1>11 DEF Keeps
<1>14. Tail(rest) \in Seq(Byte) /\ Len(rest) \in Nat /\ Len(Tail(rest)) = Len(rest) - 1
  BY <1>4, HeadTailProperties
<1>15. Len(rest) = 1 <=> rest' = <<>>
  <2>. DEFINE t == Tail(rest)
              l == Len(t)
              m == Len(rest)
  <2>1. t \in Seq(Byte) /\ m \in Nat /\ l = m - 1
    BY <1>14
  <2>. HIDE DEF m, t
  <2>2. l \in Nat /\ (l = 0 <=> t = <<>>)
    BY <2>1, LenNil
  <2>. HIDE DEF l
  <2>3. m = 1 <=> t = <<>>
    BY <2>1, <2>2
  <2>. QED  BY <1>12, <2>3 DEF m, t
<1>16. putting' \in BOOLEAN /\ overlaid' \in BOOLEAN
  <2>. DEFINE P == stored(out, c.obuf)
              q == comp_send_output(P, k)
  <2>1. \/ putting' = (q.count = 0 /\ ~ c.err) /\ overlaid' = overlaid
        \/ putting' = FALSE /\ overlaid' = (overlaid \/ (q.count > 0 /\ c.str # <<>>))
    BY <1>10 DEF DecodesTo
  <2>. HIDE DEF q
  <2>. QED  BY <1>4, <2>1
<1>17. shorts' \in Nat
  <2>. DEFINE P == stored(out, c.obuf)
              q == comp_send_output(P, k)
              S == stored(q, c.str)
  <2>1. shorts' = shorts + short(P, k) \/ shorts' = shorts + short(P, k) + short(S, j)
    BY <1>10 DEF DecodesTo
  <2>2. short(P, k) \in Nat /\ short(S, j) \in Nat
    BY DEF short
  <2>. HIDE DEF P, S
  <2>. QED  BY <1>4, <2>1, <2>2
<1>18. TypeOK'
  <2>1. shorts' \in 0 .. MaxShort
    BY <1>12, <1>17, V42bisAssumption
  <2>2. out' \in [buf : [1 .. BufSize -> Byte], head : Nat, count : Nat]
    BY <1>11 DEF Fits, OutType
  <2>3. /\ dec' \in CompType /\ rest' \in Seq(Byte) /\ got' \in Seq(Byte)
        /\ putting' \in BOOLEAN /\ overlaid' \in BOOLEAN
    BY <1>11, <1>12, <1>13, <1>14, <1>16
  <2>. QED  BY <1>2, <1>12, <2>1, <2>2, <2>3 DEF TypeOK, encVars
<1>19. Receiver'
  <2>1. dec'.obuf = <<>> /\ ~ dec'.err
    BY <1>6, <1>13
  <2>2. dec'.mode = "COMPRESSED" => dec'.str = <<>>
    BY <1>6, <1>13
  <2>3. putting' => rest' # <<>> /\ out'.count = 0
    BY <1>11, <1>15, <1>16
  <2>4. rest' = <<>> => dec'.str = <<>>
    BY <1>13, <1>15
  <2>5. \A i \in 1 .. Len(line') : line'[i] # <<>>
    BY <1>2, <1>12 DEF Receiver
  <2>. QED  BY <1>11, <2>1, <2>2, <2>3, <2>4, <2>5 DEF Receiver
<1>20. Sender'
  BY <1>2, <1>12 DEF Sender, encVars
<1>21. RecvWay(T, r, b)'
  BY <1>3, <1>6, <1>12, <1>13 DEF RecvWay
<1>22. SentWay(T, b[Len(line)], w)'
  BY <1>3, <1>12 DEF SentWay, encVars
<1>23. (LargeFrames => T = sent)'
  BY <1>3, <1>12 DEF encVars
<1>24. Way(T, r, b, w)'
  BY <1>3, <1>11, <1>21, <1>22, <1>23 DEF Way
<1>. QED  BY <1>18, <1>19, <1>20, <1>24 DEF IInv

(* A step that changes nothing.                                            *)
LEMMA StutterKeeps ==
    ASSUME IInv, UNCHANGED vars
    PROVE  IInv'
<1>1. PICK T, p, b, w : Way(T, p, b, w)
  BY DEF IInv
<1>2. TypeOK /\ Receiver /\ Sender
  BY DEF IInv
<1>3. TypeOK'
  BY <1>2 DEF TypeOK, vars
<1>4. Receiver' /\ Sender'
  BY <1>2 DEF Receiver, Sender, vars
<1>5. Way(T, p, b, w)'
  BY <1>1 DEF Way, RecvWay, SentWay, ShownTo, vars
<1>. QED  BY <1>3, <1>4, <1>5 DEF IInv

(* The inductive invariant holds in every state.                           *)
THEOREM V42bisInvariant == Spec => []IInv
<1>1. IInv /\ [Next]_vars => IInv'
  <2>. SUFFICES ASSUME IInv, [Next]_vars
                PROVE  IInv'
    OBVIOUS
  <2>1. CASE GetChar
    BY <2>1, GetCharKeeps
  <2>2. CASE EndFrame
    BY <2>2, EndFrameKeeps
  <2>3. CASE PutChars
    BY <2>3, PutCharsKeeps
  <2>4. CASE Decode
    BY <2>4, DecodeKeeps
  <2>5. CASE UNCHANGED vars
    BY <2>5, StutterKeeps
  <2>. QED  BY <2>1, <2>2, <2>3, <2>4, <2>5 DEF Next
<1>. QED  BY <1>1, IInvInit, PTL DEF Spec

(* The comp_states, buffers and frames keep their types: a codeword stays  *)
(* in the dictionary and a frame in its size, and a string in comp.buf     *)
(* (comp_encode, comp_decode, get_odata).                                  *)
THEOREM V42bisType == Spec => []TypeOK
<1>1. IInv => TypeOK
  BY DEF IInv
<1>. QED  BY <1>1, V42bisInvariant, PTL

(* No decoder finds an error in what an encoder sends: no codeword of an   *)
(* entry that is free or is freed by the very codeword, none beyond the    *)
(* dictionary, no width beyond the limit, no command that there is not     *)
(* (comp_decode).                                                          *)
THEOREM V42bisNoError == Spec => []NoDecoderError
<1>1. IInv => NoDecoderError
  BY DEF IInv, Receiver, NoDecoderError
<1>. QED  BY <1>1, V42bisInvariant, PTL

-----------------------------------------------------------------------------
(* A frame that has room for what one character makes: nothing is lost     *)
(* between the terminals.                                                  *)

(* A sequence begins with its first part.                                  *)
LEMMA ConcatBegins ==
    ASSUME NEW a \in Seq(Byte), NEW s \in Seq(Byte)
    PROVE  /\ a \o s \in Seq(Byte) /\ Len(a \o s) = Len(a) + Len(s)
           /\ \A k \in 1 .. Len(a) : (a \o s)[k] = a[k]
  BY ConcatProperties

(* What has been shown, and what waits, is a part of the text.             *)
Pieces(g, i, s, T, n) == n <= Len(T) /\ (g \o i) \o s = SubSeq(T, 1, n)

FirstPiece(g, i, s, T, n) ==
    /\ Len(g) <= Len(T) /\ g = SubSeq(T, 1, Len(g))
    /\ Len(g) + Len(i) + Len(s) = n

(* The first piece is the beginning of the text.                           *)
LEMMA ShownPart ==
    ASSUME NEW g \in Seq(Byte), NEW i \in Seq(Byte), NEW s \in Seq(Byte), NEW T \in Seq(Byte),
           NEW n \in Nat, Pieces(g, i, s, T, n)
    PROVE  FirstPiece(g, i, s, T, n)
<1>0. n <= Len(T) /\ (g \o i) \o s = SubSeq(T, 1, n)
  BY DEF Pieces
<1>1. Len(g) \in Nat /\ Len(i) \in Nat /\ Len(s) \in Nat
  BY LenNil
<1>. DEFINE a == g \o i
            u == a \o s
<1>2. /\ a \in Seq(Byte) /\ Len(a) = Len(g) + Len(i) /\ \A k \in 1 .. Len(g) : a[k] = g[k]
  BY ConcatBegins
<1>. HIDE DEF a
<1>3. /\ u \in Seq(Byte) /\ Len(u) = Len(a) + Len(s) /\ \A k \in 1 .. Len(a) : u[k] = a[k]
  BY <1>2, ConcatBegins
<1>4. u = SubSeq(T, 1, n)
  <2>1. u = (g \o i) \o s
    BY DEF a
  <2>. HIDE DEF u
  <2>. QED  BY <1>0, <2>1
<1>. HIDE DEF u
<1>5. Len(u) = n /\ \A k \in 1 .. n : u[k] = T[k]
  <2>1. \A k \in 1 .. n : T[k] \in Byte
    BY <1>0
  <2>2. /\ Len(SubSeq(T, 1, n)) = IF 1 <= n THEN n - 1 + 1 ELSE 0
        /\ \A k \in 1 .. n - 1 + 1 : SubSeq(T, 1, n)[k] = T[1 + k - 1]
    BY <2>1, SubSeqProperties
  <2>. QED  BY <1>4, <2>2
<1>6. Len(g) + Len(i) + Len(s) = n
  BY <1>1, <1>2, <1>3, <1>5
<1>. DEFINE m == Len(g)
            v == SubSeq(T, 1, m)
<1>7. m \in Nat /\ m <= n /\ m <= Len(T) /\ Len(T) \in Nat
  BY <1>0, <1>1, <1>6
<1>8. \A k \in 1 .. m : g[k] = T[k]
  BY <1>1, <1>2, <1>3, <1>5, <1>6
<1>. HIDE DEF m
<1>9. v \in Seq(Byte) /\ Len(v) = m /\ \A k \in 1 .. m : v[k] = T[k]
  <2>1. \A k \in 1 .. m : T[k] \in Byte
    BY <1>7
  <2>2. /\ SubSeq(T, 1, m) \in Seq(Byte)
        /\ Len(SubSeq(T, 1, m)) = IF 1 <= m THEN m - 1 + 1 ELSE 0
        /\ \A k \in 1 .. m - 1 + 1 : SubSeq(T, 1, m)[k] = T[1 + k - 1]
    BY <1>7, <2>1, SubSeqProperties
  <2>. QED  BY <1>7, <2>2
<1>. HIDE DEF v
<1>10. Len(g) = m
  BY DEF m
<1>11. g = v
  BY <1>8, <1>9, <1>10, SeqEqual
<1>. QED  BY <1>6, <1>7, <1>10, <1>11 DEF v, FirstPiece

(* What the invariant says of the terminals.                               *)
LEMMA TextFacts ==
    ASSUME IInv, NEW T, NEW p, NEW b, NEW w, Way(T, p, b, w), LargeFrames, ~ overlaid
    PROVE  /\ Len(got) <= Len(sent) /\ got = SubSeq(sent, 1, Len(got))
           /\ Len(got) + out.count + Len(dec.str) = p.n
<1>. DEFINE i == shown(out, out.count)
            s == dec.str
            n == p.n
<1>1. /\ T \in Seq(Byte) /\ T = sent /\ n <= Len(T)
      /\ (got \o i) \o s = SubSeq(T, 1, n) /\ Decodes(p, rest, b[0], T)
  BY DEF Way, RecvWay, ShownTo
<1>2. n \in Nat
  BY <1>1 DEF Decodes, Viewed, Point
<1>3. got \in Seq(Byte) /\ Fits(out) /\ dec \in CompType
  BY DEF IInv, TypeOK, Receiver
<1>4. s \in Seq(Byte)
  BY <1>3, CompFields
<1>5. out.count \in Nat
  BY <1>3 DEF Fits, OutType
<1>6. i \in Seq(Byte) /\ Len(i) = out.count
  BY <1>3, <1>5, ShownType
<1>. HIDE DEF i, s, n
<1>7. Pieces(got, i, s, T, n)
  BY <1>1 DEF Pieces
<1>8. FirstPiece(got, i, s, T, n)
  BY <1>1, <1>2, <1>3, <1>4, <1>6, <1>7, ShownPart
<1>. QED  BY <1>1, <1>6, <1>8 DEF FirstPiece, s, n

(* An encoder without a string and without bits that wait: the decoder has *)
(* all of the text, and the same dictionary.                               *)
LEMMA AtRest ==
    ASSUME NEW w, NEW c, NEW T, Rel(w, c, T), c.str = <<>>, c.bit_len = 0
    PROVE  /\ w.n = Len(T) /\ w.d.parent = c.parent /\ w.d.ch = c.ch
           /\ w.d.next_free = c.next_free /\ w.d.mode = c.mode
           /\ w.d.cw_size = c.cw_size /\ w.d.escape_char = c.escape_char
<1>1. CASE RelT(w, c, T)
  <2>1. PICK F : Leads(w, c, F, T) /\ AtT(F, c, T)
    BY <1>1 DEF RelT
  <2>2. c \in CompType
    BY RelFacts
  <2>3. c.escape_char \in Byte
    BY <2>2, CompFields
  <2>4. escaped(c.escape_char, c.str) = <<>> /\ escape_after(c.escape_char, c.str) = c.escape_char
    BY <2>3, EscapesNil
  <2>5. w = F
    BY <2>1, <2>4, DecodesNilSame DEF Leads
  <2>6. Base(F, c, T) /\ Alike(F.d, c)
    BY <2>1 DEF AtT
  <2>7. /\ F.n = Len(T) /\ c.mode = "TRANSPARENT" /\ c.cw_size = F.d.cw_size
        /\ F.d.escape_char = c.escape_char /\ F.d.mode = "TRANSPARENT"
    BY <2>4, <2>6 DEF Base, Open
  <2>8. F.d.parent = c.parent /\ F.d.ch = c.ch /\ F.d.next_free = c.next_free
    BY <2>6 DEF Alike
  <2>. QED  BY <2>5, <2>7, <2>8
<1>2. CASE RelC(w, c, T)
  <2>1. PICK g : Pending(w, c, g, T) /\ AtC(g, c, T)
    BY <1>2 DEF RelC
  <2>2. w = g
    BY <2>1 DEF Pending
  <2>3. SyncC(g, c, T)
    BY <2>1 DEF AtC, StrC
  <2>4. Linked(g, c, T) /\ SameDict(g.d, c) /\ g.n = Len(T)
    BY <2>3 DEF SyncC
  <2>5. c.mode = "COMPRESSED" /\ g.d.mode = "COMPRESSED" /\ c.cw_size = g.d.cw_size
        /\ c.escape_char = g.d.escape_char
    BY <2>4 DEF Linked, Closed
  <2>6. g.d.parent = c.parent /\ g.d.ch = c.ch /\ g.d.next_free = c.next_free
    BY <2>4 DEF SameDict
  <2>. QED  BY <2>2, <2>4, <2>5, <2>6
<1>. QED  BY <1>1, <1>2 DEF Rel

(* Once all is decoded, the decoder is where the encoder has led it.       *)
LEMMA AllDecoded ==
    ASSUME IInv, LargeFrames, Drained, NEW T, NEW p, NEW b, NEW w, Way(T, p, b, w)
    PROVE  /\ T = sent /\ p.n = Len(T) /\ p.d = View(dec) /\ dec \in CompType /\ dec.str = <<>>
           /\ p.d.parent = enc.parent /\ p.d.ch = enc.ch
           /\ p.d.next_free = enc.next_free /\ p.d.mode = enc.mode
           /\ p.d.cw_size = enc.cw_size /\ p.d.escape_char = enc.escape_char
<1>1. flushed /\ frame = <<>> /\ enc.obuf = <<>> /\ line = <<>> /\ rest = <<>>
  BY DEF Drained
<1>2. enc.str = <<>> /\ enc.bit_len = 0
  BY <1>1 DEF IInv, Sender
<1>3. /\ T \in Seq(Byte) /\ T = sent /\ p.d = View(dec) /\ Decodes(p, <<>>, b[0], T)
      /\ Decodes(b[0], <<>>, w, T) /\ Rel(w, enc, T)
  <2>1. /\ T \in Seq(Byte) /\ T = sent /\ RecvWay(T, p, b) /\ SentWay(T, b[Len(line)], w)
    BY DEF Way
  <2>2. Len(line) = 0 /\ frame \o enc.obuf = <<>>
    BY <1>1
  <2>3. Decodes(b[0], <<>>, w, T) /\ Rel(w, enc, T)
    BY <2>1, <2>2 DEF SentWay
  <2>4. p.d = View(dec) /\ Decodes(p, <<>>, b[0], T)
    BY <1>1, <2>1 DEF RecvWay
  <2>. QED  BY <2>1, <2>3, <2>4
<1>4. p = w
  <2>1. p = b[0]
    BY <1>3, DecodesNilSame
  <2>2. b[0] = w
    BY <1>3, DecodesNilSame
  <2>. QED  BY <2>1, <2>2
<1>5. dec \in CompType /\ dec.str = <<>>
  BY <1>1 DEF IInv, TypeOK, Receiver
<1>. QED  BY <1>2, <1>3, <1>4, <1>5, AtRest

(* In frames that have room for what one character or a flush makes, the   *)
(* terminal sees what the other one wrote, in order and nothing else, as   *)
(* long as no flush met output in comp.buf that had not been taken: no     *)
(* character that was fetched is dropped, encoded twice or decoded to      *)
(* another (modem_comp_encode, comp_decode, modem_comp_put_chars).         *)
THEOREM V42bisShown ==
    ASSUME LargeFrames
    PROVE  Spec => []ShownAsWritten
<1>1. IInv => ShownAsWritten
  <2>. SUFFICES ASSUME IInv, ~ overlaid
                PROVE  Len(got) <= Len(sent) /\ got = SubSeq(sent, 1, Len(got))
    BY DEF ShownAsWritten
  <2>1. PICK T, p, b, w : Way(T, p, b, w)
    BY DEF IInv
  <2>. QED  BY <2>1, TextFacts
<1>. QED  BY <1>1, V42bisInvariant, PTL

(* In such frames a poll that finds no character leaves nothing behind:    *)
(* once the frames are decoded all that was written has been shown or is   *)
(* in comp.buf (comp_flush_encoder, comp_flush_decoder).                   *)
THEOREM V42bisFlushed ==
    ASSUME LargeFrames
    PROVE  Spec => []FlushComplete
<1>1. IInv => FlushComplete
  <2>. SUFFICES ASSUME IInv, Drained, ~ overlaid
                PROVE  Len(got) + out.count = Len(sent)
    BY DEF FlushComplete
  <2>1. PICK T, p, b, w : Way(T, p, b, w)
    BY DEF IInv
  <2>2. Len(got) + out.count + Len(dec.str) = p.n
    BY <2>1, TextFacts
  <2>3. T = sent /\ p.n = Len(T) /\ dec.str = <<>>
    BY <2>1, AllDecoded
  <2>4. got \in Seq(Byte) /\ Fits(out)
    BY DEF IInv, TypeOK, Receiver
  <2>5. Len(got) \in Nat /\ out.count \in Nat /\ Len(dec.str) = 0
    BY <2>3, <2>4, LenNil DEF Fits, OutType
  <2>. DEFINE l == Len(got)
              k == out.count
  <2>6. l + k + 0 = Len(sent) /\ l \in Nat /\ k \in Nat
    BY <2>2, <2>3, <2>5
  <2>. HIDE DEF l, k
  <2>7. l + k = Len(sent)
    BY <2>6
  <2>. QED  BY <2>7 DEF l, k
<1>. QED  BY <1>1, V42bisInvariant, PTL

(* In such frames encoder and decoder are in step once all is decoded: the *)
(* two dictionaries are the same, and so are the modes, the sizes of the   *)
(* codewords and the escape characters (add_char, comp_decode, send_data). *)
THEOREM V42bisInStep ==
    ASSUME LargeFrames
    PROVE  Spec => []InStep
<1>1. IInv => InStep
  <2>. SUFFICES ASSUME IInv, Drained
                PROVE  /\ enc.parent = dec.parent /\ enc.ch = dec.ch
                       /\ enc.next_free = dec.next_free /\ enc.mode = dec.mode
                       /\ enc.cw_size = dec.cw_size /\ enc.escape_char = dec.escape_char
    BY DEF InStep
  <2>1. PICK T, p, b, w : Way(T, p, b, w)
    BY DEF IInv
  <2>2. /\ p.d = View(dec) /\ dec \in CompType
        /\ p.d.parent = enc.parent /\ p.d.ch = enc.ch
        /\ p.d.next_free = enc.next_free /\ p.d.mode = enc.mode
        /\ p.d.cw_size = enc.cw_size /\ p.d.escape_char = enc.escape_char
    BY <2>1, AllDecoded
  <2>3. /\ View(dec).parent = dec.parent /\ View(dec).ch = dec.ch
        /\ View(dec).next_free = dec.next_free /\ View(dec).mode = dec.mode
        /\ View(dec).cw_size = dec.cw_size /\ View(dec).escape_char = dec.escape_char
    BY <2>2, ViewType
  <2>. QED  BY <2>2, <2>3
<1>. QED  BY <1>1, V42bisInvariant, PTL

(* The sizes of the code make frames that are large enough: characters of  *)
(* 8 bits, at most 2048 entries and strings of 34 characters               *)
(* (COMP_MAX_CODEWORDS, COMP_MAX_STRING), frames of 128 bytes              *)
(* (LAPM_DFLT_INFO_SIZE), of which one character takes at most 89.         *)
THEOREM CodeFramesLarge ==
    ASSUME CharSize = 8, DictSize <= 2048, MaxString <= 34, InfoSize >= 128
    PROVE  LargeFrames
<1>1. pow2[11] = 2048
  <2>1. pow2[0] = 1 /\ \A n \in Nat : pow2[n + 1] = 2 * pow2[n]
    BY PowDef
  <2>2. pow2[1] = 2 /\ pow2[2] = 4 /\ pow2[3] = 8
    <3>1. pow2[0 + 1] = 2 * pow2[0] /\ pow2[1 + 1] = 2 * pow2[1] /\ pow2[2 + 1] = 2 * pow2[2]
      BY <2>1
    <3>. QED  BY <2>1, <3>1
  <2>3. pow2[4] = 16 /\ pow2[5] = 32 /\ pow2[6] = 64
    <3>1. pow2[3 + 1] = 2 * pow2[3] /\ pow2[4 + 1] = 2 * pow2[4] /\ pow2[5 + 1] = 2 * pow2[5]
      BY <2>1
    <3>. QED  BY <2>2, <3>1
  <2>4. pow2[7] = 128 /\ pow2[8] = 256 /\ pow2[9] = 512
    <3>1. pow2[6 + 1] = 2 * pow2[6] /\ pow2[7 + 1] = 2 * pow2[7] /\ pow2[8 + 1] = 2 * pow2[8]
      BY <2>1
    <3>. QED  BY <2>3, <3>1
  <2>5. pow2[9 + 1] = 2 * pow2[9] /\ pow2[10 + 1] = 2 * pow2[10]
    BY <2>1
  <2>. QED  BY <2>4, <2>5
<1>2. Wide(11)
  BY <1>1, Constant DEF Wide
<1>3. StringBits(11) = 33 /\ SwitchBits(11) = 27
  BY DEF StringBits, SwitchBits
<1>4. EncodeBits(11) <= 705 /\ EncodeBits(11) \in Int
  <2>1. MaxString \in Nat /\ MaxString <= 34
    BY Constant
  <2>2. EncodeBits(11) = 8 + (2 * (8 * MaxString)) + (3 * 33) + (2 * 27)
    BY <1>3 DEF EncodeBits
  <2>. QED  BY <2>1, <2>2
<1>5. CharSize * InfoSize >= 1024 /\ CharSize * InfoSize \in Nat
  <2>1. InfoSize \in Nat
    BY Constant
  <2>2. CharSize * InfoSize = 8 * InfoSize
    OBVIOUS
  <2>. QED  BY <2>1, <2>2
<1>6. EncodeBits(11) <= CharSize * InfoSize
  BY <1>4, <1>5
<1>. QED  BY <1>2, <1>6 DEF LargeFrames

=============================================================================
