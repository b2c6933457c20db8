---------------------------- MODULE PackerProof ----------------------------
(***************************************************************************)
(* TLAPS proofs about Packer, for all frames and characters, every size of *)
(* a word up to eight bits and whatever the line inverts: the 32-bit       *)
(* shifters never overflow, rx_frame stays within its buffer, and          *)
(* modem_hdlc_put_bits never looks past the bits it has.                   *)
(***************************************************************************)
EXTENDS Packer, TLAPS, SequenceTheorems, WellFoundedInduction

-----------------------------------------------------------------------------
(* Sequences of bits.                                                      *)

(* Two sequences, one behind the other.                                    *)
LEMMA Joined ==
    ASSUME NEW S, NEW s \in Seq(S), NEW t \in Seq(S)
    PROVE  s \o t \in Seq(S) /\ Len(s \o t) = Len(s) + Len(t)
BY ConcatProperties

(* The rest of a sequence.                                                 *)
LEMMA RestOf ==
    ASSUME NEW S, NEW s \in Seq(S), NEW k \in Nat, k <= Len(s)
    PROVE  SubSeq(s, k + 1, Len(s)) \in Seq(S) /\ Len(SubSeq(s, k + 1, Len(s))) = Len(s) - k
<1>1. Len(s) \in Nat /\ \A i \in 1 .. Len(s) : s[i] \in S
  BY LenProperties, ElementOfSeq
<1>2. \A i \in k + 1 .. Len(s) : s[i] \in S
  BY <1>1
<1>. QED  BY <1>1, <1>2, SubSeqProperties

(* The beginning of a sequence.                                            *)
LEMMA FirstOf ==
    ASSUME NEW S, NEW s \in Seq(S), NEW k \in Nat, k <= Len(s)
    PROVE  SubSeq(s, 1, k) \in Seq(S) /\ Len(SubSeq(s, 1, k)) = k
<1>1. Len(s) \in Nat /\ \A i \in 1 .. Len(s) : s[i] \in S
  BY LenProperties, ElementOfSeq
<1>2. \A i \in 1 .. k : s[i] \in S
  BY <1>1
<1>. QED  BY <1>1, <1>2, SubSeqProperties

(* A function on 1 .. n is a sequence.                                     *)
LEMMA IsSeq ==
    ASSUME NEW S, NEW n \in Nat, NEW s \in [1 .. n -> S]
    PROVE  s \in Seq(S) /\ Len(s) = n
<1>1. s \in Seq(S)
  BY SeqDef
<1>2. DOMAIN s = 1 .. n
  OBVIOUS
<1>. QED  BY <1>1, <1>2, LenProperties

(* A bit alone, a fifth one with its zero, and a flag.                     *)
LEMMA ShortSeqs ==
    /\ \A b \in Bit : <<b>> \in Seq(Bit) /\ Len(<<b>>) = 1
    /\ <<1, 0>> \in Seq(Bit) /\ Len(<<1, 0>>) = 2
    /\ HDLC_FLAG \in Seq(Bit) /\ Len(HDLC_FLAG) = 8
<1>1. \A b \in Bit : <<b>> \in Seq(Bit) /\ Len(<<b>>) = 1
  OBVIOUS
<1>2. <<1, 0>> \in Seq(Bit) /\ Len(<<1, 0>>) = 2
  BY DEF Bit
<1>3. HDLC_FLAG \in Seq(Bit) /\ Len(HDLC_FLAG) = 8
  BY DEF Bit, HDLC_FLAG
<1>. QED  BY <1>1, <1>2, <1>3

-----------------------------------------------------------------------------
(* The sender.                                                             *)

Fcs == [1 .. 16 -> Bit]

FrameSet ==
    {f \in [left : Seq(Byte), fcs : Fcs \cup {<<>>}, some : BOOLEAN] :
       f.some => f.fcs \in Fcs}

TxSet == [bits : Seq(Bit), ones : 0 .. 4, frame : FrameSet]

(* From t to u, n bits were put in, and a zero for every five ones.        *)
Grown(t, u, n) ==
    /\ u \in TxSet /\ u.frame = t.frame
    /\ Len(u.bits) >= Len(t.bits) + n
    /\ 5 * (Len(u.bits) - Len(t.bits) - n) + u.ones <= n + t.ones

(* One bit.                                                                *)
LEMMA PutBit ==
    ASSUME NEW t \in TxSet, NEW b \in Bit
    PROVE  Grown(t, put_bit(t, b), 1)
<1>. DEFINE s == t.bits
            o == t.ones
            e == IF b = 1 /\ o = 4 THEN <<1, 0>> ELSE <<b>>
            m == IF b = 1 /\ o < 4 THEN o + 1 ELSE 0
            u == put_bit(t, b)
<1>1. s \in Seq(Bit) /\ o \in 0 .. 4 /\ Len(s) \in Nat
  BY LenProperties DEF TxSet
<1>2. u = [t EXCEPT !.bits = s \o e, !.ones = m]
  BY DEF put_bit
<1>3. m \in 0 .. 4
  BY <1>1
<1>4. e \in Seq(Bit) /\ Len(e) = IF b = 1 /\ o = 4 THEN 2 ELSE 1
  BY ShortSeqs
<1>5. 5 * (Len(e) - 1) + m <= 1 + o /\ Len(e) >= 1 /\ Len(e) \in Nat
  BY <1>1, <1>4
<1>. HIDE DEF e, m
<1>6. s \o e \in Seq(Bit) /\ Len(s \o e) = Len(s) + Len(e)
  BY <1>1, <1>4, Joined
<1>7. u \in TxSet /\ u.bits = s \o e /\ u.ones = m /\ u.frame = t.frame
  <2>. DEFINE w == s \o e
  <2>1. w \in Seq(Bit) /\ u = [t EXCEPT !.bits = w, !.ones = m]
    BY <1>2, <1>6
  <2>. HIDE DEF w, u, s, o
  <2>2. u \in TxSet /\ u.bits = w /\ u.ones = m /\ u.frame = t.frame
    BY <1>3, <2>1 DEF TxSet
  <2>. QED  BY <2>2 DEF w
<1>8. /\ Len(s \o e) >= Len(s) + 1
      /\ 5 * (Len(s \o e) - Len(s) - 1) + m <= 1 + o
  <2>. DEFINE a == Len(s)
              c == Len(e)
  <2>1. a \in Nat /\ c \in Nat /\ o \in Nat /\ m \in Nat /\ 5 * (c - 1) + m <= 1 + o /\ c >= 1
    BY <1>1, <1>3, <1>5
  <2>. HIDE DEF a, c, o
  <2>2. a + c >= a + 1 /\ 5 * ((a + c) - a - 1) + m <= 1 + o
    BY <2>1
  <2>. QED  BY <1>6, <2>2 DEF a, c
<1>. HIDE DEF u
<1>9. Grown(t, u, 1)
  BY <1>7, <1>8 DEF Grown
<1>. QED  BY <1>9 DEF u

(* Bits behind bits.                                                       *)
LEMMA GrownOn ==
    ASSUME NEW t \in TxSet, NEW u, NEW v, NEW n \in Nat, NEW m \in Nat,
           Grown(t, u, n), Grown(u, v, m)
    PROVE  Grown(t, v, n + m)
<1>. DEFINE a == Len(t.bits)
            b == Len(u.bits)
            c == Len(v.bits)
            x == t.ones
            y == u.ones
            z == v.ones
<1>1. /\ u \in TxSet /\ v \in TxSet /\ v.frame = t.frame
      /\ t.bits \in Seq(Bit) /\ u.bits \in Seq(Bit) /\ v.bits \in Seq(Bit)
      /\ x \in Nat /\ y \in Nat /\ z \in Nat
  <2>1. u \in TxSet /\ v \in TxSet /\ u.frame = t.frame /\ v.frame = u.frame
    BY DEF Grown
  <2>2. ASSUME NEW w \in TxSet PROVE w.bits \in Seq(Bit) /\ w.ones \in Nat
    BY DEF TxSet
  <2>. QED  BY <2>1, <2>2
<1>2. a \in Nat /\ b \in Nat /\ c \in Nat
  BY <1>1, LenProperties
<1>3. /\ b >= a + n /\ 5 * (b - a - n) + y <= n + x
      /\ c >= b + m /\ 5 * (c - b - m) + z <= m + y
  BY DEF Grown
<1>. HIDE DEF a, b, c, x, y, z
<1>4. c >= a + (n + m) /\ 5 * (c - a - (n + m)) + z <= (n + m) + x
  BY <1>1, <1>2, <1>3
<1>. QED  BY <1>1, <1>4 DEF Grown, a, c, x, z

(* HDLC_PUT_BYTE.                                                          *)
LEMMA PutByte ==
    ASSUME NEW t \in TxSet, NEW byte \in Byte
    PROVE  Grown(t, HDLC_PUT_BYTE(t, byte), 8)
<1>. DEFINE t1 == put_bit(t, byte[1])
            t2 == put_bit(t1, byte[2])
            t3 == put_bit(t2, byte[3])
            t4 == put_bit(t3, byte[4])
            t5 == put_bit(t4, byte[5])
            t6 == put_bit(t5, byte[6])
            t7 == put_bit(t6, byte[7])
            t8 == put_bit(t7, byte[8])
<1>0. /\ byte[1] \in Bit /\ byte[2] \in Bit /\ byte[3] \in Bit /\ byte[4] \in Bit
      /\ byte[5] \in Bit /\ byte[6] \in Bit /\ byte[7] \in Bit /\ byte[8] \in Bit
  BY DEF Byte
<1>20. HDLC_PUT_BYTE(t, byte) = t8
  BY Zenon DEF HDLC_PUT_BYTE, eight
<1>21. ASSUME NEW u, NEW b \in Bit, NEW n \in Nat, Grown(t, u, n)
       PROVE  Grown(t, put_bit(u, b), n + 1)
  <2>1. u \in TxSet
    BY <1>21 DEF Grown
  <2>2. Grown(u, put_bit(u, b), 1)
    BY <2>1, PutBit
  <2>. QED  BY <1>21, <2>2, GrownOn
<1>1. Grown(t, t1, 1)
  BY <1>0, PutBit
<1>. HIDE DEF t1
<1>2. Grown(t, t2, 1 + 1)
  BY <1>0, <1>1, <1>21
<1>. HIDE DEF t2
<1>3. Grown(t, t3, 2 + 1)
  BY <1>0, <1>2, <1>21
<1>. HIDE DEF t3
<1>4. Grown(t, t4, 3 + 1)
  BY <1>0, <1>3, <1>21
<1>. HIDE DEF t4
<1>5. Grown(t, t5, 4 + 1)
  BY <1>0, <1>4, <1>21
<1>. HIDE DEF t5
<1>6. Grown(t, t6, 5 + 1)
  BY <1>0, <1>5, <1>21
<1>. HIDE DEF t6
<1>7. Grown(t, t7, 6 + 1)
  BY <1>0, <1>6, <1>21
<1>. HIDE DEF t7
<1>8. Grown(t, t8, 7 + 1)
  BY <1>0, <1>7, <1>21
<1>. HIDE DEF t8
<1>. QED  BY <1>8, <1>20

(* The register of the FCS keeps its sixteen bits.                         *)
LEMMA FcsShift ==
    ASSUME NEW fcs \in Fcs, NEW b \in Bit
    PROVE  fcs_shift(fcs, b) \in Fcs
<1>1. \A x \in Bit, y \in Bit : (x + y) % 2 \in Bit
  BY DEF Bit
<1>. DEFINE x == (fcs[1] + b) % 2
            sh == [i \in 1 .. 16 |-> IF i = 16 THEN 0 ELSE fcs[i + 1]]
<1>2. x \in Bit
  BY <1>1 DEF Fcs
<1>3. \A i \in 1 .. 16 : sh[i] \in Bit
  BY DEF Fcs, Bit
<1>4. fcs_shift(fcs, b) = [i \in 1 .. 16 |-> IF i \in {4, 11, 16} THEN (sh[i] + x) % 2 ELSE sh[i]]
  BY Zenon DEF fcs_shift
<1>. HIDE DEF x, sh
<1>5. \A i \in 1 .. 16 : (sh[i] + x) % 2 \in Bit
  BY <1>1, <1>2, <1>3
<1>. QED  BY <1>3, <1>4, <1>5 DEF Fcs

(* GET_FCS.                                                                *)
LEMMA GetFcs ==
    ASSUME NEW fcs \in Fcs, NEW byte \in Byte
    PROVE  GET_FCS(fcs, byte) \in Fcs
<1>0. /\ byte[1] \in Bit /\ byte[2] \in Bit /\ byte[3] \in Bit /\ byte[4] \in Bit
      /\ byte[5] \in Bit /\ byte[6] \in Bit /\ byte[7] \in Bit /\ byte[8] \in Bit
  BY DEF Byte
<1>. QED  BY <1>0, FcsShift DEF GET_FCS, eight
(* Frames that are none, that begin, and that have lost a byte.            *)
LEMMA FramesOK ==
    /\ NoFrame \in FrameSet
    /\ \A f \in Seq(Byte) : [left |-> f, fcs |-> INIT_FCS, some |-> TRUE] \in FrameSet
    /\ \A f \in FrameSet : f.some => f.fcs \in Fcs /\ f.left \in Seq(Byte)
    /\ \A f \in FrameSet, l \in Seq(Byte), c \in Fcs :
         [f EXCEPT !.left = l, !.fcs = c] \in FrameSet
<1>1. <<>> \in Seq(Byte)
  BY EmptySeq
<1>2. INIT_FCS \in Fcs
  BY DEF INIT_FCS, Fcs, Bit
<1>3. NoFrame \in FrameSet
  BY <1>1 DEF NoFrame, FrameSet
<1>4. \A f \in Seq(Byte) : [left |-> f, fcs |-> INIT_FCS, some |-> TRUE] \in FrameSet
  BY <1>2 DEF FrameSet
<1>5. \A f \in FrameSet : f.some => f.fcs \in Fcs /\ f.left \in Seq(Byte)
  BY DEF FrameSet
<1>6. ASSUME NEW f \in FrameSet, NEW l \in Seq(Byte), NEW c \in Fcs
      PROVE  [f EXCEPT !.left = l, !.fcs = c] \in FrameSet
  BY DEF FrameSet
<1>. QED  BY <1>3, <1>4, <1>5, <1>6

(* A flag.                                                                 *)
LEMMA PutFlag ==
    ASSUME NEW t \in TxSet, NEW f \in FrameSet
    PROVE  put_flag(t, f) \in TxSet /\ Len(put_flag(t, f).bits) = Len(t.bits) + 8
<1>. DEFINE w == t.bits \o HDLC_FLAG
            u == put_flag(t, f)
<1>1. t.bits \in Seq(Bit)
  BY DEF TxSet
<1>2. w \in Seq(Bit) /\ Len(w) = Len(t.bits) + 8
  BY <1>1, ShortSeqs, Joined
<1>3. u = [t EXCEPT !.bits = w, !.frame = f]
  BY DEF put_flag
<1>. HIDE DEF w, u
<1>4. u \in TxSet /\ u.bits = w
  BY <1>2, <1>3 DEF TxSet
<1>. QED  BY <1>2, <1>4 DEF u

(* The bytes of a sequence of sixteen bits.                                *)
LEMMA Halves ==
    ASSUME NEW s \in Fcs
    PROVE  SubSeq(s, 1, 8) \in Byte /\ SubSeq(s, 9, 16) \in Byte
<1>1. s \in Seq(Bit) /\ Len(s) = 16
  <2>1. 16 \in Nat /\ s \in [1 .. 16 -> Bit]
    BY DEF Fcs
  <2>. QED  BY <2>1, IsSeq
<1>2. /\ SubSeq(s, 1, 8) \in Seq(Bit) /\ Len(SubSeq(s, 1, 8)) = 8
  <2>1. 8 \in Nat /\ 8 <= Len(s)
    BY <1>1
  <2>. QED  BY <1>1, <2>1, FirstOf
<1>3. SubSeq(s, 9, 16) \in Seq(Bit) /\ Len(SubSeq(s, 9, 16)) = 8
  <2>1. SubSeq(s, 8 + 1, Len(s)) \in Seq(Bit) /\ Len(SubSeq(s, 8 + 1, Len(s))) = Len(s) - 8
    <3>1. 8 \in Nat /\ 8 <= Len(s)
      BY <1>1
    <3>. QED  BY <1>1, <3>1, RestOf
  <2>2. 8 + 1 = 9 /\ 16 - 8 = 8
    OBVIOUS
  <2>. QED  BY <1>1, <2>1, <2>2
<1>4. \A q \in Seq(Bit) : Len(q) = 8 => q \in Byte
  <2>1. ASSUME NEW q \in Seq(Bit), Len(q) = 8 PROVE q \in [1 .. 8 -> Bit]
    BY <2>1, LenProperties, ElementOfSeq
  <2>. QED  BY <2>1 DEF Byte
<1>. QED  BY <1>2, <1>3, <1>4

(* The FCS, two bytes: twenty bits at the most.                            *)
LEMMA PutFcs ==
    ASSUME NEW t \in TxSet, t.frame.some
    PROVE  /\ put_fcs(t) \in TxSet
           /\ Len(put_fcs(t).bits) >= Len(t.bits) + 16
           /\ Len(put_fcs(t).bits) <= Len(t.bits) + 20
<1>. DEFINE inv == [i \in 1 .. 16 |-> 1 - t.frame.fcs[i]]
            low == HDLC_PUT_BYTE(t, SubSeq(inv, 1, 8))
            u == HDLC_PUT_BYTE(low, SubSeq(inv, 9, 16))
            v == put_fcs(t)
<1>1. t.frame.fcs \in Fcs
  <2>1. t.frame \in FrameSet
    BY DEF TxSet
  <2>. QED  BY <2>1, FramesOK, Zenon
<1>2. inv \in Fcs
  BY <1>1 DEF Fcs, Bit
<1>3. v = [u EXCEPT !.ones = 0, !.frame = NoFrame]
  BY Zenon DEF put_fcs
<1>. HIDE DEF inv
<1>4. SubSeq(inv, 1, 8) \in Byte /\ SubSeq(inv, 9, 16) \in Byte
  BY <1>2, Halves
<1>5. Grown(t, low, 8)
  BY <1>4, PutByte
<1>6. low \in TxSet
  BY <1>5 DEF Grown
<1>. HIDE DEF low
<1>7. Grown(low, u, 8)
  BY <1>4, <1>6, PutByte
<1>. HIDE DEF u, v
<1>8. Grown(t, u, 8 + 8)
  BY <1>5, <1>7, GrownOn
<1>9. u \in TxSet /\ v \in TxSet /\ v.bits = u.bits
  <2>1. u \in TxSet
    BY <1>8 DEF Grown
  <2>2. NoFrame \in FrameSet
    BY FramesOK
  <2>3. ASSUME NEW a \in TxSet, NEW n \in 0 .. 4, NEW f \in FrameSet
        PROVE  /\ [a EXCEPT !.ones = n, !.frame = f] \in TxSet
               /\ [a EXCEPT !.ones = n, !.frame = f].bits = a.bits
    BY DEF TxSet
  <2>4. 0 \in 0 .. 4
    OBVIOUS
  <2>. QED  BY <1>3, <2>1, <2>2, <2>3, <2>4, Zenon
<1>10. Len(u.bits) >= Len(t.bits) + 16 /\ Len(u.bits) <= Len(t.bits) + 20
  <2>. DEFINE a == Len(t.bits)
              b == Len(u.bits)
              x == t.ones
              y == u.ones
  <2>1. t.bits \in Seq(Bit) /\ u.bits \in Seq(Bit) /\ x \in 0 .. 4 /\ y \in 0 .. 4
    BY <1>9 DEF TxSet
  <2>2. a \in Nat /\ b \in Nat
    BY <2>1, LenProperties
  <2>3. b >= a + (8 + 8) /\ 5 * (b - a - (8 + 8)) + y <= (8 + 8) + x
    BY <1>8 DEF Grown
  <2>. HIDE DEF a, b, x, y
  <2>4. b >= a + 16 /\ b <= a + 20
    BY <2>1, <2>2, <2>3
  <2>. QED  BY <2>4 DEF a, b
<1>. QED  BY <1>9, <1>10 DEF v

(* A byte of the frame: ten bits at the most.                              *)
LEMMA PutData ==
    ASSUME NEW t \in TxSet, t.frame.some, t.frame.left # <<>>
    PROVE  /\ put_data(t) \in TxSet
           /\ Len(put_data(t).bits) >= Len(t.bits) + 8
           /\ Len(put_data(t).bits) <= Len(t.bits) + 10
<1>. DEFINE in == Head(t.frame.left)
            u == HDLC_PUT_BYTE(t, in)
            c == GET_FCS(t.frame.fcs, in)
            l == Tail(t.frame.left)
            f == [t.frame EXCEPT !.left = l, !.fcs = c]
            v == put_data(t)
<1>0. t.frame \in FrameSet
  BY DEF TxSet
<1>1. t.frame.fcs \in Fcs /\ t.frame.left \in Seq(Byte)
  BY <1>0, FramesOK, Zenon
<1>2. in \in Byte /\ l \in Seq(Byte)
  BY <1>1, HeadTailProperties
<1>3. v = [u EXCEPT !.frame = f]
  BY DEF put_data
<1>. HIDE DEF in, l
<1>4. c \in Fcs
  BY <1>1, <1>2, GetFcs
<1>. HIDE DEF c
<1>5. f \in FrameSet
  BY <1>0, <1>2, <1>4, FramesOK
<1>6. Grown(t, u, 8)
  BY <1>2, PutByte
<1>. HIDE DEF u, v, f
<1>7. u \in TxSet /\ v \in TxSet /\ v.bits = u.bits
  <2>1. u \in TxSet
    BY <1>6 DEF Grown
  <2>. QED  BY <1>3, <1>5, <2>1 DEF TxSet
<1>8. Len(u.bits) >= Len(t.bits) + 8 /\ Len(u.bits) <= Len(t.bits) + 10
  <2>. DEFINE a == Len(t.bits)
              b == Len(u.bits)
              x == t.ones
              y == u.ones
  <2>1. t.bits \in Seq(Bit) /\ u.bits \in Seq(Bit) /\ x \in 0 .. 4 /\ y \in 0 .. 4
    BY <1>7 DEF TxSet
  <2>2. a \in Nat /\ b \in Nat
    BY <2>1, LenProperties
  <2>3. b >= a + 8 /\ 5 * (b - a - 8) + y <= 8 + x
    BY <1>6 DEF Grown
  <2>. HIDE DEF a, b, x, y
  <2>4. b >= a + 8 /\ b <= a + 10
    BY <2>1, <2>2, <2>3
  <2>. QED  BY <2>4 DEF a, b
<1>. QED  BY <1>7, <1>8 DEF v

(* What a sender has in its shifter for the next word.                     *)
Ready(t) == t \in TxSet /\ Len(t.bits) >= nbits /\ Len(t.bits) <= nbits + 19

(* modem_hdlc_get_bits has a word, and no more than a word and nineteen    *)
(* bits.                                                                   *)
LEMMA HdlcReady ==
    ASSUME tx \in TxSet, Len(tx.bits) <= 19, nbits \in 1 .. 8, NEW e \in hdlc_filled
    PROVE  Ready(e.tx)
<1>0. tx.bits \in Seq(Bit) /\ tx.frame \in FrameSet
  BY DEF TxSet
<1>1. Len(tx.bits) \in Nat
  BY <1>0, LenProperties
<1>2. CASE Len(tx.bits) >= nbits
  <2>1. e.tx = tx
    BY <1>2 DEF hdlc_filled
  <2>. QED  BY <1>1, <1>2, <2>1 DEF Ready
<1>3. CASE ~ (Len(tx.bits) >= nbits) /\ ~ tx.frame.some
  <2>1. \E f \in FrameSet : e.tx = put_flag(tx, f)
    <3>1. \/ e = [tx |-> put_flag(tx, NoFrame), sent |-> sent]
          \/ \E f \in Frames :
               e = [tx |-> put_flag(tx, [left |-> f, fcs |-> INIT_FCS, some |-> TRUE]),
                    sent |-> Append(sent, f)]
      BY <1>3 DEF hdlc_filled
    <3>2. CASE e = [tx |-> put_flag(tx, NoFrame), sent |-> sent]
      <4>1. e.tx = put_flag(tx, NoFrame)
        BY <3>2
      <4>. QED  BY <4>1, FramesOK
    <3>3. ASSUME NEW f \in Frames,
                 e = [tx |-> put_flag(tx, [left |-> f, fcs |-> INIT_FCS, some |-> TRUE]),
                      sent |-> Append(sent, f)]
          PROVE  \E g \in FrameSet : e.tx = put_flag(tx, g)
      <4>. DEFINE g == [left |-> f, fcs |-> INIT_FCS, some |-> TRUE]
      <4>1. g \in FrameSet
        BY FramesOK, PackerAssumption
      <4>. HIDE DEF g
      <4>2. e = [tx |-> put_flag(tx, g), sent |-> Append(sent, f)]
        BY <3>3, Zenon DEF g
      <4>3. e.tx = put_flag(tx, g)
        BY <4>2
      <4>. QED  BY <4>1, <4>3
    <3>. QED  BY <3>1, <3>2, <3>3
  <2>2. PICK f \in FrameSet : e.tx = put_flag(tx, f)
    BY <2>1
  <2>3. e.tx \in TxSet /\ Len(e.tx.bits) = Len(tx.bits) + 8
    BY <2>2, PutFlag
  <2>. QED  BY <1>1, <1>3, <2>3 DEF Ready
<1>4. CASE ~ (Len(tx.bits) >= nbits) /\ tx.frame.some /\ tx.frame.left = <<>>
  <2>1. e.tx = put_fcs(tx)
    BY <1>4 DEF hdlc_filled
  <2>. DEFINE b == Len(e.tx.bits)
  <2>2. e.tx \in TxSet /\ b >= Len(tx.bits) + 16 /\ b <= Len(tx.bits) + 20
    BY <1>4, <2>1, PutFcs
  <2>3. e.tx.bits \in Seq(Bit)
    BY <2>2 DEF TxSet
  <2>4. b \in Nat
    BY <2>3, LenProperties
  <2>. HIDE DEF b
  <2>5. b >= nbits /\ b <= nbits + 19
    BY <1>1, <1>4, <2>2, <2>4
  <2>. QED  BY <2>2, <2>5 DEF Ready, b
<1>5. CASE ~ (Len(tx.bits) >= nbits) /\ tx.frame.some /\ tx.frame.left # <<>>
  <2>1. e.tx = put_data(tx)
    BY <1>5 DEF hdlc_filled
  <2>. DEFINE b == Len(e.tx.bits)
  <2>2. e.tx \in TxSet /\ b >= Len(tx.bits) + 8 /\ b <= Len(tx.bits) + 10
    BY <1>5, <2>1, PutData
  <2>3. e.tx.bits \in Seq(Bit)
    BY <2>2 DEF TxSet
  <2>4. b \in Nat
    BY <2>3, LenProperties
  <2>. HIDE DEF b
  <2>5. b >= nbits /\ b <= nbits + 19
    BY <1>1, <1>5, <2>2, <2>4
  <2>. QED  BY <2>2, <2>5 DEF Ready, b
<1>. QED  BY <1>2, <1>3, <1>4, <1>5, Zenon

(* modem_async_get_bits has a word, too.                                   *)
LEMMA AsyncReady ==
    ASSUME tx \in TxSet, Len(tx.bits) <= 19, nbits \in 1 .. 8, NEW e \in async_filled
    PROVE  Ready(e.tx)
<1>0. tx.bits \in Seq(Bit)
  BY DEF TxSet
<1>1. Len(tx.bits) \in Nat
  BY <1>0, LenProperties
<1>2. CASE Len(tx.bits) >= nbits
  <2>1. e.tx = tx
    BY <1>2 DEF async_filled
  <2>. QED  BY <1>1, <1>2, <2>1 DEF Ready
<1>3. CASE ~ (Len(tx.bits) >= nbits)
  <2>. DEFINE marks == [i \in 1 .. nbits - Len(tx.bits) |-> 1]
  <2>1. \/ e = [tx |-> [tx EXCEPT !.bits = tx.bits \o marks], sent |-> sent]
        \/ \E c \in Chars :
             e = [tx |-> [tx EXCEPT !.bits = (tx.bits \o <<0>> \o c) \o <<1>>],
                  sent |-> Append(sent, <<c>>)]
    BY <1>3 DEF async_filled
  <2>2. marks \in Seq(Bit) /\ Len(marks) = nbits - Len(tx.bits)
    <3>. DEFINE k == nbits - Len(tx.bits)
    <3>1. k \in Nat
      BY <1>1, <1>3
    <3>. HIDE DEF k
    <3>2. [i \in 1 .. k |-> 1] \in Seq(Bit) /\ Len([i \in 1 .. k |-> 1]) = k
      BY <3>1 DEF Bit
    <3>. QED  BY <3>2 DEF k
  <2>. HIDE DEF marks
  <2>20. ASSUME NEW w \in Seq(Bit), Len(w) >= nbits, Len(w) <= nbits + 19,
                e.tx = [tx EXCEPT !.bits = w]
         PROVE  Ready(e.tx)
    BY <2>20 DEF Ready, TxSet
  <2>3. CASE e = [tx |-> [tx EXCEPT !.bits = tx.bits \o marks], sent |-> sent]
    <3>. DEFINE w == tx.bits \o marks
    <3>1. w \in Seq(Bit) /\ Len(w) = Len(tx.bits) + Len(marks)
      BY <1>0, <2>2, Joined
    <3>. HIDE DEF w
    <3>2. e = [tx |-> [tx EXCEPT !.bits = w], sent |-> sent]
      BY <2>3, Zenon DEF w
    <3>3. e.tx = [tx EXCEPT !.bits = w]
      BY <3>2
    <3>4. Len(w) >= nbits /\ Len(w) <= nbits + 19
      BY <1>1, <2>2, <3>1
    <3>. QED  BY <2>20, <3>1, <3>3, <3>4
  <2>. DEFINE Framed(c) == (tx.bits \o <<0>> \o c) \o <<1>>
  <2>4. ASSUME NEW c \in Chars,
               e = [tx |-> [tx EXCEPT !.bits = Framed(c)], sent |-> Append(sent, <<c>>)]
        PROVE  Ready(e.tx)
    <3>. DEFINE w == Framed(c)
    <3>1. c \in Seq(Bit) /\ Len(c) = 8
      <4>1. 8 \in Nat /\ c \in [1 .. 8 -> Bit]
        BY PackerAssumption DEF Byte
      <4>. QED  BY <4>1, IsSeq
    <3>2. <<0>> \in Seq(Bit) /\ Len(<<0>>) = 1 /\ <<1>> \in Seq(Bit) /\ Len(<<1>>) = 1
      BY ShortSeqs DEF Bit
    <3>3. tx.bits \o <<0>> \in Seq(Bit) /\ Len(tx.bits \o <<0>>) = Len(tx.bits) + 1
      BY <1>0, <3>2, Joined
    <3>4. /\ tx.bits \o <<0>> \o c \in Seq(Bit)
          /\ Len(tx.bits \o <<0>> \o c) = Len(tx.bits \o <<0>>) + 8
      BY <3>1, <3>3, Joined
    <3>5. w \in Seq(Bit) /\ Len(w) = Len(tx.bits \o <<0>> \o c) + 1
      BY <3>2, <3>4, Joined
    <3>6. Len(w) >= nbits /\ Len(w) <= nbits + 19
      BY <1>1, <1>3, <3>3, <3>4, <3>5
    <3>. HIDE DEF w
    <3>7. e = [tx |-> [tx EXCEPT !.bits = w], sent |-> Append(sent, <<c>>)]
      BY <2>4, Zenon DEF w
    <3>8. e.tx = [tx EXCEPT !.bits = w]
      BY <3>7
    <3>. QED  BY <2>20, <3>5, <3>6, <3>8
  <2>. QED  BY <2>1, <2>3, <2>4
<1>. QED  BY <1>2, <1>3
-----------------------------------------------------------------------------
(* The receiver.                                                           *)

RxSet == [bits : Seq(Bit), ones : 0 .. 4, error : BOOLEAN, buf : Seq(Byte), fcs : Fcs]

TurnSet == [r : RxSet, out : Seq(Bit), flag : BOOLEAN, whole : Seq(Seq(Byte)),
            short : BOOLEAN]

(* The fields of a receiver.                                               *)
LEMMA RxFields ==
    ASSUME NEW r \in RxSet
    PROVE  /\ r.bits \in Seq(Bit) /\ r.ones \in 0 .. 4 /\ r.error \in BOOLEAN
           /\ r.buf \in Seq(Byte) /\ r.fcs \in Fcs /\ Len(r.bits) \in Nat
           /\ Len(r.buf) \in Nat /\ \A i \in 1 .. Len(r.bits) : r.bits[i] \in Bit
<1>1. /\ r.bits \in Seq(Bit) /\ r.ones \in 0 .. 4 /\ r.error \in BOOLEAN
      /\ r.buf \in Seq(Byte) /\ r.fcs \in Fcs
  BY DEF RxSet
<1>. QED  BY <1>1, LenProperties, ElementOfSeq

(* A receiver that has met a flag.                                         *)
LEMMA RxFlag ==
    ASSUME NEW r \in RxSet, Len(r.bits) >= 8
    PROVE  /\ rx_flag(r) \in RxSet /\ Len(rx_flag(r).bits) = Len(r.bits) - 8
           /\ rx_flag(r).buf = <<>>
<1>. DEFINE w == SubSeq(r.bits, 9, Len(r.bits))
<1>1. r.bits \in Seq(Bit) /\ Len(r.bits) \in Nat
  BY RxFields
<1>2. w \in Seq(Bit) /\ Len(w) = Len(r.bits) - 8
  <2>1. /\ SubSeq(r.bits, 8 + 1, Len(r.bits)) \in Seq(Bit)
        /\ Len(SubSeq(r.bits, 8 + 1, Len(r.bits))) = Len(r.bits) - 8
    <3>1. 8 \in Nat /\ 8 <= Len(r.bits)
      BY <1>1
    <3>. QED  BY <1>1, <3>1, RestOf
  <2>2. 8 + 1 = 9
    OBVIOUS
  <2>. QED  BY <2>1, <2>2
<1>3. rx_flag(r) = [r EXCEPT !.bits = w, !.ones = 0, !.error = FALSE, !.buf = <<>>,
                             !.fcs = INIT_FCS]
  BY DEF rx_flag
<1>. HIDE DEF w
<1>4. INIT_FCS \in Fcs /\ <<>> \in Seq(Byte) /\ 0 \in 0 .. 4 /\ FALSE \in BOOLEAN
  BY EmptySeq DEF INIT_FCS, Fcs, Bit
<1>. DEFINE e == FALSE
            b == <<>>
            u == rx_flag(r)
<1>5. /\ u = [r EXCEPT !.bits = w, !.ones = 0, !.error = e, !.buf = b, !.fcs = INIT_FCS]
      /\ e \in BOOLEAN /\ b \in Seq(Byte)
  BY <1>3, <1>4, Zenon
<1>. HIDE DEF e, b, u
<1>6. u \in RxSet /\ u.bits = w /\ u.buf = b
  BY <1>2, <1>4, <1>5 DEF RxSet
<1>7. rx_flag(r) \in RxSet /\ rx_flag(r).bits = w /\ rx_flag(r).buf = <<>>
  BY <1>6, Zenon DEF u, b
<1>. QED  BY <1>2, <1>7

(* A receiver that takes a bit of a byte: a fifth one goes with the bit    *)
(* behind it.                                                              *)
LEMMA RxBit ==
    ASSUME NEW r \in RxSet, Len(r.bits) >= 2
    PROVE  LET u == rx_bit(r)
           IN  /\ u \in RxSet /\ (u.buf = r.buf \/ u.buf = <<>>)
               /\ Len(u.bits) <= Len(r.bits) - 1
               /\ 5 * (Len(r.bits) - 1 - Len(u.bits)) + u.ones <= 1 + r.ones
<1>. DEFINE b == r.bits[1]
            five == b = 1 /\ r.ones = 4
            k == IF five THEN 2 ELSE 1
            w == SubSeq(r.bits, IF five THEN 3 ELSE 2, Len(r.bits))
            o == IF b = 1 /\ r.ones < 4 THEN r.ones + 1 ELSE 0
            e == five /\ r.bits[2] = 1
            c == IF five /\ r.bits[2] = 1 THEN <<>> ELSE r.buf
            u == rx_bit(r)
<1>1. r.bits \in Seq(Bit) /\ Len(r.bits) \in Nat /\ r.buf \in Seq(Byte) /\ r.ones \in 0 .. 4
  BY RxFields
<1>2. u = [r EXCEPT !.bits = w, !.ones = o, !.error = e, !.buf = c]
  BY Zenon DEF rx_bit
<1>3. w \in Seq(Bit) /\ Len(w) = Len(r.bits) - k
  <2>1. k \in Nat /\ k <= Len(r.bits) /\ k + 1 = IF five THEN 3 ELSE 2
    BY <1>1
  <2>. HIDE DEF k
  <2>2. /\ SubSeq(r.bits, k + 1, Len(r.bits)) \in Seq(Bit)
        /\ Len(SubSeq(r.bits, k + 1, Len(r.bits))) = Len(r.bits) - k
    BY <1>1, <2>1, RestOf
  <2>. QED  BY <2>1, <2>2
<1>4. o \in 0 .. 4 /\ c \in Seq(Byte) /\ e \in BOOLEAN /\ (c = r.buf \/ c = <<>>)
  <2>1. o \in 0 .. 4
    BY <1>1
  <2>2. c \in Seq(Byte) /\ (c = r.buf \/ c = <<>>)
    BY <1>1, EmptySeq
  <2>3. e \in BOOLEAN
    OBVIOUS
  <2>. QED  BY <2>1, <2>2, <2>3
<1>5. 5 * (k - 1) + o <= 1 + r.ones /\ k >= 1 /\ k \in Nat
  BY <1>1
<1>. HIDE DEF w, o, e, c, u, k
<1>6. u \in RxSet /\ u.bits = w /\ u.ones = o /\ u.buf = c
  BY <1>2, <1>3, <1>4 DEF RxSet
<1>7. Len(w) <= Len(r.bits) - 1 /\ 5 * (Len(r.bits) - 1 - Len(w)) + o <= 1 + r.ones
  <2>. DEFINE n == Len(r.bits)
              m == Len(w)
              x == r.ones
  <2>1. n \in Nat /\ m = n - k /\ x \in Nat /\ o \in Nat /\ 5 * (k - 1) + o <= 1 + x
    BY <1>1, <1>3, <1>4, <1>5
  <2>. HIDE DEF n, m, x
  <2>2. m <= n - 1 /\ 5 * (n - 1 - m) + o <= 1 + x
    BY <1>5, <2>1
  <2>. QED  BY <2>2 DEF n, m, x
<1>8. /\ u \in RxSet /\ (u.buf = r.buf \/ u.buf = <<>>)
      /\ Len(u.bits) <= Len(r.bits) - 1
      /\ 5 * (Len(r.bits) - 1 - Len(u.bits)) + u.ones <= 1 + r.ones
  BY <1>4, <1>6, <1>7
<1>. QED  BY <1>8 DEF u

(* After i turns of the loop over a byte, of n bits: those taken are the i *)
(* bits and a zero for every five ones, and when a flag was met eight      *)
(* bits, or more.                                                          *)
Taken(n, i, a) ==
    /\ Len(a.r.bits) <= n - i
    /\ 5 * (n - Len(a.r.bits) - i) + a.r.ones <= i + 4
    /\ ~ a.r.error => Len(a.out) = i

TurnOK(n, i, a) ==
    /\ a \in TurnSet /\ ~ a.short /\ Len(a.r.buf) <= RxSize
    /\ a.flag => Len(a.r.bits) <= n - 8
    /\ ~ a.flag => Taken(n, i, a)

(* One turn: there are bits enough to look for a flag.                     *)
LEMMA TurnStep ==
    ASSUME NEW n \in Nat, n >= 18, NEW i \in 0 .. 7, NEW a, TurnOK(n, i, a)
    PROVE  TurnOK(n, i + 1, rx_turn(a, i))
<1>0. /\ a \in TurnSet /\ a.r \in RxSet /\ a.out \in Seq(Bit) /\ a.flag \in BOOLEAN
      /\ a.whole \in Seq(Seq(Byte)) /\ ~ a.short /\ Len(a.r.buf) <= RxSize
      /\ RxSize \in Nat /\ Len(<<>>) = 0
  BY PackerAssumption, EmptySeq DEF TurnOK, TurnSet
<1>20. Len(a.r.bits) \in Nat /\ a.r.ones \in 0 .. 4 /\ a.r.bits \in Seq(Bit) /\ Len(a.out) \in Nat
       /\ \A j \in 1 .. Len(a.r.bits) : a.r.bits[j] \in Bit
  BY <1>0, RxFields, LenProperties
<1>1. CASE a.flag
  <2>1. rx_turn(a, i) = a
    BY <1>1, Zenon DEF rx_turn
  <2>. QED  BY <1>1, <2>1, Zenon DEF TurnOK
<1>2. CASE ~ a.flag
  <2>. DEFINE m == Len(a.r.bits)
              o == a.r.ones
  <2>1. Taken(n, i, a)
    BY <1>2, Zenon DEF TurnOK
  <2>2. m <= n - i /\ 5 * (n - m - i) + o <= i + 4 /\ m \in Nat /\ o \in 0 .. 4
    BY <1>20, <2>1, Zenon DEF Taken
  <2>. HIDE DEF m, o
  <2>3. m >= 9
    BY <2>2
  <2>4. ~ (Len(a.r.bits) < 8) /\ Len(a.r.bits) >= 8
    BY <2>3, <1>20 DEF m
  <2>5. CASE SubSeq(a.r.bits, 1, 8) = HDLC_FLAG
    <3>. DEFINE f == rx_flag(a.r)
                w == IF good_frame(a.r, i)
                     THEN <<SubSeq(a.r.buf, 1, Len(a.r.buf) - 2)>> ELSE <<>>
                u == rx_turn(a, i)
    <3>1. u = [a EXCEPT !.r = f, !.flag = TRUE, !.whole = w]
      BY <1>2, <2>4, <2>5, Zenon DEF rx_turn
    <3>2. f \in RxSet /\ Len(f.bits) = Len(a.r.bits) - 8 /\ f.buf = <<>>
      BY <1>0, <2>4, RxFlag
    <3>3. w \in Seq(Seq(Byte))
      <4>1. CASE good_frame(a.r, i)
        <5>1. Len(a.r.buf) >= 3 /\ a.r.buf \in Seq(Byte) /\ Len(a.r.buf) \in Nat
          BY <1>0, <4>1, RxFields DEF good_frame
        <5>2. SubSeq(a.r.buf, 1, Len(a.r.buf) - 2) \in Seq(Byte)
          BY <5>1, FirstOf
        <5>. QED  BY <4>1, <5>2
      <4>2. CASE ~ good_frame(a.r, i)
        BY <4>2, EmptySeq
      <4>. QED  BY <4>1, <4>2
    <3>. HIDE DEF f, w, u
    <3>4. ASSUME NEW t \in BOOLEAN
          PROVE  LET v == [a EXCEPT !.r = f, !.flag = t, !.whole = w]
                 IN  v \in TurnSet /\ v.r = f /\ v.flag = t /\ v.short = a.short
      BY <1>0, <3>2, <3>3 DEF TurnSet
    <3>5. u \in TurnSet /\ u.r = f /\ u.flag = TRUE /\ u.short = a.short
      BY <3>1, <3>4, Zenon
    <3>6. Len(u.r.bits) <= n - 8 /\ Len(u.r.buf) <= RxSize
      <4>1. Len(f.bits) = m - 8
        BY <3>2 DEF m
      <4>2. Len(f.bits) <= n - 8
        BY <2>2, <4>1
      <4>3. Len(f.buf) <= RxSize
        BY <1>0, <3>2
      <4>. QED  BY <3>5, <4>2, <4>3, Zenon
    <3>7. u.flag /\ ~ u.short
      BY <1>0, <3>5, Zenon
    <3>8. TurnOK(n, i + 1, u)
      BY <3>5, <3>6, <3>7, Zenon DEF TurnOK
    <3>. QED  BY <3>8 DEF u
  <2>6. CASE SubSeq(a.r.bits, 1, 8) # HDLC_FLAG /\ a.r.error
    <3>. DEFINE t == Tail(a.r.bits)
                f == [a.r EXCEPT !.bits = t]
                u == rx_turn(a, i)
    <3>1. u = [a EXCEPT !.r.bits = Tail(@)]
      BY <1>2, <2>4, <2>6, Zenon DEF rx_turn
    <3>2. u = [a EXCEPT !.r = f]
      BY <3>1
    <3>3. t \in Seq(Bit) /\ Len(t) = Len(a.r.bits) - 1
      <4>1. a.r.bits # <<>>
        BY <1>20, <2>4
      <4>. QED  BY <1>20, <4>1, HeadTailProperties
    <3>. HIDE DEF t
    <3>4. f \in RxSet /\ f.bits = t /\ f.ones = a.r.ones /\ f.buf = a.r.buf /\ f.error = a.r.error
      BY <1>0, <3>3 DEF RxSet
    <3>. HIDE DEF f, u
    <3>5. u \in TurnSet /\ u.r = f /\ u.flag = a.flag /\ u.short = a.short
      BY <1>0, <3>2, <3>4 DEF TurnSet
    <3>6. ~ u.flag /\ ~ u.short /\ u.r.error
      BY <1>0, <1>2, <2>6, <3>4, <3>5, Zenon
    <3>7. Len(u.r.buf) <= RxSize
      BY <1>0, <3>4, <3>5, Zenon
    <3>8. /\ Len(u.r.bits) <= n - (i + 1)
          /\ 5 * (n - Len(u.r.bits) - (i + 1)) + u.r.ones <= (i + 1) + 4
      <4>1. m - 1 <= n - (i + 1) /\ 5 * (n - (m - 1) - (i + 1)) + o <= (i + 1) + 4
        BY <2>2
      <4>2. Len(u.r.bits) = m - 1 /\ u.r.ones = o
        BY <3>3, <3>4, <3>5 DEF m, o
      <4>. QED  BY <4>1, <4>2
    <3>9. TurnOK(n, i + 1, u)
      BY <3>5, <3>6, <3>7, <3>8, Zenon DEF TurnOK, Taken
    <3>. QED  BY <3>9 DEF u
  <2>7. CASE SubSeq(a.r.bits, 1, 8) # HDLC_FLAG /\ ~ a.r.error
    <3>. DEFINE f == rx_bit(a.r)
                t == Append(a.out, a.r.bits[1])
                u == rx_turn(a, i)
    <3>1. u = [a EXCEPT !.out = t, !.r = f]
      BY <1>2, <2>4, <2>7, Zenon DEF rx_turn
    <3>2. /\ f \in RxSet /\ (f.buf = a.r.buf \/ f.buf = <<>>)
          /\ Len(f.bits) <= Len(a.r.bits) - 1
          /\ 5 * (Len(a.r.bits) - 1 - Len(f.bits)) + f.ones <= 1 + a.r.ones
      <4>1. Len(a.r.bits) >= 2
        BY <1>20, <2>4
      <4>. QED  BY <1>0, <4>1, RxBit
    <3>3. t \in Seq(Bit) /\ Len(t) = Len(a.out) + 1
      <4>1. a.r.bits[1] \in Bit
        BY <1>20, <2>4
      <4>. QED  BY <1>0, <4>1, AppendProperties
    <3>4. Len(f.bits) \in Nat /\ f.ones \in 0 .. 4
      BY <3>2, RxFields
    <3>. HIDE DEF f, t, u
    <3>5. /\ u \in TurnSet /\ u.r = f /\ u.flag = a.flag /\ u.short = a.short
          /\ u.out = t
      BY <1>0, <3>1, <3>2, <3>3 DEF TurnSet
    <3>6. ~ u.flag /\ ~ u.short
      BY <1>0, <1>2, <3>5, Zenon
    <3>7. Len(u.r.buf) <= RxSize
      BY <1>0, <3>2, <3>5
    <3>8. /\ Len(u.r.bits) <= n - (i + 1)
          /\ 5 * (n - Len(u.r.bits) - (i + 1)) + u.r.ones <= (i + 1) + 4
      <4>. DEFINE k == Len(f.bits)
                  p == f.ones
      <4>1. k <= m - 1 /\ 5 * (m - 1 - k) + p <= 1 + o /\ k \in Nat /\ p \in Nat
        <5>1. k <= m - 1 /\ 5 * (m - 1 - k) + p <= 1 + o
          BY <3>2, Zenon DEF m, o
        <5>. QED  BY <3>4, <5>1
      <4>. HIDE DEF k, p
      <4>2. k <= n - (i + 1) /\ 5 * (n - k - (i + 1)) + p <= (i + 1) + 4
        BY <2>2, <4>1
      <4>. QED  BY <3>5, <4>2 DEF k, p
    <3>9. Len(u.out) = i + 1
      <4>1. Len(a.out) = i
        BY <2>1, <2>7, Zenon DEF Taken
      <4>. QED  BY <3>3, <3>5, <4>1
    <3>10. TurnOK(n, i + 1, u)
      BY <3>5, <3>6, <3>7, <3>8, <3>9, Zenon DEF TurnOK, Taken
    <3>. QED  BY <3>10 DEF u
  <2>. QED  BY <2>5, <2>6, <2>7, Zenon
<1>. QED  BY <1>1, <1>2, Zenon
(* The loop over a byte.                                                   *)
LEMMA RxByte ==
    ASSUME NEW r \in RxSet, Len(r.bits) >= 18, Len(r.buf) <= RxSize
    PROVE  TurnOK(Len(r.bits), 8, rx_byte(r))
<1>. DEFINE n == Len(r.bits)
            s == <<0, 1, 2, 3, 4, 5, 6, 7>>
            a0 == [r |-> r, out |-> <<>>, flag |-> FALSE, whole |-> <<>>, short |-> FALSE]
            a1 == rx_turn(a0, 0)
            a2 == rx_turn(a1, 1)
            a3 == rx_turn(a2, 2)
            a4 == rx_turn(a3, 3)
            a5 == rx_turn(a4, 4)
            a6 == rx_turn(a5, 5)
            a7 == rx_turn(a6, 6)
            a8 == rx_turn(a7, 7)
<1>0. n \in Nat /\ n >= 18 /\ r.ones \in 0 .. 4
  BY RxFields
<1>20. rx_byte(r) = a8
  <2>1. /\ s[1] = 0 /\ s[2] = 1 /\ s[3] = 2 /\ s[4] = 3 /\ s[5] = 4 /\ s[6] = 5 /\ s[7] = 6
        /\ s[8] = 7
    OBVIOUS
  <2>. HIDE DEF s
  <2>2. rx_byte(r) = eight(rx_turn, a0, s)
    BY Zenon DEF rx_byte, s
  <2>. HIDE DEF a0
  <2>. QED  BY <2>1, <2>2, Zenon DEF eight
<1>21. TurnOK(n, 0, a0)
  <2>1. <<>> \in Seq(Bit) /\ <<>> \in Seq(Seq(Byte)) /\ Len(<<>>) = 0
    BY EmptySeq
  <2>2. /\ a0 \in TurnSet /\ a0.r = r /\ ~ a0.short /\ ~ a0.flag /\ a0.out = <<>>
    BY <2>1 DEF TurnSet
  <2>. HIDE DEF a0
  <2>3. n <= n - 0 /\ 5 * (n - n - 0) + r.ones <= 0 + 4
    BY <1>0
  <2>4. Len(a0.r.bits) = n /\ a0.r.ones = r.ones /\ Len(a0.out) = 0
    BY <2>1, <2>2
  <2>5. Taken(n, 0, a0)
    BY <2>3, <2>4, Zenon DEF Taken
  <2>6. Len(a0.r.buf) <= RxSize
    BY <2>2
  <2>. QED  BY <2>2, <2>5, <2>6, Zenon DEF TurnOK
<1>. HIDE DEF n, a0
<1>1. TurnOK(n, 0 + 1, a1)
  BY <1>0, <1>21, TurnStep
<1>. HIDE DEF a1
<1>2. TurnOK(n, 1 + 1, a2)
  BY <1>0, <1>1, TurnStep
<1>. HIDE DEF a2
<1>3. TurnOK(n, 2 + 1, a3)
  BY <1>0, <1>2, TurnStep
<1>. HIDE DEF a3
<1>4. TurnOK(n, 3 + 1, a4)
  BY <1>0, <1>3, TurnStep
<1>. HIDE DEF a4
<1>5. TurnOK(n, 4 + 1, a5)
  BY <1>0, <1>4, TurnStep
<1>. HIDE DEF a5
<1>6. TurnOK(n, 5 + 1, a6)
  BY <1>0, <1>5, TurnStep
<1>. HIDE DEF a6
<1>7. TurnOK(n, 6 + 1, a7)
  BY <1>0, <1>6, TurnStep
<1>. HIDE DEF a7
<1>8. TurnOK(n, 7 + 1, a8)
  BY <1>0, <1>7, TurnStep
<1>. HIDE DEF a8
<1>9. TurnOK(n, 8, rx_byte(r))
  BY <1>8, <1>20
<1>. QED  BY <1>9 DEF n

(* A byte goes into rx_frame, or the frame is given up.                    *)
LEMMA RxStore ==
    ASSUME NEW r \in RxSet, NEW out \in Byte, Len(r.buf) <= RxSize
    PROVE  LET u == rx_store(r, out)
           IN  u \in RxSet /\ u.bits = r.bits /\ Len(u.buf) <= RxSize
<1>. DEFINE u == rx_store(r, out)
<1>0. r.buf \in Seq(Byte) /\ Len(r.buf) \in Nat /\ r.fcs \in Fcs /\ RxSize \in Nat
  BY RxFields, PackerAssumption
<1>1. CASE Len(r.buf) < RxSize
  <2>. DEFINE b == Append(r.buf, out)
              c == GET_FCS(r.fcs, out)
  <2>1. u = [r EXCEPT !.buf = b, !.fcs = c]
    BY <1>1, Zenon DEF rx_store
  <2>2. b \in Seq(Byte) /\ Len(b) = Len(r.buf) + 1
    BY <1>0, AppendProperties
  <2>3. c \in Fcs
    BY <1>0, GetFcs
  <2>. HIDE DEF b, c, u
  <2>4. u \in RxSet /\ u.bits = r.bits /\ u.buf = b
    BY <2>1, <2>2, <2>3 DEF RxSet
  <2>5. Len(u.buf) <= RxSize
    BY <1>0, <1>1, <2>2, <2>4
  <2>. QED  BY <2>4, <2>5 DEF u
<1>2. CASE ~ (Len(r.buf) < RxSize)
  <2>. DEFINE b == <<>>
              e == TRUE
  <2>1. u = [r EXCEPT !.buf = b, !.error = e]
    BY <1>2, Zenon DEF rx_store
  <2>2. b \in Seq(Byte) /\ Len(b) = 0 /\ e \in BOOLEAN
    BY EmptySeq
  <2>. HIDE DEF b, e, u
  <2>3. u \in RxSet /\ u.bits = r.bits /\ u.buf = b
    BY <2>1, <2>2 DEF RxSet
  <2>4. Len(u.buf) <= RxSize
    BY <1>0, <2>2, <2>3
  <2>. QED  BY <2>3, <2>4 DEF u
<1>. QED  BY <1>1, <1>2

(* A receiver between two words.                                           *)
RxOK(r) == r \in RxSet /\ Len(r.bits) <= 17 /\ Len(r.buf) <= RxSize

(* A receiver with a word more.                                            *)
LEMMA RxJoined ==
    ASSUME NEW r, RxOK(r), NEW w \in Seq(Bit)
    PROVE  LET u == [r EXCEPT !.bits = w]
           IN  u \in RxSet /\ u.bits = w /\ u.buf = r.buf
BY DEF RxOK, RxSet

(* modem_hdlc_put_bits leaves less than it waits for, within its buffer,   *)
(* and has not looked too far.                                             *)
LEMMA HdlcPut ==
    ASSUME RxOK(rx), nbits \in 1 .. 8, NEW word \in Seq(Bit), Len(word) = nbits
    PROVE  RxOK(hdlc_put(word).rx) /\ ~ hdlc_put(word).short
<1>. DEFINE w == rx.bits \o word
            r == [rx EXCEPT !.bits = w]
            a == rx_byte(r)
            p == hdlc_put(word)
<1>0. rx \in RxSet /\ Len(rx.bits) <= 17 /\ Len(rx.buf) <= RxSize /\ rx.bits \in Seq(Bit)
      /\ Len(rx.bits) \in Nat
  BY RxFields DEF RxOK
<1>1. w \in Seq(Bit) /\ Len(w) = Len(rx.bits) + Len(word)
  BY <1>0, Joined
<1>2. Len(w) \in Nat /\ Len(w) <= 25
  BY <1>0, <1>1
<1>. HIDE DEF w
<1>3. r \in RxSet /\ r.bits = w /\ r.buf = rx.buf
  BY <1>1, RxJoined
<1>4. p = IF Len(r.bits) < lookahead
          THEN [rx |-> r, whole |-> <<>>, short |-> FALSE]
          ELSE [rx |-> IF a.flag \/ a.r.error THEN a.r ELSE rx_store(a.r, a.out),
                whole |-> a.whole, short |-> a.short]
  BY Zenon DEF hdlc_put, w
<1>5. lookahead = 18
  BY DEF lookahead
<1>. HIDE DEF r, p
<1>6. CASE Len(w) < 18
  <2>. DEFINE e == FALSE
  <2>1. p = [rx |-> r, whole |-> <<>>, short |-> e]
    BY <1>3, <1>4, <1>5, <1>6
  <2>2. ~ e
    OBVIOUS
  <2>. HIDE DEF e
  <2>3. p.rx = r /\ p.short = e
    BY <2>1
  <2>4. Len(r.bits) <= 17 /\ Len(r.buf) <= RxSize
    BY <1>0, <1>2, <1>3, <1>6
  <2>5. RxOK(p.rx) /\ ~ p.short
    BY <1>3, <2>2, <2>3, <2>4, Zenon DEF RxOK
  <2>. QED  BY <2>5 DEF p
<1>7. CASE ~ (Len(w) < 18)
  <2>1. Len(r.bits) >= 18 /\ Len(r.buf) <= RxSize /\ Len(r.bits) = Len(w)
    BY <1>0, <1>2, <1>3, <1>7
  <2>2. TurnOK(Len(w), 8, a)
    BY <1>3, <2>1, RxByte
  <2>3. ~ (Len(r.bits) < lookahead)
    BY <1>2, <1>5, <2>1
  <2>. HIDE DEF a
  <2>. DEFINE x == IF a.flag \/ a.r.error THEN a.r ELSE rx_store(a.r, a.out)
  <2>4. p = [rx |-> x, whole |-> a.whole, short |-> a.short]
    BY <1>4, <2>3, Zenon
  <2>5. a.r \in RxSet /\ a.out \in Seq(Bit) /\ ~ a.short /\ Len(a.r.buf) <= RxSize
    BY <2>2 DEF TurnOK, TurnSet
  <2>6. Len(a.r.bits) <= Len(w) - 8
    BY <2>2, Zenon DEF TurnOK, Taken
  <2>7. Len(a.r.bits) <= 17
    BY <1>2, <2>5, <2>6, RxFields
  <2>8. RxOK(x)
    <3>1. CASE a.flag \/ a.r.error
      BY <2>5, <2>7, <3>1 DEF RxOK
    <3>2. CASE ~ (a.flag \/ a.r.error)
      <4>1. Len(a.out) = 8
        BY <2>2, <3>2, Zenon DEF TurnOK, Taken
      <4>2. a.out \in Byte
        BY <2>5, <4>1, LenProperties, ElementOfSeq DEF Byte
      <4>. DEFINE y == rx_store(a.r, a.out)
      <4>3. y \in RxSet /\ y.bits = a.r.bits /\ Len(y.buf) <= RxSize
        BY <2>5, <4>2, RxStore
      <4>4. x = y
        BY <3>2, Zenon
      <4>. HIDE DEF x, y
      <4>. QED  BY <2>7, <4>3, <4>4 DEF RxOK
    <3>. QED  BY <3>1, <3>2
  <2>. HIDE DEF x
  <2>9. p.rx = x /\ p.short = a.short
    BY <2>4
  <2>10. RxOK(p.rx) /\ ~ p.short
    BY <2>5, <2>8, <2>9, Zenon
  <2>. QED  BY <2>10 DEF p
<1>. QED  BY <1>6, <1>7

(* The least of a set of numbers.                                          *)
LEMMA Least ==
    ASSUME NEW T, T \subseteq Nat, T # {}
    PROVE  \E n \in T : \A m \in T : n <= m
<1>1. IsWellFoundedOn(OpToRel(<, Nat), Nat)
  BY NatLessThanWellFounded, Zenon
<1>2. PICK n \in T : \A m \in T : ~ (<<m, n>> \in OpToRel(<, Nat))
  BY <1>1, WFMin, Zenon
<1>3. \A m \in T : ~ (m < n)
  BY <1>2, Zenon DEF OpToRel
<1>. QED  BY <1>3

(* modem_async_put_bits takes a character off when there is one.           *)
LEMMA AsyncPut ==
    ASSUME RxOK(rx), nbits \in 1 .. 8, NEW word \in Seq(Bit), Len(word) = nbits
    PROVE  RxOK(async_put(word).rx) /\ ~ async_put(word).short
<1>. DEFINE all == rx.bits \o word
            starts == {i \in 1 .. Len(all) : all[i] = 0}
            first == CHOOSE i \in starts : \A j \in starts : i <= j
            bits == IF starts = {} THEN <<>> ELSE SubSeq(all, first, Len(all))
            rest == SubSeq(bits, 11, Len(bits))
            p == async_put(word)
<1>0. rx \in RxSet /\ Len(rx.bits) <= 17 /\ Len(rx.buf) <= RxSize /\ rx.bits \in Seq(Bit)
      /\ Len(rx.bits) \in Nat
  BY RxFields DEF RxOK
<1>1. all \in Seq(Bit) /\ Len(all) = Len(rx.bits) + Len(word)
  BY <1>0, Joined
<1>2. Len(all) \in Nat /\ Len(all) <= 25
  BY <1>0, <1>1
<1>3. p = IF Len(bits) < 10
          THEN [rx |-> [rx EXCEPT !.bits = bits], whole |-> <<>>, short |-> FALSE]
          ELSE [rx |-> [rx EXCEPT !.bits = rest],
                whole |-> << <<SubSeq(bits, 2, 9)>> >>, short |-> FALSE]
  BY Zenon DEF async_put
<1>. HIDE DEF all, p
<1>4. bits \in Seq(Bit) /\ Len(bits) \in Nat /\ Len(bits) <= 25
  <2>1. CASE starts = {}
    BY <2>1, EmptySeq
  <2>2. CASE starts # {}
    <3>1. first \in starts
      <4>1. starts \subseteq Nat
        OBVIOUS
      <4>. HIDE DEF starts
      <4>2. \E i \in starts : \A j \in starts : i <= j
        BY <2>2, <4>1, Least
      <4>. QED  BY <4>2, Zenon
    <3>2. first \in 1 .. Len(all)
      BY <3>1
    <3>. HIDE DEF first
    <3>. DEFINE k == first - 1
    <3>3. k \in Nat /\ k <= Len(all) /\ k + 1 = first
      BY <1>2, <3>2
    <3>. HIDE DEF k
    <3>4. /\ SubSeq(all, k + 1, Len(all)) \in Seq(Bit)
          /\ Len(SubSeq(all, k + 1, Len(all))) = Len(all) - k
      BY <1>1, <3>3, RestOf
    <3>5. bits = SubSeq(all, k + 1, Len(all))
      BY <2>2, <3>3
    <3>. HIDE DEF bits
    <3>. QED  BY <1>2, <3>3, <3>4, <3>5
  <2>. QED  BY <2>1, <2>2
<1>. HIDE DEF bits
<1>5. ASSUME NEW w \in Seq(Bit), Len(w) <= 17, NEW h, NEW e, ~ e,
             p = [rx |-> [rx EXCEPT !.bits = w], whole |-> h, short |-> e]
      PROVE  RxOK(p.rx) /\ ~ p.short
  <2>. DEFINE u == [rx EXCEPT !.bits = w]
  <2>1. u \in RxSet /\ u.bits = w /\ u.buf = rx.buf
    BY RxJoined
  <2>. HIDE DEF u
  <2>2. p = [rx |-> u, whole |-> h, short |-> e]
    BY <1>5, Zenon DEF u
  <2>3. p.rx = u /\ p.short = e
    BY <2>2
  <2>4. RxOK(u)
    BY <1>0, <1>5, <2>1 DEF RxOK
  <2>. QED  BY <1>5, <2>3, <2>4, Zenon
<1>6. CASE Len(bits) < 10
  <2>1. p = [rx |-> [rx EXCEPT !.bits = bits], whole |-> <<>>, short |-> FALSE]
    BY <1>3, <1>6, Zenon
  <2>2. Len(bits) <= 17
    BY <1>4, <1>6
  <2>. QED  BY <1>4, <1>5, <2>1, <2>2, Zenon DEF p
<1>7. CASE ~ (Len(bits) < 10)
  <2>1. p = [rx |-> [rx EXCEPT !.bits = rest], whole |-> << <<SubSeq(bits, 2, 9)>> >>,
             short |-> FALSE]
    BY <1>3, <1>7, Zenon
  <2>2. rest \in Seq(Bit) /\ Len(rest) = Len(bits) - 10
    <3>1. 10 \in Nat /\ 10 <= Len(bits) /\ 10 + 1 = 11
      BY <1>4, <1>7
    <3>2. /\ SubSeq(bits, 10 + 1, Len(bits)) \in Seq(Bit)
          /\ Len(SubSeq(bits, 10 + 1, Len(bits))) = Len(bits) - 10
      BY <1>4, <3>1, RestOf
    <3>. QED  BY <3>1, <3>2
  <2>. HIDE DEF rest
  <2>3. Len(rest) <= 17
    BY <1>4, <2>2
  <2>. QED  BY <1>5, <2>1, <2>2, <2>3, Zenon DEF p
<1>. QED  BY <1>6, <1>7
-----------------------------------------------------------------------------
(* The words between them.                                                 *)

(* Between two words: the sender has nineteen bits at the most, for the    *)
(* FCS may bring twenty when all but one of a word is there; the receiver  *)
(* has less than the eighteen it waits for.                                *)
PInv ==
    /\ mode \in {"hdlc", "async"} /\ nbits \in NBits
    /\ tx \in TxSet /\ Len(tx.bits) <= 19
    /\ RxOK(rx)
    /\ ~ short

(* The initial state.                                                      *)
LEMMA PInvInit == Init => PInv
<1>. SUFFICES ASSUME Init PROVE PInv
  OBVIOUS
<1>1. NoFrame \in FrameSet /\ <<>> \in Seq(Bit) /\ <<>> \in Seq(Byte) /\ Len(<<>>) = 0
      /\ INIT_FCS \in Fcs /\ 0 \in 0 .. 4 /\ RxSize \in Nat
  <2>1. NoFrame \in FrameSet
    BY FramesOK
  <2>2. INIT_FCS \in Fcs
    BY DEF INIT_FCS, Fcs, Bit
  <2>. QED  BY <2>1, <2>2, EmptySeq, PackerAssumption
<1>2. tx \in TxSet /\ tx.bits = <<>>
  BY <1>1 DEF Init, TxSet
<1>3. rx \in RxSet /\ rx.bits = <<>> /\ rx.buf = <<>>
  BY <1>1 DEF Init, RxSet
<1>4. Len(tx.bits) <= 19 /\ RxOK(rx)
  BY <1>1, <1>2, <1>3 DEF RxOK
<1>. QED  BY <1>2, <1>4 DEF Init, PInv

(* What the line makes of a word is a word.                                *)
LEMMA HeardWord ==
    ASSUME nbits \in 1 .. 8, NEW w \in Seq(Bit), Len(w) = nbits, NEW h \in Heard(w)
    PROVE  h.word \in Seq(Bit) /\ Len(h.word) = nbits
<1>1. \/ h = [word |-> w, flips |-> flips]
      \/ \E i \in 1 .. nbits : h = [word |-> [w EXCEPT ![i] = 1 - @], flips |-> flips + 1]
  BY DEF Heard
<1>2. CASE h = [word |-> w, flips |-> flips]
  BY <1>2
<1>3. ASSUME NEW i \in 1 .. nbits, h = [word |-> [w EXCEPT ![i] = 1 - @], flips |-> flips + 1]
      PROVE  h.word \in Seq(Bit) /\ Len(h.word) = nbits
  <2>. DEFINE v == [w EXCEPT ![i] = 1 - @]
  <2>1. w \in [1 .. nbits -> Bit] /\ nbits \in Nat
    BY LenProperties, ElementOfSeq
  <2>2. 1 - w[i] \in Bit
    BY <2>1 DEF Bit
  <2>3. v \in [1 .. nbits -> Bit]
    BY <2>1, <2>2
  <2>. HIDE DEF v
  <2>4. v \in Seq(Bit) /\ Len(v) = nbits
    BY <2>1, <2>3, IsSeq
  <2>5. h.word = v
    BY <1>3 DEF v
  <2>. QED  BY <2>4, <2>5
<1>. QED  BY <1>1, <1>2, <1>3

(* Every word keeps the bounds.                                            *)
LEMMA PInvStep == PInv /\ [Next]_vars => PInv'
<1>. SUFFICES ASSUME PInv, [Next]_vars PROVE PInv'
  OBVIOUS
<1>0. /\ nbits \in 1 .. 8 /\ mode \in {"hdlc", "async"} /\ nbits \in NBits
      /\ tx \in TxSet /\ Len(tx.bits) <= 19 /\ RxOK(rx) /\ ~ short
  BY PackerAssumption DEF PInv
<1>1. CASE Word
  <2>0. PICK t \in IF mode = "hdlc" THEN hdlc_filled ELSE async_filled :
          \E h \in Heard(SubSeq(t.tx.bits, 1, nbits)) :
            /\ tx' = [t.tx EXCEPT !.bits = SubSeq(t.tx.bits, nbits + 1, Len(t.tx.bits))]
            /\ rx' = (IF mode = "hdlc" THEN hdlc_put(h.word) ELSE async_put(h.word)).rx
            /\ short' = (short \/ (IF mode = "hdlc" THEN hdlc_put(h.word)
                                   ELSE async_put(h.word)).short)
            /\ UNCHANGED <<mode, nbits>>
    BY <1>1, Zenon DEF Word
  <2>1. PICK h \in Heard(SubSeq(t.tx.bits, 1, nbits)) :
          /\ tx' = [t.tx EXCEPT !.bits = SubSeq(t.tx.bits, nbits + 1, Len(t.tx.bits))]
          /\ rx' = (IF mode = "hdlc" THEN hdlc_put(h.word) ELSE async_put(h.word)).rx
          /\ short' = (short \/ (IF mode = "hdlc" THEN hdlc_put(h.word)
                                 ELSE async_put(h.word)).short)
          /\ UNCHANGED <<mode, nbits>>
    BY <2>0, Zenon
  <2>2. Ready(t.tx)
    BY <1>0, HdlcReady, AsyncReady
  <2>. DEFINE b == t.tx.bits
              w == SubSeq(b, 1, nbits)
              l == SubSeq(b, nbits + 1, Len(b))
  <2>3. t.tx \in TxSet /\ b \in Seq(Bit) /\ Len(b) >= nbits /\ Len(b) <= nbits + 19
        /\ Len(b) \in Nat
    <3>1. t.tx \in TxSet /\ b \in Seq(Bit) /\ Len(b) >= nbits /\ Len(b) <= nbits + 19
      BY <2>2 DEF Ready, TxSet
    <3>. QED  BY <3>1, LenProperties
  <2>. HIDE DEF b
  <2>4. w \in Seq(Bit) /\ Len(w) = nbits /\ l \in Seq(Bit) /\ Len(l) = Len(b) - nbits
    <3>1. nbits \in Nat /\ nbits <= Len(b)
      BY <1>0, <2>3
    <3>. QED  BY <2>3, <3>1, FirstOf, RestOf
  <2>5. Len(l) <= 19
    BY <1>0, <2>3, <2>4
  <2>. HIDE DEF w, l
  <2>6. tx' = [t.tx EXCEPT !.bits = l]
    BY <2>1, Zenon DEF b, l
  <2>7. tx' \in TxSet /\ tx'.bits = l
    BY <2>3, <2>4, <2>6 DEF TxSet
  <2>8. h \in Heard(w)
    BY <2>1, Zenon DEF b, w
  <2>9. h.word \in Seq(Bit) /\ Len(h.word) = nbits
    BY <1>0, <2>4, <2>8, HeardWord
  <2>10. RxOK(rx') /\ ~ short'
    <3>1. CASE mode = "hdlc"
      <4>1. rx' = hdlc_put(h.word).rx /\ short' = (short \/ hdlc_put(h.word).short)
        BY <2>1, <3>1, Zenon
      <4>2. RxOK(hdlc_put(h.word).rx) /\ ~ hdlc_put(h.word).short
        BY <1>0, <2>9, HdlcPut
      <4>. QED  BY <1>0, <4>1, <4>2, Zenon
    <3>2. CASE mode # "hdlc"
      <4>1. rx' = async_put(h.word).rx /\ short' = (short \/ async_put(h.word).short)
        BY <2>1, <3>2, Zenon
      <4>2. RxOK(async_put(h.word).rx) /\ ~ async_put(h.word).short
        BY <1>0, <2>9, AsyncPut
      <4>. QED  BY <1>0, <4>1, <4>2, Zenon
    <3>. QED  BY <3>1, <3>2
  <2>11. RxOK(rx)' /\ Len(tx'.bits) <= 19
    <3>1. RxOK(rx)' <=> RxOK(rx')
      BY Zenon DEF RxOK
    <3>. QED  BY <2>5, <2>7, <2>10, <3>1, Zenon
  <2>12. mode' \in {"hdlc", "async"} /\ nbits' \in NBits
    BY <1>0, <2>1
  <2>. QED  BY <2>7, <2>10, <2>11, <2>12, Zenon DEF PInv
<1>2. CASE UNCHANGED vars
  <2>1. tx' = tx /\ rx' = rx /\ short' = short /\ mode' = mode /\ nbits' = nbits
    BY <1>2 DEF vars
  <2>. QED  BY <1>0, <2>1, Zenon DEF PInv, RxOK
<1>. QED  BY <1>1, <1>2 DEF Next

(* All behaviours keep the bounds.                                         *)
LEMMA PInvAlways == Spec => []PInv
BY PInvInit, PInvStep, PTL DEF Spec

(* The shifters never hold more than their 32 bits, a word more included,  *)
(* and rx_frame is never written behind its end, whatever comes in.        *)
THEOREM PackerTypeOK == Spec => []TypeOK
<1>1. PInv => TypeOK
  <2>. SUFFICES ASSUME PInv PROVE TypeOK
    OBVIOUS
  <2>1. /\ nbits \in 1 .. 8 /\ mode \in {"hdlc", "async"} /\ nbits \in NBits
        /\ tx \in TxSet /\ Len(tx.bits) <= 19
        /\ rx \in RxSet /\ Len(rx.bits) <= 17 /\ Len(rx.buf) <= RxSize
    BY PackerAssumption DEF PInv, RxOK
  <2>2. tx.bits \in Seq(Bit) /\ tx.ones \in 0 .. 4
    BY <2>1 DEF TxSet
  <2>3. Len(tx.bits) \in Nat
    BY <2>2, LenProperties
  <2>4. rx.bits \in Seq(Bit) /\ rx.ones \in 0 .. 4 /\ rx.error \in BOOLEAN /\ Len(rx.bits) \in Nat
    BY <2>1, RxFields
  <2>5. Len(tx.bits) + nbits <= ShiftWidth /\ Len(rx.bits) + nbits <= ShiftWidth
    BY <2>1, <2>3, <2>4 DEF ShiftWidth
  <2>. QED  BY <2>1, <2>2, <2>4, <2>5, Zenon DEF TypeOK
<1>. QED  BY <1>1, PInvAlways, PTL

(* The eighteen bits that modem_hdlc_put_bits waits for are enough for a   *)
(* byte with its inserted zeros and a flag behind it, whatever the counts  *)
(* of ones it begins with and whatever the line has inverted.              *)
THEOREM PackerLookaheadEnough == Spec => []LookaheadEnough
<1>1. PInv => LookaheadEnough
  BY DEF PInv, LookaheadEnough
<1>. QED  BY <1>1, PInvAlways, PTL

=============================================================================
