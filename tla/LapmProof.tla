----------------------------- MODULE LapmProof -----------------------------
(***************************************************************************)
(* TLAPS proofs about Lapm, for every modulus, window, ring size and       *)
(* bound.                                                                  *)
(*                                                                         *)
(* First the type invariant and RingInv.  A station is Good when it has    *)
(* its type and its ring of I frames agrees with its sequence variables;   *)
(* every operator of modem_ec.c that the model is built from keeps a       *)
(* station good, so every action does.                                     *)
(*                                                                         *)
(* Then the data that crosses the link: it is an ordered channel whatever  *)
(* is lost and however often it is set up (OrderedDelivery), and a channel *)
(* without gaps as long as one SABME was enough (NoGap, NothingLost).      *)
(* Sequence numbers are compared within one window.  A direction of the    *)
(* link is described by six numbers: of its sender va, the number of items *)
(* that are acknowledged or given up, and the number fetched; of its       *)
(* receiver vr, the last item it has, and whether it may still take one.   *)
(* One part is about these and the frames under way, one about what each   *)
(* function of modem_ec.c does to them; in the last the two directions and *)
(* the ring of control frames are put together to an invariant of the      *)
(* whole link, from which the theorems follow.                             *)
(***************************************************************************)
EXTENDS Lapm, TLAPS, SequenceTheorems

Good(l) == l \in StationType /\ RingOK(l)

(* RingOK as a relation between the five fields it is about.               *)
Ring(vs, va, sent, tx, taken) ==
    /\ Len(sent) = Dist(vs, va)
    /\ Len(sent) + Len(tx) <= TxWin
    /\ \A i \in 1 .. Len(sent) : sent[i] = taken - Len(sent) - Len(tx) + i
    /\ \A i \in 1 .. Len(tx) : tx[i] = taken - Len(tx) + i
    /\ Len(sent) + Len(tx) <= taken

(* RingOK of a station is Ring of its fields.                              *)
LEMMA RingOKDef ==
    ASSUME NEW l
    PROVE  RingOK(l) <=> Ring(l.vs, l.va, l.sent, l.tx, l.taken)
BY DEF RingOK, Ring

-----------------------------------------------------------------------------
(* Updates of fields the ring does not depend on.                          *)

(* A control frame goes into the control ring or is dropped.               *)
LEMMA TxCtrlGood ==
    ASSUME NEW l, Good(l), NEW f \in Frame
    PROVE  Good(tx_ctrl(l, f))
<1>1. tx_ctrl(l, f) \in StationType
  BY AppendProperties DEF Good, tx_ctrl, StationType
<1>2. RingOK(tx_ctrl(l, f))
  BY DEF Good, tx_ctrl, StationType, RingOK
<1>. QED  BY <1>1, <1>2 DEF Good

(* Taking the oldest control frame for the line leaves a good station and  *)
(* yields a frame.                                                         *)
LEMMA TakeCtrlGood ==
    ASSUME NEW l, Good(l), l.ctrl # <<>>
    PROVE  Good([l EXCEPT !.ctrl = Tail(@)]) /\ Head(l.ctrl) \in Frame
<1>1. Tail(l.ctrl) \in Seq(Frame) /\ Head(l.ctrl) \in Frame
  <2>1. l.ctrl \in Seq(Frame)
    BY DEF Good, StationType
  <2>. QED  BY <2>1, HeadTailProperties
<1>2. [l EXCEPT !.ctrl = Tail(@)] \in StationType
  BY <1>1 DEF Good, StationType
<1>3. RingOK([l EXCEPT !.ctrl = Tail(@)])
  BY DEF Good, StationType, RingOK
<1>. QED  BY <1>1, <1>2, <1>3 DEF Good

(* The frames the station makes are frames.                                *)
LEMMA UFrameType ==
    ASSUME NEW k \in UKind, NEW cmd \in BOOLEAN, NEW pf \in BOOLEAN
    PROVE  UFrame(k, cmd, pf) \in Frame
<1>1. 0 \in SeqNo
  BY LapmAssumption DEF SeqNo
<1>. QED  BY <1>1 DEF UFrame, Frame

(* Supervisory frames carry vr.                                            *)
LEMMA TxSuperGood ==
    ASSUME NEW l, Good(l), NEW k \in SKind, NEW cmd \in BOOLEAN,
           NEW pf \in BOOLEAN
    PROVE  Good(tx_super(l, k, cmd, pf))
<1>1. 0 \in SeqNo /\ l.vr \in SeqNo
  BY LapmAssumption DEF SeqNo, Good, StationType
<1>2. [kind |-> k, cmd |-> cmd, pf |-> pf, nr |-> l.vr, ns |-> 0,
       data |-> 0] \in Frame
  BY <1>1 DEF Frame
<1>. QED  BY <1>2, TxCtrlGood DEF tx_super

(* RNR or RR, whichever tx_ready chooses, leaves a good station.           *)
LEMMA TxReadyGood ==
    ASSUME NEW l, Good(l), NEW cmd \in BOOLEAN, NEW pf \in BOOLEAN
    PROVE  Good(tx_ready(l, cmd, pf))
<1>1. (IF l.busy THEN "RNR" ELSE "RR") \in SKind
  BY DEF SKind
<1>. QED  BY <1>1, TxSuperGood DEF tx_ready

(* Unnumbered frames.                                                      *)
LEMMA TxUnnumGood ==
    ASSUME NEW l, Good(l), NEW b \in BOOLEAN
    PROVE  /\ Good(TX_SABME(l)) /\ Good(TX_DISC(l)) /\ Good(TX_DM(l))
           /\ Good(TX_UA(l, b)) /\ Good(tx_xid(l, b))
<1>1. /\ UFrame("SABME", TRUE, TRUE) \in Frame
      /\ UFrame("DISC", TRUE, TRUE) \in Frame
      /\ UFrame("DM", FALSE, FALSE) \in Frame
      /\ UFrame("UA", FALSE, b) \in Frame
      /\ UFrame("XID", b, FALSE) \in Frame
  BY UFrameType DEF UKind
<1>2. Good(tx_ctrl(l, UFrame("SABME", TRUE, TRUE)))
  BY <1>1, TxCtrlGood
<1>3. ASSUME NEW x, Good(x)
      PROVE  Good([x EXCEPT !.sabmes = @ + 1])
  <2>0. x.sabmes + 1 \in Nat
    BY <1>3 DEF Good, StationType
  <2>1. [x EXCEPT !.sabmes = @ + 1] \in StationType
    BY <1>3, <2>0 DEF Good, StationType
  <2>2. RingOK([x EXCEPT !.sabmes = @ + 1])
    BY <1>3 DEF Good, StationType, RingOK
  <2>. QED  BY <2>1, <2>2 DEF Good
<1>4. Good(TX_SABME(l))
  BY <1>2, <1>3 DEF TX_SABME
<1>. QED  BY <1>1, <1>4, TxCtrlGood DEF TX_DISC, TX_DM, TX_UA, tx_xid

(* The timer, the modem around the link, and single flags.                 *)
LEMMA FlagsGood ==
    ASSUME NEW l, Good(l), NEW b \in BOOLEAN
    PROVE  /\ Good(T401_START(l)) /\ Good(T401_STOP(l))
           /\ Good(ec_link(l)) /\ Good(ec_release(l))
           /\ Good([l EXCEPT !.config = b]) /\ Good([l EXCEPT !.busy = b])
           /\ Good([l EXCEPT !.peer_busy = b])
           /\ Good([l EXCEPT !.reject = b])
           /\ Good([l EXCEPT !.framing = b]) /\ Good([l EXCEPT !.push = b])
           /\ Good([l EXCEPT !.written = @ + 1])
           /\ Good([l EXCEPT !.modem = "ecdisc"])
<1>0. /\ 0 \in 0 .. MaxRtx + 1
      /\ "t401" \in {"off", "negotiate", "t401"}
      /\ "off" \in {"off", "negotiate", "t401"}
      /\ "online" \in ModemState /\ "down" \in ModemState
      /\ "ecdisc" \in ModemState
  BY LapmAssumption DEF ModemState
<1>1. T401_START(l) \in StationType /\ T401_STOP(l) \in StationType
  BY <1>0 DEF Good, StationType, T401_START, T401_STOP
<1>2. ec_link(l) \in StationType /\ ec_release(l) \in StationType
  BY <1>0 DEF Good, StationType, ec_link, ec_release
<1>3. /\ [l EXCEPT !.config = b] \in StationType
      /\ [l EXCEPT !.busy = b] \in StationType
      /\ [l EXCEPT !.peer_busy = b] \in StationType
  BY DEF Good, StationType
<1>4. /\ [l EXCEPT !.reject = b] \in StationType
      /\ [l EXCEPT !.framing = b] \in StationType
      /\ [l EXCEPT !.push = b] \in StationType
  BY DEF Good, StationType
<1>5. /\ [l EXCEPT !.written = @ + 1] \in StationType
      /\ [l EXCEPT !.modem = "ecdisc"] \in StationType
  <2>1. l.written + 1 \in Nat
    BY DEF Good, StationType
  <2>. QED  BY <1>0, <2>1 DEF Good, StationType
<1>6. RingOK(T401_START(l)) /\ RingOK(T401_STOP(l))
  BY DEF Good, StationType, T401_START, T401_STOP, RingOK
<1>7. RingOK(ec_link(l)) /\ RingOK(ec_release(l))
  BY DEF Good, StationType, ec_link, ec_release, RingOK
<1>8. /\ RingOK([l EXCEPT !.config = b]) /\ RingOK([l EXCEPT !.busy = b])
      /\ RingOK([l EXCEPT !.peer_busy = b])
  BY DEF Good, StationType, RingOK
<1>9. /\ RingOK([l EXCEPT !.reject = b]) /\ RingOK([l EXCEPT !.framing = b])
      /\ RingOK([l EXCEPT !.push = b])
  BY DEF Good, StationType, RingOK
<1>10. /\ RingOK([l EXCEPT !.written = @ + 1])
       /\ RingOK([l EXCEPT !.modem = "ecdisc"])
  BY DEF Good, StationType, RingOK
<1>. QED  BY <1>1, <1>2, <1>3, <1>4, <1>5, <1>6, <1>7, <1>8, <1>9, <1>10
          DEF Good

(* Changing the link state, as every setup and release does, leaves a      *)
(* good station.                                                           *)
LEMMA StateGood ==
    ASSUME NEW l, Good(l), NEW s \in LapmState
    PROVE  Good([l EXCEPT !.state = s])
<1>1. [l EXCEPT !.state = s] \in StationType
  BY DEF Good, StationType
<1>2. RingOK([l EXCEPT !.state = s])
  BY DEF Good, StationType, RingOK
<1>. QED  BY <1>1, <1>2 DEF Good

(* reset empties the ring and returns the sequence variables to zero.      *)
LEMMA ResetGood ==
    ASSUME NEW l, Good(l)
    PROVE  Good(reset(l))
<1>0. 0 \in SeqNo /\ <<>> \in Seq(Nat)
  BY LapmAssumption, EmptySeq DEF SeqNo
<1>1. reset(l) \in StationType
  BY <1>0 DEF Good, reset, StationType
<1>2. RingOK(reset(l))
  BY LapmAssumption DEF Good, reset, StationType, RingOK, Dist
<1>. QED  BY <1>1, <1>2 DEF Good

(* lapm_connect and lapm_disconnect leave a good station.                  *)
LEMMA ConnectGood ==
    ASSUME NEW l, Good(l)
    PROVE  Good(lapm_connect(l)) /\ Good(lapm_disconnect(l))
<1>0. "ESTAB" \in LapmState /\ "DISC" \in LapmState /\ TRUE \in BOOLEAN
  BY DEF LapmState
<1>1. Good([reset(l) EXCEPT !.state = "ESTAB"])
  BY <1>0, ResetGood, StateGood
<1>2. Good([l EXCEPT !.state = "DISC"])
  BY <1>0, StateGood
<1>3. Good(TX_SABME([reset(l) EXCEPT !.state = "ESTAB"]))
  BY <1>0, <1>1, TxUnnumGood
<1>4. Good(TX_DISC([l EXCEPT !.state = "DISC"]))
  BY <1>0, <1>2, TxUnnumGood
<1>. QED  BY <1>0, <1>3, <1>4, FlagsGood DEF lapm_connect, lapm_disconnect

(* lapm_config, the XID exchange with or without RNR, leaves a good        *)
(* station.                                                                *)
LEMMA ConfigGood ==
    ASSUME NEW l, Good(l)
    PROVE  Good(lapm_config(l))
<1>0. TRUE \in BOOLEAN /\ "RNR" \in SKind
  BY DEF SKind
<1>. DEFINE c == [l EXCEPT !.config = TRUE]
            r == IF l.state = "DATA"
                 THEN tx_super([c EXCEPT !.busy = TRUE], "RNR", TRUE, TRUE)
                 ELSE c
<1>1. Good(c)
  BY <1>0, FlagsGood
<1>2. Good([c EXCEPT !.busy = TRUE])
  <2>. HIDE DEF c
  <2>. QED  BY <1>0, <1>1, FlagsGood
<1>3. Good(r)
  <2>. HIDE DEF c
  <2>. QED  BY <1>0, <1>1, <1>2, TxSuperGood
<1>4. Good(T401_START(tx_xid(r, TRUE)))
  <2>. HIDE DEF r
  <2>. QED  BY <1>0, <1>3, TxUnnumGood, FlagsGood
<1>. QED  BY <1>4 DEF lapm_config

-----------------------------------------------------------------------------
(* The ring of I frames.                                                   *)

(* Sequence numbers add and subtract as they should below the modulus.     *)
LEMMA DistFacts ==
    ASSUME NEW a \in SeqNo, NEW b \in SeqNo, NEW n \in Nat
    PROVE  /\ Dist(a, b) \in 0 .. Modulus - 1
           /\ Dist(a, a) = 0
           /\ n <= Dist(a, b) => /\ Plus(b, n) \in SeqNo
                                 /\ Dist(a, Plus(b, n)) = Dist(a, b) - n
           /\ Dist(a, b) + 1 < Modulus =>
                /\ Plus(a, 1) \in SeqNo
                /\ Dist(Plus(a, 1), b) = Dist(a, b) + 1
           /\ Plus(a, 1) \in SeqNo
BY LapmAssumption DEF SeqNo, Dist, Plus

(* Two runs of consecutive items put together are one run.                 *)
LEMMA ConcatRun ==
    ASSUME NEW s \in Seq(Nat), NEW t \in Seq(Nat), NEW k \in Nat,
           \A i \in 1 .. Len(s) : s[i] = k - Len(s) - Len(t) + i,
           \A i \in 1 .. Len(t) : t[i] = k - Len(t) + i
    PROVE  \A i \in 1 .. Len(s \o t) : (s \o t)[i] = k - Len(s \o t) + i
<1>1. Len(s) \in Nat /\ Len(t) \in Nat /\ Len(s \o t) = Len(s) + Len(t)
  BY LenProperties, ConcatProperties
<1>. SUFFICES ASSUME NEW i \in 1 .. Len(s) + Len(t)
              PROVE  (s \o t)[i] = k - (Len(s) + Len(t)) + i
  BY <1>1
<1>2. CASE i <= Len(s)
  <2>1. (s \o t)[i] = s[i]
    BY <1>2, ConcatProperties
  <2>2. s[i] = k - Len(s) - Len(t) + i
    BY <1>1, <1>2
  <2>. QED  BY <1>1, <2>1, <2>2
<1>3. CASE i > Len(s)
  <2>1. (s \o t)[i] = t[i - Len(s)]
    BY <1>1, <1>3, ConcatProperties
  <2>2. t[i - Len(s)] = k - Len(t) + (i - Len(s))
    BY <1>1, <1>3
  <2>. QED  BY <1>1, <2>1, <2>2
<1>. QED  BY <1>1, <1>2, <1>3

(* A new frame is taken from the ring only while the window is open.       *)
LEMMA TxInfoGood ==
    ASSUME NEW l, Good(l)
    PROVE  Good(tx_info(l))
<1>1. CASE ~ tx_fetches(l)
  BY <1>1 DEF tx_info
<1>2. CASE tx_fetches(l)
  <2>. DEFINE m == [l EXCEPT !.tx = <<l.taken + 1>>, !.taken = @ + 1]
  <2>0. /\ l.taken + 1 \in Nat /\ <<l.taken + 1>> \in Seq(Nat)
        /\ l.sent \in Seq(Nat) /\ l.taken \in Nat /\ Len(l.sent) \in Nat
    BY LenProperties DEF Good, StationType
  <2>1. m \in StationType
    BY <2>0 DEF Good, StationType
  <2>2. /\ m.tx = <<l.taken + 1>> /\ m.taken = l.taken + 1
        /\ m.sent = l.sent /\ m.vs = l.vs /\ m.va = l.va
    BY DEF Good, StationType
  <2>3. l.tx = <<>> /\ Len(l.tx) = 0 /\ Dist(l.vs, l.va) < TxWin
    BY <1>2 DEF tx_fetches, WindowOpen
  <2>4. Len(l.sent) + 1 <= TxWin
    BY <2>0, <2>3, LapmAssumption DEF Good, RingOK
  <2>5. Len(m.tx) = 1 /\ m.tx[1] = l.taken + 1
    BY <2>2
  <2>6. RingOK(m)
    <3>. HIDE DEF m
    <3>. QED  BY <2>0, <2>2, <2>3, <2>4, <2>5 DEF Good, RingOK
  <2>. QED  BY <1>2, <2>1, <2>6 DEF tx_info, Good
<1>. QED  BY <1>1, <1>2

(* The three changes of the ring, field by field.                          *)
LEMMA RejectRing ==
    ASSUME NEW vs \in SeqNo, NEW va \in SeqNo, NEW sent \in Seq(Nat),
           NEW tx \in Seq(Nat), NEW taken \in Nat,
           Ring(vs, va, sent, tx, taken)
    PROVE  Ring(va, va, <<>>, sent \o tx, taken)
<1>1. /\ Len(sent \o tx) = Len(sent) + Len(tx) /\ Len(<<>>) = 0
      /\ Len(sent) \in Nat /\ Len(tx) \in Nat
  BY ConcatProperties, LenProperties, EmptySeq
<1>2. Dist(va, va) = 0
  BY DistFacts
<1>3. \A i \in 1 .. Len(sent \o tx) :
         (sent \o tx)[i] = taken - Len(sent \o tx) + i
  BY ConcatRun DEF Ring
<1>4. Len(sent) + Len(tx) <= TxWin /\ Len(sent) + Len(tx) <= taken
  BY DEF Ring
<1>5. 0 + Len(sent \o tx) = Len(sent) + Len(tx)
  BY <1>1
<1>. QED  BY <1>1, <1>2, <1>3, <1>4, <1>5 DEF Ring

(* Freeing n sent frames and moving va by n keeps the ring consistent.     *)
LEMMA AckRing ==
    ASSUME NEW vs \in SeqNo, NEW va \in SeqNo, NEW sent \in Seq(Nat),
           NEW tx \in Seq(Nat), NEW taken \in Nat,
           Ring(vs, va, sent, tx, taken), NEW n \in Nat, n <= Len(sent)
    PROVE  /\ Plus(va, n) \in SeqNo
           /\ SubSeq(sent, n + 1, Len(sent)) \in Seq(Nat)
           /\ Ring(vs, Plus(va, n), SubSeq(sent, n + 1, Len(sent)), tx, taken)
<1>. DEFINE rest == SubSeq(sent, n + 1, Len(sent))
<1>1. Len(sent) \in Nat /\ Len(tx) \in Nat /\ Len(sent) = Dist(vs, va)
  BY LenProperties DEF Ring
<1>2. /\ rest \in Seq(Nat) /\ Len(rest) = Len(sent) - n
      /\ \A i \in 1 .. Len(sent) - n : rest[i] = sent[n + i]
  <2>1. \A i \in n + 1 .. Len(sent) : sent[i] \in Nat
    BY <1>1, ElementOfSeq
  <2>. QED  BY <1>1, <2>1, SubSeqProperties
<1>3. Plus(va, n) \in SeqNo /\ Dist(vs, Plus(va, n)) = Dist(vs, va) - n
  BY <1>1, DistFacts
<1>. HIDE DEF rest
<1>4. ASSUME NEW i \in 1 .. Len(rest)
      PROVE  rest[i] = taken - Len(rest) - Len(tx) + i
  <2>1. n + i \in 1 .. Len(sent) /\ rest[i] = sent[n + i]
    BY <1>1, <1>2
  <2>2. sent[n + i] = taken - Len(sent) - Len(tx) + (n + i)
    BY <2>1 DEF Ring
  <2>. QED  BY <1>1, <1>2, <2>1, <2>2
<1>5. Len(rest) + Len(tx) <= TxWin /\ Len(rest) + Len(tx) <= taken
  BY <1>1, <1>2, LapmAssumption DEF Ring
<1>6. Ring(vs, Plus(va, n), rest, tx, taken)
  BY <1>1, <1>2, <1>3, <1>4, <1>5 DEF Ring
<1>. QED  BY <1>2, <1>3, <1>6 DEF rest

(* Moving the oldest waiting frame to the sent ones keeps the ring         *)
(* consistent.                                                             *)
LEMMA SendRing ==
    ASSUME NEW vs \in SeqNo, NEW va \in SeqNo, NEW sent \in Seq(Nat),
           NEW tx \in Seq(Nat), NEW taken \in Nat,
           Ring(vs, va, sent, tx, taken), tx # <<>>
    PROVE  /\ Plus(vs, 1) \in SeqNo
           /\ Append(sent, Head(tx)) \in Seq(Nat) /\ Tail(tx) \in Seq(Nat)
           /\ Ring(Plus(vs, 1), va, Append(sent, Head(tx)), Tail(tx), taken)
<1>. DEFINE s == Append(sent, Head(tx))
            t == Tail(tx)
<1>1. Len(sent) \in Nat /\ Len(tx) \in Nat /\ Len(sent) = Dist(vs, va)
  BY LenProperties DEF Ring
<1>2. /\ Len(tx) > 0 /\ Head(tx) \in Nat /\ t \in Seq(Nat)
      /\ Len(t) = Len(tx) - 1 /\ Head(tx) = tx[1]
      /\ \A i \in 1 .. Len(t) : t[i] = tx[i + 1]
  BY <1>1, HeadTailProperties, EmptySeq
<1>3. /\ s \in Seq(Nat) /\ Len(s) = Len(sent) + 1
      /\ \A i \in 1 .. Len(sent) : s[i] = sent[i]
      /\ s[Len(sent) + 1] = tx[1]
  BY <1>2, AppendProperties
<1>. HIDE DEF s, t
<1>4. Plus(vs, 1) \in SeqNo /\ Dist(Plus(vs, 1), va) = Dist(vs, va) + 1
  <2>1. Dist(vs, va) + 1 < Modulus
    BY <1>1, <1>2, LapmAssumption DEF Ring
  <2>. QED  BY <2>1, DistFacts
<1>5. tx[1] = taken - Len(tx) + 1
  BY <1>1, <1>2 DEF Ring
<1>6. ASSUME NEW i \in 1 .. Len(s)
      PROVE  s[i] = taken - Len(s) - Len(t) + i
  <2>1. CASE i = Len(sent) + 1
    BY <1>1, <1>2, <1>3, <1>5, <2>1
  <2>2. CASE i \in 1 .. Len(sent)
    <3>1. sent[i] = taken - Len(sent) - Len(tx) + i
      BY <2>2 DEF Ring
    <3>. QED  BY <1>1, <1>2, <1>3, <2>2, <3>1
  <2>. QED  BY <1>1, <1>3, <2>1, <2>2
<1>7. ASSUME NEW i \in 1 .. Len(t)
      PROVE  t[i] = taken - Len(t) + i
  <2>1. i + 1 \in 1 .. Len(tx) /\ t[i] = tx[i + 1]
    BY <1>1, <1>2
  <2>2. tx[i + 1] = taken - Len(tx) + (i + 1)
    BY <2>1 DEF Ring
  <2>. QED  BY <1>1, <1>2, <2>1, <2>2
<1>8. Len(s) + Len(t) <= TxWin /\ Len(s) + Len(t) <= taken
  BY <1>1, <1>2, <1>3, LapmAssumption DEF Ring
<1>9. Ring(Plus(vs, 1), va, s, t, taken)
  BY <1>1, <1>3, <1>4, <1>6, <1>7, <1>8 DEF Ring
<1>. QED  BY <1>2, <1>3, <1>4, <1>9 DEF s, t

(* The types of the fields the ring is made of.                            *)
LEMMA FieldTypes ==
    ASSUME NEW l, Good(l)
    PROVE  /\ l.vs \in SeqNo /\ l.va \in SeqNo /\ l.sent \in Seq(Nat)
           /\ l.tx \in Seq(Nat) /\ l.taken \in Nat
           /\ Ring(l.vs, l.va, l.sent, l.tx, l.taken)
BY RingOKDef DEF Good, StationType

(* Rejecting moves every sent frame back in front of the waiting ones.     *)
LEMMA RejectGood ==
    ASSUME NEW l, Good(l)
    PROVE  Good(reject_info(l))
<1>1. CASE l.state # "DATA"
  BY <1>1 DEF reject_info
<1>2. CASE l.state = "DATA"
  <2>. DEFINE m == [l EXCEPT !.vs = l.va, !.tx = l.sent \o l.tx,
                             !.sent = <<>>]
  <2>1. l.sent \o l.tx \in Seq(Nat) /\ <<>> \in Seq(Nat) /\ l.va \in SeqNo
    BY FieldTypes, ConcatProperties, EmptySeq
  <2>2. m \in StationType
    BY <2>1 DEF Good, StationType
  <2>3. /\ m.tx = l.sent \o l.tx /\ m.sent = <<>> /\ m.taken = l.taken
        /\ m.vs = l.va /\ m.va = l.va
    BY DEF Good, StationType
  <2>. HIDE DEF m
  <2>4. RingOK(m)
    BY <2>3, FieldTypes, RejectRing, RingOKDef
  <2>. QED  BY <1>2, <2>2, <2>4 DEF reject_info, Good, m
<1>. QED  BY <1>1, <1>2

(* An acknowledgement frees frames from the front of the sent list, never  *)
(* more than there are, and moves va as far.                               *)
LEMMA AckGood ==
    ASSUME NEW l, Good(l), NEW nr \in SeqNo
    PROVE  Good(ack_info(l, nr))
<1>. DEFINE n == Freed(l, nr)
            a == [l EXCEPT !.va = Plus(@, n), !.sent = SubSeq(@, n + 1, Len(@))]
<1>1. n \in Nat /\ n <= Len(l.sent)
  <2>1. Dist(nr, l.va) \in 0 .. Modulus - 1 /\ Len(l.sent) \in Nat
    BY FieldTypes, DistFacts, LenProperties
  <2>. QED  BY <2>1, LapmAssumption DEF Freed
<1>. HIDE DEF n
<1>2. /\ Plus(l.va, n) \in SeqNo
      /\ SubSeq(l.sent, n + 1, Len(l.sent)) \in Seq(Nat)
      /\ Ring(l.vs, Plus(l.va, n), SubSeq(l.sent, n + 1, Len(l.sent)), l.tx,
              l.taken)
  BY <1>1, FieldTypes, AckRing
<1>3. a \in StationType
  BY <1>2 DEF Good, StationType
<1>4. /\ a.va = Plus(l.va, n) /\ a.sent = SubSeq(l.sent, n + 1, Len(l.sent))
      /\ a.tx = l.tx /\ a.vs = l.vs /\ a.taken = l.taken
  BY DEF Good, StationType
<1>. HIDE DEF a
<1>5. Good(a)
  BY <1>2, <1>3, <1>4, RingOKDef DEF Good
<1>6. Good(lapm_disconnect(l)) /\ Good(T401_START(a)) /\ Good(T401_STOP(a))
  <2>1. TRUE \in BOOLEAN
    OBVIOUS
  <2>. QED  BY <1>5, <2>1, FlagsGood, ConnectGood
<1>7. ack_info(l, nr) \in {lapm_disconnect(l), T401_START(a), T401_STOP(a), a}
  BY DEF ack_info, a, n
<1>. QED  BY <1>5, <1>6, <1>7

(* The I frame that is sent moves from the waiting to the sent list.       *)
LEMMA SentInfoGood ==
    ASSUME NEW l, Good(l), InfoSendable(l)
    PROVE  Good(sent_info(l)) /\ InfoFrame(l) \in Frame
<1>. DEFINE s == tx_source(l)
            m == [s EXCEPT !.sent = Append(@, Head(s.tx)), !.tx = Tail(@),
                           !.vs = Plus(@, 1)]
<1>1. Good(s) /\ s.tx # <<>>
  <2>1. CASE l.tx # <<>>
    BY <2>1 DEF tx_source
  <2>2. CASE l.tx = <<>>
    <3>1. tx_fetches(l) /\ s = tx_info(l)
      BY <2>2 DEF InfoSendable, tx_source
    <3>2. s.tx = <<l.taken + 1>>
      BY <3>1 DEF tx_info, Good, StationType
    <3>3. Good(s)
      BY <3>1, TxInfoGood
    <3>. QED  BY <3>2, <3>3
  <2>. QED  BY <2>1, <2>2
<1>. HIDE DEF s
<1>2. /\ Plus(s.vs, 1) \in SeqNo
      /\ Append(s.sent, Head(s.tx)) \in Seq(Nat) /\ Tail(s.tx) \in Seq(Nat)
      /\ Ring(Plus(s.vs, 1), s.va, Append(s.sent, Head(s.tx)), Tail(s.tx),
              s.taken)
  BY <1>1, FieldTypes, SendRing
<1>3. m \in StationType
  BY <1>1, <1>2 DEF Good, StationType
<1>4. /\ m.vs = Plus(s.vs, 1) /\ m.va = s.va /\ m.taken = s.taken
      /\ m.sent = Append(s.sent, Head(s.tx)) /\ m.tx = Tail(s.tx)
  BY <1>1 DEF Good, StationType
<1>. HIDE DEF m
<1>5. Good(m) /\ Good(T401_START(m))
  <2>1. Good(m)
    BY <1>2, <1>3, <1>4, RingOKDef DEF Good
  <2>2. TRUE \in BOOLEAN
    OBVIOUS
  <2>. QED  BY <2>1, <2>2, FlagsGood
<1>6. Good(sent_info(l))
  BY <1>5 DEF sent_info, m, s
<1>7. /\ Head(s.tx) \in Nat /\ l.vs \in SeqNo /\ l.vr \in SeqNo
  BY <1>1, FieldTypes, HeadTailProperties DEF Good, StationType
<1>8. InfoFrame(l) \in Frame
  <2>1. InfoFrame(l) = [kind |-> "I", cmd |-> TRUE, pf |-> FALSE,
                        nr |-> l.vr, ns |-> l.vs, data |-> Head(s.tx)]
    BY DEF InfoFrame, s
  <2>. QED  BY <1>7, <2>1 DEF Frame
<1>. QED  BY <1>6, <1>8

-----------------------------------------------------------------------------
(* Receiving.                                                              *)

(* push_rest_data hands over the rest and ends the busy state.             *)
LEMMA PushGood ==
    ASSUME NEW l, Good(l)
    PROVE  Good(push_rest_data(l))
<1>. DEFINE m == [l EXCEPT !.out = @ \o l.rx_buf, !.rx_buf = <<>>,
                           !.busy = FALSE, !.push = FALSE]
<1>1. l.out \o l.rx_buf \in Seq(Nat) /\ <<>> \in Seq(Nat)
  <2>1. l.out \in Seq(Nat) /\ l.rx_buf \in Seq(Nat)
    BY DEF Good, StationType
  <2>. QED  BY <2>1, ConcatProperties, EmptySeq
<1>2. m \in StationType
  BY <1>1 DEF Good, StationType
<1>3. RingOK(m)
  BY DEF Good, StationType, RingOK
<1>. HIDE DEF m
<1>4. Good(m) /\ "RR" \in SKind
  BY <1>2, <1>3 DEF Good, SKind
<1>5. Good(tx_super(m, "RR", TRUE, FALSE))
  BY <1>4, TxSuperGood
<1>. QED  BY <1>5 DEF push_rest_data, m

(* Accepting an item, with or without room for it, leaves a good station.  *)
LEMMA RxAcceptGood ==
    ASSUME NEW l, Good(l), NEW d \in Nat, NEW room \in BOOLEAN
    PROVE  Good(rx_accept(l, d, room))
<1>. DEFINE m == [l EXCEPT !.reject = FALSE, !.out = Append(@, d),
                           !.vr = Plus(@, 1)]
            w == [l EXCEPT !.reject = FALSE, !.rx_buf = <<d>>,
                           !.vr = Plus(@, 1), !.busy = TRUE, !.push = TRUE]
<1>1. /\ Append(l.out, d) \in Seq(Nat) /\ <<d>> \in Seq(Nat)
      /\ Plus(l.vr, 1) \in SeqNo
  <2>1. l.out \in Seq(Nat) /\ l.vr \in SeqNo /\ 0 \in Nat
    BY DEF Good, StationType
  <2>. QED  BY <2>1, AppendProperties, DistFacts
<1>2. m \in StationType /\ w \in StationType
  BY <1>1 DEF Good, StationType
<1>3. RingOK(m)
  BY DEF Good, StationType, RingOK
<1>4. RingOK(w)
  BY DEF Good, StationType, RingOK
<1>. QED  BY <1>2, <1>3, <1>4 DEF Good, rx_accept

(* The types of the fields of a frame.                                     *)
LEMMA FrameTypes ==
    ASSUME NEW f \in Frame
    PROVE  /\ f.kind \in {"I"} \cup SKind \cup UKind /\ f.cmd \in BOOLEAN
           /\ f.pf \in BOOLEAN /\ f.nr \in SeqNo /\ f.ns \in SeqNo
           /\ f.data \in Nat
BY DEF Frame

(* rx_info leaves a good station, whichever of its branches is taken.      *)
LEMMA RxInfoGood ==
    ASSUME NEW l, Good(l), NEW f \in Frame, NEW room \in BOOLEAN
    PROVE  Good(rx_info(l, f, room))
<1>. DEFINE a == ack_info(l, f.nr)
            r == rx_accept(a, f.data, room)
<1>0. "RR" \in SKind /\ "RNR" \in SKind /\ "REJ" \in SKind
  BY DEF SKind
<1>1. Good(a)
  BY AckGood, FrameTypes
<1>. HIDE DEF a
<1>2. Good(r)
  BY <1>1, RxAcceptGood, FrameTypes
<1>. HIDE DEF r
<1>3. /\ Good(tx_super(a, "RNR", FALSE, TRUE))
      /\ Good(tx_super(a, "REJ", FALSE, f.pf))
      /\ Good(tx_super(r, "RNR", FALSE, f.pf))
      /\ Good(tx_super(r, "RR", FALSE, f.pf))
  BY <1>0, <1>1, <1>2, TxSuperGood, FrameTypes
<1>4. Good([tx_super(a, "REJ", FALSE, f.pf) EXCEPT !.reject = TRUE])
  BY <1>3, FlagsGood
<1>5. Good(tx_info(r))
  BY <1>2, TxInfoGood
<1>6. rx_info(l, f, room) \in
         {a, tx_super(a, "RNR", FALSE, TRUE),
          [tx_super(a, "REJ", FALSE, f.pf) EXCEPT !.reject = TRUE],
          tx_super(r, "RNR", FALSE, f.pf), tx_super(r, "RR", FALSE, f.pf),
          tx_info(r)}
  BY Zenon DEF rx_info, a, r
<1>. QED  BY <1>1, <1>3, <1>4, <1>5, <1>6

(* rx_super_cmd leaves a good station for RR, RNR and REJ.                 *)
LEMMA RxSuperCmdGood ==
    ASSUME NEW l, Good(l), NEW f \in Frame
    PROVE  Good(rx_super_cmd(l, f))
<1>. DEFINE b == [l EXCEPT !.peer_busy = (f.kind = "RNR")]
            a == ack_info(b, f.nr)
            j == reject_info(T401_STOP(a))
            r == IF f.kind = "REJ" /\ a.rtx_count = 0 THEN j ELSE a
<1>0. (f.kind = "RNR") \in BOOLEAN
  OBVIOUS
<1>1. Good(b)
  BY <1>0, FlagsGood
<1>. HIDE DEF b
<1>2. Good(a)
  BY <1>1, AckGood, FrameTypes
<1>. HIDE DEF a
<1>3. Good(j)
  <2>1. TRUE \in BOOLEAN
    OBVIOUS
  <2>. QED  BY <1>2, <2>1, FlagsGood, RejectGood
<1>. HIDE DEF j
<1>4. Good(r)
  BY <1>2, <1>3
<1>. HIDE DEF r
<1>5. /\ Good(tx_ready(a, FALSE, TRUE)) /\ Good(tx_ready(r, FALSE, f.pf))
      /\ Good(tx_info(r))
  BY <1>2, <1>4, TxReadyGood, TxInfoGood, FrameTypes
<1>6. rx_super_cmd(l, f) \in {a, tx_ready(a, FALSE, TRUE),
                              tx_ready(r, FALSE, f.pf), tx_info(r)}
  BY Zenon DEF rx_super_cmd, r, j, a, b
<1>. QED  BY <1>2, <1>5, <1>6

(* rx_super_rsp leaves a good station for RR, RNR and REJ.                 *)
LEMMA RxSuperRspGood ==
    ASSUME NEW l, Good(l), NEW f \in Frame
    PROVE  Good(rx_super_rsp(l, f))
<1>. DEFINE b == [l EXCEPT !.peer_busy = (f.kind = "RNR")]
            a == ack_info(b, f.nr)
            again == IF f.kind = "REJ" THEN a.rtx_count = 0 \/ f.pf
                     ELSE a.rtx_count # 0 /\ f.pf
            j == T401_STOP(reject_info(a))
            r == IF again THEN j ELSE a
<1>0. (f.kind = "RNR") \in BOOLEAN /\ TRUE \in BOOLEAN
  OBVIOUS
<1>1. Good(b)
  BY <1>0, FlagsGood
<1>. HIDE DEF b
<1>2. Good(a)
  BY <1>1, AckGood, FrameTypes
<1>. HIDE DEF a
<1>3. Good(j)
  BY <1>0, <1>2, FlagsGood, RejectGood
<1>. HIDE DEF j, again
<1>4. Good(r)
  BY <1>2, <1>3
<1>. HIDE DEF r
<1>5. Good(T401_START(r))
  BY <1>0, <1>4, FlagsGood
<1>6. rx_super_rsp(l, f) \in {l, r, T401_START(r)}
  BY Zenon DEF rx_super_rsp, r, j, again, a, b
<1>. QED  BY <1>4, <1>5, <1>6

(* The state changes that come with a reset.                               *)
LEMMA ResetStateGood ==
    ASSUME NEW l, Good(l), NEW s \in LapmState
    PROVE  /\ Good([reset(l) EXCEPT !.state = s])
           /\ Good(reset([l EXCEPT !.state = s]))
BY ResetGood, StateGood

(* rx_unnum_cmd leaves a good station for SABME, DISC and XID.             *)
LEMMA RxUnnumCmdGood ==
    ASSUME NEW l, Good(l), NEW f \in Frame
    PROVE  Good(rx_unnum_cmd(l, f))
<1>. DEFINE d == [reset(l) EXCEPT !.state = "DATA"]
            i == reset([l EXCEPT !.state = "IDLE"])
<1>0. "DATA" \in LapmState /\ "IDLE" \in LapmState
  BY DEF LapmState
<1>1. Good(d) /\ Good(i)
  BY <1>0, ResetStateGood
<1>. HIDE DEF d, i
<1>2. Good(TX_UA(d, f.pf)) /\ Good(TX_UA(i, f.pf))
  BY <1>1, TxUnnumGood, FrameTypes
<1>3. /\ Good(T401_STOP(TX_UA(d, f.pf))) /\ Good(T401_STOP(TX_UA(i, f.pf)))
  <2>1. TRUE \in BOOLEAN
    OBVIOUS
  <2>. QED  BY <1>2, <2>1, FlagsGood
<1>4. /\ Good(ec_link(T401_STOP(TX_UA(d, f.pf))))
      /\ Good(ec_release(T401_STOP(TX_UA(i, f.pf))))
  <2>1. TRUE \in BOOLEAN
    OBVIOUS
  <2>. QED  BY <1>3, <2>1, FlagsGood
<1>5. Good(TX_DM(l)) /\ Good(tx_xid(l, FALSE))
  BY TxUnnumGood
<1>. QED  BY <1>4, <1>5 DEF rx_unnum_cmd, d, i

(* rx_unnum_rsp leaves a good station for DM, UA and XID.                  *)
LEMMA RxUnnumRspGood ==
    ASSUME NEW l, Good(l), NEW f \in Frame
    PROVE  Good(rx_unnum_rsp(l, f))
<1>. DEFINE i == reset([l EXCEPT !.state = "IDLE"])
            d == reset([l EXCEPT !.state = "DATA"])
            x == [l EXCEPT !.config = FALSE]
            c == T401_STOP(x)
            n == [c EXCEPT !.busy = FALSE]
<1>0. /\ "DATA" \in LapmState /\ "IDLE" \in LapmState /\ FALSE \in BOOLEAN
      /\ "RR" \in SKind
  BY DEF LapmState, SKind
<1>1. Good(d) /\ Good(i)
  BY <1>0, ResetStateGood
<1>2. Good(x)
  BY <1>0, FlagsGood
<1>. HIDE DEF x
<1>3. Good(c)
  BY <1>0, <1>2, FlagsGood
<1>. HIDE DEF c, d, i
<1>4. Good(n)
  BY <1>0, <1>3, FlagsGood
<1>. HIDE DEF n
<1>5. /\ Good(T401_STOP(i)) /\ Good(T401_STOP(d)) /\ Good(ec_release(i))
      /\ Good(ec_link(l))
  BY <1>0, <1>1, FlagsGood
<1>6. Good(ec_release(T401_STOP(i))) /\ Good(ec_link(T401_STOP(d)))
  BY <1>0, <1>5, FlagsGood
<1>7. Good(rx_dm(l, f))
  BY <1>5, <1>6 DEF rx_dm, i
<1>8. Good(rx_ua(l))
  BY <1>6 DEF rx_ua, i, d
<1>9. Good(tx_super(n, "RR", TRUE, FALSE)) /\ Good(lapm_connect(c))
  BY <1>0, <1>3, <1>4, TxSuperGood, ConnectGood
<1>10. Good(rx_xid_rsp(l))
  <2>1. rx_xid_rsp(l) \in {l, c, lapm_connect(c),
                           tx_super(n, "RR", TRUE, FALSE)}
    BY DEF rx_xid_rsp, n, c, x
  <2>. QED  BY <1>3, <1>9, <2>1
<1>. QED  BY <1>7, <1>8, <1>10 DEF rx_unnum_rsp

(* valid_data_state leaves a good station.                                 *)
LEMMA ValidDataGood ==
    ASSUME NEW l, Good(l)
    PROVE  Good(valid_data_state(l))
<1>0. /\ "DATA" \in LapmState /\ "IDLE" \in LapmState /\ TRUE \in BOOLEAN
  BY DEF LapmState
<1>1. /\ Good([reset(l) EXCEPT !.state = "DATA"])
      /\ Good([reset(l) EXCEPT !.state = "IDLE"])
  BY <1>0, ResetStateGood
<1>2. /\ Good(ec_link([reset(l) EXCEPT !.state = "DATA"]))
      /\ Good(ec_release([reset(l) EXCEPT !.state = "IDLE"]))
  BY <1>0, <1>1, FlagsGood
<1>. QED  BY <1>2 DEF valid_data_state

(* Whatever frame arrives, lapm_rx_complete leaves a good station.         *)
LEMMA RxCompleteGood ==
    ASSUME NEW l, Good(l), NEW f \in Frame, NEW room \in BOOLEAN
    PROVE  Good(lapm_rx_complete(l, f, room))
<1>. DEFINE v == valid_data_state(l)
<1>1. Good(v)
  BY ValidDataGood
<1>. HIDE DEF v
<1>2. /\ Good(rx_unnum_cmd(l, f)) /\ Good(rx_unnum_rsp(l, f))
      /\ Good(rx_info(v, f, room))
      /\ Good(rx_super_cmd(v, f)) /\ Good(rx_super_rsp(v, f))
  BY <1>1, RxUnnumCmdGood, RxUnnumRspGood, RxInfoGood, RxSuperCmdGood,
     RxSuperRspGood
<1>3. lapm_rx_complete(l, f, room) \in
        {rx_unnum_cmd(l, f), rx_unnum_rsp(l, f), v, rx_info(v, f, room),
         rx_super_cmd(v, f), rx_super_rsp(v, f)}
  BY Zenon DEF lapm_rx_complete, v
<1>. QED  BY <1>1, <1>2, <1>3

(* The bit timer.                                                          *)
LEMMA T401Good ==
    ASSUME NEW l, Good(l)
    PROVE  Good(t401_timeout(l))
<1>0. /\ "IDLE" \in LapmState /\ TRUE \in BOOLEAN /\ FALSE \in BOOLEAN
      /\ 0 \in 0 .. MaxRtx + 1 /\ "off" \in {"off", "negotiate", "t401"}
  BY LapmAssumption DEF LapmState
<1>1. CASE l.rtx_count > MaxRtx
  <2>. DEFINE z == [l EXCEPT !.rtx_count = 0, !.timer = "off"]
  <2>1. z \in StationType
    BY <1>0 DEF Good, StationType
  <2>2. RingOK(z)
    BY DEF Good, StationType, RingOK
  <2>. HIDE DEF z
  <2>3. Good(z)
    BY <2>1, <2>2 DEF Good
  <2>4. Good([z EXCEPT !.state = "IDLE"]) /\ Good(lapm_disconnect(z))
    BY <1>0, <2>3, StateGood, ConnectGood
  <2>5. Good(ec_release([z EXCEPT !.state = "IDLE"]))
    BY <1>0, <2>4, FlagsGood
  <2>6. t401_give_up(l) \in
          {ec_release([z EXCEPT !.state = "IDLE"]), lapm_disconnect(z), z}
    BY DEF t401_give_up, z
  <2>. QED  BY <1>1, <2>3, <2>4, <2>5, <2>6 DEF t401_timeout
<1>2. CASE ~ (l.rtx_count > MaxRtx)
  <2>. DEFINE r == [l EXCEPT !.rtx_count = @ + 1]
  <2>0. l.rtx_count + 1 \in 0 .. MaxRtx + 1
    BY <1>2, LapmAssumption DEF Good, StationType
  <2>1. r \in StationType
    BY <2>0 DEF Good, StationType
  <2>2. RingOK(r)
    BY DEF Good, StationType, RingOK
  <2>. HIDE DEF r
  <2>3. Good(r)
    BY <2>1, <2>2 DEF Good
  <2>4. /\ Good(tx_xid(r, TRUE)) /\ Good(TX_SABME(r)) /\ Good(TX_DISC(r))
        /\ Good(tx_ready(r, TRUE, TRUE))
    BY <1>0, <2>3, TxUnnumGood, TxReadyGood
  <2>5. t401_retry(l) \in {tx_xid(r, TRUE), TX_SABME(r), TX_DISC(r),
                           tx_ready(r, TRUE, TRUE), r}
    BY DEF t401_retry, r
  <2>. QED  BY <1>2, <2>3, <2>4, <2>5 DEF t401_timeout
<1>. QED  BY <1>1, <1>2

-----------------------------------------------------------------------------
(* The specification.                                                      *)

Inv == TypeOK /\ RingInv

GoodStations ==
    st \in [Station -> StationType] /\ \A p \in Station : Good(st[p])

GoodLine ==
    /\ line \in [Station -> Seq(Frame)]
    /\ losses \in 0 .. MaxLoss /\ early \in 0 .. MaxEarly

(* The inductive invariant is that of the stations and that of the line.   *)
LEMMA InvParts == Inv <=> GoodStations /\ GoodLine
BY DEF Inv, TypeOK, RingInv, Good, GoodStations, GoodLine

(* Replacing one station by a good one keeps all stations good.            *)
LEMMA OneStation ==
    ASSUME GoodStations, NEW p \in Station, NEW x, Good(x),
           st' = [st EXCEPT ![p] = x]
    PROVE  GoodStations'
<1>1. x \in StationType /\ st \in [Station -> StationType]
  BY DEF Good, GoodStations
<1>2. st' \in [Station -> StationType]
  BY <1>1
<1>3. \A q \in Station : st'[q] = IF q = p THEN x ELSE st[q]
  BY <1>1
<1>4. \A q \in Station : Good(st'[q])
  BY <1>3 DEF GoodStations
<1>. QED  BY <1>2, <1>4 DEF GoodStations

(* lapm_init and modem_ec_start establish the invariant.                   *)
LEMMA InitGood == Init => Inv
<1>. SUFFICES ASSUME Init PROVE Inv
  OBVIOUS
<1>0. /\ 0 \in SeqNo /\ <<>> \in Seq(Nat) /\ <<>> \in Seq(Frame)
      /\ 0 \in 0 .. MaxRtx + 1
      /\ "IDLE" \in LapmState /\ "estab" \in ModemState
  BY LapmAssumption, EmptySeq DEF SeqNo, LapmState, ModemState
<1>1. ASSUME NEW p \in Station PROVE Good(InitStation(p))
  <2>1. (IF p = "caller" THEN "negotiate" ELSE "off")
          \in {"off", "negotiate", "t401"}
    OBVIOUS
  <2>2. InitStation(p) \in StationType
    BY <1>0, <2>1 DEF InitStation, StationType
  <2>3. RingOK(InitStation(p))
    BY LapmAssumption DEF InitStation, RingOK, Dist
  <2>. QED  BY <2>2, <2>3 DEF Good
<1>2. GoodStations
  BY <1>1 DEF Init, Good, GoodStations
<1>3. GoodLine
  BY <1>0, LapmAssumption DEF Init, GoodLine
<1>. QED  BY <1>2, <1>3, InvParts

(* Every step keeps both stations good and both lines well typed.          *)
LEMMA StepGood == Inv /\ [Next]_vars => Inv'
<1>. SUFFICES ASSUME GoodStations, GoodLine, [Next]_vars
              PROVE  GoodStations' /\ GoodLine'
  BY InvParts DEF Inv, TypeOK, RingInv, Good, GoodStations, GoodLine
<1>0. ASSUME NEW p \in Station
      PROVE  /\ Good(st[p]) /\ st[p] \in StationType
             /\ Peer(p) \in Station /\ line[p] \in Seq(Frame)
             /\ line[Peer(p)] \in Seq(Frame)
             /\ TRUE \in BOOLEAN /\ FALSE \in BOOLEAN
  BY DEF GoodStations, GoodLine, Good, Peer, Station
<1>1. ASSUME NEW p \in Station, Write(p) PROVE GoodStations' /\ GoodLine'
  <2>1. st' = [st EXCEPT ![p] = [st[p] EXCEPT !.written = @ + 1]]
    BY <1>1 DEF Write
  <2>2. Good([st[p] EXCEPT !.written = @ + 1])
    BY <1>0, FlagsGood
  <2>. QED  BY <1>1, <2>1, <2>2, OneStation DEF Write, GoodLine
<1>2. ASSUME NEW p \in Station, Negotiate(p) PROVE GoodStations' /\ GoodLine'
  <2>1. Good([st[p] EXCEPT !.framing = TRUE])
    BY <1>0, FlagsGood
  <2>2. Good(lapm_config([st[p] EXCEPT !.framing = TRUE]))
    BY <2>1, ConfigGood
  <2>. QED  BY <1>2, <2>2, OneStation DEF Negotiate, GoodLine
<1>3. ASSUME NEW p \in Station, SendCtrl(p) PROVE GoodStations' /\ GoodLine'
  <2>1. Good([st[p] EXCEPT !.ctrl = Tail(@)]) /\ Head(st[p].ctrl) \in Frame
    BY <1>0, <1>3, TakeCtrlGood DEF SendCtrl
  <2>2. st' = [st EXCEPT ![p] = [st[p] EXCEPT !.ctrl = Tail(@)]]
    BY <1>3 DEF SendCtrl
  <2>6. GoodStations'
    BY <2>1, <2>2, OneStation
  <2>7. Append(line[Peer(p)], Head(st[p].ctrl)) \in Seq(Frame)
    BY <1>0, <2>1, AppendProperties
  <2>. QED  BY <1>0, <1>3, <2>6, <2>7 DEF SendCtrl, GoodLine
<1>4. ASSUME NEW p \in Station, SendInfo(p) PROVE GoodStations' /\ GoodLine'
  <2>1. Good(sent_info(st[p])) /\ InfoFrame(st[p]) \in Frame
    BY <1>0, <1>4, SentInfoGood DEF SendInfo
  <2>2. Append(line[Peer(p)], InfoFrame(st[p])) \in Seq(Frame)
    BY <1>0, <2>1, AppendProperties
  <2>3. GoodStations'
    BY <1>4, <2>1, OneStation DEF SendInfo
  <2>. QED  BY <1>0, <1>4, <2>2, <2>3 DEF SendInfo, GoodLine
<1>5. ASSUME NEW p \in Station, Receive(p) PROVE GoodStations' /\ GoodLine'
  <2>1. PICK room \in BOOLEAN :
           st' = [st EXCEPT ![p] =
                     lapm_rx_complete(st[p], Head(line[p]), room)]
    BY <1>5 DEF Receive
  <2>2. Head(line[p]) \in Frame /\ Tail(line[p]) \in Seq(Frame)
    BY <1>0, <1>5, HeadTailProperties DEF Receive
  <2>3. Good(lapm_rx_complete(st[p], Head(line[p]), room))
    BY <1>0, <2>2, RxCompleteGood
  <2>4. GoodStations'
    BY <2>1, <2>3, OneStation
  <2>. QED  BY <1>0, <1>5, <2>2, <2>4 DEF Receive, GoodLine
<1>6. ASSUME NEW p \in Station, Timeout(p) PROVE GoodStations' /\ GoodLine'
  <2>1. GoodStations'
    BY <1>0, <1>6, T401Good, OneStation DEF Timeout
  <2>2. early' \in 0 .. MaxEarly
    BY <1>6, LapmAssumption DEF Timeout, GoodLine
  <2>. QED  BY <1>6, <2>1, <2>2 DEF Timeout, GoodLine
<1>7. ASSUME NEW p \in Station, PushRest(p) PROVE GoodStations' /\ GoodLine'
  BY <1>0, <1>7, PushGood, OneStation DEF PushRest, GoodLine
<1>8. ASSUME NEW p \in Station, Hangup(p) PROVE GoodStations' /\ GoodLine'
  <2>. DEFINE h == [st[p] EXCEPT !.push = FALSE]
              d == lapm_disconnect(h)
  <2>1. Good(h)
    BY <1>0, FlagsGood
  <2>. HIDE DEF h
  <2>2. Good(d)
    BY <2>1, ConnectGood
  <2>. HIDE DEF d
  <2>3. Good([d EXCEPT !.modem = "ecdisc"])
    BY <1>0, <2>2, FlagsGood
  <2>4. st' = [st EXCEPT ![p] = [d EXCEPT !.modem = "ecdisc"]]
    BY <1>8 DEF Hangup, d, h
  <2>. QED  BY <1>8, <2>3, <2>4, OneStation DEF Hangup, GoodLine
<1>9. ASSUME NEW p \in Station, Stop(p) PROVE GoodStations' /\ GoodLine'
  <2>1. Good(ec_release(st[p]))
    BY <1>0, FlagsGood
  <2>. QED  BY <1>9, <2>1, OneStation DEF Stop, GoodLine
<1>10. ASSUME NEW p \in Station, Lose(p) PROVE GoodStations' /\ GoodLine'
  <2>1. Tail(line[p]) \in Seq(Frame)
    BY <1>0, <1>10, HeadTailProperties DEF Lose
  <2>2. losses' \in 0 .. MaxLoss
    BY <1>10, LapmAssumption DEF Lose, GoodLine
  <2>. QED  BY <1>0, <1>10, <2>1, <2>2 DEF Lose, GoodLine, GoodStations
<1>11. ASSUME NEW p \in Station, Drain(p) PROVE GoodStations' /\ GoodLine'
  BY <1>0, <1>11, EmptySeq DEF Drain, GoodLine, GoodStations
<1>12. CASE UNCHANGED vars
  BY <1>12 DEF vars, GoodStations, GoodLine
<1>. QED  BY <1>1, <1>2, <1>3, <1>4, <1>5, <1>6, <1>7, <1>8, <1>9, <1>10,
             <1>11, <1>12 DEF Next

(* Type correctness of the link for every modulus, window and ring size.   *)
THEOREM LapmTypeOK == Spec => []TypeOK
<1>1. Init => Inv
  BY InitGood
<1>2. Inv /\ [Next]_vars => Inv'
  BY StepGood
<1>3. Inv => TypeOK
  BY DEF Inv
<1>. QED  BY <1>1, <1>2, <1>3, PTL DEF Spec

(* The ring of I frames and the sequence variables of modem_ec.c agree in  *)
(* every reachable state.                                                  *)
THEOREM LapmRingInv == Spec => []RingInv
<1>1. Init => Inv
  BY InitGood
<1>2. Inv /\ [Next]_vars => Inv'
  BY StepGood
<1>3. Inv => RingInv
  BY DEF Inv
<1>. QED  BY <1>1, <1>2, <1>3, PTL DEF Spec

(* With a ring larger than the window, tx_info always finds a frame while  *)
(* the window is open, and ack_info never takes its disconnect branch.     *)
THEOREM LapmNoRingError == Spec => []NoRingError
<1>1. Init => Inv
  BY InitGood
<1>2. Inv /\ [Next]_vars => Inv'
  BY StepGood
<1>3. Inv => NoRingError
  <2>. SUFFICES ASSUME Inv, NEW p \in Station
                PROVE  /\ WindowOpen(st[p]) => InfoFrameFree(st[p])
                       /\ nr_accepted(st[p])
    BY DEF NoRingError
  <2>1. Good(st[p])
    BY InvParts DEF GoodStations
  <2>2. /\ Len(st[p].sent) \in Nat /\ Len(st[p].tx) \in Nat
        /\ Len(st[p].sent) = Dist(st[p].vs, st[p].va)
        /\ Len(st[p].sent) + Len(st[p].tx) <= TxWin
    BY <2>1, FieldTypes, LenProperties DEF Ring
  <2>. HIDE DEF Inv
  <2>. QED  BY <2>2, LapmAssumption
            DEF WindowOpen, InfoFrameFree, nr_accepted
<1>. QED  BY <1>1, <1>2, <1>3, PTL DEF Spec

-----------------------------------------------------------------------------
(* One direction of the link.                                              *)

(* An item not yet acknowledged has the number that its place behind va    *)
(* gives it.                                                               *)
Ahead(f, va, acked) == f.data > acked => f.ns = Plus(va, f.data - acked - 1)

(* A copy of an item that the receiver has, or has passed, bears a number  *)
(* that is less than a window behind vr.                                   *)
Behind(f, vr, last) ==
    f.data <= last => last - f.data < TxWin /\ vr = Plus(f.ns, last - f.data + 1)

(* When g was sent after f and is not a later item, the sender went back,  *)
(* by less than a window.                                                  *)
InTurn(f, g) ==
    g.data <= f.data => f.data - g.data < TxWin /\ f.ns = Plus(g.ns, f.data - g.data)

IsInfo(f) == f.kind = "I"

(* What is always true of a direction, with the frames c under way.        *)
OrdOK(va, acked, taken, vr, last, open, c) ==
    /\ last <= taken
    /\ open /\ last > acked => vr = Plus(va, last - acked)
    /\ \A i \in 1 .. Len(c) : IsInfo(c[i]) =>
          /\ c[i].data \in 1 .. taken
          /\ Ahead(c[i], va, acked)
          /\ open => Behind(c[i], vr, last)
    /\ \A i, j \in 1 .. Len(c) :
          i < j /\ IsInfo(c[i]) /\ IsInfo(c[j]) => InTurn(c[i], c[j])

(* The six numbers as a proof has them.                                    *)
OrdType(va, acked, taken, vr, last, open) ==
    /\ va \in SeqNo /\ vr \in SeqNo /\ acked \in Nat /\ taken \in Nat /\ last \in Nat
    /\ acked <= taken /\ taken <= acked + TxWin /\ open \in BOOLEAN

(* Plus on numbers below the modulus.                                      *)
LEMMA PlusFacts ==
    ASSUME NEW a \in SeqNo, NEW m \in 0 .. TxWin, NEW n \in 0 .. TxWin
    PROVE  /\ Plus(a, m) \in SeqNo
           /\ Plus(a, 0) = a
           /\ Plus(a, m) = Plus(a, n) => m = n
           /\ m + n <= TxWin => Plus(Plus(a, m), n) = Plus(a, m + n)
           /\ Dist(Plus(a, m), a) = m
BY LapmAssumption DEF SeqNo, Plus, Dist

(* Plus and Dist undo each other.                                          *)
LEMMA DistPlus ==
    ASSUME NEW a \in SeqNo, NEW b \in SeqNo, Dist(b, a) <= TxWin
    PROVE  b = Plus(a, Dist(b, a))
BY LapmAssumption DEF SeqNo, Plus, Dist

(* Distances between two items of a window.                                *)
LEMMA WindowFacts ==
    ASSUME NEW a \in Nat, NEW x \in Nat, NEW y \in Nat,
           a < x, x <= y, y <= a + TxWin
    PROVE  /\ y - x \in 0 .. TxWin /\ y - x < TxWin /\ y - x + 1 \in 0 .. TxWin
           /\ (x - a - 1) + (y - x) = y - a - 1 /\ (x - a - 1) + (y - x) <= TxWin
           /\ (x - a - 1) + (y - x + 1) = y - a /\ (x - a - 1) + (y - x + 1) <= TxWin
           /\ y > a
BY LapmAssumption

(* A frame at the end of the line.                                         *)
LEMMA OrdOther ==
    ASSUME NEW va, NEW acked, NEW taken, NEW vr, NEW last, NEW open,
           NEW c \in Seq(Frame), NEW f \in Frame, ~ IsInfo(f),
           OrdOK(va, acked, taken, vr, last, open, c)
    PROVE  OrdOK(va, acked, taken, vr, last, open, Append(c, f))
<1>. DEFINE d == Append(c, f)
<1>1. /\ Len(d) = Len(c) + 1 /\ d[Len(c) + 1] = f /\ Len(c) \in Nat
      /\ \A i \in 1 .. Len(c) : d[i] = c[i]
  BY AppendProperties, LenProperties
<1>. HIDE DEF d
<1>2. \A i \in 1 .. Len(d) : IsInfo(d[i]) => i \in 1 .. Len(c) /\ d[i] = c[i]
  BY <1>1
<1>. QED  BY <1>1, <1>2 DEF OrdOK, d

(* The oldest frame leaves the line.                                       *)
LEMMA OrdTail ==
    ASSUME NEW va, NEW acked, NEW taken, NEW vr, NEW last, NEW open,
           NEW c \in Seq(Frame), c # <<>>,
           OrdOK(va, acked, taken, vr, last, open, c)
    PROVE  OrdOK(va, acked, taken, vr, last, open, Tail(c))
<1>. DEFINE d == Tail(c)
<1>1. /\ Len(d) = Len(c) - 1 /\ Len(c) \in Nat
      /\ \A i \in 1 .. Len(d) : d[i] = c[i + 1]
  BY HeadTailProperties, LenProperties
<1>. HIDE DEF d
<1>2. \A i \in 1 .. Len(d) : i + 1 \in 1 .. Len(c) /\ d[i] = c[i + 1]
  BY <1>1
<1>3. \A i, j \in 1 .. Len(d) : i < j => i + 1 < j + 1
  BY <1>1
<1>. QED  BY <1>2, <1>3 DEF OrdOK, d

(* An empty line.                                                          *)
LEMMA OrdEmpty ==
    ASSUME NEW va, NEW acked, NEW taken, NEW vr, NEW last, NEW open,
           NEW c \in Seq(Frame),
           OrdOK(va, acked, taken, vr, last, open, c)
    PROVE  OrdOK(va, acked, taken, vr, last, open, <<>>)
BY DEF OrdOK

(* The sender frees n frames, and may have fetched an item.                *)
LEMMA OrdAdvance ==
    ASSUME NEW va, NEW acked, NEW taken, NEW vr, NEW last, NEW open, NEW c \in Seq(Frame),
           OrdType(va, acked, taken, vr, last, open),
           OrdOK(va, acked, taken, vr, last, open, c),
           NEW n \in Nat, acked + n <= taken, NEW t \in Nat, taken <= t
    PROVE  OrdOK(Plus(va, n), acked + n, t, vr, last, open, c)
<1>0. n \in 0 .. TxWin
  BY LapmAssumption DEF OrdType
<1>1. open /\ last > acked + n => vr = Plus(Plus(va, n), last - (acked + n))
  <2>. SUFFICES ASSUME open, last > acked + n
                PROVE  vr = Plus(Plus(va, n), last - (acked + n))
    OBVIOUS
  <2>1. last - (acked + n) \in 0 .. TxWin /\ n + (last - (acked + n)) = last - acked
        /\ last - acked <= TxWin /\ last > acked
    BY LapmAssumption DEF OrdType, OrdOK
  <2>2. vr = Plus(va, last - acked)
    BY <2>1 DEF OrdOK
  <2>3. Plus(Plus(va, n), last - (acked + n)) = Plus(va, n + (last - (acked + n)))
    BY <1>0, <2>1, PlusFacts DEF OrdType
  <2>. QED  BY <2>1, <2>2, <2>3
<1>2. ASSUME NEW i \in 1 .. Len(c), IsInfo(c[i])
      PROVE  c[i].data \in 1 .. t /\ Ahead(c[i], Plus(va, n), acked + n)
  <2>1. c[i].data \in 1 .. taken /\ Ahead(c[i], va, acked)
    BY <1>2 DEF OrdOK
  <2>2. c[i].data \in 1 .. t
    BY <2>1 DEF OrdType
  <2>3. ASSUME c[i].data > acked + n
        PROVE  c[i].ns = Plus(Plus(va, n), c[i].data - (acked + n) - 1)
    <3>. DEFINE k == c[i].data - (acked + n) - 1
    <3>1. k \in 0 .. TxWin /\ n + k = c[i].data - acked - 1 /\ n + k <= TxWin
          /\ c[i].data > acked
      BY <2>1, <2>3, LapmAssumption DEF OrdType
    <3>. HIDE DEF k
    <3>2. c[i].ns = Plus(va, n + k)
      BY <2>1, <3>1 DEF Ahead
    <3>3. Plus(Plus(va, n), k) = Plus(va, n + k)
      BY <1>0, <3>1, PlusFacts DEF OrdType
    <3>. QED  BY <3>2, <3>3 DEF k
  <2>. QED  BY <2>2, <2>3 DEF Ahead
<1>3. last <= t
  BY DEF OrdType, OrdOK
<1>. QED  BY <1>1, <1>2, <1>3 DEF OrdOK

(* The sender gives up what it has: nothing is ahead.                      *)
LEMMA OrdReset ==
    ASSUME NEW va, NEW acked, NEW taken, NEW vr, NEW last, NEW open, NEW c \in Seq(Frame),
           OrdType(va, acked, taken, vr, last, open),
           OrdOK(va, acked, taken, vr, last, open, c), NEW v
    PROVE  OrdOK(v, taken, taken, vr, last, open, c)
<1>1. last <= taken /\ ~ (last > taken)
  BY DEF OrdOK, OrdType
<1>2. \A i \in 1 .. Len(c) : IsInfo(c[i]) => c[i].data \in 1 .. taken /\ ~ (c[i].data > taken)
  BY DEF OrdOK, OrdType
<1>. QED  BY <1>1, <1>2 DEF OrdOK, Ahead

(* The receiver takes nothing, and is not opened.                          *)
LEMMA OrdKept ==
    ASSUME NEW va, NEW acked, NEW taken, NEW vr, NEW last, NEW open, NEW c \in Seq(Frame),
           OrdOK(va, acked, taken, vr, last, open, c),
           NEW v, NEW o, o => open /\ v = vr
    PROVE  OrdOK(va, acked, taken, v, last, o, c)
BY DEF OrdOK

(* The sender sends an item of its window.                                 *)
LEMMA OrdSend ==
    ASSUME NEW va, NEW acked, NEW taken, NEW vr, NEW last, NEW open, NEW c \in Seq(Frame),
           OrdType(va, acked, taken, vr, last, open),
           OrdOK(va, acked, taken, vr, last, open, c),
           NEW f \in Frame, IsInfo(f), acked < f.data, f.data <= taken,
           f.ns = Plus(va, f.data - acked - 1)
    PROVE  OrdOK(va, acked, taken, vr, last, open, Append(c, f))
<1>. DEFINE d == Append(c, f)
            k == f.data - acked - 1
<1>1. /\ Len(d) = Len(c) + 1 /\ d[Len(c) + 1] = f /\ Len(c) \in Nat
      /\ \A i \in 1 .. Len(c) : d[i] = c[i]
  BY AppendProperties, LenProperties
<1>2. f.data \in Nat /\ k \in 0 .. TxWin /\ k + 1 <= TxWin
  BY FrameTypes, LapmAssumption DEF OrdType
<1>. HIDE DEF d, k
<1>3. f.data \in 1 .. taken /\ Ahead(f, va, acked)
  BY <1>2 DEF Ahead, OrdType
<1>4. open => Behind(f, vr, last)
  <2>. SUFFICES ASSUME open, f.data <= last
                PROVE  last - f.data < TxWin /\ vr = Plus(f.ns, last - f.data + 1)
    BY DEF Behind
  <2>. DEFINE m == last - f.data + 1
  <2>1. /\ m \in 0 .. TxWin /\ k + m = last - acked /\ k + m <= TxWin /\ last > acked
        /\ last - f.data < TxWin
    <3>1. acked \in Nat /\ last \in Nat /\ last <= acked + TxWin
      BY LapmAssumption DEF OrdType, OrdOK
    <3>. QED  BY <1>2, <3>1, WindowFacts DEF k
  <2>. HIDE DEF m
  <2>2. vr = Plus(va, k + m)
    BY <2>1 DEF OrdOK
  <2>3. Plus(Plus(va, k), m) = Plus(va, k + m)
    BY <1>2, <2>1, PlusFacts DEF OrdType
  <2>. QED  BY <2>1, <2>2, <2>3 DEF k, m
<1>5. ASSUME NEW i \in 1 .. Len(c), IsInfo(c[i])
      PROVE  InTurn(c[i], f)
  <2>. SUFFICES ASSUME f.data <= c[i].data
                PROVE  /\ c[i].data - f.data < TxWin
                       /\ c[i].ns = Plus(f.ns, c[i].data - f.data)
    BY DEF InTurn
  <2>. DEFINE m == c[i].data - f.data
  <2>1. c[i].data \in 1 .. taken /\ Ahead(c[i], va, acked)
    BY <1>5 DEF OrdOK
  <2>2. /\ m \in 0 .. TxWin /\ k + m = c[i].data - acked - 1 /\ k + m <= TxWin
        /\ c[i].data > acked /\ m < TxWin
    <3>1. acked \in Nat /\ c[i].data \in Nat /\ c[i].data <= acked + TxWin
      BY <2>1, LapmAssumption DEF OrdType
    <3>. QED  BY <1>2, <3>1, WindowFacts DEF k
  <2>. HIDE DEF m
  <2>3. c[i].ns = Plus(va, k + m)
    BY <2>1, <2>2 DEF Ahead
  <2>4. Plus(Plus(va, k), m) = Plus(va, k + m)
    BY <1>2, <2>2, PlusFacts DEF OrdType
  <2>. QED  BY <2>2, <2>3, <2>4 DEF k, m
<1>6. \A i \in 1 .. Len(d) : \/ i \in 1 .. Len(c) /\ d[i] = c[i]
                             \/ i = Len(c) + 1 /\ d[i] = f
  BY <1>1
<1>7. ASSUME NEW i \in 1 .. Len(d), IsInfo(d[i])
      PROVE  /\ d[i].data \in 1 .. taken
             /\ Ahead(d[i], va, acked)
             /\ open => Behind(d[i], vr, last)
  BY <1>3, <1>4, <1>6, <1>7 DEF OrdOK
<1>8. ASSUME NEW i \in 1 .. Len(d), NEW j \in 1 .. Len(d), i < j,
             IsInfo(d[i]), IsInfo(d[j])
      PROVE  InTurn(d[i], d[j])
  <2>1. i \in 1 .. Len(c) /\ d[i] = c[i]
    BY <1>1, <1>6, <1>8
  <2>2. CASE j \in 1 .. Len(c) /\ d[j] = c[j]
    BY <1>8, <2>1, <2>2 DEF OrdOK
  <2>3. CASE d[j] = f
    BY <1>5, <1>8, <2>1, <2>3
  <2>. QED  BY <1>6, <2>2, <2>3
<1>9. last <= taken /\ (open /\ last > acked => vr = Plus(va, last - acked))
  BY DEF OrdOK
<1>10. OrdOK(va, acked, taken, vr, last, open, d)
  BY <1>7, <1>8, <1>9 DEF OrdOK
<1>. QED  BY <1>10 DEF d

(* The frame that the receiver expects is a later item than all it has;    *)
(* when it is taken, those behind it keep their places.                    *)
LEMMA OrdAccept ==
    ASSUME NEW va, NEW acked, NEW taken, NEW vr, NEW last, NEW open, NEW c \in Seq(Frame),
           OrdType(va, acked, taken, vr, last, open),
           OrdOK(va, acked, taken, vr, last, open, c),
           c # <<>>, IsInfo(Head(c)), open, Head(c).ns = vr, NEW o
    PROVE  /\ Head(c).data > last /\ Head(c).data <= taken
           /\ OrdOK(va, acked, taken, Plus(vr, 1), Head(c).data, o, Tail(c))
<1>. DEFINE d == Tail(c)
            f == Head(c)
<1>1. /\ Len(d) = Len(c) - 1 /\ Len(c) \in Nat \ {0} /\ f \in Frame /\ f = c[1]
      /\ \A i \in 1 .. Len(d) : d[i] = c[i + 1]
  BY HeadTailProperties, LenProperties, EmptySeq
<1>. HIDE DEF d, f
<1>2. \A i \in 1 .. Len(d) : i + 1 \in 2 .. Len(c) /\ d[i] = c[i + 1]
  BY <1>1
<1>3. f.data \in 1 .. taken /\ Ahead(f, va, acked) /\ Behind(f, vr, last)
  BY <1>1 DEF OrdOK, f
<1>4. f.data > last
  <2>. SUFFICES ASSUME f.data <= last PROVE FALSE
    BY <1>3 DEF OrdType
  <2>. DEFINE m == last - f.data + 1
  <2>1. m \in 1 .. TxWin /\ vr = Plus(f.ns, m)
    BY <1>3, LapmAssumption DEF Behind, OrdType
  <2>. HIDE DEF m
  <2>2. vr = Plus(vr, m) /\ vr = Plus(vr, 0) /\ m \in 0 .. TxWin /\ 0 \in 0 .. TxWin
    BY <2>1, PlusFacts, LapmAssumption DEF OrdType, f
  <2>3. m = 0
    BY <2>2, PlusFacts DEF OrdType
  <2>. QED  BY <2>1, <2>3
<1>5. f.data > acked => Plus(vr, 1) = Plus(va, f.data - acked)
  <2>. SUFFICES ASSUME f.data > acked PROVE Plus(vr, 1) = Plus(va, f.data - acked)
    OBVIOUS
  <2>. DEFINE k == f.data - acked - 1
  <2>1. k \in 0 .. TxWin /\ k + 1 <= TxWin /\ k + 1 = f.data - acked /\ 1 \in 0 .. TxWin
    BY <1>3, LapmAssumption DEF OrdType
  <2>2. vr = Plus(va, k)
    BY <1>3 DEF Ahead, f
  <2>. HIDE DEF k
  <2>3. Plus(Plus(va, k), 1) = Plus(va, k + 1)
    BY <2>1, PlusFacts DEF OrdType
  <2>. QED  BY <2>1, <2>2, <2>3
<1>6. ASSUME NEW i \in 1 .. Len(d), IsInfo(d[i])
      PROVE  Behind(d[i], Plus(vr, 1), f.data)
  <2>. SUFFICES ASSUME d[i].data <= f.data
                PROVE  /\ f.data - d[i].data < TxWin
                       /\ Plus(vr, 1) = Plus(d[i].ns, f.data - d[i].data + 1)
    BY DEF Behind
  <2>. DEFINE m == f.data - d[i].data
  <2>1. d[i].data \in 1 .. taken /\ InTurn(f, d[i]) /\ d[i].ns \in SeqNo
    <3>1. c[i + 1] \in Frame
      BY <1>2, ElementOfSeq
    <3>. QED  BY <1>1, <1>2, <1>6, <3>1, FrameTypes DEF OrdOK, f
  <2>2. m < TxWin /\ vr = Plus(d[i].ns, m) /\ m \in 0 .. TxWin /\ m + 1 <= TxWin
        /\ 1 \in 0 .. TxWin
    BY <1>3, <2>1, LapmAssumption DEF InTurn, OrdType, f
  <2>. HIDE DEF m
  <2>3. Plus(Plus(d[i].ns, m), 1) = Plus(d[i].ns, m + 1)
    BY <2>1, <2>2, PlusFacts
  <2>. QED  BY <2>2, <2>3 DEF m
<1>7. OrdOK(va, acked, taken, vr, last, open, d)
  BY OrdTail DEF d
<1>8. f.data <= taken
  BY <1>3
<1>9. OrdOK(va, acked, taken, Plus(vr, 1), f.data, o, d)
  BY <1>5, <1>6, <1>7, <1>8 DEF OrdOK
<1>. QED  BY <1>4, <1>8, <1>9 DEF f, d

-----------------------------------------------------------------------------
(* The same direction when the link was set up once: then the last item is *)
(* the number of items, and the acknowledgements b under way count them.   *)

Numbered(f) == f.kind \in {"I"} \cup SKind

(* An acknowledgement is of no more than the receiver has; a later one of  *)
(* no less than an earlier one.                                            *)
AckOK(va, acked, last, b) ==
    \A j \in 1 .. Len(b) : Numbered(b[j]) =>
        /\ Dist(b[j].nr, va) <= last - acked
        /\ \A i \in 1 .. j : Numbered(b[i]) => Dist(b[i].nr, va) <= Dist(b[j].nr, va)

(* An item the receiver does not have has the number that its place behind *)
(* vr gives it.                                                            *)
NextOK(vr, last, c) ==
    \A i \in 1 .. Len(c) : IsInfo(c[i]) /\ c[i].data > last =>
        /\ c[i].data <= last + TxWin
        /\ c[i].ns = Plus(vr, c[i].data - last - 1)

GapOK(va, acked, live, vr, last, open, c, b) ==
    /\ live => acked <= last /\ AckOK(va, acked, last, b)
    /\ live /\ open => vr = Plus(va, last - acked)
    /\ open => NextOK(vr, last, c)

(* The line of items.                                                      *)
LEMMA GapOther ==
    ASSUME NEW va, NEW acked, NEW live, NEW vr, NEW last, NEW open,
           NEW c \in Seq(Frame), NEW b, NEW f \in Frame, ~ IsInfo(f),
           GapOK(va, acked, live, vr, last, open, c, b)
    PROVE  GapOK(va, acked, live, vr, last, open, Append(c, f), b)
<1>. DEFINE d == Append(c, f)
<1>1. /\ Len(d) = Len(c) + 1 /\ d[Len(c) + 1] = f /\ Len(c) \in Nat
      /\ \A i \in 1 .. Len(c) : d[i] = c[i]
  BY AppendProperties, LenProperties
<1>. HIDE DEF d
<1>2. \A i \in 1 .. Len(d) : IsInfo(d[i]) => i \in 1 .. Len(c) /\ d[i] = c[i]
  BY <1>1
<1>3. NextOK(vr, last, c) => NextOK(vr, last, d)
  BY <1>2 DEF NextOK
<1>. QED  BY <1>3 DEF GapOK, d

(* The oldest frame of the line is gone.                                   *)
LEMMA GapTail ==
    ASSUME NEW va, NEW acked, NEW live, NEW vr, NEW last, NEW open,
           NEW c \in Seq(Frame), NEW b, c # <<>>,
           GapOK(va, acked, live, vr, last, open, c, b)
    PROVE  GapOK(va, acked, live, vr, last, open, Tail(c), b)
<1>. DEFINE d == Tail(c)
<1>1. /\ Len(d) = Len(c) - 1 /\ Len(c) \in Nat
      /\ \A i \in 1 .. Len(d) : d[i] = c[i + 1]
  BY HeadTailProperties, LenProperties
<1>. HIDE DEF d
<1>2. \A i \in 1 .. Len(d) : i + 1 \in 1 .. Len(c) /\ d[i] = c[i + 1]
  BY <1>1
<1>3. NextOK(vr, last, c) => NextOK(vr, last, d)
  BY <1>2 DEF NextOK
<1>. QED  BY <1>3 DEF GapOK, d

(* All frames of the line are gone.                                        *)
LEMMA GapEmpty ==
    ASSUME NEW va, NEW acked, NEW live, NEW vr, NEW last, NEW open,
           NEW c, NEW b, GapOK(va, acked, live, vr, last, open, c, b)
    PROVE  GapOK(va, acked, live, vr, last, open, <<>>, b)
BY DEF GapOK, NextOK

(* The sender sends an item of its window.                                 *)
LEMMA GapSend ==
    ASSUME NEW va, NEW acked, NEW taken, NEW live, NEW vr, NEW last, NEW open,
           NEW c \in Seq(Frame), NEW b,
           OrdType(va, acked, taken, vr, last, open), last <= taken, live,
           GapOK(va, acked, live, vr, last, open, c, b),
           NEW f \in Frame, IsInfo(f), acked < f.data, f.data <= taken,
           f.ns = Plus(va, f.data - acked - 1)
    PROVE  GapOK(va, acked, live, vr, last, open, Append(c, f), b)
<1>. DEFINE d == Append(c, f)
<1>1. /\ Len(d) = Len(c) + 1 /\ d[Len(c) + 1] = f /\ Len(c) \in Nat
      /\ \A i \in 1 .. Len(c) : d[i] = c[i]
  BY AppendProperties, LenProperties
<1>. HIDE DEF d
<1>2. \A i \in 1 .. Len(d) : (i \in 1 .. Len(c) /\ d[i] = c[i]) \/ d[i] = f
  BY <1>1
<1>3. ASSUME open, f.data > last
      PROVE  f.data <= last + TxWin /\ f.ns = Plus(vr, f.data - last - 1)
  <2>. DEFINE k == last - acked
              m == f.data - last - 1
  <2>1. /\ k \in 0 .. TxWin /\ m \in 0 .. TxWin /\ k + m <= TxWin
        /\ k + m = f.data - acked - 1 /\ f.data <= last + TxWin
    BY <1>3, FrameTypes, LapmAssumption DEF OrdType, GapOK
  <2>2. vr = Plus(va, k)
    BY <1>3 DEF GapOK
  <2>. HIDE DEF k, m
  <2>3. Plus(Plus(va, k), m) = Plus(va, k + m)
    BY <2>1, PlusFacts DEF OrdType
  <2>. QED  BY <2>1, <2>2, <2>3 DEF m
<1>4. open => NextOK(vr, last, d)
  BY <1>2, <1>3 DEF GapOK, NextOK
<1>. QED  BY <1>4 DEF GapOK, d

(* The receiver takes nothing, and neither end is opened.                  *)
LEMMA GapKept ==
    ASSUME NEW va, NEW acked, NEW live, NEW vr, NEW last, NEW open, NEW c, NEW b,
           GapOK(va, acked, live, vr, last, open, c, b),
           NEW v, NEW o, o => open /\ v = vr, NEW l, l => live
    PROVE  GapOK(va, acked, l, v, last, o, c, b)
BY DEF GapOK

(* The frame that the receiver expects is the next item ...                *)
LEMMA NextItem ==
    ASSUME NEW vr \in SeqNo, NEW last \in Nat, NEW c \in Seq(Frame), NextOK(vr, last, c),
           c # <<>>, IsInfo(Head(c)), Head(c).ns = vr, Head(c).data > last
    PROVE  Head(c).data = last + 1
<1>. DEFINE f == Head(c)
            m == f.data - last - 1
<1>1. Len(c) \in Nat \ {0} /\ f \in Frame /\ f = c[1]
  BY HeadTailProperties, LenProperties, EmptySeq
<1>2. f.data <= last + TxWin /\ f.ns = Plus(vr, m)
  BY <1>1 DEF NextOK
<1>. HIDE DEF f
<1>3. m \in 0 .. TxWin /\ 0 \in 0 .. TxWin
  BY <1>1, <1>2, FrameTypes, LapmAssumption DEF f
<1>. HIDE DEF m
<1>4. Plus(vr, m) = Plus(vr, 0)
  BY <1>2, <1>3, PlusFacts DEF f
<1>5. m = 0
  BY <1>3, <1>4, PlusFacts
<1>. QED  BY <1>1, <1>5, FrameTypes DEF m, f

(* ... and when it is taken, those behind it keep their places.            *)
LEMMA GapAccept ==
    ASSUME NEW va, NEW acked, NEW taken, NEW live, NEW vr, NEW last, NEW open,
           NEW c \in Seq(Frame), NEW b \in Seq(Frame),
           OrdType(va, acked, taken, vr, last, open),
           GapOK(va, acked, live, vr, last, open, c, b),
           c # <<>>, IsInfo(Head(c)), open, Head(c).ns = vr,
           Head(c).data > last, Head(c).data <= taken
    PROVE  /\ Head(c).data = last + 1
           /\ GapOK(va, acked, live, Plus(vr, 1), last + 1, open, Tail(c), b)
<1>. DEFINE d == Tail(c)
            f == Head(c)
<1>1. /\ Len(d) = Len(c) - 1 /\ Len(c) \in Nat \ {0} /\ f \in Frame /\ f = c[1]
      /\ \A i \in 1 .. Len(d) : d[i] = c[i + 1]
  BY HeadTailProperties, LenProperties, EmptySeq
<1>. HIDE DEF d, f
<1>2. \A i \in 1 .. Len(d) : i + 1 \in 1 .. Len(c) /\ d[i] = c[i + 1] /\ d[i] \in Frame
  BY <1>1, ElementOfSeq
<1>3. f.data = last + 1
  BY NextItem DEF OrdType, GapOK, f
<1>4. NextOK(Plus(vr, 1), last + 1, d)
  <2>. SUFFICES ASSUME NEW i \in 1 .. Len(d), IsInfo(d[i]), d[i].data > last + 1
                PROVE  /\ d[i].data <= (last + 1) + TxWin
                       /\ d[i].ns = Plus(Plus(vr, 1), d[i].data - (last + 1) - 1)
    BY DEF NextOK
  <2>. DEFINE m == d[i].data - (last + 1) - 1
  <2>1. d[i].data \in Nat /\ d[i].data > last
    BY <1>2, FrameTypes DEF OrdType
  <2>2. d[i].data <= last + TxWin /\ d[i].ns = Plus(vr, d[i].data - last - 1)
    BY <1>2, <2>1 DEF GapOK, NextOK
  <2>3. m \in 0 .. TxWin /\ 1 \in 0 .. TxWin /\ 1 + m <= TxWin
        /\ 1 + m = d[i].data - last - 1
    <3>1. last \in Nat /\ TxWin \in Nat /\ TxWin > 0
      BY LapmAssumption DEF OrdType
    <3>2. \A x, y, w \in Nat : w > 0 /\ x > y + 1 /\ x <= y + w =>
             /\ x - (y + 1) - 1 \in 0 .. w /\ 1 \in 0 .. w
             /\ 1 + (x - (y + 1) - 1) <= w
             /\ 1 + (x - (y + 1) - 1) = x - y - 1
      OBVIOUS
    <3>3. d[i].data \in Nat /\ d[i].data > last + 1 /\ d[i].data <= last + TxWin
      BY <2>1, <2>2
    <3>. QED  BY <3>1, <3>2, <3>3
  <2>. HIDE DEF m
  <2>4. Plus(Plus(vr, 1), m) = Plus(vr, 1 + m)
    BY <2>3, PlusFacts DEF OrdType
  <2>5. d[i].data <= (last + 1) + TxWin
    <3>1. last \in Nat
      BY DEF OrdType
    <3>. QED  BY <2>1, <2>2, <3>1, LapmAssumption
  <2>. QED  BY <2>2, <2>3, <2>4, <2>5 DEF m
<1>5. live => acked <= last + 1 /\ AckOK(va, acked, last + 1, b)
  <2>. SUFFICES ASSUME live PROVE acked <= last + 1 /\ AckOK(va, acked, last + 1, b)
    OBVIOUS
  <2>1. acked <= last + 1 /\ AckOK(va, acked, last, b)
    BY DEF GapOK, OrdType
  <2>2. \A j \in 1 .. Len(b) : Dist(b[j].nr, va) \in 0 .. Modulus - 1
    BY ElementOfSeq, FrameTypes, DistFacts DEF OrdType
  <2>3. \A j \in 1 .. Len(b) : Dist(b[j].nr, va) <= last - acked
                               => Dist(b[j].nr, va) <= (last + 1) - acked
    BY <2>2, LapmAssumption DEF OrdType
  <2>. QED  BY <2>1, <2>3 DEF AckOK
<1>6. live => Plus(vr, 1) = Plus(va, (last + 1) - acked)
  <2>. SUFFICES ASSUME live PROVE Plus(vr, 1) = Plus(va, (last + 1) - acked)
    OBVIOUS
  <2>. DEFINE k == last - acked
  <2>1. vr = Plus(va, k)
    BY DEF GapOK
  <2>2. k \in 0 .. TxWin /\ 1 \in 0 .. TxWin /\ k + 1 <= TxWin
        /\ k + 1 = (last + 1) - acked
    BY <1>3, LapmAssumption DEF GapOK, OrdType, f
  <2>. HIDE DEF k
  <2>3. Plus(Plus(va, k), 1) = Plus(va, k + 1)
    BY <2>2, PlusFacts DEF OrdType
  <2>. QED  BY <2>1, <2>2, <2>3
<1>. QED  BY <1>3, <1>4, <1>5, <1>6 DEF GapOK, f, d

(* The line of acknowledgements.  Some of the oldest are gone.             *)
LEMMA AckSuffix ==
    ASSUME NEW va, NEW acked, NEW last, NEW b \in Seq(Frame), NEW e \in Seq(Frame),
           NEW k \in Nat, Len(b) = Len(e) + k, \A j \in 1 .. Len(e) : e[j] = b[j + k],
           AckOK(va, acked, last, b)
    PROVE  AckOK(va, acked, last, e)
<1>1. Len(e) \in Nat
  BY LenProperties
<1>2. \A j \in 1 .. Len(e) : j + k \in 1 .. Len(b)
  BY <1>1
<1>3. \A j \in 1 .. Len(e) : \A i \in 1 .. j : i + k \in 1 .. j + k /\ i \in 1 .. Len(e)
  BY <1>1
<1>. QED  BY <1>2, <1>3 DEF AckOK

(* One more: no acknowledgement, or one of all that the receiver has.      *)
LEMMA AckAppend ==
    ASSUME NEW va \in SeqNo, NEW acked \in Nat, NEW last \in Nat, NEW b \in Seq(Frame),
           acked <= last, last <= acked + TxWin,
           NEW f \in Frame, Numbered(f) => f.nr = Plus(va, last - acked),
           AckOK(va, acked, last, b)
    PROVE  AckOK(va, acked, last, Append(b, f))
<1>. DEFINE d == Append(b, f)
<1>1. /\ Len(d) = Len(b) + 1 /\ d[Len(b) + 1] = f /\ Len(b) \in Nat
      /\ \A i \in 1 .. Len(b) : d[i] = b[i]
  BY AppendProperties, LenProperties
<1>. HIDE DEF d
<1>2. Numbered(f) => Dist(f.nr, va) = last - acked
  <2>1. last - acked \in 0 .. TxWin
    BY LapmAssumption
  <2>. QED  BY <2>1, PlusFacts
<1>3. ASSUME NEW j \in 1 .. Len(d), Numbered(d[j]), NEW i \in 1 .. j, Numbered(d[i])
      PROVE  Dist(d[j].nr, va) <= last - acked /\ Dist(d[i].nr, va) <= Dist(d[j].nr, va)
  <2>1. CASE j \in 1 .. Len(b)
    <3>1. i \in 1 .. Len(b) /\ d[i] = b[i] /\ d[j] = b[j]
      BY <1>1, <2>1
    <3>. QED  BY <1>3, <2>1, <3>1 DEF AckOK
  <2>2. CASE j = Len(b) + 1
    <3>1. d[j] = f /\ Dist(d[j].nr, va) = last - acked
      BY <1>1, <1>2, <1>3, <2>2
    <3>2. CASE i \in 1 .. Len(b)
      BY <1>1, <1>3, <3>1, <3>2 DEF AckOK
    <3>3. CASE i = Len(b) + 1
      BY <1>1, <3>1, <3>3
    <3>. QED  BY <1>1, <2>2, <3>2, <3>3
  <2>. QED  BY <1>1, <2>1, <2>2
<1>4. \A j \in 1 .. Len(d) : j \in 1 .. j
  BY <1>1
<1>5. AckOK(va, acked, last, d)
  BY <1>3, <1>4 DEF AckOK
<1>. QED  BY <1>5 DEF d

(* The oldest acknowledgement frees n frames, no more than it is of.       *)
LEMMA AckAdvance ==
    ASSUME NEW va \in SeqNo, NEW acked \in Nat, NEW last \in Nat, NEW b \in Seq(Frame),
           acked <= last, last <= acked + TxWin, b # <<>>, Numbered(Head(b)),
           AckOK(va, acked, last, b),
           NEW n \in Nat, n <= Dist(Head(b).nr, va)
    PROVE  /\ acked + n <= last
           /\ AckOK(Plus(va, n), acked + n, last, Tail(b))
<1>. DEFINE d == Tail(b)
            f == Head(b)
<1>1. /\ Len(d) = Len(b) - 1 /\ Len(b) \in Nat \ {0} /\ f \in Frame /\ f = b[1]
      /\ \A i \in 1 .. Len(d) : d[i] = b[i + 1]
  BY HeadTailProperties, LenProperties, EmptySeq
<1>. HIDE DEF d, f
<1>2. f.nr \in SeqNo /\ Dist(f.nr, va) \in 0 .. Modulus - 1
  BY <1>1, FrameTypes, DistFacts
<1>3. acked + n <= last
  <2>1. Dist(f.nr, va) <= last - acked
    BY <1>1 DEF AckOK, f
  <2>. QED  BY <1>2, <2>1, LapmAssumption DEF f
<1>4. ASSUME NEW j \in 1 .. Len(d), Numbered(d[j])
      PROVE  /\ d[j] = b[j + 1] /\ j + 1 \in 1 .. Len(b)
             /\ Dist(d[j].nr, va) \in 0 .. Modulus - 1
             /\ Dist(d[j].nr, Plus(va, n)) = Dist(d[j].nr, va) - n
             /\ Dist(d[j].nr, va) <= last - acked
  <2>1. d[j] = b[j + 1] /\ j + 1 \in 1 .. Len(b) /\ 1 \in 1 .. j + 1
    BY <1>1
  <2>2. d[j].nr \in SeqNo
    BY <2>1, ElementOfSeq, FrameTypes
  <2>3. Dist(f.nr, va) <= Dist(d[j].nr, va) /\ Dist(d[j].nr, va) <= last - acked
    BY <1>1, <1>4, <2>1 DEF AckOK, f
  <2>4. Dist(d[j].nr, va) \in 0 .. Modulus - 1
    BY <2>2, DistFacts
  <2>5. n <= Dist(d[j].nr, va)
    BY <1>2, <2>3, <2>4, LapmAssumption DEF f
  <2>. QED  BY <2>1, <2>2, <2>3, <2>4, <2>5, DistFacts
<1>5. ASSUME NEW j \in 1 .. Len(d), Numbered(d[j]), NEW i \in 1 .. j, Numbered(d[i])
      PROVE  Dist(d[i].nr, va) <= Dist(d[j].nr, va)
  <2>1. i + 1 \in 1 .. j + 1 /\ i \in 1 .. Len(d)
    BY <1>1
  <2>. QED  BY <1>4, <1>5, <2>1 DEF AckOK
<1>6. AckOK(Plus(va, n), acked + n, last, d)
  <2>. SUFFICES ASSUME NEW j \in 1 .. Len(d), Numbered(d[j])
                PROVE  /\ Dist(d[j].nr, Plus(va, n)) <= last - (acked + n)
                       /\ \A i \in 1 .. j : Numbered(d[i]) =>
                            Dist(d[i].nr, Plus(va, n)) <= Dist(d[j].nr, Plus(va, n))
    BY DEF AckOK
  <2>1. Dist(d[j].nr, Plus(va, n)) <= last - (acked + n)
    BY <1>4, LapmAssumption
  <2>2. ASSUME NEW i \in 1 .. j, Numbered(d[i])
        PROVE  Dist(d[i].nr, Plus(va, n)) <= Dist(d[j].nr, Plus(va, n))
    <3>1. i \in 1 .. Len(d)
      BY <1>1
    <3>. QED  BY <1>4, <1>5, <2>2, <3>1, LapmAssumption
  <2>. QED  BY <2>1, <2>2
<1>. QED  BY <1>3, <1>6 DEF d

(* With it the sender's numbers advance.                                   *)
LEMMA GapAdvance ==
    ASSUME NEW va, NEW acked, NEW taken, NEW live, NEW vr, NEW last, NEW open,
           NEW c, NEW b \in Seq(Frame),
           OrdType(va, acked, taken, vr, last, open), last <= taken,
           GapOK(va, acked, live, vr, last, open, c, b), b # <<>>,
           NEW n \in Nat, n > 0 => Numbered(Head(b)) /\ n <= Dist(Head(b).nr, va)
    PROVE  GapOK(Plus(va, n), acked + n, live, vr, last, open, c, Tail(b))
<1>1. CASE n > 0
  <2>. SUFFICES ASSUME live
                PROVE  /\ acked + n <= last /\ AckOK(Plus(va, n), acked + n, last, Tail(b))
                       /\ open => vr = Plus(Plus(va, n), last - (acked + n))
    BY DEF GapOK
  <2>1. /\ acked <= last /\ last <= acked + TxWin /\ AckOK(va, acked, last, b)
        /\ va \in SeqNo /\ acked \in Nat /\ last \in Nat
    BY LapmAssumption DEF GapOK, OrdType
  <2>2. acked + n <= last /\ AckOK(Plus(va, n), acked + n, last, Tail(b))
    BY <1>1, <2>1, AckAdvance
  <2>3. /\ n \in 0 .. TxWin /\ last - (acked + n) \in 0 .. TxWin
        /\ n + (last - (acked + n)) = last - acked /\ last - acked <= TxWin
    BY <2>1, <2>2, LapmAssumption
  <2>4. Plus(Plus(va, n), last - (acked + n)) = Plus(va, n + (last - (acked + n)))
    BY <2>1, <2>3, PlusFacts
  <2>. QED  BY <2>2, <2>3, <2>4 DEF GapOK
<1>2. CASE n = 0
  <2>1. Plus(va, n) = va /\ acked + n = acked
    BY <1>2, PlusFacts, LapmAssumption DEF OrdType
  <2>2. /\ Tail(b) \in Seq(Frame) /\ Len(b) = Len(Tail(b)) + 1
        /\ \A j \in 1 .. Len(Tail(b)) : Tail(b)[j] = b[j + 1]
    BY HeadTailProperties, LenProperties
  <2>3. AckOK(va, acked, last, b) => AckOK(va, acked, last, Tail(b))
    BY <2>2, AckSuffix
  <2>. QED  BY <2>1, <2>3 DEF GapOK
<1>. QED  BY <1>1, <1>2

-----------------------------------------------------------------------------
(* What a function of modem_ec.c does to a station.                        *)

(* Items that are acknowledged or given up.                                *)
Acked(l) == l.taken - Len(l.sent) - Len(l.tx)

(* What the station has received: given to the terminal, or kept for it.   *)
Recd(l) == l.out \o l.rx_buf
LastRecd(l) == IF Recd(l) = <<>> THEN 0 ELSE Recd(l)[Len(Recd(l))]

(* It may still take an item; it may still send one.                       *)
Open(l) == l.state = "DATA" \/ Recd(l) = <<>>
Live(l) == l.state = "DATA" \/ l.taken = 0

(* The fields that data depends on, but for the ring of control frames.    *)
Same(l, r) ==
    /\ r.state = l.state /\ r.config = l.config /\ r.busy = l.busy
    /\ r.vs = l.vs /\ r.va = l.va /\ r.vr = l.vr /\ r.sent = l.sent /\ r.tx = l.tx
    /\ r.rx_buf = l.rx_buf /\ r.written = l.written /\ r.taken = l.taken
    /\ r.out = l.out /\ (r.timer = "negotiate" => l.timer = "negotiate")

(* Timer, modem state and flags.                                           *)
LEMMA FlagsSame ==
    ASSUME NEW l \in StationType, NEW b
    PROVE  /\ \A r \in {T401_START(l), T401_STOP(l), ec_link(l), ec_release(l)} :
                 Same(l, r) /\ r.ctrl = l.ctrl /\ r.sabmes = l.sabmes
           /\ \A r \in {[l EXCEPT !.peer_busy = b], [l EXCEPT !.reject = b],
                        [l EXCEPT !.framing = b], [l EXCEPT !.push = b],
                        [l EXCEPT !.modem = b], [l EXCEPT !.rtx_count = b]} :
                 Same(l, r) /\ r.ctrl = l.ctrl /\ r.sabmes = l.sabmes
<1>1. Same(l, T401_START(l)) /\ T401_START(l).ctrl = l.ctrl /\ T401_START(l).sabmes = l.sabmes
  BY DEF StationType, T401_START, Same
<1>2. Same(l, T401_STOP(l)) /\ T401_STOP(l).ctrl = l.ctrl /\ T401_STOP(l).sabmes = l.sabmes
  BY DEF StationType, T401_STOP, Same
<1>3. Same(l, ec_link(l)) /\ ec_link(l).ctrl = l.ctrl /\ ec_link(l).sabmes = l.sabmes
  BY DEF StationType, ec_link, Same
<1>4. Same(l, ec_release(l)) /\ ec_release(l).ctrl = l.ctrl /\ ec_release(l).sabmes = l.sabmes
  BY DEF StationType, ec_release, Same
<1>5. \A r \in {[l EXCEPT !.peer_busy = b], [l EXCEPT !.reject = b],
                [l EXCEPT !.framing = b]} :
         Same(l, r) /\ r.ctrl = l.ctrl /\ r.sabmes = l.sabmes
  BY DEF StationType, Same
<1>6. \A r \in {[l EXCEPT !.push = b], [l EXCEPT !.modem = b], [l EXCEPT !.rtx_count = b]} :
         Same(l, r) /\ r.ctrl = l.ctrl /\ r.sabmes = l.sabmes
  BY DEF StationType, Same
<1>. QED  BY <1>1, <1>2, <1>3, <1>4, <1>5, <1>6

(* A control frame is queued behind the others, or dropped.                *)
LEMMA TxCtrlSame ==
    ASSUME NEW l \in StationType, NEW f
    PROVE  /\ Same(l, tx_ctrl(l, f)) /\ tx_ctrl(l, f).sabmes = l.sabmes
           /\ (tx_ctrl(l, f).ctrl = l.ctrl \/ tx_ctrl(l, f).ctrl = Append(l.ctrl, f))
BY DEF StationType, tx_ctrl, Same

(* A control frame that r queued: an acknowledgement is of all that r has, *)
(* and a SABME is sent while the link is being established.                *)
Queued(g, l, r) ==
    /\ ~ IsInfo(g)
    /\ Numbered(g) => r.state = "DATA" /\ g.nr = r.vr
    /\ g.kind = "SABME" => r.state = "ESTAB" /\ r.sabmes = l.sabmes + 1

CtrlStep(l, r) ==
    \/ r.ctrl = l.ctrl
    \/ \E g \in Frame : r.ctrl = Append(l.ctrl, g) /\ Queued(g, l, r)

(* Supervisory frames.                                                     *)
LEMMA TxSuperStep ==
    ASSUME NEW l, Good(l), NEW k \in SKind, NEW cmd \in BOOLEAN, NEW pf \in BOOLEAN
    PROVE  /\ Same(l, tx_super(l, k, cmd, pf)) /\ tx_super(l, k, cmd, pf).sabmes = l.sabmes
           /\ l.state = "DATA" => CtrlStep(l, tx_super(l, k, cmd, pf))
<1>. DEFINE g == [kind |-> k, cmd |-> cmd, pf |-> pf, nr |-> l.vr, ns |-> 0, data |-> 0]
            r == tx_super(l, k, cmd, pf)
<1>1. l \in StationType /\ r = tx_ctrl(l, g)
  BY DEF Good, tx_super
<1>2. Same(l, r) /\ r.sabmes = l.sabmes /\ (r.ctrl = l.ctrl \/ r.ctrl = Append(l.ctrl, g))
  BY <1>1, TxCtrlSame
<1>3. g \in Frame
  BY LapmAssumption DEF Frame, Good, StationType, SeqNo
<1>4. g.kind = k /\ g.nr = l.vr /\ k # "I" /\ k # "SABME"
  BY DEF SKind
<1>. HIDE DEF g, r
<1>5. l.state = "DATA" => Queued(g, l, r)
  BY <1>2, <1>4 DEF Queued, IsInfo, Same
<1>. QED  BY <1>2, <1>3, <1>5 DEF CtrlStep, r

(* Unnumbered frames other than SABME.                                     *)
LEMMA TxUnnumStep ==
    ASSUME NEW l, Good(l), NEW b \in BOOLEAN
    PROVE  \A r \in {TX_DISC(l), TX_DM(l), TX_UA(l, b), tx_xid(l, b)} :
              Same(l, r) /\ r.sabmes = l.sabmes /\ CtrlStep(l, r)
<1>1. ASSUME NEW k \in {"DISC", "DM", "UA", "XID"}, NEW c \in BOOLEAN, NEW d \in BOOLEAN
      PROVE  /\ Same(l, tx_ctrl(l, UFrame(k, c, d)))
             /\ tx_ctrl(l, UFrame(k, c, d)).sabmes = l.sabmes
             /\ CtrlStep(l, tx_ctrl(l, UFrame(k, c, d)))
  <2>. DEFINE g == UFrame(k, c, d)
              r == tx_ctrl(l, g)
  <2>1. Same(l, r) /\ r.sabmes = l.sabmes /\ (r.ctrl = l.ctrl \/ r.ctrl = Append(l.ctrl, g))
    BY TxCtrlSame DEF Good
  <2>2. g \in Frame
    BY <1>1, UFrameType DEF UKind
  <2>3. g.kind = k
    BY DEF UFrame
  <2>. HIDE DEF g, r
  <2>4. Queued(g, l, r)
    BY <1>1, <2>3 DEF Queued, IsInfo, Numbered, SKind
  <2>. QED  BY <2>1, <2>2, <2>4 DEF CtrlStep, r, g
<1>2. Same(l, TX_DISC(l)) /\ TX_DISC(l).sabmes = l.sabmes /\ CtrlStep(l, TX_DISC(l))
  BY <1>1 DEF TX_DISC
<1>3. Same(l, TX_DM(l)) /\ TX_DM(l).sabmes = l.sabmes /\ CtrlStep(l, TX_DM(l))
  BY <1>1 DEF TX_DM
<1>4. Same(l, TX_UA(l, b)) /\ TX_UA(l, b).sabmes = l.sabmes /\ CtrlStep(l, TX_UA(l, b))
  BY <1>1 DEF TX_UA
<1>5. Same(l, tx_xid(l, b)) /\ tx_xid(l, b).sabmes = l.sabmes /\ CtrlStep(l, tx_xid(l, b))
  BY <1>1 DEF tx_xid
<1>. QED  BY <1>2, <1>3, <1>4, <1>5

(* A SABME is counted, sent or dropped.                                    *)
LEMMA TxSabmeStep ==
    ASSUME NEW l, Good(l), l.state = "ESTAB"
    PROVE  /\ Same(l, TX_SABME(l)) /\ TX_SABME(l).sabmes = l.sabmes + 1
           /\ CtrlStep(l, TX_SABME(l))
<1>. DEFINE g == UFrame("SABME", TRUE, TRUE)
            m == tx_ctrl(l, g)
            r == TX_SABME(l)
<1>1. Same(l, m) /\ m.sabmes = l.sabmes /\ (m.ctrl = l.ctrl \/ m.ctrl = Append(l.ctrl, g))
  BY TxCtrlSame DEF Good
<1>2. g \in Frame
  BY UFrameType DEF UKind
<1>3. g.kind = "SABME"
  BY DEF UFrame
<1>4. m \in StationType
  BY <1>2, TxCtrlGood DEF Good
<1>5. r = [m EXCEPT !.sabmes = @ + 1]
  BY DEF TX_SABME
<1>. HIDE DEF g, m, r
<1>6. Same(m, r) /\ r.ctrl = m.ctrl /\ r.sabmes = m.sabmes + 1
  BY <1>4, <1>5 DEF StationType, Same
<1>7. Same(l, r) /\ r.sabmes = l.sabmes + 1
  BY <1>1, <1>6 DEF Same
<1>8. Queued(g, l, r)
  BY <1>3, <1>7 DEF Queued, IsInfo, Numbered, SKind, Same
<1>. QED  BY <1>1, <1>2, <1>6, <1>7, <1>8 DEF CtrlStep, r

(* The ring of control frames of a composition of functions.               *)
LEMMA CtrlStepOver ==
    ASSUME NEW l, NEW m, NEW r, m.ctrl = l.ctrl, m.sabmes = l.sabmes, CtrlStep(m, r)
    PROVE  CtrlStep(l, r)
BY DEF CtrlStep, Queued

(* A function that follows and leaves the ring alone.                      *)
LEMMA CtrlStepThen ==
    ASSUME NEW l, NEW m, NEW r, CtrlStep(l, m), r.ctrl = m.ctrl, r.sabmes = m.sabmes,
           r.state = m.state, r.vr = m.vr
    PROVE  CtrlStep(l, r)
BY DEF CtrlStep, Queued

-----------------------------------------------------------------------------
(* Processing a numbered frame in the data state.                          *)

(* The receiver's half of the station is untouched.                        *)
Kept(l, r) ==
    /\ r.state = l.state /\ r.config = l.config /\ r.busy = l.busy /\ r.vr = l.vr
    /\ r.rx_buf = l.rx_buf /\ r.out = l.out /\ r.written = l.written
    /\ r.ctrl = l.ctrl /\ r.sabmes = l.sabmes
    /\ (r.timer = "negotiate" => l.timer = "negotiate")

(* The sender's half: n frames are freed, or it is rearranged at most.     *)
Moved(l, r, n) ==
    Kept(l, r) /\ r.va = Plus(l.va, n) /\ Acked(r) = Acked(l) + n /\ r.taken = l.taken
Still(l, r) ==
    Kept(l, r) /\ r.va = l.va /\ Acked(r) = Acked(l) /\ r.taken = l.taken

(* What is the same is still.                                              *)
LEMMA SameStill ==
    ASSUME NEW l, NEW r, Same(l, r), r.ctrl = l.ctrl, r.sabmes = l.sabmes
    PROVE  Still(l, r)
BY DEF Same, Still, Kept, Acked

(* Two functions one after the other.                                      *)
LEMMA StillThen ==
    ASSUME NEW l, NEW m, NEW r, NEW n
    PROVE  /\ Still(l, m) /\ Still(m, r) => Still(l, r)
           /\ Still(l, m) /\ Moved(m, r, n) => Moved(l, r, n)
           /\ Moved(l, m, n) /\ Still(m, r) => Moved(l, r, n)
<1>1. Kept(l, m) /\ Kept(m, r) => Kept(l, r)
  BY DEF Kept
<1>. QED  BY <1>1 DEF Still, Moved

(* Arithmetic of the ring: x frames sent and y waiting of t items fetched. *)
LEMMA RingArith ==
    ASSUME NEW x \in Nat, NEW y \in Nat, NEW t \in Nat, x + y <= TxWin, x + y <= t
    PROVE  /\ t - x - y \in Nat /\ t - x - y <= t /\ t <= (t - x - y) + TxWin
           /\ (t - x - y) + x <= t
           /\ t - 0 - (x + y) = t - x - y /\ (t + 1) - x - 1 = t - x - 0
BY LapmAssumption

(* The number of acknowledged items of a good station.                     *)
LEMMA AckedType ==
    ASSUME NEW l, Good(l)
    PROVE  /\ Acked(l) \in Nat /\ Acked(l) <= l.taken /\ l.taken <= Acked(l) + TxWin
           /\ Len(l.sent) \in Nat /\ Len(l.tx) \in Nat /\ l.taken \in Nat
           /\ Acked(l) + Len(l.sent) <= l.taken
<1>1. Len(l.sent) \in Nat /\ Len(l.tx) \in Nat /\ l.taken \in Nat
  BY FieldTypes, LenProperties
<1>2. Len(l.sent) + Len(l.tx) <= TxWin /\ Len(l.sent) + Len(l.tx) <= l.taken
  BY FieldTypes DEF Ring
<1>. QED  BY <1>1, <1>2, RingArith DEF Acked

(* ack_info frees no more frames than the acknowledgement is of, nor more  *)
(* than were sent.                                                         *)
LEMMA AckMoves ==
    ASSUME NEW l, Good(l), NEW nr \in SeqNo
    PROVE  \E n \in Nat : /\ Moved(l, ack_info(l, nr), n)
                          /\ n <= Dist(nr, l.va) /\ Acked(l) + n <= l.taken
<1>. DEFINE n == Freed(l, nr)
            a == [l EXCEPT !.va = Plus(@, n), !.sent = SubSeq(@, n + 1, Len(@))]
<1>1. n \in Nat /\ n <= Len(l.sent) /\ n <= Dist(nr, l.va)
  <2>1. Dist(nr, l.va) \in 0 .. Modulus - 1 /\ Len(l.sent) \in Nat
    BY FieldTypes, DistFacts, LenProperties
  <2>. QED  BY <2>1, LapmAssumption DEF Freed
<1>. HIDE DEF n
<1>2. l \in StationType /\ l.sent \in Seq(Nat)
  BY DEF Good, StationType
<1>3. Len(SubSeq(l.sent, n + 1, Len(l.sent))) = Len(l.sent) - n
  <2>1. Len(l.sent) \in Nat /\ \A i \in n + 1 .. Len(l.sent) : l.sent[i] \in Nat
    BY <1>1, <1>2, LenProperties, ElementOfSeq
  <2>. QED  BY <1>1, <2>1, SubSeqProperties
<1>4. /\ a.va = Plus(l.va, n) /\ a.sent = SubSeq(l.sent, n + 1, Len(l.sent))
      /\ a.tx = l.tx /\ a.taken = l.taken /\ Kept(l, a)
  BY <1>2 DEF StationType, Kept
<1>5. a \in StationType
  <2>1. Plus(l.va, n) \in SeqNo /\ SubSeq(l.sent, n + 1, Len(l.sent)) \in Seq(Nat)
    BY <1>1, FieldTypes, AckRing
  <2>. QED  BY <1>2, <2>1 DEF StationType
<1>. HIDE DEF a
<1>6. Moved(l, a, n)
  BY <1>1, <1>3, <1>4, AckedType DEF Moved, Acked
<1>7. Still(a, T401_START(a)) /\ Still(a, T401_STOP(a))
  BY <1>5, FlagsSame, SameStill
<1>8. Moved(l, T401_START(a), n) /\ Moved(l, T401_STOP(a), n)
  BY <1>6, <1>7, StillThen
<1>9. nr_accepted(l)
  <2>1. Len(l.sent) = Dist(l.vs, l.va) /\ Len(l.sent) + Len(l.tx) <= TxWin
    BY FieldTypes DEF Ring
  <2>. QED  BY <2>1, AckedType, LapmAssumption DEF nr_accepted
<1>10. ack_info(l, nr) \in {T401_START(a), T401_STOP(a), a}
  BY <1>9 DEF ack_info, a, n
<1>11. Moved(l, ack_info(l, nr), n)
  BY <1>6, <1>8, <1>10
<1>12. Acked(l) + n <= l.taken
  BY <1>1, AckedType
<1>. QED  BY <1>1, <1>11, <1>12

(* reject_info rearranges the ring.                                        *)
LEMMA RejectStill ==
    ASSUME NEW l, Good(l)
    PROVE  Still(l, reject_info(l))
<1>1. l \in StationType /\ l.sent \in Seq(Nat) /\ l.tx \in Seq(Nat)
  BY DEF Good, StationType
<1>2. CASE l.state # "DATA"
  BY <1>2 DEF reject_info, Still, Kept
<1>3. CASE l.state = "DATA"
  <2>. DEFINE m == [l EXCEPT !.vs = l.va, !.tx = l.sent \o l.tx, !.sent = <<>>]
  <2>1. /\ m.tx = l.sent \o l.tx /\ m.sent = <<>> /\ m.taken = l.taken
        /\ m.va = l.va /\ Kept(l, m)
    BY <1>1 DEF StationType, Kept
  <2>2. Len(l.sent \o l.tx) = Len(l.sent) + Len(l.tx) /\ Len(<<>>) = 0
    BY <1>1, ConcatProperties, EmptySeq
  <2>. HIDE DEF m
  <2>3. Acked(m) = l.taken - 0 - (Len(l.sent) + Len(l.tx))
    BY <2>1, <2>2 DEF Acked
  <2>4. Len(l.sent) + Len(l.tx) <= TxWin /\ Len(l.sent) + Len(l.tx) <= l.taken
    BY FieldTypes DEF Ring
  <2>5. l.taken - 0 - (Len(l.sent) + Len(l.tx)) = l.taken - Len(l.sent) - Len(l.tx)
    <3>. DEFINE x == Len(l.sent)
                y == Len(l.tx)
                t == l.taken
    <3>1. x \in Nat /\ y \in Nat /\ t \in Nat /\ x + y <= TxWin /\ x + y <= t
      BY <2>4, AckedType
    <3>. HIDE DEF x, y, t
    <3>2. t - 0 - (x + y) = t - x - y
      BY <3>1, RingArith
    <3>. QED  BY <3>2 DEF x, y, t
  <2>6. Acked(m) = Acked(l)
    BY <2>3, <2>5 DEF Acked
  <2>. QED  BY <1>3, <2>1, <2>6 DEF reject_info, Still, m
<1>. QED  BY <1>2, <1>3

(* tx_info may fetch one item that was written.                            *)
Fetched(l, r) ==
    /\ Kept(l, r) /\ r.va = l.va /\ Acked(r) = Acked(l)
    /\ \/ r.taken = l.taken
       \/ r.taken = l.taken + 1 /\ l.taken < l.written

(* tx_info is such a step.                                                 *)
LEMMA TxInfoFetches ==
    ASSUME NEW l, Good(l)
    PROVE  Fetched(l, tx_info(l))
<1>1. CASE ~ tx_fetches(l)
  <2>1. tx_info(l) = l
    BY <1>1 DEF tx_info
  <2>2. Fetched(l, l)
    BY DEF Fetched, Kept
  <2>. QED  BY <2>1, <2>2
<1>2. CASE tx_fetches(l)
  <2>. DEFINE m == [l EXCEPT !.tx = <<l.taken + 1>>, !.taken = @ + 1]
  <2>1. /\ m.tx = <<l.taken + 1>> /\ m.sent = l.sent /\ m.taken = l.taken + 1
        /\ m.va = l.va /\ Kept(l, m)
    BY DEF Good, StationType, Kept
  <2>2. l.tx = <<>> /\ Len(l.tx) = 0 /\ l.taken < l.written
    BY <1>2 DEF tx_fetches
  <2>. HIDE DEF m
  <2>3. Acked(m) = Acked(l)
    BY <2>1, <2>2, AckedType DEF Acked
  <2>. QED  BY <1>2, <2>1, <2>2, <2>3 DEF tx_info, Fetched, m
<1>. QED  BY <1>1, <1>2

(* What processing the frame f in the data state amounts to.               *)
Passed(l, r) ==
    r.vr = l.vr /\ r.out = l.out /\ r.rx_buf = l.rx_buf /\ r.busy = l.busy

Took(l, f, r) ==
    /\ IsInfo(f) /\ f.ns = l.vr /\ ~ l.busy /\ r.vr = Plus(l.vr, 1)
    /\ \/ r.out = Append(l.out, f.data) /\ r.rx_buf = l.rx_buf /\ r.busy = l.busy
       \/ r.out = l.out /\ r.rx_buf = <<f.data>> /\ r.busy

AckedBy(l, f, r) ==
    \E n \in Nat : /\ r.va = Plus(l.va, n) /\ Acked(r) = Acked(l) + n
                   /\ n <= Dist(f.nr, l.va) /\ Acked(l) + n <= l.taken

DataPart(l, f, r) ==
    /\ r.state = "DATA" /\ r.config = l.config /\ r.written = l.written
    /\ r.sabmes = l.sabmes /\ (r.timer = "negotiate" => l.timer = "negotiate")
    /\ AckedBy(l, f, r)
    /\ Passed(l, r) \/ Took(l, f, r)

DataStep(l, f, r) ==
    /\ DataPart(l, f, r) /\ CtrlStep(l, r)
    /\ \/ r.taken = l.taken
       \/ r.taken = l.taken + 1 /\ l.taken < l.written

(* The acknowledgement comes first.                                        *)
LEMMA AckPart ==
    ASSUME NEW l, Good(l), l.state = "DATA", NEW f \in Frame
    PROVE  /\ DataPart(l, f, ack_info(l, f.nr)) /\ Passed(l, ack_info(l, f.nr))
           /\ ack_info(l, f.nr).ctrl = l.ctrl /\ ack_info(l, f.nr).taken = l.taken
<1>. DEFINE a == ack_info(l, f.nr)
<1>1. PICK n \in Nat : Moved(l, a, n) /\ n <= Dist(f.nr, l.va) /\ Acked(l) + n <= l.taken
  BY FrameTypes, AckMoves
<1>. HIDE DEF a
<1>2. AckedBy(l, f, a)
  BY <1>1 DEF Moved, AckedBy
<1>3. Passed(l, a) /\ DataPart(l, f, a) /\ a.ctrl = l.ctrl /\ a.taken = l.taken
  BY <1>1, <1>2 DEF Moved, Kept, Passed, DataPart
<1>. QED  BY <1>3 DEF a

(* What follows it leaves the numbers alone ...                            *)
LEMMA PartStill ==
    ASSUME NEW l, NEW f, NEW m, NEW r, DataPart(l, f, m), Still(m, r)
    PROVE  /\ DataPart(l, f, r) /\ r.ctrl = m.ctrl /\ r.taken = m.taken
           /\ Passed(l, m) => Passed(l, r)
<1>1. AckedBy(l, f, r)
  BY DEF DataPart, AckedBy, Still
<1>2. /\ Passed(l, m) => Passed(l, r)
      /\ Took(l, f, m) => Took(l, f, r)
  BY DEF Passed, Took, Still, Kept
<1>. QED  BY <1>1, <1>2 DEF DataPart, Still, Kept

(* ... queues a frame ...                                                  *)
LEMMA PartQueue ==
    ASSUME NEW l, NEW f, NEW m, NEW r, DataPart(l, f, m), m.ctrl = l.ctrl,
           m.taken = l.taken, Same(m, r), r.sabmes = m.sabmes, CtrlStep(m, r)
    PROVE  DataStep(l, f, r)
<1>1. AckedBy(l, f, r)
  BY DEF DataPart, AckedBy, Same, Acked
<1>2. /\ Passed(l, m) => Passed(l, r)
      /\ Took(l, f, m) => Took(l, f, r)
  BY DEF Passed, Took, Same
<1>3. DataPart(l, f, r) /\ r.taken = l.taken
  BY <1>1, <1>2 DEF DataPart, Same
<1>4. CtrlStep(l, r)
  BY CtrlStepOver DEF DataPart
<1>. QED  BY <1>3, <1>4 DEF DataStep

(* ... or prepares an I frame.                                             *)
LEMMA PartFetch ==
    ASSUME NEW l, NEW f, NEW m, NEW r, DataPart(l, f, m), m.ctrl = l.ctrl,
           m.taken = l.taken, Fetched(m, r)
    PROVE  DataStep(l, f, r)
<1>1. AckedBy(l, f, r)
  BY DEF DataPart, AckedBy, Fetched
<1>2. /\ Passed(l, m) => Passed(l, r)
      /\ Took(l, f, m) => Took(l, f, r)
  BY DEF Passed, Took, Fetched, Kept
<1>3. DataPart(l, f, r)
  BY <1>1, <1>2 DEF DataPart, Fetched, Kept
<1>4. CtrlStep(l, r)
  BY DEF CtrlStep, Fetched, Kept
<1>5. \/ r.taken = l.taken
      \/ r.taken = l.taken + 1 /\ l.taken < l.written
  BY DEF Fetched, DataPart
<1>. QED  BY <1>3, <1>4, <1>5 DEF DataStep

(* Nothing, likewise.                                                      *)
LEMMA PartDone ==
    ASSUME NEW l, NEW f, NEW m, DataPart(l, f, m), m.ctrl = l.ctrl, m.taken = l.taken
    PROVE  DataStep(l, f, m)
BY DEF DataStep, CtrlStep

(* rx_accept takes the item.                                               *)
LEMMA PartAccept ==
    ASSUME NEW l, NEW m, NEW f \in Frame, NEW room \in BOOLEAN, Good(m),
           DataPart(l, f, m), Passed(l, m), IsInfo(f), f.ns = m.vr, ~ m.busy
    PROVE  /\ DataPart(l, f, rx_accept(m, f.data, room))
           /\ rx_accept(m, f.data, room).ctrl = m.ctrl
           /\ rx_accept(m, f.data, room).taken = m.taken
<1>. DEFINE r == rx_accept(m, f.data, room)
            u == [m EXCEPT !.reject = FALSE, !.out = Append(@, f.data),
                           !.vr = Plus(@, 1)]
            w == [m EXCEPT !.reject = FALSE, !.rx_buf = <<f.data>>,
                           !.vr = Plus(@, 1), !.busy = TRUE, !.push = TRUE]
<1>0. m \in StationType
  BY DEF Good
<1>1. /\ u.state = m.state /\ u.config = m.config /\ u.written = m.written
      /\ u.sabmes = m.sabmes /\ u.timer = m.timer /\ u.va = m.va
      /\ u.sent = m.sent /\ u.tx = m.tx /\ u.taken = m.taken /\ u.ctrl = m.ctrl
      /\ u.vr = Plus(m.vr, 1) /\ u.out = Append(m.out, f.data)
      /\ u.rx_buf = m.rx_buf /\ u.busy = m.busy
  BY <1>0 DEF StationType
<1>2. /\ w.state = m.state /\ w.config = m.config /\ w.written = m.written
      /\ w.sabmes = m.sabmes /\ w.timer = m.timer /\ w.va = m.va
      /\ w.sent = m.sent /\ w.tx = m.tx /\ w.taken = m.taken /\ w.ctrl = m.ctrl
      /\ w.vr = Plus(m.vr, 1) /\ w.out = m.out
      /\ w.rx_buf = <<f.data>> /\ w.busy
  BY <1>0 DEF StationType
<1>3. r = u \/ r = w
  BY DEF rx_accept
<1>. HIDE DEF r, u, w
<1>4. Took(l, f, u) /\ Took(l, f, w)
  BY <1>1, <1>2 DEF Passed, Took
<1>5. AckedBy(l, f, u) /\ AckedBy(l, f, w)
  BY <1>1, <1>2 DEF AckedBy, Acked, DataPart
<1>6. DataPart(l, f, u) /\ DataPart(l, f, w)
  BY <1>1, <1>2, <1>4, <1>5 DEF DataPart
<1>7. DataPart(l, f, r) /\ r.ctrl = m.ctrl /\ r.taken = m.taken
  BY <1>1, <1>2, <1>3, <1>6
<1>. QED  BY <1>7 DEF r

(* rx_info.                                                                *)
LEMMA RxInfoStep ==
    ASSUME NEW l, Good(l), l.state = "DATA", NEW f \in Frame, IsInfo(f),
           NEW room \in BOOLEAN
    PROVE  DataStep(l, f, rx_info(l, f, room))
<1>. DEFINE a == ack_info(l, f.nr)
            r == rx_accept(a, f.data, room)
            j == tx_super(a, "REJ", FALSE, f.pf)
<1>0. "RR" \in SKind /\ "RNR" \in SKind /\ "REJ" \in SKind /\ f.pf \in BOOLEAN
  BY FrameTypes DEF SKind
<1>1. DataPart(l, f, a) /\ Passed(l, a) /\ a.ctrl = l.ctrl /\ a.taken = l.taken /\ Good(a)
  BY AckPart, AckGood, FrameTypes
<1>2. rx_info(l, f, room) =
        IF a.busy THEN IF f.pf THEN tx_super(a, "RNR", FALSE, TRUE) ELSE a
        ELSE IF f.ns # a.vr
        THEN IF a.reject THEN a ELSE [j EXCEPT !.reject = TRUE]
        ELSE IF r.busy THEN tx_super(r, "RNR", FALSE, f.pf)
        ELSE IF r.peer_busy \/ f.pf \/ ~ tx_info_ready(r)
        THEN tx_super(r, "RR", FALSE, f.pf)
        ELSE tx_info(r)
  BY Zenon DEF rx_info
<1>. HIDE DEF a
<1>3. CASE a.busy \/ f.ns # a.vr
  <2>1. DataStep(l, f, a)
    BY <1>1, PartDone
  <2>2. a.state = "DATA"
    BY <1>1 DEF DataPart
  <2>3. DataStep(l, f, tx_super(a, "RNR", FALSE, TRUE)) /\ DataStep(l, f, j)
    <3>1. /\ Same(a, j) /\ j.sabmes = a.sabmes /\ CtrlStep(a, j)
      BY <1>0, <1>1, <2>2, TxSuperStep
    <3>2. /\ Same(a, tx_super(a, "RNR", FALSE, TRUE))
          /\ tx_super(a, "RNR", FALSE, TRUE).sabmes = a.sabmes
          /\ CtrlStep(a, tx_super(a, "RNR", FALSE, TRUE))
      BY <1>0, <1>1, <2>2, TxSuperStep
    <3>. HIDE DEF j
    <3>. QED  BY <1>1, <3>1, <3>2, PartQueue
  <2>4. Good(j)
    BY <1>0, <1>1, TxSuperGood
  <2>. HIDE DEF j
  <2>5. DataStep(l, f, [j EXCEPT !.reject = TRUE])
    <3>1. Still(j, [j EXCEPT !.reject = TRUE])
      BY <2>4, FlagsSame, SameStill DEF Good
    <3>2. DataPart(l, f, [j EXCEPT !.reject = TRUE]) /\ [j EXCEPT !.reject = TRUE].taken = j.taken
      BY <2>3, <3>1, PartStill DEF DataStep
    <3>3. CtrlStep(l, [j EXCEPT !.reject = TRUE])
      BY <2>3, <3>1, CtrlStepThen DEF DataStep, Still, Kept
    <3>. QED  BY <2>3, <3>2, <3>3 DEF DataStep
  <2>6. rx_info(l, f, room) \in {a, tx_super(a, "RNR", FALSE, TRUE), [j EXCEPT !.reject = TRUE]}
    BY <1>2, <1>3, Zenon
  <2>. QED  BY <2>1, <2>3, <2>5, <2>6
<1>4. CASE ~ (a.busy \/ f.ns # a.vr)
  <2>1. DataPart(l, f, r) /\ r.ctrl = l.ctrl /\ r.taken = l.taken
    BY <1>1, <1>4, PartAccept
  <2>2. Good(r)
    BY <1>1, RxAcceptGood, FrameTypes
  <2>. HIDE DEF r
  <2>3. r.state = "DATA"
    BY <2>1 DEF DataPart
  <2>4. DataStep(l, f, tx_super(r, "RNR", FALSE, f.pf))
    <3>1. /\ Same(r, tx_super(r, "RNR", FALSE, f.pf))
          /\ tx_super(r, "RNR", FALSE, f.pf).sabmes = r.sabmes
          /\ CtrlStep(r, tx_super(r, "RNR", FALSE, f.pf))
      BY <1>0, <2>2, <2>3, TxSuperStep
    <3>. QED  BY <2>1, <3>1, PartQueue
  <2>5. DataStep(l, f, tx_super(r, "RR", FALSE, f.pf))
    <3>1. /\ Same(r, tx_super(r, "RR", FALSE, f.pf))
          /\ tx_super(r, "RR", FALSE, f.pf).sabmes = r.sabmes
          /\ CtrlStep(r, tx_super(r, "RR", FALSE, f.pf))
      BY <1>0, <2>2, <2>3, TxSuperStep
    <3>. QED  BY <2>1, <3>1, PartQueue
  <2>6. DataStep(l, f, tx_info(r))
    BY <2>1, <2>2, TxInfoFetches, PartFetch
  <2>7. rx_info(l, f, room) \in {tx_super(r, "RNR", FALSE, f.pf),
                                 tx_super(r, "RR", FALSE, f.pf), tx_info(r)}
    BY <1>2, <1>4, Zenon
  <2>. QED  BY <2>4, <2>5, <2>6, <2>7
<1>. QED  BY <1>3, <1>4

(* tx_ready, in the data state.                                            *)
LEMMA TxReadyStep ==
    ASSUME NEW l, Good(l), l.state = "DATA", NEW cmd \in BOOLEAN, NEW pf \in BOOLEAN
    PROVE  /\ Same(l, tx_ready(l, cmd, pf)) /\ tx_ready(l, cmd, pf).sabmes = l.sabmes
           /\ CtrlStep(l, tx_ready(l, cmd, pf))
<1>. DEFINE k == IF l.busy THEN "RNR" ELSE "RR"
<1>1. k \in SKind
  BY DEF SKind
<1>2. tx_ready(l, cmd, pf) = tx_super(l, k, cmd, pf)
  BY DEF tx_ready
<1>. HIDE DEF k
<1>. QED  BY <1>1, <1>2, TxSuperStep

(* The two handlers of supervisory frames.                                 *)
LEMMA RxSuperStep ==
    ASSUME NEW l, Good(l), l.state = "DATA", NEW f \in Frame
    PROVE  DataStep(l, f, rx_super_cmd(l, f)) /\ DataStep(l, f, rx_super_rsp(l, f))
<1>. DEFINE b == [l EXCEPT !.peer_busy = (f.kind = "RNR")]
            a == ack_info(b, f.nr)
            stop == T401_STOP(a)
            j == reject_info(stop)
            back == reject_info(a)
            k == T401_STOP(back)
<1>0. f.pf \in BOOLEAN /\ (f.kind = "RNR") \in BOOLEAN
  BY FrameTypes
<1>1. Good(b) /\ Same(l, b) /\ b.ctrl = l.ctrl /\ b.sabmes = l.sabmes
  BY <1>0, FlagsGood, FlagsSame DEF Good
<1>. HIDE DEF b
<1>2. b.state = "DATA" /\ Still(l, b)
  BY <1>1, SameStill DEF Same
<1>3. DataPart(b, f, a) /\ a.ctrl = b.ctrl /\ a.taken = b.taken /\ Good(a) /\ Passed(b, a)
  BY <1>1, <1>2, AckPart, AckGood, FrameTypes
<1>. HIDE DEF a
<1>4. DataPart(l, f, a) /\ a.ctrl = l.ctrl /\ a.taken = l.taken
  <2>1. AckedBy(l, f, a)
    BY <1>2, <1>3 DEF DataPart, AckedBy, Still
  <2>2. Passed(l, a)
    BY <1>2, <1>3 DEF Passed, Still, Kept
  <2>. QED  BY <1>2, <1>3, <2>1, <2>2 DEF DataPart, Still, Kept
<1>5. Good(stop) /\ Still(a, stop)
  BY <1>0, <1>3, FlagsGood, FlagsSame, SameStill DEF Good
<1>6. Good(back) /\ Still(a, back)
  BY <1>3, RejectGood, RejectStill
<1>. HIDE DEF stop, back
<1>7. Good(j) /\ Still(a, j)
  BY <1>5, RejectGood, RejectStill, StillThen
<1>8. Good(k) /\ Still(a, k)
  <2>1. Good(k) /\ Still(back, k)
    BY <1>0, <1>6, FlagsGood, FlagsSame, SameStill DEF Good
  <2>. QED  BY <1>6, <2>1, StillThen
<1>. HIDE DEF j, k
<1>9. ASSUME NEW r \in {a, j, k}
      PROVE  Good(r) /\ DataPart(l, f, r) /\ r.ctrl = l.ctrl /\ r.taken = l.taken
  BY <1>3, <1>4, <1>7, <1>8, <1>9, PartStill
<1>10. ASSUME NEW r \in {a, j, k}
       PROVE  /\ DataStep(l, f, r) /\ DataStep(l, f, tx_info(r))
              /\ \A q \in BOOLEAN : DataStep(l, f, tx_ready(r, FALSE, q))
              /\ DataStep(l, f, T401_START(r))
  <2>1. Good(r) /\ DataPart(l, f, r) /\ r.ctrl = l.ctrl /\ r.taken = l.taken
    BY <1>9
  <2>2. DataStep(l, f, r) /\ DataStep(l, f, tx_info(r))
    BY <2>1, PartDone, TxInfoFetches, PartFetch
  <2>3. ASSUME NEW q \in BOOLEAN PROVE DataStep(l, f, tx_ready(r, FALSE, q))
    <3>1. r.state = "DATA"
      BY <2>1 DEF DataPart
    <3>2. /\ Same(r, tx_ready(r, FALSE, q)) /\ tx_ready(r, FALSE, q).sabmes = r.sabmes
          /\ CtrlStep(r, tx_ready(r, FALSE, q))
      BY <2>1, <3>1, TxReadyStep
    <3>. QED  BY <2>1, <3>2, PartQueue
  <2>4. Still(r, T401_START(r))
    BY <2>1, FlagsSame, SameStill DEF Good
  <2>5. DataStep(l, f, T401_START(r))
    BY <2>1, <2>4, PartStill, PartDone
  <2>. QED  BY <2>2, <2>3, <2>5
<1>11. DataStep(l, f, rx_super_cmd(l, f))
  <2>1. rx_super_cmd(l, f) \in
          {a, tx_ready(a, FALSE, TRUE), tx_ready(a, FALSE, f.pf), tx_ready(j, FALSE, f.pf),
           tx_info(a), tx_info(j)}
    BY DEF rx_super_cmd, j, stop, a, b
  <2>. QED  BY <1>0, <1>10, <2>1
<1>12. DataStep(l, f, rx_super_rsp(l, f))
  <2>1. rx_super_rsp(l, f) \in {l, a, k, T401_START(a), T401_START(k)}
    BY DEF rx_super_rsp, k, back, a, b
  <2>2. DataStep(l, f, l)
    <3>1. 0 \in Nat /\ l.va = Plus(l.va, 0) /\ Acked(l) = Acked(l) + 0
          /\ 0 <= Dist(f.nr, l.va) /\ Acked(l) + 0 <= l.taken
      BY FieldTypes, FrameTypes, AckedType, DistFacts, PlusFacts, LapmAssumption
    <3>2. AckedBy(l, f, l)
      BY <3>1 DEF AckedBy
    <3>. QED  BY <3>2 DEF DataStep, DataPart, CtrlStep, Passed
  <2>. QED  BY <1>10, <2>1, <2>2
<1>. QED  BY <1>11, <1>12

-----------------------------------------------------------------------------
(* Steps of a station.                                                     *)

(* What is true of the station at p by itself.  Only the caller sends      *)
(* SABME, and once it has one out it has left the exchange of XIDs; before *)
(* it is connected it neither sends nor receives an item.                  *)
Sound(p, l) ==
    /\ Recd(l) = <<>> => l.vr = 0
    /\ l.taken = 0 => l.va = 0
    /\ l.taken <= l.written
    /\ Len(l.rx_buf) <= 1
    /\ l.state = "DATA" /\ l.rx_buf # <<>> => l.busy
    /\ p = "answerer" =>
         l.state # "ESTAB" /\ ~ l.config /\ l.timer # "negotiate" /\ l.sabmes = 0
    /\ p = "caller" =>
         /\ l.timer = "negotiate" \/ l.config => l.sabmes = 0
         /\ l.sabmes = 0 => l.state \in {"IDLE", "DISC"}
         /\ l.sabmes = 0 \/ l.state = "ESTAB" => l.taken = 0 /\ Recd(l) = <<>>

(* The sender's half on receiving f: n frames are freed, no more than f    *)
(* acknowledges, or all are given up, after which it sends again only if f *)
(* set the link up anew.                                                   *)
SendStep(l, f, r) ==
    \/ /\ \E n \in Nat : /\ r.va = Plus(l.va, n) /\ Acked(r) = Acked(l) + n
                         /\ Acked(l) + n <= l.taken
                         /\ n > 0 => Numbered(f) /\ n <= Dist(f.nr, l.va)
       /\ r.taken = l.taken \/ r.taken = l.taken + 1
       /\ Live(r) => Live(l)
    \/ /\ r.taken = l.taken /\ Acked(r) = r.taken /\ l.taken > 0
       /\ Live(r) => f.kind = "SABME"

(* The receiver's half: it takes the item of f, the one it expects, or     *)
(* nothing.                                                                *)
RecvKept(l, r) ==
    /\ r.out = l.out /\ r.rx_buf = l.rx_buf
    /\ Open(r) => Open(l) /\ r.vr = l.vr

RecvTook(l, f, r) ==
    /\ IsInfo(f) /\ Open(l) /\ f.ns = l.vr /\ r.vr = Plus(l.vr, 1)
    /\ l.rx_buf = <<>> /\ r.state = "DATA"
    /\ \/ r.out = Append(l.out, f.data) /\ r.rx_buf = <<>>
       \/ r.out = l.out /\ r.rx_buf = <<f.data>>

(* The answerer is raised by a SABME only.                                 *)
Raised(l) == l.taken > 0 \/ l.state = "DATA"

RxStep(p, l, f, r) ==
    /\ Sound(p, r) /\ CtrlStep(l, r) /\ r.written = l.written
    /\ r.sabmes = l.sabmes \/ r.sabmes = l.sabmes + 1
    /\ SendStep(l, f, r)
    /\ RecvKept(l, r) \/ RecvTook(l, f, r)
    /\ p = "answerer" /\ Raised(r) => Raised(l) \/ f.kind = "SABME"

(* The types of the fields that the receiver's half depends on.            *)
LEMMA RecdTypes ==
    ASSUME NEW l, Good(l)
    PROVE  /\ l.out \in Seq(Nat) /\ l.rx_buf \in Seq(Nat) /\ Recd(l) \in Seq(Nat)
           /\ l.vr \in SeqNo /\ LastRecd(l) \in Nat /\ Len(Recd(l)) \in Nat
           /\ l.written \in Nat /\ l.sabmes \in Nat /\ l.ctrl \in Seq(Frame)
           /\ l.config \in BOOLEAN /\ l.state \in LapmState
           /\ Recd(l) = <<>> <=> l.out = <<>> /\ l.rx_buf = <<>>
<1>1. /\ l.out \in Seq(Nat) /\ l.rx_buf \in Seq(Nat) /\ l.vr \in SeqNo
      /\ l.written \in Nat /\ l.sabmes \in Nat /\ l.ctrl \in Seq(Frame)
      /\ l.config \in BOOLEAN /\ l.state \in LapmState
  BY DEF Good, StationType
<1>2. Recd(l) \in Seq(Nat) /\ (Recd(l) = <<>> <=> l.out = <<>> /\ l.rx_buf = <<>>)
  BY <1>1, ConcatProperties, ConcatEqualIffEmpty DEF Recd
<1>3. Len(Recd(l)) \in Nat
  BY <1>2, LenProperties
<1>4. LastRecd(l) \in Nat
  <2>1. CASE Recd(l) = <<>>
    BY <2>1 DEF LastRecd
  <2>2. CASE Recd(l) # <<>>
    <3>1. Len(Recd(l)) \in 1 .. Len(Recd(l))
      BY <1>2, <1>3, <2>2, EmptySeq
    <3>. QED  BY <1>2, <2>2, <3>1, ElementOfSeq DEF LastRecd
  <2>. QED  BY <2>1, <2>2
<1>. QED  BY <1>1, <1>2, <1>3, <1>4

(* Functions that leave data alone: at most the link is ended.             *)
Local(l, r) ==
    /\ r.va = l.va /\ r.vr = l.vr /\ r.sent = l.sent /\ r.tx = l.tx
    /\ r.taken = l.taken /\ r.written = l.written /\ r.rx_buf = l.rx_buf
    /\ r.out = l.out
    /\ \/ r.state = l.state /\ r.busy = l.busy
       \/ r.state \in {"IDLE", "DISC"}
    /\ (r.config => l.config) /\ (r.timer = "negotiate" => l.timer = "negotiate")

(* They keep both halves of a station.                                     *)
LEMMA LocalHalves ==
    ASSUME NEW l, Good(l), NEW r, Local(l, r), NEW f
    PROVE  /\ SendStep(l, f, r) /\ RecvKept(l, r) /\ (Raised(r) => Raised(l))
           /\ Acked(r) = Acked(l) /\ (Live(r) => Live(l))
<1>1. Recd(r) = Recd(l) /\ Acked(r) = Acked(l)
  BY DEF Local, Recd, Acked
<1>2. (r.state = "DATA" => l.state = "DATA") /\ r.taken = l.taken
  BY DEF Local
<1>3. RecvKept(l, r) /\ (Live(r) => Live(l)) /\ (Raised(r) => Raised(l))
  BY <1>1, <1>2 DEF Local, RecvKept, Open, Live, Raised
<1>4. /\ 0 \in Nat /\ r.va = Plus(l.va, 0) /\ Acked(r) = Acked(l) + 0
      /\ Acked(l) + 0 <= l.taken /\ ~ (0 > 0)
  <2>1. r.va = l.va /\ l.va \in SeqNo /\ Plus(l.va, 0) = l.va
    BY FieldTypes, PlusFacts, LapmAssumption DEF Local
  <2>. QED  BY <1>1, <2>1, AckedType
<1>5. SendStep(l, f, r)
  BY <1>2, <1>3, <1>4 DEF SendStep
<1>. QED  BY <1>1, <1>3, <1>5

(* They keep a station sound, and so does a SABME sent again.              *)
LEMMA LocalSound ==
    ASSUME NEW p \in Station, NEW l, Good(l), Sound(p, l), NEW r, Local(l, r),
           \/ r.sabmes = l.sabmes
           \/ r.sabmes = l.sabmes + 1 /\ l.state = "ESTAB"
    PROVE  Sound(p, r)
<1>1. Recd(r) = Recd(l)
  BY DEF Local, Recd
<1>2. l.sabmes \in Nat /\ p \in {"caller", "answerer"}
  BY RecdTypes DEF Station
<1>3. CASE r.sabmes = l.sabmes
  BY <1>1, <1>3 DEF Local, Sound
<1>4. CASE r.sabmes = l.sabmes + 1 /\ l.state = "ESTAB"
  <2>1. p = "caller" /\ l.sabmes # 0 /\ ~ l.config /\ l.timer # "negotiate" /\ r.sabmes # 0
        /\ l.taken = 0 /\ Recd(l) = <<>>
    BY <1>2, <1>4 DEF Sound
  <2>. QED  BY <1>1, <1>2, <1>4, <2>1 DEF Local, Sound
<1>. QED  BY <1>3, <1>4

(* Such a function as the answer to a frame.                               *)
LEMMA LocalRx ==
    ASSUME NEW p \in Station, NEW l, Good(l), Sound(p, l), NEW r, Local(l, r),
           r.sabmes = l.sabmes, CtrlStep(l, r), NEW f
    PROVE  RxStep(p, l, f, r)
BY LocalSound, LocalHalves DEF RxStep, Local

(* What is the same is local.                                              *)
LEMMA SameLocal ==
    ASSUME NEW l, NEW m, NEW r
    PROVE  /\ Same(l, r) => Local(l, r)
           /\ Local(l, m) /\ Same(m, r) => Local(l, r)
           /\ Same(l, m) /\ Local(m, r) => Local(l, r)
BY DEF Same, Local

-----------------------------------------------------------------------------
(* reset with a change of state.                                           *)

Wiped(l, r, s) ==
    /\ r.state = s /\ r.va = 0 /\ r.vr = 0 /\ r.sent = <<>> /\ r.tx = <<>>
    /\ r.taken = l.taken /\ r.written = l.written /\ r.rx_buf = l.rx_buf
    /\ r.out = l.out
    /\ (r.config => l.config) /\ (r.timer = "negotiate" => l.timer = "negotiate")

(* reset before or after the change of state.                              *)
LEMMA ResetWipes ==
    ASSUME NEW l \in StationType, NEW s
    PROVE  \A r \in {[reset(l) EXCEPT !.state = s], reset([l EXCEPT !.state = s])} :
              Wiped(l, r, s) /\ r.ctrl = l.ctrl /\ r.sabmes = l.sabmes
<1>1. LET r == [reset(l) EXCEPT !.state = s]
      IN  Wiped(l, r, s) /\ r.ctrl = l.ctrl /\ r.sabmes = l.sabmes
  BY DEF StationType, reset, Wiped
<1>2. LET r == reset([l EXCEPT !.state = s])
      IN  Wiped(l, r, s) /\ r.ctrl = l.ctrl /\ r.sabmes = l.sabmes
  BY DEF StationType, reset, Wiped
<1>. QED  BY <1>1, <1>2

(* Together with what leaves data alone.                                   *)
LEMMA WipedSame ==
    ASSUME NEW l, NEW m, NEW r, NEW s
    PROVE  /\ Wiped(l, m, s) /\ Same(m, r) => Wiped(l, r, s)
           /\ Same(l, m) /\ Wiped(m, r, s) => Wiped(l, r, s)
BY DEF Same, Wiped

(* The numbers after it.                                                   *)
LEMMA WipedNumbers ==
    ASSUME NEW p, NEW l, Good(l), Sound(p, l), NEW r, NEW s, Wiped(l, r, s)
    PROVE  /\ Recd(r) = Recd(l) /\ Acked(r) = r.taken /\ r.taken = l.taken
           /\ l.taken \in Nat
           /\ l.taken = 0 => r.va = l.va /\ Acked(r) = Acked(l) /\ Acked(l) = 0
           /\ Recd(l) = <<>> => r.vr = l.vr
<1>1. Recd(r) = Recd(l) /\ r.taken = l.taken
  BY DEF Wiped, Recd
<1>2. l.taken \in Nat /\ Acked(l) \in Nat /\ Acked(l) <= l.taken
  BY AckedType
<1>3. Len(r.sent) = 0 /\ Len(r.tx) = 0
  BY EmptySeq DEF Wiped
<1>4. Acked(r) = r.taken
  <2>1. Acked(r) = l.taken - 0 - 0
    BY <1>1, <1>3 DEF Acked
  <2>. QED  BY <1>1, <1>2, <2>1
<1>5. l.taken = 0 => r.va = l.va
  BY DEF Sound, Wiped
<1>6. l.taken = 0 => Acked(r) = Acked(l) /\ Acked(l) = 0
  BY <1>1, <1>2, <1>4
<1>7. Recd(l) = <<>> => r.vr = l.vr
  BY DEF Sound, Wiped
<1>. QED  BY <1>1, <1>2, <1>4, <1>5, <1>6, <1>7

(* The sender's half.                                                      *)
LEMMA WipedSends ==
    ASSUME NEW p, NEW l, Good(l), Sound(p, l), NEW r, NEW s, Wiped(l, r, s), NEW f,
           s = "DATA" /\ l.taken > 0 => f.kind = "SABME"
    PROVE  SendStep(l, f, r)
<1>1. CASE l.taken = 0
  <2>1. r.va = l.va /\ Acked(r) = Acked(l) /\ Acked(l) = 0 /\ r.taken = l.taken
    BY <1>1, WipedNumbers
  <2>2. l.va = Plus(l.va, 0)
    BY FieldTypes, PlusFacts, LapmAssumption
  <2>3. /\ 0 \in Nat /\ r.va = Plus(l.va, 0) /\ Acked(r) = Acked(l) + 0
        /\ Acked(l) + 0 <= l.taken /\ ~ (0 > 0)
    BY <1>1, <2>1, <2>2
  <2>. QED  BY <1>1, <2>1, <2>3 DEF SendStep, Live
<1>2. CASE l.taken # 0
  <2>1. r.taken = l.taken /\ Acked(r) = r.taken /\ l.taken > 0 /\ l.taken \in Nat
    BY <1>2, WipedNumbers
  <2>. QED  BY <1>2, <2>1 DEF SendStep, Live, Wiped
<1>. QED  BY <1>1, <1>2

(* The link is released ...                                                *)
LEMMA WipedIdle ==
    ASSUME NEW p \in Station, NEW l, Good(l), Sound(p, l), NEW r, Wiped(l, r, "IDLE"),
           r.sabmes = l.sabmes, CtrlStep(l, r), NEW f
    PROVE  RxStep(p, l, f, r)
<1>1. SendStep(l, f, r)
  BY WipedSends
<1>2. Recd(r) = Recd(l) /\ r.taken = l.taken /\ (Recd(l) = <<>> => r.vr = l.vr)
  BY WipedNumbers
<1>3. RecvKept(l, r)
  BY <1>2 DEF RecvKept, Open, Wiped
<1>4. Sound(p, r)
  BY <1>2 DEF Sound, Wiped
<1>5. Raised(r) => Raised(l)
  BY <1>2 DEF Raised, Wiped
<1>. QED  BY <1>1, <1>3, <1>4, <1>5 DEF RxStep, Wiped

(* ... or set up: by the caller that asked for it, or by the answerer that *)
(* has received nothing yet.                                               *)
LEMMA WipedData ==
    ASSUME NEW p \in Station, NEW l, Good(l), Sound(p, l), NEW r, Wiped(l, r, "DATA"),
           r.sabmes = l.sabmes, CtrlStep(l, r), NEW f,
           \/ l.state = "ESTAB"
           \/ p = "answerer" /\ f.kind = "SABME" /\ Recd(l) = <<>>
    PROVE  RxStep(p, l, f, r)
<1>0. p \in {"caller", "answerer"} /\ l.taken \in Nat
  BY WipedNumbers DEF Station
<1>1. Recd(l) = <<>> /\ (l.taken > 0 => f.kind = "SABME")
  BY <1>0 DEF Sound
<1>2. SendStep(l, f, r)
  BY <1>1, WipedSends
<1>3. Recd(r) = Recd(l) /\ r.taken = l.taken /\ r.vr = l.vr
  BY <1>1, WipedNumbers
<1>4. RecvKept(l, r)
  BY <1>1, <1>3 DEF RecvKept, Open, Wiped
<1>5. r.rx_buf = <<>>
  BY <1>1, RecdTypes DEF Wiped
<1>6. p = "caller" => l.sabmes # 0
  BY DEF Sound
<1>7. Sound(p, r)
  BY <1>0, <1>1, <1>3, <1>5, <1>6 DEF Sound, Wiped
<1>8. p = "answerer" => f.kind = "SABME"
  BY DEF Sound
<1>. QED  BY <1>2, <1>4, <1>7, <1>8 DEF RxStep, Wiped

(* The caller sends its first SABME.                                       *)
LEMMA WipedConnect ==
    ASSUME NEW p \in Station, NEW l, Good(l), Sound(p, l), l.config,
           NEW r, Wiped(l, r, "ESTAB"), ~ r.config, r.timer # "negotiate",
           r.sabmes = l.sabmes + 1, CtrlStep(l, r), NEW f
    PROVE  RxStep(p, l, f, r)
<1>0. p = "caller" /\ l.sabmes = 0 /\ l.taken = 0 /\ Recd(l) = <<>>
  BY DEF Sound, Station
<1>1. SendStep(l, f, r)
  BY WipedSends
<1>2. Recd(r) = Recd(l) /\ r.taken = l.taken /\ r.vr = l.vr
  BY <1>0, WipedNumbers
<1>3. RecvKept(l, r)
  BY <1>0, <1>2 DEF RecvKept, Open, Wiped
<1>4. Sound(p, r)
  BY <1>0, <1>2 DEF Sound, Wiped
<1>. QED  BY <1>0, <1>1, <1>3, <1>4 DEF RxStep, Wiped

-----------------------------------------------------------------------------
(* The frame handlers.                                                     *)

(* A numbered frame in the data state.                                     *)
LEMMA DataRx ==
    ASSUME NEW p \in Station, NEW l, Good(l), Sound(p, l), l.state = "DATA",
           NEW f \in Frame, Numbered(f), NEW r, DataStep(l, f, r)
    PROVE  RxStep(p, l, f, r)
<1>0. /\ r.state = "DATA" /\ r.config = l.config /\ r.written = l.written
      /\ r.sabmes = l.sabmes /\ (r.timer = "negotiate" => l.timer = "negotiate")
      /\ Passed(l, r) \/ Took(l, f, r)
      /\ \/ r.taken = l.taken
         \/ r.taken = l.taken + 1 /\ l.taken < l.written
      /\ CtrlStep(l, r)
  BY DEF DataStep, DataPart
<1>1. PICK n \in Nat : /\ r.va = Plus(l.va, n) /\ Acked(r) = Acked(l) + n
                       /\ n <= Dist(f.nr, l.va) /\ Acked(l) + n <= l.taken
  BY DEF DataStep, DataPart, AckedBy
<1>2. SendStep(l, f, r)
  BY <1>0, <1>1 DEF SendStep, Live
<1>3. l.taken \in Nat /\ l.written \in Nat /\ Acked(l) \in Nat
  BY AckedType, RecdTypes
<1>4. r.taken = 0 => r.va = 0
  <2>. SUFFICES ASSUME r.taken = 0 PROVE r.va = 0
    OBVIOUS
  <2>1. l.taken = 0 /\ n = 0
    BY <1>0, <1>1, <1>3
  <2>2. l.va = 0 /\ Plus(l.va, 0) = l.va
    BY <2>1, FieldTypes, PlusFacts, LapmAssumption DEF Sound
  <2>. QED  BY <1>1, <2>1, <2>2
<1>5. r.taken <= r.written
  BY <1>0, <1>3 DEF Sound
<1>6. p = "caller" => l.sabmes # 0
  BY DEF Sound
<1>7. CASE Passed(l, r)
  <2>1. Recd(r) = Recd(l)
    BY <1>7 DEF Passed, Recd
  <2>2. RecvKept(l, r)
    BY <1>7, <2>1 DEF Passed, RecvKept, Open
  <2>3. Sound(p, r)
    BY <1>0, <1>4, <1>5, <1>6, <1>7, <2>1 DEF Sound, Passed
  <2>. QED  BY <1>0, <1>2, <2>2, <2>3 DEF RxStep, Raised
<1>8. CASE Took(l, f, r)
  <2>1. l.rx_buf = <<>> /\ Len(<<>>) = 0
    BY <1>8, EmptySeq DEF Took, Sound
  <2>2. RecvTook(l, f, r)
    BY <1>0, <1>8, <2>1 DEF Took, RecvTook, Open
  <2>3. l.out \in Seq(Nat) /\ f.data \in Nat
    BY RecdTypes, FrameTypes
  <2>4. Append(l.out, f.data) \in Seq(Nat) /\ Append(l.out, f.data) # <<>>
    BY <2>3, AppendProperties
  <2>5. <<f.data>> \in Seq(Nat) /\ <<f.data>> # <<>> /\ Len(<<f.data>>) = 1
    BY <2>3
  <2>6. r.out \in Seq(Nat) /\ r.rx_buf \in Seq(Nat) /\ (r.out # <<>> \/ r.rx_buf # <<>>)
        /\ Len(r.rx_buf) <= 1 /\ (r.rx_buf # <<>> => r.busy)
    <3>1. CASE r.out = Append(l.out, f.data) /\ r.rx_buf = l.rx_buf
      BY <2>1, <2>3, <2>4, <3>1, EmptySeq
    <3>2. CASE r.out = l.out /\ r.rx_buf = <<f.data>> /\ r.busy
      BY <2>3, <2>5, <3>2
    <3>. QED  BY <1>8, <3>1, <3>2 DEF Took
  <2>7. Recd(r) # <<>>
    BY <2>6, ConcatEqualIffEmpty DEF Recd
  <2>8. Sound(p, r)
    BY <1>0, <1>4, <1>5, <1>6, <2>6, <2>7 DEF Sound
  <2>. QED  BY <1>0, <1>2, <2>2, <2>8 DEF RxStep, Raised
<1>. QED  BY <1>0, <1>7, <1>8

(* The same after valid_data_state has connected a station that was        *)
(* establishing: it had neither sent nor received an item.                 *)
LEMMA EstabRx ==
    ASSUME NEW p \in Station, NEW l, Good(l), Sound(p, l), l.state = "ESTAB",
           NEW v, Good(v), Wiped(l, v, "DATA"), v.ctrl = l.ctrl, v.sabmes = l.sabmes,
           NEW f \in Frame, Numbered(f), NEW r, DataStep(v, f, r)
    PROVE  RxStep(p, l, f, r)
<1>0. p = "caller" /\ l.taken = 0 /\ Recd(l) = <<>>
  BY DEF Sound, Station
<1>1. /\ v.taken = l.taken /\ v.va = l.va /\ Acked(v) = Acked(l) /\ v.vr = l.vr
      /\ Recd(v) = Recd(l) /\ v.out = l.out /\ v.rx_buf = l.rx_buf
      /\ v.written = l.written /\ v.state = "DATA"
  BY <1>0, WipedNumbers DEF Wiped
<1>2. RxStep(p, l, f, v)
  BY WipedData DEF CtrlStep
<1>3. Sound(p, v)
  BY <1>2 DEF RxStep
<1>4. RxStep(p, v, f, r)
  BY <1>1, <1>3, DataRx
<1>5. SendStep(l, f, r)
  <2>1. Live(l) /\ ~ (v.taken > 0)
    BY <1>0, <1>1 DEF Live
  <2>. QED  BY <1>1, <1>4, <2>1 DEF RxStep, SendStep
<1>6. RecvKept(l, r) \/ RecvTook(l, f, r)
  <2>1. Open(l)
    BY <1>0 DEF Open
  <2>. QED  BY <1>1, <1>4, <2>1 DEF RxStep, RecvKept, RecvTook
<1>7. CtrlStep(l, r)
  BY <1>4, CtrlStepOver DEF RxStep
<1>. QED  BY <1>0, <1>1, <1>4, <1>5, <1>6, <1>7 DEF RxStep

(* A function that leaves data alone, after one that does not.             *)
LEMMA RxThen ==
    ASSUME NEW l, NEW m, NEW r, CtrlStep(l, m), Same(m, r),
           r.ctrl = m.ctrl, r.sabmes = m.sabmes
    PROVE  CtrlStep(l, r)
BY CtrlStepThen DEF Same

(* Unnumbered commands.                                                    *)
LEMMA RxUnnumCmdStep ==
    ASSUME NEW p \in Station, NEW l, Good(l), Sound(p, l), NEW f \in Frame,
           f.kind = "SABME" => p = "answerer" /\ Recd(l) = <<>>
    PROVE  RxStep(p, l, f, rx_unnum_cmd(l, f))
<1>. DEFINE d == [reset(l) EXCEPT !.state = "DATA"]
            i == reset([l EXCEPT !.state = "IDLE"])
<1>0. "DATA" \in LapmState /\ "IDLE" \in LapmState /\ f.pf \in BOOLEAN
      /\ TRUE \in BOOLEAN /\ FALSE \in BOOLEAN
  BY FrameTypes DEF LapmState
<1>1. /\ Good(d) /\ Wiped(l, d, "DATA") /\ d.ctrl = l.ctrl /\ d.sabmes = l.sabmes
      /\ Good(i) /\ Wiped(l, i, "IDLE") /\ i.ctrl = l.ctrl /\ i.sabmes = l.sabmes
  BY <1>0, ResetStateGood, ResetWipes DEF Good
<1>. HIDE DEF d, i
<1>2. ASSUME NEW m \in {d, i}
      PROVE  LET u == TX_UA(m, f.pf)
                 t == T401_STOP(u)
             IN  \A r \in {ec_link(t), ec_release(t)} :
                    /\ \A s : Wiped(l, m, s) => Wiped(l, r, s)
                    /\ CtrlStep(l, r) /\ r.sabmes = l.sabmes
  <2>. DEFINE u == TX_UA(m, f.pf)
              t == T401_STOP(u)
  <2>1. Good(m) /\ m.ctrl = l.ctrl /\ m.sabmes = l.sabmes
    BY <1>1, <1>2
  <2>2. Good(u) /\ Same(m, u) /\ u.sabmes = m.sabmes /\ CtrlStep(m, u)
    BY <1>0, <2>1, TxUnnumGood, TxUnnumStep
  <2>. HIDE DEF u
  <2>3. Good(t) /\ Same(u, t) /\ t.ctrl = u.ctrl /\ t.sabmes = u.sabmes
    BY <1>0, <2>2, FlagsGood, FlagsSame DEF Good
  <2>. HIDE DEF t
  <2>4. ASSUME NEW r \in {ec_link(t), ec_release(t)}
        PROVE  /\ \A s : Wiped(l, m, s) => Wiped(l, r, s)
               /\ CtrlStep(l, r) /\ r.sabmes = l.sabmes
    <3>1. Same(t, r) /\ r.ctrl = t.ctrl /\ r.sabmes = t.sabmes
      BY <2>3, <2>4, FlagsSame DEF Good
    <3>2. CtrlStep(l, u)
      BY <2>1, <2>2, CtrlStepOver
    <3>3. CtrlStep(l, t)
      BY <2>3, <3>2, RxThen
    <3>4. CtrlStep(l, r)
      BY <3>1, <3>3, RxThen
    <3>5. Same(m, t)
      BY <2>2, <2>3 DEF Same
    <3>6. Same(m, r)
      BY <3>1, <3>5 DEF Same
    <3>. QED  BY <2>1, <2>2, <2>3, <3>1, <3>4, <3>6, WipedSame
  <2>. QED  BY <2>4 DEF t, u
<1>3. CASE f.kind = "SABME"
  <2>. DEFINE r == ec_link(T401_STOP(TX_UA(d, f.pf)))
  <2>1. Wiped(l, r, "DATA") /\ CtrlStep(l, r) /\ r.sabmes = l.sabmes
    BY <1>1, <1>2
  <2>2. rx_unnum_cmd(l, f) = r
    BY <1>3 DEF rx_unnum_cmd, d
  <2>. HIDE DEF r
  <2>. QED  BY <1>3, <2>1, <2>2, WipedData
<1>4. CASE f.kind = "DISC" /\ l.state # "IDLE"
  <2>. DEFINE r == ec_release(T401_STOP(TX_UA(i, f.pf)))
  <2>1. Wiped(l, r, "IDLE") /\ CtrlStep(l, r) /\ r.sabmes = l.sabmes
    BY <1>1, <1>2
  <2>2. rx_unnum_cmd(l, f) = r
    BY <1>4 DEF rx_unnum_cmd, i
  <2>. HIDE DEF r
  <2>. QED  BY <2>1, <2>2, WipedIdle
<1>5. CASE f.kind # "SABME" /\ ~ (f.kind = "DISC" /\ l.state # "IDLE")
  <2>1. rx_unnum_cmd(l, f) \in {TX_DM(l), tx_xid(l, FALSE), l}
    BY <1>5 DEF rx_unnum_cmd
  <2>2. ASSUME NEW r \in {TX_DM(l), tx_xid(l, FALSE), l}
        PROVE  Local(l, r) /\ CtrlStep(l, r) /\ r.sabmes = l.sabmes
    <3>1. Same(l, l) /\ CtrlStep(l, l)
      BY DEF Same, CtrlStep
    <3>. QED  BY <1>0, <2>2, <3>1, TxUnnumStep, SameLocal
  <2>. QED  BY <2>1, <2>2, LocalRx
<1>. QED  BY <1>3, <1>4, <1>5

(* Unnumbered responses.                                                   *)
LEMMA RxUnnumRspStep ==
    ASSUME NEW p \in Station, NEW l, Good(l), Sound(p, l), NEW f \in Frame
    PROVE  RxStep(p, l, f, rx_unnum_rsp(l, f))
<1>. DEFINE i == reset([l EXCEPT !.state = "IDLE"])
            d == reset([l EXCEPT !.state = "DATA"])
            x == [l EXCEPT !.config = FALSE]
            c == T401_STOP(x)
<1>0. "DATA" \in LapmState /\ "IDLE" \in LapmState /\ "ESTAB" \in LapmState
      /\ TRUE \in BOOLEAN /\ FALSE \in BOOLEAN
  BY DEF LapmState
<1>1. /\ Good(d) /\ Wiped(l, d, "DATA") /\ d.ctrl = l.ctrl /\ d.sabmes = l.sabmes
      /\ Good(i) /\ Wiped(l, i, "IDLE") /\ i.ctrl = l.ctrl /\ i.sabmes = l.sabmes
  BY <1>0, ResetStateGood, ResetWipes DEF Good
<1>. HIDE DEF d, i
<1>2. ASSUME NEW m \in {d, i}
      PROVE  \A r \in {ec_link(m), ec_release(m), ec_link(T401_STOP(m)),
                       ec_release(T401_STOP(m))} :
                    /\ \A s : Wiped(l, m, s) => Wiped(l, r, s)
                    /\ CtrlStep(l, r) /\ r.sabmes = l.sabmes
  <2>. DEFINE t == T401_STOP(m)
  <2>1. Good(m) /\ m.ctrl = l.ctrl /\ m.sabmes = l.sabmes
    BY <1>1, <1>2
  <2>2. Good(t) /\ Same(m, t) /\ t.ctrl = m.ctrl /\ t.sabmes = m.sabmes
    BY <1>0, <2>1, FlagsGood, FlagsSame DEF Good
  <2>. HIDE DEF t
  <2>3. ASSUME NEW r \in {ec_link(m), ec_release(m), ec_link(t), ec_release(t)}
        PROVE  /\ \A s : Wiped(l, m, s) => Wiped(l, r, s)
               /\ CtrlStep(l, r) /\ r.sabmes = l.sabmes
    <3>1. \/ Same(m, r) /\ r.ctrl = m.ctrl /\ r.sabmes = m.sabmes
          \/ Same(t, r) /\ r.ctrl = t.ctrl /\ r.sabmes = t.sabmes
      <4>1. m \in StationType /\ t \in StationType
        BY <2>1, <2>2 DEF Good
      <4>2. ASSUME NEW y \in StationType
            PROVE  \A z \in {ec_link(y), ec_release(y)} :
                      Same(y, z) /\ z.ctrl = y.ctrl /\ z.sabmes = y.sabmes
        BY FlagsSame
      <4>3. r \in {ec_link(m), ec_release(m)} \/ r \in {ec_link(t), ec_release(t)}
        BY <2>3
      <4>. QED  BY <4>1, <4>2, <4>3
    <3>2. Same(m, r) /\ r.ctrl = l.ctrl /\ r.sabmes = l.sabmes
      BY <2>1, <2>2, <3>1 DEF Same
    <3>. QED  BY <3>2, WipedSame DEF CtrlStep
  <2>. QED  BY <2>3 DEF t
<1>3. ASSUME NEW r \in {ec_release(i), ec_release(T401_STOP(i))}
      PROVE  RxStep(p, l, f, r)
  <2>1. Wiped(l, r, "IDLE") /\ CtrlStep(l, r) /\ r.sabmes = l.sabmes
    BY <1>1, <1>2, <1>3
  <2>. QED  BY <2>1, WipedIdle
<1>4. ASSUME NEW r \in {l, ec_link(l)}
      PROVE  RxStep(p, l, f, r)
  <2>1. Same(l, r) /\ r.ctrl = l.ctrl /\ r.sabmes = l.sabmes
    BY <1>4, FlagsSame DEF Good, Same
  <2>2. Local(l, r) /\ CtrlStep(l, r)
    BY <2>1, SameLocal DEF CtrlStep
  <2>. QED  BY <2>1, <2>2, LocalRx
<1>5. RxStep(p, l, f, rx_dm(l, f))
  <2>1. rx_dm(l, f) \in {ec_release(i), ec_release(T401_STOP(i)), l, ec_link(l)}
    BY DEF rx_dm, i
  <2>. QED  BY <1>3, <1>4, <2>1
<1>6. RxStep(p, l, f, rx_ua(l))
  <2>1. CASE l.state = "ESTAB"
    <3>. DEFINE r == ec_link(T401_STOP(d))
    <3>1. Wiped(l, r, "DATA") /\ CtrlStep(l, r) /\ r.sabmes = l.sabmes
      BY <1>1, <1>2
    <3>2. rx_ua(l) = r
      BY <2>1 DEF rx_ua, d
    <3>. HIDE DEF r
    <3>. QED  BY <2>1, <3>1, <3>2, WipedData
  <2>2. CASE l.state # "ESTAB"
    <3>1. rx_ua(l) \in {ec_release(T401_STOP(i)), l}
      BY <2>2 DEF rx_ua, i
    <3>. QED  BY <1>3, <1>4, <3>1
  <2>. QED  BY <2>1, <2>2
<1>7. ASSUME l.config
      PROVE  /\ Good(c) /\ Local(l, c) /\ ~ c.config /\ c.timer = "off"
             /\ c.ctrl = l.ctrl /\ c.sabmes = l.sabmes /\ c.state = l.state
  <2>1. Good(x) /\ x \in StationType
    BY <1>0, FlagsGood DEF Good
  <2>2. /\ Local(l, x) /\ ~ x.config /\ x.ctrl = l.ctrl /\ x.sabmes = l.sabmes
        /\ x.state = l.state
    BY DEF Good, StationType, Local
  <2>. HIDE DEF x
  <2>3. Good(c) /\ Same(x, c) /\ c.ctrl = x.ctrl /\ c.sabmes = x.sabmes
    BY <1>0, <2>1, FlagsGood, FlagsSame
  <2>4. c.timer = "off"
    BY <2>1 DEF T401_STOP, StationType
  <2>5. Local(l, c)
    BY <2>2, <2>3, SameLocal
  <2>. QED  BY <2>2, <2>3, <2>4, <2>5 DEF Same
<1>8. RxStep(p, l, f, rx_xid_rsp(l))
  <2>1. CASE ~ l.config
    <3>1. rx_xid_rsp(l) = l
      BY <2>1 DEF rx_xid_rsp
    <3>. QED  BY <1>4, <3>1
  <2>2. CASE l.config
    <3>1. Good(c) /\ Local(l, c) /\ ~ c.config /\ c.timer = "off" /\ c.ctrl = l.ctrl
          /\ c.sabmes = l.sabmes /\ c.state = l.state
      BY <1>7, <2>2
    <3>2. l.state \in {"IDLE", "DISC"}
      BY <2>2 DEF Sound, Station
    <3>3. CASE l.state = "DISC"
      <4>1. rx_xid_rsp(l) = c
        BY <2>2, <3>3 DEF rx_xid_rsp
      <4>. QED  BY <3>1, <4>1, LocalRx DEF CtrlStep
    <3>4. CASE l.state = "IDLE"
      <4>. DEFINE e == [reset(c) EXCEPT !.state = "ESTAB"]
                  s == TX_SABME(e)
                  r == T401_START(s)
      <4>1. rx_xid_rsp(l) = r
        BY <2>2, <3>4, Zenon DEF rx_xid_rsp, lapm_connect
      <4>. HIDE DEF c
      <4>2. /\ Good(e) /\ Wiped(c, e, "ESTAB") /\ e.ctrl = c.ctrl
            /\ e.sabmes = c.sabmes /\ e.state = "ESTAB"
        <5>1. Good(e) /\ Wiped(c, e, "ESTAB") /\ e.ctrl = c.ctrl /\ e.sabmes = c.sabmes
          BY <1>0, <3>1, ResetStateGood, ResetWipes DEF Good
        <5>. QED  BY <5>1 DEF Wiped
      <4>. HIDE DEF e
      <4>3. Good(s) /\ Same(e, s) /\ s.sabmes = e.sabmes + 1 /\ CtrlStep(e, s)
        BY <1>0, <4>2, TxUnnumGood, TxSabmeStep
      <4>. HIDE DEF s
      <4>4. /\ Same(s, r) /\ r.ctrl = s.ctrl /\ r.sabmes = s.sabmes
            /\ r.timer = "t401"
        BY <4>3, FlagsSame DEF Good, T401_START, StationType
      <4>. HIDE DEF r
      <4>5. Wiped(c, r, "ESTAB")
        BY <4>2, <4>3, <4>4, WipedSame
      <4>6. Wiped(l, r, "ESTAB") /\ ~ r.config
        BY <3>1, <4>5 DEF Wiped, Local
      <4>7. r.sabmes = l.sabmes + 1
        BY <3>1, <4>2, <4>3, <4>4
      <4>8. CtrlStep(l, r)
        <5>1. CtrlStep(l, s)
          BY <3>1, <4>2, <4>3, CtrlStepOver
        <5>. QED  BY <4>4, <5>1, RxThen
      <4>. QED  BY <2>2, <4>1, <4>4, <4>6, <4>7, <4>8, WipedConnect
    <3>. QED  BY <3>2, <3>3, <3>4
  <2>. QED  BY <2>1, <2>2, RecdTypes
<1>9. rx_unnum_rsp(l, f) \in {rx_dm(l, f), rx_ua(l), rx_xid_rsp(l), l}
  BY DEF rx_unnum_rsp
<1>. QED  BY <1>4, <1>5, <1>6, <1>8, <1>9

(* Whatever frame arrives.                                                 *)
LEMMA RxCompleteStep ==
    ASSUME NEW p \in Station, NEW l, Good(l), Sound(p, l), NEW f \in Frame,
           NEW room \in BOOLEAN, f.kind = "SABME" => p = "answerer" /\ Recd(l) = <<>>
    PROVE  RxStep(p, l, f, lapm_rx_complete(l, f, room))
<1>. DEFINE v == valid_data_state(l)
            d == [reset(l) EXCEPT !.state = "DATA"]
            i == [reset(l) EXCEPT !.state = "IDLE"]
            z == lapm_rx_complete(l, f, room)
<1>0. /\ "DATA" \in LapmState /\ "IDLE" \in LapmState
      /\ f.kind \in {"I"} \cup SKind \cup UKind
  BY FrameTypes DEF LapmState
<1>1. CASE f.kind \in UKind
  <2>1. z \in {rx_unnum_cmd(l, f), rx_unnum_rsp(l, f)}
    BY <1>1, Zenon DEF lapm_rx_complete
  <2>. QED  BY <2>1, RxUnnumCmdStep, RxUnnumRspStep
<1>2. CASE f.kind \notin UKind
  <2>1. Numbered(f) /\ f.kind # "SABME"
    BY <1>0, <1>2 DEF Numbered, UKind
  <2>2. z = IF v.state # "DATA" THEN v
            ELSE IF f.kind = "I" THEN rx_info(v, f, room)
            ELSE IF f.cmd THEN rx_super_cmd(v, f) ELSE rx_super_rsp(v, f)
    BY <1>2, Zenon DEF lapm_rx_complete
  <2>3. /\ Good(d) /\ Wiped(l, d, "DATA") /\ d.ctrl = l.ctrl /\ d.sabmes = l.sabmes
        /\ Good(i) /\ Wiped(l, i, "IDLE") /\ i.ctrl = l.ctrl /\ i.sabmes = l.sabmes
    BY <1>0, ResetStateGood, ResetWipes DEF Good
  <2>4. Good(v)
    BY ValidDataGood
  <2>5. /\ l.state = "ESTAB" => v = ec_link(d)
        /\ l.state = "DISC" => v = ec_release(i)
        /\ l.state \in {"DATA", "IDLE"} => v = l
    BY DEF valid_data_state
  <2>6. l.state \in {"ESTAB", "DISC", "DATA", "IDLE"}
    BY RecdTypes DEF LapmState
  <2>. HIDE DEF v, d, i, z
  <2>7. CASE l.state = "IDLE"
    <3>1. z = l
      BY <2>2, <2>5, <2>7
    <3>2. Local(l, l) /\ CtrlStep(l, l)
      BY DEF Local, CtrlStep
    <3>. QED  BY <3>1, <3>2, LocalRx DEF z
  <2>8. CASE l.state = "DISC"
    <3>1. Same(i, v) /\ v.ctrl = i.ctrl /\ v.sabmes = i.sabmes
      BY <2>3, <2>5, <2>8, FlagsSame DEF Good
    <3>2. Wiped(l, v, "IDLE") /\ CtrlStep(l, v) /\ v.sabmes = l.sabmes
      BY <2>3, <3>1, WipedSame DEF CtrlStep
    <3>3. z = v
      BY <2>2, <3>2 DEF Wiped
    <3>. QED  BY <3>2, <3>3, WipedIdle DEF z
  <2>9. ASSUME v.state = "DATA"
        PROVE  DataStep(v, f, z)
    <3>1. z \in {rx_super_cmd(v, f), rx_super_rsp(v, f)} \/ (IsInfo(f) /\ z = rx_info(v, f, room))
      BY <2>2, <2>9 DEF IsInfo
    <3>. QED  BY <2>4, <2>9, <3>1, RxInfoStep, RxSuperStep
  <2>10. CASE l.state = "DATA"
    BY <2>1, <2>5, <2>9, <2>10, DataRx DEF z
  <2>11. CASE l.state = "ESTAB"
    <3>1. Same(d, v) /\ v.ctrl = d.ctrl /\ v.sabmes = d.sabmes
      BY <2>3, <2>5, <2>11, FlagsSame DEF Good
    <3>2. Wiped(l, v, "DATA") /\ v.ctrl = l.ctrl /\ v.sabmes = l.sabmes
      BY <2>3, <3>1, WipedSame
    <3>3. v.state = "DATA"
      BY <3>2 DEF Wiped
    <3>. QED  BY <2>1, <2>4, <2>9, <2>11, <3>2, <3>3, EstabRx DEF z
  <2>. QED  BY <2>6, <2>7, <2>8, <2>10, <2>11
<1>. QED  BY <1>1, <1>2

-----------------------------------------------------------------------------
(* The other entry points of the code.                                     *)

(* A step that receives no frame: it frees nothing and takes nothing, and  *)
(* at most hands over what the station has.                                *)
HereStep(p, l, r) ==
    /\ Sound(p, r) /\ CtrlStep(l, r)
    /\ r.sabmes = l.sabmes \/ r.sabmes = l.sabmes + 1
    /\ r.va = l.va /\ Acked(r) = Acked(l) /\ r.taken = l.taken /\ (Live(r) => Live(l))
    /\ Recd(r) = Recd(l) /\ (Open(r) => Open(l) /\ r.vr = l.vr)
    /\ Raised(r) => Raised(l)

(* What leaves data alone is such a step.                                  *)
LEMMA LocalHere ==
    ASSUME NEW p \in Station, NEW l, Good(l), Sound(p, l), NEW r, Local(l, r),
           CtrlStep(l, r),
           \/ r.sabmes = l.sabmes
           \/ r.sabmes = l.sabmes + 1 /\ l.state = "ESTAB"
    PROVE  HereStep(p, l, r)
<1>1. Sound(p, r)
  BY LocalSound
<1>2. /\ RecvKept(l, r) /\ (Raised(r) => Raised(l)) /\ Acked(r) = Acked(l)
      /\ (Live(r) => Live(l))
  BY LocalHalves
<1>3. Recd(r) = Recd(l)
  BY DEF Local, Recd
<1>. QED  BY <1>1, <1>2, <1>3 DEF HereStep, Local, RecvKept

(* lapm_disconnect leaves data alone.                                      *)
LEMMA DisconnectLocal ==
    ASSUME NEW l, Good(l)
    PROVE  LET r == lapm_disconnect(l)
           IN  Local(l, r) /\ CtrlStep(l, r) /\ r.sabmes = l.sabmes
<1>. DEFINE d == [l EXCEPT !.state = "DISC"]
            t == TX_DISC(d)
            r == T401_START(t)
<1>0. "DISC" \in LapmState /\ TRUE \in BOOLEAN
  BY DEF LapmState
<1>1. Good(d) /\ Local(l, d) /\ d.ctrl = l.ctrl /\ d.sabmes = l.sabmes
  BY <1>0, StateGood DEF Good, StationType, Local
<1>. HIDE DEF d
<1>2. Good(t) /\ Same(d, t) /\ t.sabmes = d.sabmes /\ CtrlStep(d, t)
  BY <1>0, <1>1, TxUnnumGood, TxUnnumStep
<1>. HIDE DEF t
<1>3. Same(t, r) /\ r.ctrl = t.ctrl /\ r.sabmes = t.sabmes
  BY <1>2, FlagsSame DEF Good
<1>. HIDE DEF r
<1>4. Local(l, r)
  BY <1>1, <1>2, <1>3, SameLocal
<1>5. CtrlStep(l, r)
  BY <1>1, <1>2, <1>3, CtrlStepOver, RxThen
<1>. QED  BY <1>1, <1>2, <1>3, <1>4, <1>5 DEF lapm_disconnect, r, t, d

(* The bit timer.                                                          *)
LEMMA T401Here ==
    ASSUME NEW p \in Station, NEW l, Good(l), Sound(p, l)
    PROVE  HereStep(p, l, t401_timeout(l)) /\ Local(l, t401_timeout(l))
<1>0. /\ "IDLE" \in LapmState /\ TRUE \in BOOLEAN /\ FALSE \in BOOLEAN
      /\ 0 \in 0 .. MaxRtx + 1 /\ "off" \in {"off", "negotiate", "t401"}
  BY LapmAssumption DEF LapmState
<1>1. CASE l.rtx_count > MaxRtx
  <2>. DEFINE z == [l EXCEPT !.rtx_count = 0, !.timer = "off"]
              i == [z EXCEPT !.state = "IDLE"]
  <2>1. /\ z \in StationType /\ Local(l, z) /\ z.ctrl = l.ctrl /\ z.sabmes = l.sabmes
    BY <1>0 DEF Good, StationType, Local
  <2>2. RingOK(z)
    BY DEF Good, StationType, RingOK
  <2>3. t401_timeout(l) \in {ec_release(i), lapm_disconnect(z), z}
    BY <1>1 DEF t401_timeout, t401_give_up
  <2>. HIDE DEF z
  <2>4. Good(z)
    BY <2>1, <2>2 DEF Good
  <2>5. Local(z, i) /\ i.ctrl = z.ctrl /\ i.sabmes = z.sabmes /\ i \in StationType
    BY <1>0, <2>1, <2>4, StateGood DEF StationType, Local, Good
  <2>. HIDE DEF i
  <2>6. Same(i, ec_release(i)) /\ ec_release(i).ctrl = i.ctrl /\ ec_release(i).sabmes = i.sabmes
    BY <2>5, FlagsSame
  <2>7. LET r == lapm_disconnect(z) IN Local(z, r) /\ CtrlStep(z, r) /\ r.sabmes = z.sabmes
    BY <2>4, DisconnectLocal
  <2>8. ASSUME NEW r \in {ec_release(i), lapm_disconnect(z), z}
        PROVE  Local(l, r) /\ CtrlStep(l, r) /\ r.sabmes = l.sabmes
    <3>1. CASE r = ec_release(i)
      BY <2>1, <2>5, <2>6, <3>1 DEF Local, Same, CtrlStep
    <3>2. CASE r = lapm_disconnect(z)
      <4>1. CtrlStep(l, r)
        BY <2>1, <2>7, <3>2, CtrlStepOver
      <4>. QED  BY <2>1, <2>7, <3>2, <4>1 DEF Local
    <3>3. CASE r = z
      BY <2>1, <3>3 DEF CtrlStep
    <3>. QED  BY <2>8, <3>1, <3>2, <3>3
  <2>. QED  BY <2>3, <2>8, LocalHere
<1>2. CASE ~ (l.rtx_count > MaxRtx)
  <2>. DEFINE r == [l EXCEPT !.rtx_count = @ + 1]
              z == t401_timeout(l)
  <2>0. l.rtx_count + 1 \in 0 .. MaxRtx + 1
    BY <1>2, LapmAssumption DEF Good, StationType
  <2>1. r \in StationType
    BY <2>0 DEF Good, StationType
  <2>2. RingOK(r)
    BY DEF Good, StationType, RingOK
  <2>3. Same(l, r) /\ r.ctrl = l.ctrl /\ r.sabmes = l.sabmes
    BY FlagsSame DEF Good
  <2>4. \/ z \in {tx_xid(r, TRUE), TX_DISC(r), r}
        \/ l.state = "ESTAB" /\ z = TX_SABME(r)
        \/ l.state = "DATA" /\ z = tx_ready(r, TRUE, TRUE)
    BY <1>2 DEF t401_timeout, t401_retry
  <2>. HIDE DEF r, z
  <2>5. Good(r) /\ r.state = l.state
    BY <2>1, <2>2, <2>3 DEF Good, Same
  <2>6. /\ Same(r, z) /\ CtrlStep(r, z)
        /\ \/ z.sabmes = r.sabmes
           \/ z.sabmes = r.sabmes + 1 /\ l.state = "ESTAB"
    <3>1. CASE z \in {tx_xid(r, TRUE), TX_DISC(r)}
      BY <1>0, <2>5, <3>1, TxUnnumStep
    <3>2. CASE z = r
      BY <3>2 DEF Same, CtrlStep
    <3>3. CASE l.state = "ESTAB" /\ z = TX_SABME(r)
      BY <2>5, <3>3, TxSabmeStep
    <3>4. CASE l.state = "DATA" /\ z = tx_ready(r, TRUE, TRUE)
      BY <1>0, <2>5, <3>4, TxReadyStep
    <3>. QED  BY <2>4, <3>1, <3>2, <3>3, <3>4
  <2>7. Local(l, z) /\ CtrlStep(l, z)
    <3>1. Local(l, z)
      BY <2>3, <2>6 DEF Same, Local
    <3>2. CtrlStep(l, z)
      BY <2>3, <2>6, CtrlStepOver
    <3>. QED  BY <3>1, <3>2
  <2>8. HereStep(p, l, z)
    BY <2>3, <2>6, <2>7, LocalHere
  <2>. QED  BY <2>7, <2>8 DEF z
<1>. QED  BY <1>1, <1>2

(* modem_hup.                                                              *)
LEMMA HangupHere ==
    ASSUME NEW p \in Station, NEW l, Good(l), Sound(p, l)
    PROVE  LET r == [lapm_disconnect([l EXCEPT !.push = FALSE]) EXCEPT !.modem = "ecdisc"]
           IN  HereStep(p, l, r) /\ Local(l, r)
<1>. DEFINE h == [l EXCEPT !.push = FALSE]
            d == lapm_disconnect(h)
            r == [d EXCEPT !.modem = "ecdisc"]
<1>1. Good(h) /\ Same(l, h) /\ h.ctrl = l.ctrl /\ h.sabmes = l.sabmes
  BY FlagsGood, FlagsSame DEF Good
<1>. HIDE DEF h
<1>2. Good(d) /\ Local(h, d) /\ CtrlStep(h, d) /\ d.sabmes = h.sabmes
  BY <1>1, ConnectGood, DisconnectLocal
<1>. HIDE DEF d
<1>3. Same(d, r) /\ r.ctrl = d.ctrl /\ r.sabmes = d.sabmes
  BY <1>2, FlagsSame DEF Good
<1>. HIDE DEF r
<1>4. Local(l, r)
  BY <1>1, <1>2, <1>3 DEF Local, Same
<1>5. CtrlStep(l, r)
  <2>1. CtrlStep(l, d)
    BY <1>1, <1>2, CtrlStepOver
  <2>. QED  BY <1>3, <2>1, RxThen
<1>6. HereStep(p, l, r)
  BY <1>1, <1>2, <1>3, <1>4, <1>5, LocalHere
<1>. QED  BY <1>4, <1>6 DEF r, d, h

(* run_modem_stop.                                                         *)
LEMMA StopHere ==
    ASSUME NEW p \in Station, NEW l, Good(l), Sound(p, l)
    PROVE  HereStep(p, l, ec_release(l)) /\ Local(l, ec_release(l))
<1>. DEFINE r == ec_release(l)
<1>1. Same(l, r) /\ r.ctrl = l.ctrl /\ r.sabmes = l.sabmes
  BY FlagsSame DEF Good
<1>. HIDE DEF r
<1>2. Local(l, r) /\ CtrlStep(l, r)
  BY <1>1, SameLocal DEF CtrlStep
<1>3. HereStep(p, l, r)
  BY <1>1, <1>2, LocalHere
<1>. QED  BY <1>2, <1>3 DEF r

(* modem_ec_negotiate: nothing was sent or received before the XIDs.       *)
LEMMA NegotiateHere ==
    ASSUME NEW p \in Station, NEW l, Good(l), Sound(p, l), l.timer = "negotiate"
    PROVE  LET r == lapm_config([l EXCEPT !.framing = TRUE])
           IN  HereStep(p, l, r) /\ r.out = l.out /\ r.rx_buf = l.rx_buf
               /\ r.written = l.written
<1>. DEFINE h == [l EXCEPT !.framing = TRUE]
            c == [h EXCEPT !.config = TRUE]
            x == tx_xid(c, TRUE)
            r == T401_START(x)
<1>0. p = "caller" /\ l.sabmes = 0 /\ l.state \in {"IDLE", "DISC"} /\ l.taken = 0
      /\ Recd(l) = <<>> /\ TRUE \in BOOLEAN
  BY DEF Sound, Station
<1>1. Good(h) /\ Same(l, h) /\ h.ctrl = l.ctrl /\ h.sabmes = l.sabmes
  BY <1>0, FlagsGood, FlagsSame DEF Good
<1>2. lapm_config(h) = r
  <2>1. h.state # "DATA"
    BY <1>0, <1>1 DEF Same
  <2>. QED  BY <2>1 DEF lapm_config
<1>. HIDE DEF h
<1>3. /\ Good(c) /\ c.ctrl = h.ctrl /\ c.sabmes = h.sabmes /\ c.state = h.state
      /\ c.va = h.va /\ c.vr = h.vr /\ c.sent = h.sent /\ c.tx = h.tx
      /\ c.taken = h.taken /\ c.written = h.written /\ c.rx_buf = h.rx_buf
      /\ c.out = h.out
  <2>1. Good(c)
    BY <1>0, <1>1, FlagsGood
  <2>. QED  BY <1>1, <2>1 DEF Good, StationType
<1>. HIDE DEF c
<1>4. Good(x) /\ Same(c, x) /\ x.sabmes = c.sabmes /\ CtrlStep(c, x)
  BY <1>0, <1>3, TxUnnumGood, TxUnnumStep
<1>. HIDE DEF x
<1>5. Same(x, r) /\ r.ctrl = x.ctrl /\ r.sabmes = x.sabmes /\ r.timer = "t401"
  BY <1>4, FlagsSame DEF Good, T401_START, StationType
<1>. HIDE DEF r
<1>6. /\ r.state = l.state /\ r.va = l.va /\ r.vr = l.vr /\ r.sent = l.sent
      /\ r.tx = l.tx /\ r.taken = l.taken /\ r.written = l.written
      /\ r.rx_buf = l.rx_buf /\ r.out = l.out /\ r.sabmes = l.sabmes
  BY <1>1, <1>3, <1>4, <1>5 DEF Same
<1>7. Recd(r) = Recd(l) /\ Acked(r) = Acked(l)
  BY <1>6 DEF Recd, Acked
<1>8. CtrlStep(l, r)
  <2>1. CtrlStep(l, x)
    BY <1>1, <1>3, <1>4, CtrlStepOver
  <2>. QED  BY <1>5, <2>1, RxThen
<1>9. Sound(p, r)
  BY <1>0, <1>5, <1>6, <1>7 DEF Sound
<1>10. HereStep(p, l, r)
  BY <1>6, <1>7, <1>8, <1>9 DEF HereStep, Open, Live, Raised
<1>. QED  BY <1>2, <1>6, <1>10 DEF h

(* push_rest_data hands over the item that was kept.                       *)
LEMMA PushHere ==
    ASSUME NEW p \in Station, NEW l, Good(l), Sound(p, l), l.state = "DATA"
    PROVE  LET r == push_rest_data(l)
           IN  /\ HereStep(p, l, r) /\ r.out = l.out \o l.rx_buf /\ r.rx_buf = <<>>
               /\ r.written = l.written
<1>. DEFINE m == [l EXCEPT !.out = @ \o l.rx_buf, !.rx_buf = <<>>,
                           !.busy = FALSE, !.push = FALSE]
            r == tx_super(m, "RR", TRUE, FALSE)
<1>0. "RR" \in SKind /\ l.out \in Seq(Nat) /\ l.rx_buf \in Seq(Nat)
  BY RecdTypes DEF SKind
<1>1. l.out \o l.rx_buf \in Seq(Nat) /\ <<>> \in Seq(Nat)
  BY <1>0, ConcatProperties, EmptySeq
<1>2. m \in StationType
  BY <1>1 DEF Good, StationType
<1>3. RingOK(m)
  BY DEF Good, StationType, RingOK
<1>4. /\ m.state = l.state /\ m.config = l.config /\ m.va = l.va /\ m.vr = l.vr
      /\ m.sent = l.sent /\ m.tx = l.tx /\ m.taken = l.taken /\ m.written = l.written
      /\ m.out = l.out \o l.rx_buf /\ m.rx_buf = <<>> /\ m.timer = l.timer
      /\ m.ctrl = l.ctrl /\ m.sabmes = l.sabmes
  BY DEF Good, StationType
<1>5. push_rest_data(l) = r
  BY DEF push_rest_data
<1>. HIDE DEF m
<1>6. Good(m)
  BY <1>2, <1>3 DEF Good
<1>7. Same(m, r) /\ r.sabmes = m.sabmes /\ CtrlStep(m, r)
  BY <1>0, <1>4, <1>6, TxSuperStep
<1>. HIDE DEF r
<1>8. /\ r.state = l.state /\ r.config = l.config /\ r.va = l.va /\ r.vr = l.vr
      /\ r.sent = l.sent /\ r.tx = l.tx /\ r.taken = l.taken /\ r.written = l.written
      /\ r.out = l.out \o l.rx_buf /\ r.rx_buf = <<>>
      /\ (r.timer = "negotiate" => l.timer = "negotiate") /\ r.sabmes = l.sabmes
  BY <1>4, <1>7 DEF Same
<1>9. Recd(r) = Recd(l) /\ Acked(r) = Acked(l)
  BY <1>1, <1>8, ConcatEmptySeq DEF Recd, Acked
<1>10. CtrlStep(l, r)
  BY <1>4, <1>7, CtrlStepOver
<1>11. Len(r.rx_buf) = 0
  BY <1>8, EmptySeq
<1>12. Sound(p, r)
  BY <1>8, <1>9, <1>11 DEF Sound
<1>13. HereStep(p, l, r)
  BY <1>8, <1>9, <1>10, <1>12 DEF HereStep, Open, Live, Raised
<1>. QED  BY <1>5, <1>8, <1>13

(* The terminal writes.                                                    *)
LEMMA WriteHere ==
    ASSUME NEW p \in Station, NEW l, Good(l), Sound(p, l)
    PROVE  LET r == [l EXCEPT !.written = @ + 1]
           IN  /\ HereStep(p, l, r) /\ r.out = l.out /\ r.rx_buf = l.rx_buf
               /\ r.written = l.written + 1
<1>. DEFINE r == [l EXCEPT !.written = @ + 1]
<1>1. /\ r.state = l.state /\ r.config = l.config /\ r.va = l.va /\ r.vr = l.vr
      /\ r.sent = l.sent /\ r.tx = l.tx /\ r.taken = l.taken
      /\ r.written = l.written + 1 /\ r.out = l.out /\ r.rx_buf = l.rx_buf
      /\ r.timer = l.timer /\ r.sabmes = l.sabmes /\ r.ctrl = l.ctrl /\ r.busy = l.busy
  BY DEF Good, StationType
<1>. HIDE DEF r
<1>2. Recd(r) = Recd(l) /\ Acked(r) = Acked(l)
  BY <1>1 DEF Recd, Acked
<1>3. r.taken <= r.written
  <2>1. l.taken \in Nat /\ l.written \in Nat /\ l.taken <= l.written
    BY AckedType, RecdTypes DEF Sound
  <2>. QED  BY <1>1, <2>1
<1>4. Sound(p, r)
  BY <1>1, <1>2, <1>3 DEF Sound
<1>5. HereStep(p, l, r)
  BY <1>1, <1>2, <1>4 DEF HereStep, CtrlStep, Open, Live, Raised
<1>. QED  BY <1>1, <1>5 DEF r

(* An I frame is sent: an item of the window, under the number that its    *)
(* place gives it, with an acknowledgement of all that was received.       *)
LEMMA SentStep ==
    ASSUME NEW p \in Station, NEW l, Good(l), Sound(p, l), InfoSendable(l)
    PROVE  LET r == sent_info(l)
               f == InfoFrame(l)
           IN  /\ Sound(p, r) /\ Kept(l, r) /\ r.va = l.va /\ Acked(r) = Acked(l)
               /\ r.taken = l.taken \/ r.taken = l.taken + 1
               /\ f \in Frame /\ IsInfo(f) /\ f.nr = l.vr
               /\ Acked(l) < f.data /\ f.data <= r.taken
               /\ f.ns = Plus(l.va, f.data - Acked(l) - 1)
<1>. DEFINE s == tx_source(l)
            m == [s EXCEPT !.sent = Append(@, Head(s.tx)), !.tx = Tail(@),
                           !.vs = Plus(@, 1)]
            r == sent_info(l)
            f == InfoFrame(l)
<1>1. Good(s) /\ s.tx # <<>> /\ Fetched(l, s) /\ s.vs = l.vs
  <2>1. CASE l.tx # <<>>
    <3>1. s = l
      BY <2>1 DEF tx_source
    <3>. QED  BY <2>1, <3>1 DEF Fetched, Kept
  <2>2. CASE l.tx = <<>>
    <3>1. tx_fetches(l) /\ s = tx_info(l)
      BY <2>2 DEF InfoSendable, tx_source
    <3>2. s.tx = <<l.taken + 1>> /\ s.vs = l.vs
      BY <3>1 DEF tx_info, Good, StationType
    <3>3. Good(s) /\ Fetched(l, s)
      BY <3>1, TxInfoGood, TxInfoFetches
    <3>. QED  BY <3>2, <3>3
  <2>. QED  BY <2>1, <2>2
<1>2. r = IF l.timer = "off" THEN T401_START(m) ELSE m
  BY DEF sent_info
<1>3. f \in Frame
  BY SentInfoGood
<1>4. f.kind = "I" /\ f.nr = l.vr /\ f.ns = l.vs /\ f.data = Head(s.tx)
  BY DEF InfoFrame
<1>. HIDE DEF s, f
<1>5. /\ Kept(s, m) /\ m.va = s.va /\ m.taken = s.taken
      /\ m.sent = Append(s.sent, Head(s.tx)) /\ m.tx = Tail(s.tx)
  BY <1>1 DEF Good, StationType, Kept
<1>6. m \in StationType
  <2>1. /\ Plus(s.vs, 1) \in SeqNo
        /\ Append(s.sent, Head(s.tx)) \in Seq(Nat) /\ Tail(s.tx) \in Seq(Nat)
    BY <1>1, FieldTypes, SendRing
  <2>. QED  BY <1>1, <2>1 DEF Good, StationType
<1>. HIDE DEF m
<1>7. /\ s.sent \in Seq(Nat) /\ s.tx \in Seq(Nat) /\ Len(s.sent) \in Nat
      /\ Len(s.tx) \in Nat \ {0} /\ s.taken \in Nat
      /\ Head(s.tx) = s.tx[1] /\ Len(Tail(s.tx)) = Len(s.tx) - 1
      /\ Len(Append(s.sent, Head(s.tx))) = Len(s.sent) + 1
      /\ s.tx[1] = s.taken - Len(s.tx) + 1 /\ Len(s.sent) = Dist(s.vs, s.va)
      /\ Len(s.sent) + Len(s.tx) <= TxWin
  <2>1. /\ s.sent \in Seq(Nat) /\ s.tx \in Seq(Nat) /\ s.taken \in Nat
        /\ Ring(s.vs, s.va, s.sent, s.tx, s.taken)
    BY <1>1, FieldTypes
  <2>2. Len(s.sent) \in Nat /\ Len(s.tx) \in Nat \ {0}
    BY <1>1, <2>1, LenProperties, EmptySeq
  <2>3. Head(s.tx) \in Nat /\ Head(s.tx) = s.tx[1] /\ Len(Tail(s.tx)) = Len(s.tx) - 1
    BY <1>1, <2>1, HeadTailProperties
  <2>4. Len(Append(s.sent, Head(s.tx))) = Len(s.sent) + 1
    BY <2>1, <2>3, AppendProperties
  <2>5. 1 \in 1 .. Len(s.tx)
    BY <2>2
  <2>. QED  BY <2>1, <2>2, <2>3, <2>4, <2>5 DEF Ring
<1>8. Acked(m) = s.taken - (Len(s.sent) + 1) - (Len(s.tx) - 1)
  BY <1>5, <1>7 DEF Acked
<1>9. Acked(s) = s.taken - Len(s.sent) - Len(s.tx)
  BY DEF Acked
<1>. DEFINE x == Len(s.sent)
            y == Len(s.tx)
            t == s.taken
            d == f.data
<1>10. x \in Nat /\ y \in Nat \ {0} /\ t \in Nat /\ d = t - y + 1 /\ x + y <= TxWin
  BY <1>4, <1>7
<1>11. Acked(m) = t - (x + 1) - (y - 1) /\ Acked(s) = t - x - y
  BY <1>8, <1>9
<1>12. x = Dist(s.vs, s.va)
  BY <1>7
<1>. HIDE DEF x, y, t, d
<1>13. /\ Acked(m) = Acked(s) /\ Acked(s) < d /\ d <= t /\ d - Acked(s) - 1 = x
       /\ x <= TxWin
  BY <1>10, <1>11, LapmAssumption
<1>14. s.vs = Plus(s.va, x)
  BY <1>1, <1>12, <1>13, FieldTypes, DistPlus
<1>15. /\ Kept(m, r) /\ r.va = m.va /\ Acked(r) = Acked(m) /\ r.taken = m.taken
  <2>1. Still(m, T401_START(m)) /\ Still(m, m)
    BY <1>6, FlagsSame, SameStill DEF Still, Kept
  <2>. QED  BY <1>2, <2>1 DEF Still
<1>. HIDE DEF r
<1>16. Kept(l, r)
  <2>1. Kept(l, s)
    BY <1>1 DEF Fetched
  <2>2. Kept(l, m)
    BY <1>5, <2>1 DEF Kept
  <2>. QED  BY <1>15, <2>2 DEF Kept
<1>17. /\ r.va = l.va /\ Acked(r) = Acked(l) /\ Acked(s) = Acked(l) /\ s.va = l.va
       /\ \/ r.taken = l.taken
          \/ r.taken = l.taken + 1 /\ l.taken < l.written
       /\ r.taken = t
  BY <1>1, <1>5, <1>13, <1>15 DEF Fetched, t
<1>18. Acked(l) < f.data /\ f.data <= r.taken /\ f.ns = Plus(l.va, f.data - Acked(l) - 1)
  BY <1>1, <1>4, <1>13, <1>14, <1>17 DEF d
<1>19. Sound(p, r)
  <2>1. Recd(r) = Recd(l)
    BY <1>16 DEF Kept, Recd
  <2>2. l.state = "DATA" /\ l.taken \in Nat /\ l.written \in Nat
    BY AckedType, RecdTypes DEF InfoSendable
  <2>3. r.taken <= r.written
    BY <1>16, <1>17, <2>2 DEF Kept, Sound
  <2>4. r.taken = 0 => r.va = 0
    BY <1>17, <2>2 DEF Sound
  <2>5. p = "caller" => l.sabmes # 0
    BY <2>2 DEF Sound
  <2>. QED  BY <1>16, <2>1, <2>2, <2>3, <2>4, <2>5 DEF Kept, Sound
<1>. QED  BY <1>3, <1>4, <1>16, <1>17, <1>18, <1>19 DEF IsInfo, r, f

-----------------------------------------------------------------------------
(* One direction of the link, from the station l to the station m: the     *)
(* frames c are under way to m, the frames b from m to l.                  *)

Ord(l, m, c) == OrdOK(l.va, Acked(l), l.taken, m.vr, LastRecd(m), Open(m), c)
Gap(l, m, c, b) ==
    GapOK(l.va, Acked(l), Live(l), m.vr, LastRecd(m), Open(m), c, b)

(* The items received are 1, 2, 3 ...                                      *)
InOrder(m) == \A i \in 1 .. Len(Recd(m)) : Recd(m)[i] = i

LastOut(m) == IF m.out = <<>> THEN 0 ELSE m.out[Len(m.out)]

(* The item that is kept is later than those handed over.                  *)
Held(m) ==
    /\ m.rx_buf # <<>> => m.rx_buf[1] > LastOut(m)
    /\ Recd(m) # <<>> => LastRecd(m) > 0

(* The numbers of two good stations have their types.                      *)
LEMMA DirType ==
    ASSUME NEW l, Good(l), NEW m, Good(m)
    PROVE  OrdType(l.va, Acked(l), l.taken, m.vr, LastRecd(m), Open(m))
BY FieldTypes, AckedType, RecdTypes DEF OrdType, Open

(* With items received in order, the last is their number.                 *)
LEMMA InOrderLast ==
    ASSUME NEW m, Good(m), InOrder(m)
    PROVE  LastRecd(m) = Len(Recd(m))
<1>1. CASE Recd(m) = <<>>
  BY <1>1, EmptySeq DEF LastRecd
<1>2. CASE Recd(m) # <<>>
  <2>1. Len(Recd(m)) \in 1 .. Len(Recd(m))
    BY <1>2, RecdTypes, EmptySeq
  <2>. QED  BY <1>2, <2>1 DEF LastRecd, InOrder
<1>. QED  BY <1>1, <1>2

(* What is received is the same when nothing was taken.                    *)
LEMMA KeptRecd ==
    ASSUME NEW m, NEW r, r.out = m.out, r.rx_buf = m.rx_buf
    PROVE  /\ Recd(r) = Recd(m) /\ LastRecd(r) = LastRecd(m)
           /\ (InOrder(m) => InOrder(r)) /\ (Held(m) => Held(r))
BY DEF Recd, LastRecd, InOrder, Held, LastOut

(* An item that is taken is the last.                                      *)
LEMMA TookRecd ==
    ASSUME NEW m, Good(m), NEW f \in Frame, NEW r, RecvTook(m, f, r)
    PROVE  /\ Recd(r) = Append(Recd(m), f.data) /\ LastRecd(r) = f.data
           /\ Recd(r) # <<>> /\ LastOut(m) = LastRecd(m)
           /\ Open(m) /\ Open(r)
           /\ InOrder(m) /\ f.data = LastRecd(m) + 1 => InOrder(r)
           /\ f.data > LastRecd(m) => Held(r)
<1>1. m.out \in Seq(Nat) /\ f.data \in Nat /\ m.rx_buf = <<>> /\ Len(m.out) \in Nat
  BY RecdTypes, FrameTypes, LenProperties DEF RecvTook
<1>2. Recd(m) = m.out
  BY <1>1, ConcatEmptySeq DEF Recd
<1>3. /\ Append(m.out, f.data) \in Seq(Nat)
      /\ Len(Append(m.out, f.data)) = Len(m.out) + 1
      /\ Append(m.out, f.data)[Len(m.out) + 1] = f.data
      /\ \A i \in 1 .. Len(m.out) : Append(m.out, f.data)[i] = m.out[i]
      /\ Append(m.out, f.data) # <<>>
      /\ Append(m.out, f.data) = m.out \o <<f.data>>
  <2>. DEFINE s == m.out
              d == f.data
  <2>1. s \in Seq(Nat) /\ d \in Nat
    BY <1>1
  <2>. HIDE DEF s, d
  <2>2. /\ Append(s, d) \in Seq(Nat) /\ Len(Append(s, d)) = Len(s) + 1
        /\ Append(s, d)[Len(s) + 1] = d /\ Append(s, d) # <<>>
        /\ \A i \in 1 .. Len(s) : Append(s, d)[i] = s[i]
    BY <2>1, AppendProperties
  <2>3. Append(s, d) = s \o <<d>>
    BY <2>1, AppendIsConcat
  <2>. QED  BY <2>2, <2>3 DEF s, d
<1>4. Recd(r) = Append(m.out, f.data)
  <2>1. CASE r.out = Append(m.out, f.data) /\ r.rx_buf = <<>>
    BY <1>3, <2>1, ConcatEmptySeq DEF Recd
  <2>2. CASE r.out = m.out /\ r.rx_buf = <<f.data>>
    BY <1>3, <2>2 DEF Recd
  <2>. QED  BY <2>1, <2>2 DEF RecvTook
<1>5. LastRecd(r) = f.data
  BY <1>1, <1>3, <1>4 DEF LastRecd
<1>6. LastOut(m) = LastRecd(m)
  BY <1>2 DEF LastOut, LastRecd
<1>7. ASSUME InOrder(m), f.data = LastRecd(m) + 1 PROVE InOrder(r)
  <2>1. f.data = Len(m.out) + 1
    BY <1>2, <1>7, InOrderLast
  <2>2. \A i \in 1 .. Len(m.out) + 1 : i \in 1 .. Len(m.out) \/ i = Len(m.out) + 1
    BY <1>1
  <2>. QED  BY <1>2, <1>3, <1>4, <1>7, <2>1, <2>2 DEF InOrder
<1>8. ASSUME f.data > LastRecd(m) PROVE Held(r)
  <2>1. LastRecd(m) \in Nat
    BY RecdTypes
  <2>2. f.data > 0
    BY <1>1, <1>8, <2>1
  <2>3. CASE r.out = Append(m.out, f.data) /\ r.rx_buf = <<>>
    BY <1>5, <2>2, <2>3 DEF Held
  <2>4. CASE r.out = m.out /\ r.rx_buf = <<f.data>>
    <3>1. r.rx_buf[1] = f.data /\ LastOut(r) = LastOut(m)
      BY <2>4 DEF LastOut
    <3>. QED  BY <1>5, <1>6, <1>8, <2>2, <3>1 DEF Held
  <2>. QED  BY <2>3, <2>4 DEF RecvTook
<1>. QED  BY <1>2, <1>3, <1>4, <1>5, <1>6, <1>7, <1>8 DEF RecvTook, Open

-----------------------------------------------------------------------------
(* The sender receives f.                                                  *)

(* Its numbers advance, or all its items are given up.                     *)
LEMMA OrdSender ==
    ASSUME NEW l, Good(l), NEW m, Good(m), NEW c \in Seq(Frame), Ord(l, m, c),
           NEW f, NEW r, Good(r), SendStep(l, f, r)
    PROVE  Ord(r, m, c)
<1>1. OrdType(l.va, Acked(l), l.taken, m.vr, LastRecd(m), Open(m))
  BY DirType
<1>2. l.taken \in Nat /\ r.taken \in Nat
  BY AckedType
<1>3. CASE r.taken = l.taken /\ Acked(r) = r.taken
  BY <1>1, <1>3, OrdReset DEF Ord
<1>4. ASSUME NEW n \in Nat, r.va = Plus(l.va, n), Acked(r) = Acked(l) + n,
             Acked(l) + n <= l.taken, r.taken = l.taken \/ r.taken = l.taken + 1
      PROVE  Ord(r, m, c)
  <2>1. l.taken <= r.taken
    BY <1>2, <1>4
  <2>2. OrdOK(Plus(l.va, n), Acked(l) + n, r.taken, m.vr, LastRecd(m), Open(m), c)
    BY <1>1, <1>2, <1>4, <2>1, OrdAdvance DEF Ord
  <2>. QED  BY <1>4, <2>2 DEF Ord
<1>. QED  BY <1>3, <1>4 DEF SendStep

(* Its acknowledgement leaves the line.                                    *)
LEMMA GapSender ==
    ASSUME NEW l, Good(l), NEW m, Good(m), NEW c \in Seq(Frame), NEW b \in Seq(Frame),
           Ord(l, m, c), Gap(l, m, c, b), b # <<>>, NEW r, SendStep(l, Head(b), r),
           ~ (Head(b).kind = "SABME" /\ l.taken > 0)
    PROVE  Gap(r, m, c, Tail(b))
<1>1. OrdType(l.va, Acked(l), l.taken, m.vr, LastRecd(m), Open(m))
  BY DirType
<1>2. LastRecd(m) <= l.taken
  BY DEF Ord, OrdOK
<1>3. CASE ~ Live(r)
  BY <1>3 DEF Gap, GapOK
<1>4. ASSUME NEW n \in Nat, r.va = Plus(l.va, n), Acked(r) = Acked(l) + n,
             n > 0 => Numbered(Head(b)) /\ n <= Dist(Head(b).nr, l.va),
             Live(r) => Live(l)
      PROVE  Gap(r, m, c, Tail(b))
  <2>1. GapOK(Plus(l.va, n), Acked(l) + n, Live(l), m.vr, LastRecd(m), Open(m), c, Tail(b))
    BY <1>1, <1>2, <1>4, GapAdvance DEF Gap
  <2>. QED  BY <1>4, <2>1, GapKept DEF Gap
<1>. QED  BY <1>3, <1>4 DEF SendStep

-----------------------------------------------------------------------------
(* The receiver receives the oldest frame of c.                            *)

(* It is later than all the receiver has, or is not taken.                 *)
LEMMA OrdReceiver ==
    ASSUME NEW l, Good(l), NEW m, Good(m), NEW c \in Seq(Frame), Ord(l, m, c), c # <<>>,
           Held(m), NEW r, RecvKept(m, r) \/ RecvTook(m, Head(c), r)
    PROVE  /\ Ord(l, r, Tail(c)) /\ Held(r)
           /\ RecvTook(m, Head(c), r) =>
                Head(c).data > LastRecd(m) /\ Head(c).data <= l.taken
<1>. DEFINE f == Head(c)
<1>1. OrdType(l.va, Acked(l), l.taken, m.vr, LastRecd(m), Open(m)) /\ f \in Frame
  BY DirType, HeadTailProperties
<1>2. CASE RecvTook(m, f, r)
  <2>1. IsInfo(f) /\ Open(m) /\ f.ns = m.vr /\ r.vr = Plus(m.vr, 1)
    BY <1>2 DEF RecvTook
  <2>2. /\ f.data > LastRecd(m) /\ f.data <= l.taken
        /\ OrdOK(l.va, Acked(l), l.taken, Plus(m.vr, 1), f.data, Open(r), Tail(c))
    BY <1>1, <2>1, OrdAccept DEF Ord
  <2>3. LastRecd(r) = f.data /\ Held(r)
    BY <1>1, <1>2, <2>2, TookRecd
  <2>. QED  BY <2>1, <2>2, <2>3 DEF Ord
<1>3. CASE RecvKept(m, r) /\ ~ RecvTook(m, f, r)
  <2>1. OrdOK(l.va, Acked(l), l.taken, m.vr, LastRecd(m), Open(m), Tail(c))
    BY OrdTail DEF Ord
  <2>2. LastRecd(r) = LastRecd(m) /\ Held(r)
    BY <1>3, KeptRecd DEF RecvKept
  <2>3. Tail(c) \in Seq(Frame) /\ (Open(r) => Open(m) /\ r.vr = m.vr)
    BY <1>3, HeadTailProperties DEF RecvKept
  <2>4. OrdOK(l.va, Acked(l), l.taken, r.vr, LastRecd(m), Open(r), Tail(c))
    BY <2>1, <2>3, OrdKept
  <2>. QED  BY <1>3, <2>2, <2>4 DEF Ord
<1>. QED  BY <1>2, <1>3

(* Without gaps.                                                           *)
LEMMA GapReceiver ==
    ASSUME NEW l, Good(l), NEW m, Good(m), NEW c \in Seq(Frame), NEW b \in Seq(Frame),
           Ord(l, m, c), Gap(l, m, c, b), InOrder(m), c # <<>>,
           NEW r, RecvKept(m, r) \/ RecvTook(m, Head(c), r)
    PROVE  Gap(l, r, Tail(c), b) /\ InOrder(r)
<1>. DEFINE f == Head(c)
<1>1. OrdType(l.va, Acked(l), l.taken, m.vr, LastRecd(m), Open(m)) /\ f \in Frame
  BY DirType, HeadTailProperties
<1>2. CASE RecvTook(m, f, r)
  <2>1. IsInfo(f) /\ Open(m) /\ f.ns = m.vr /\ r.vr = Plus(m.vr, 1)
    BY <1>2 DEF RecvTook
  <2>2. f.data > LastRecd(m) /\ f.data <= l.taken
    BY <1>1, <2>1, OrdAccept DEF Ord
  <2>3. /\ f.data = LastRecd(m) + 1
        /\ GapOK(l.va, Acked(l), Live(l), Plus(m.vr, 1), LastRecd(m) + 1, Open(m), Tail(c), b)
    <3>1. GapOK(l.va, Acked(l), Live(l), m.vr, LastRecd(m), Open(m), c, b)
      BY DEF Gap
    <3>2. /\ IsInfo(Head(c)) /\ Open(m) /\ Head(c).ns = m.vr
          /\ Head(c).data > LastRecd(m) /\ Head(c).data <= l.taken
      BY <2>1, <2>2
    <3>3. OrdType(l.va, Acked(l), l.taken, m.vr, LastRecd(m), Open(m))
      BY <1>1
    <3>. DEFINE va == l.va
                acked == Acked(l)
                vr == m.vr
                last == LastRecd(m)
                taken == l.taken
                open == Open(m)
                live == Live(l)
    <3>. HIDE DEF f, va, acked, vr, last, taken, open, live
    <3>4. /\ OrdType(va, acked, taken, vr, last, open)
          /\ GapOK(va, acked, live, vr, last, open, c, b)
          /\ IsInfo(Head(c)) /\ open /\ Head(c).ns = vr
          /\ Head(c).data > last /\ Head(c).data <= taken
      BY <3>1, <3>2, <3>3 DEF va, acked, vr, last, taken, open, live
    <3>5. /\ Head(c).data = last + 1
          /\ GapOK(va, acked, live, Plus(vr, 1), last + 1, open, Tail(c), b)
      <4>1. Head(c).data = last + 1
        BY <3>4, NextItem DEF OrdType, GapOK
      <4>2. GapOK(va, acked, live, Plus(vr, 1), last + 1, open, Tail(c), b)
        BY <3>4, GapAccept
      <4>. QED  BY <4>1, <4>2
    <3>. QED  BY <3>5 DEF f, va, acked, vr, last, taken, open, live
  <2>4. LastRecd(r) = f.data /\ InOrder(r)
    BY <1>1, <1>2, <2>3, TookRecd
  <2>5. GapOK(l.va, Acked(l), Live(l), r.vr, LastRecd(r), Open(r), Tail(c), b)
    <3>1. GapOK(l.va, Acked(l), Live(l), r.vr, LastRecd(r), Open(m), Tail(c), b)
      BY <2>1, <2>3, <2>4
    <3>2. Open(r) => Open(m) /\ r.vr = r.vr
      BY <2>1
    <3>. QED  BY <3>1, <3>2, GapKept
  <2>. QED  BY <2>4, <2>5 DEF Gap
<1>3. CASE RecvKept(m, r)
  <2>1. GapOK(l.va, Acked(l), Live(l), m.vr, LastRecd(m), Open(m), Tail(c), b)
    BY GapTail DEF Gap
  <2>2. LastRecd(r) = LastRecd(m) /\ InOrder(r)
    BY <1>3, KeptRecd DEF RecvKept
  <2>3. Open(r) => Open(m) /\ r.vr = m.vr
    BY <1>3 DEF RecvKept
  <2>4. GapOK(l.va, Acked(l), Live(l), r.vr, LastRecd(m), Open(r), Tail(c), b)
    BY <2>1, <2>3, GapKept
  <2>. QED  BY <2>2, <2>4 DEF Gap
<1>. QED  BY <1>2, <1>3

(* The receiver queues or sends a frame, with an acknowledgement of all    *)
(* that it has.                                                            *)
LEMMA GapAcks ==
    ASSUME NEW l, Good(l), NEW m, Good(m), NEW c \in Seq(Frame), NEW b \in Seq(Frame),
           Ord(l, m, c), Gap(l, m, c, b), NEW g \in Frame,
           Numbered(g) => m.state = "DATA" /\ g.nr = m.vr
    PROVE  Gap(l, m, c, Append(b, g))
<1>1. CASE ~ Live(l)
  BY <1>1 DEF Gap, GapOK
<1>2. CASE Live(l)
  <2>1. /\ l.va \in SeqNo /\ Acked(l) \in Nat /\ LastRecd(m) \in Nat
        /\ Acked(l) <= LastRecd(m) /\ AckOK(l.va, Acked(l), LastRecd(m), b)
    BY <1>2, FieldTypes, AckedType, RecdTypes DEF Gap, GapOK
  <2>2. LastRecd(m) <= Acked(l) + TxWin
    <3>1. LastRecd(m) <= l.taken /\ l.taken <= Acked(l) + TxWin /\ l.taken \in Nat
      BY AckedType DEF Ord, OrdOK
    <3>. QED  BY <2>1, <3>1, LapmAssumption
  <2>3. Numbered(g) => g.nr = Plus(l.va, LastRecd(m) - Acked(l))
    BY <1>2 DEF Gap, GapOK, Open
  <2>4. AckOK(l.va, Acked(l), LastRecd(m), Append(b, g))
    BY <2>1, <2>2, <2>3, AckAppend
  <2>. QED  BY <2>4 DEF Gap, GapOK
<1>. QED  BY <1>1, <1>2

-----------------------------------------------------------------------------
(* The frames on their way from a station: those under way, then those in  *)
(* its ring of control frames.                                             *)

(* The frames of both, in order.                                           *)
LEMMA PipeTypes ==
    ASSUME NEW s \in Seq(Frame), NEW t \in Seq(Frame)
    PROVE  /\ s \o t \in Seq(Frame) /\ Len(s) \in Nat /\ Len(t) \in Nat
           /\ Len(s \o t) = Len(s) + Len(t)
           /\ \A i \in 1 .. Len(s) : (s \o t)[i] = s[i]
           /\ \A i \in 1 .. Len(t) : (s \o t)[Len(s) + i] = t[i]
<1>1. Len(s) \in Nat /\ Len(t) \in Nat
  BY LenProperties
<1>2. /\ s \o t \in Seq(Frame) /\ Len(s \o t) = Len(s) + Len(t)
      /\ \A i \in 1 .. Len(s) + Len(t) :
            (s \o t)[i] = IF i <= Len(s) THEN s[i] ELSE t[i - Len(s)]
  BY ConcatProperties
<1>3. ASSUME NEW i \in 1 .. Len(s) PROVE (s \o t)[i] = s[i]
  BY <1>1, <1>2
<1>4. ASSUME NEW i \in 1 .. Len(t) PROVE (s \o t)[Len(s) + i] = t[i]
  <2>1. Len(s) + i \in 1 .. Len(s) + Len(t) /\ ~ (Len(s) + i <= Len(s))
        /\ (Len(s) + i) - Len(s) = i
    BY <1>1
  <2>. QED  BY <1>2, <2>1
<1>. QED  BY <1>1, <1>2, <1>3, <1>4

(* A frame is queued.                                                      *)
LEMMA PipeQueue ==
    ASSUME NEW s \in Seq(Frame), NEW t \in Seq(Frame), NEW g \in Frame
    PROVE  s \o Append(t, g) = Append(s \o t, g)
<1>1. Append(t, g) = t \o <<g>> /\ <<g>> \in Seq(Frame)
  BY AppendIsConcat
<1>2. s \o t \in Seq(Frame)
  BY PipeTypes
<1>3. Append(s \o t, g) = (s \o t) \o <<g>>
  BY <1>2, AppendIsConcat
<1>4. (s \o t) \o <<g>> = s \o (t \o <<g>>)
  BY <1>1, ConcatAssociative
<1>. QED  BY <1>1, <1>3, <1>4

(* The oldest frame leaves the line.                                       *)
LEMMA PipeTail ==
    ASSUME NEW s \in Seq(Frame), NEW t \in Seq(Frame), s # <<>>
    PROVE  Tail(s) \o t = Tail(s \o t) /\ Head(s \o t) = Head(s) /\ s \o t # <<>>
<1>1. Len(s) \in Nat \ {0} /\ Tail(s) \in Seq(Frame) /\ Len(Tail(s)) = Len(s) - 1
      /\ \A i \in 1 .. Len(Tail(s)) : Tail(s)[i] = s[i + 1]
  BY HeadTailProperties, EmptySeq
<1>2. /\ s \o t \in Seq(Frame) /\ Len(t) \in Nat /\ Len(s \o t) = Len(s) + Len(t)
      /\ \A i \in 1 .. Len(s) : (s \o t)[i] = s[i]
      /\ \A i \in 1 .. Len(t) : (s \o t)[Len(s) + i] = t[i]
  BY PipeTypes
<1>3. s \o t # <<>>
  BY <1>1, <1>2, EmptySeq
<1>4. Head(s \o t) = Head(s)
  <2>1. Head(s \o t) = (s \o t)[1] /\ Head(s) = s[1]
    BY <1>1, <1>2, <1>3
  <2>2. 1 \in 1 .. Len(s)
    BY <1>1
  <2>. QED  BY <1>2, <2>1, <2>2
<1>5. /\ Tail(s \o t) \in Seq(Frame) /\ Len(Tail(s \o t)) = Len(s) + Len(t) - 1
      /\ \A i \in 1 .. Len(s) + Len(t) - 1 : Tail(s \o t)[i] = (s \o t)[i + 1]
  BY <1>2, <1>3, HeadTailProperties
<1>6. /\ Tail(s) \o t \in Seq(Frame) /\ Len(Tail(s) \o t) = Len(Tail(s)) + Len(t)
      /\ \A i \in 1 .. Len(Tail(s)) : (Tail(s) \o t)[i] = Tail(s)[i]
      /\ \A i \in 1 .. Len(t) : (Tail(s) \o t)[Len(Tail(s)) + i] = t[i]
  BY <1>1, PipeTypes
<1>7. Len(Tail(s) \o t) = Len(s) + Len(t) - 1
  BY <1>1, <1>2, <1>6
<1>8. ASSUME NEW i \in 1 .. Len(s) + Len(t) - 1
      PROVE  (Tail(s) \o t)[i] = Tail(s \o t)[i]
  <2>1. CASE i <= Len(s) - 1
    <3>1. i \in 1 .. Len(Tail(s)) /\ i + 1 \in 1 .. Len(s)
      BY <1>1, <2>1
    <3>. QED  BY <1>1, <1>2, <1>5, <1>6, <3>1
  <2>2. CASE i > Len(s) - 1
    <3>. DEFINE k == i - (Len(s) - 1)
    <3>1. k \in 1 .. Len(t) /\ i = (Len(s) - 1) + k /\ i + 1 = Len(s) + k
      BY <1>1, <1>2, <2>2
    <3>. HIDE DEF k
    <3>2. (Tail(s) \o t)[i] = t[k]
      BY <1>1, <1>6, <3>1
    <3>3. Tail(s \o t)[i] = t[k]
      BY <1>2, <1>5, <3>1
    <3>. QED  BY <3>2, <3>3
  <2>. QED  BY <1>1, <2>1, <2>2
<1>9. Tail(s) \o t = Tail(s \o t)
  BY <1>5, <1>6, <1>7, <1>8, SeqEqual
<1>. QED  BY <1>3, <1>4, <1>9

(* The oldest control frame goes to the line.                              *)
LEMMA PipeMove ==
    ASSUME NEW s \in Seq(Frame), NEW t \in Seq(Frame), t # <<>>
    PROVE  Append(s, Head(t)) \o Tail(t) = s \o t
<1>1. Head(t) \in Frame /\ Tail(t) \in Seq(Frame) /\ <<Head(t)>> \in Seq(Frame)
      /\ Len(Tail(t)) = Len(t) - 1 /\ Len(t) \in Nat \ {0} /\ Head(t) = t[1]
      /\ \A i \in 1 .. Len(Tail(t)) : Tail(t)[i] = t[i + 1]
  BY HeadTailProperties, EmptySeq
<1>2. Append(s, Head(t)) = s \o <<Head(t)>>
  BY <1>1, AppendIsConcat
<1>3. (s \o <<Head(t)>>) \o Tail(t) = s \o (<<Head(t)>> \o Tail(t))
  BY <1>1, ConcatAssociative
<1>4. <<Head(t)>> \o Tail(t) = t
  <2>. DEFINE u == <<Head(t)>>
  <2>1. u \in Seq(Frame) /\ Len(u) = 1 /\ u[1] = t[1]
    BY <1>1
  <2>. HIDE DEF u
  <2>2. /\ u \o Tail(t) \in Seq(Frame) /\ Len(u \o Tail(t)) = Len(u) + Len(Tail(t))
        /\ \A i \in 1 .. Len(u) : (u \o Tail(t))[i] = u[i]
        /\ \A i \in 1 .. Len(Tail(t)) : (u \o Tail(t))[Len(u) + i] = Tail(t)[i]
    BY <1>1, <2>1, PipeTypes
  <2>3. Len(u \o Tail(t)) = Len(t)
    BY <1>1, <2>1, <2>2
  <2>4. ASSUME NEW i \in 1 .. Len(t) PROVE (u \o Tail(t))[i] = t[i]
    <3>1. CASE i = 1
      BY <2>1, <2>2, <3>1
    <3>2. CASE i # 1
      <4>. DEFINE k == i - 1
      <4>1. k \in 1 .. Len(Tail(t)) /\ i = Len(u) + k /\ k + 1 = i
        BY <1>1, <2>1, <3>2
      <4>. HIDE DEF k
      <4>. QED  BY <1>1, <2>2, <4>1
    <3>. QED  BY <3>1, <3>2
  <2>5. u \o Tail(t) = t
    BY <2>2, <2>3, <2>4, SeqEqual
  <2>. QED  BY <2>5 DEF u
<1>. QED  BY <1>2, <1>3, <1>4

(* Frames of some kinds are not among those of a sequence.                 *)
Free(c, k) == \A i \in 1 .. Len(c) : c[i].kind # k

(* One frame less, or more.                                                *)
LEMMA FreeSteps ==
    ASSUME NEW c \in Seq(Frame), NEW k, Free(c, k)
    PROVE  /\ c # <<>> => Head(c).kind # k /\ Free(Tail(c), k)
           /\ \A g \in Frame : g.kind # k => Free(Append(c, g), k)
           /\ Free(<<>>, k)
<1>1. ASSUME c # <<>> PROVE Head(c).kind # k /\ Free(Tail(c), k)
  <2>1. /\ Len(c) \in Nat \ {0} /\ Head(c) = c[1] /\ Len(Tail(c)) = Len(c) - 1
        /\ \A i \in 1 .. Len(Tail(c)) : Tail(c)[i] = c[i + 1]
    BY <1>1, HeadTailProperties, EmptySeq
  <2>2. 1 \in 1 .. Len(c) /\ \A i \in 1 .. Len(Tail(c)) : i + 1 \in 1 .. Len(c)
    BY <2>1
  <2>. QED  BY <2>1, <2>2 DEF Free
<1>2. ASSUME NEW g \in Frame, g.kind # k PROVE Free(Append(c, g), k)
  <2>. DEFINE d == Append(c, g)
  <2>1. /\ Len(d) = Len(c) + 1 /\ d[Len(c) + 1] = g /\ Len(c) \in Nat
        /\ \A i \in 1 .. Len(c) : d[i] = c[i]
    BY AppendProperties, LenProperties
  <2>. HIDE DEF d
  <2>2. \A i \in 1 .. Len(d) : i \in 1 .. Len(c) \/ i = Len(c) + 1
    BY <2>1
  <2>3. Free(d, k)
    BY <1>2, <2>1, <2>2 DEF Free
  <2>. QED  BY <2>3 DEF d
<1>3. Free(<<>>, k)
  BY DEF Free
<1>. QED  BY <1>1, <1>2, <1>3

(* Of the frames of two sequences.                                         *)
LEMMA FreeConcat ==
    ASSUME NEW s \in Seq(Frame), NEW t \in Seq(Frame), NEW k, Free(s, k), Free(t, k)
    PROVE  Free(s \o t, k)
<1>1. /\ Len(s) \in Nat /\ Len(t) \in Nat /\ Len(s \o t) = Len(s) + Len(t)
      /\ \A i \in 1 .. Len(s) : (s \o t)[i] = s[i]
      /\ \A i \in 1 .. Len(t) : (s \o t)[Len(s) + i] = t[i]
  BY PipeTypes
<1>2. ASSUME NEW i \in 1 .. Len(s \o t) PROVE (s \o t)[i].kind # k
  <2>1. CASE i <= Len(s)
    BY <1>1, <2>1 DEF Free
  <2>2. CASE i > Len(s)
    <3>. DEFINE j == i - Len(s)
    <3>1. j \in 1 .. Len(t) /\ i = Len(s) + j
      BY <1>1, <2>2
    <3>. HIDE DEF j
    <3>. QED  BY <1>1, <3>1 DEF Free
  <2>. QED  BY <1>1, <2>1, <2>2
<1>. QED  BY <1>2 DEF Free

-----------------------------------------------------------------------------
(* SABMEs: n were made, the frames c are on their way to the answerer a.   *)
(* No I frame is before a SABME, so the answerer that it reaches has       *)
(* received nothing; and only a second one finds it raised.                *)

SabOK(n, a, c) ==
    /\ \A i \in 1 .. Len(c) : c[i].kind = "SABME" =>
          /\ n >= 1 /\ Recd(a) = <<>> /\ (Raised(a) => n >= 2)
          /\ \A j \in 1 .. i - 1 : c[j].kind # "I" /\ (c[j].kind = "SABME" => n >= 2)
    /\ n = 0 => ~ Raised(a)

(* The answerer takes nothing and is not raised; SABMEs are only added.    *)
LEMMA SabMore ==
    ASSUME NEW n \in Nat, NEW a, NEW c \in Seq(Frame), SabOK(n, a, c),
           NEW k \in Nat, k >= n, NEW r, Recd(r) = Recd(a), Raised(r) => Raised(a)
    PROVE  SabOK(k, r, c)
<1>1. (n >= 1 => k >= 1) /\ (n >= 2 => k >= 2) /\ (k = 0 => n = 0)
  OBVIOUS
<1>. QED  BY <1>1 DEF SabOK

(* Some of the oldest frames are gone.                                     *)
LEMMA SabSuffix ==
    ASSUME NEW n \in Nat, NEW a, NEW c \in Seq(Frame), SabOK(n, a, c),
           NEW e \in Seq(Frame), NEW k \in Nat, Len(c) = Len(e) + k,
           \A i \in 1 .. Len(e) : e[i] = c[i + k]
    PROVE  SabOK(n, a, e)
<1>1. Len(e) \in Nat
  BY LenProperties
<1>2. \A i \in 1 .. Len(e) : i + k \in 1 .. Len(c)
  BY <1>1
<1>3. \A i \in 1 .. Len(e) : \A j \in 1 .. i - 1 :
         j \in 1 .. Len(e) /\ j + k \in 1 .. (i + k) - 1
  BY <1>1
<1>. QED  BY <1>2, <1>3 DEF SabOK

(* Without the oldest frame.                                               *)
LEMMA SabTail ==
    ASSUME NEW n \in Nat, NEW a, NEW c \in Seq(Frame), SabOK(n, a, c), c # <<>>
    PROVE  SabOK(n, a, Tail(c))
<1>1. /\ Tail(c) \in Seq(Frame) /\ Len(c) = Len(Tail(c)) + 1
      /\ \A i \in 1 .. Len(Tail(c)) : Tail(c)[i] = c[i + 1]
  BY HeadTailProperties, LenProperties
<1>. QED  BY <1>1, SabSuffix

(* One more frame at the end.                                              *)
LEMMA SabAppend ==
    ASSUME NEW n \in Nat, NEW a, NEW c \in Seq(Frame), SabOK(n, a, c),
           NEW g \in Frame, NEW k \in Nat, k >= n,
           g.kind = "SABME" => k = n + 1 /\ Recd(a) = <<>> /\ Free(c, "I")
    PROVE  SabOK(k, a, Append(c, g))
<1>. DEFINE d == Append(c, g)
<1>1. /\ Len(d) = Len(c) + 1 /\ d[Len(c) + 1] = g /\ Len(c) \in Nat
      /\ \A i \in 1 .. Len(c) : d[i] = c[i]
  BY AppendProperties, LenProperties
<1>. HIDE DEF d
<1>2. (n >= 1 => k >= 1) /\ (n >= 2 => k >= 2) /\ (k = 0 => n = 0)
  OBVIOUS
<1>3. ASSUME NEW i \in 1 .. Len(d), d[i].kind = "SABME"
      PROVE  /\ k >= 1 /\ Recd(a) = <<>> /\ (Raised(a) => k >= 2)
             /\ \A j \in 1 .. i - 1 : d[j].kind # "I" /\ (d[j].kind = "SABME" => k >= 2)
  <2>1. CASE i \in 1 .. Len(c)
    <3>1. \A j \in 1 .. i - 1 : j \in 1 .. Len(c)
      BY <1>1, <2>1
    <3>. QED  BY <1>1, <1>2, <1>3, <2>1, <3>1 DEF SabOK
  <2>2. CASE i = Len(c) + 1
    <3>1. g.kind = "SABME" /\ k = n + 1 /\ Recd(a) = <<>> /\ Free(c, "I")
      BY <1>1, <1>3, <2>2
    <3>2. k >= 1 /\ (n >= 1 => k >= 2) /\ (n # 0 => n >= 1)
      BY <3>1
    <3>3. \A j \in 1 .. i - 1 : j \in 1 .. Len(c) /\ d[j] = c[j]
      BY <1>1, <2>2
    <3>. QED  BY <3>1, <3>2, <3>3 DEF SabOK, Free
  <2>. QED  BY <1>1, <2>1, <2>2
<1>4. k = 0 => ~ Raised(a)
  BY <1>2 DEF SabOK
<1>5. SabOK(k, a, d)
  BY <1>3, <1>4 DEF SabOK
<1>. QED  BY <1>5 DEF d

(* The answerer receives the oldest frame.                                 *)
LEMMA SabReceive ==
    ASSUME NEW n \in Nat, NEW a, Good(a), NEW c \in Seq(Frame), SabOK(n, a, c), c # <<>>,
           NEW r, RxStep("answerer", a, Head(c), r)
    PROVE  SabOK(n, r, Tail(c))
<1>. DEFINE f == Head(c)
            d == Tail(c)
<1>1. /\ d \in Seq(Frame) /\ Len(c) \in Nat \ {0} /\ Len(d) = Len(c) - 1 /\ f = c[1]
      /\ f \in Frame /\ \A i \in 1 .. Len(d) : d[i] = c[i + 1]
  BY HeadTailProperties, EmptySeq
<1>2. /\ RecvKept(a, r) \/ RecvTook(a, f, r)
      /\ Raised(r) => Raised(a) \/ f.kind = "SABME"
  BY DEF RxStep
<1>3. SabOK(n, a, d)
  BY SabTail
<1>. HIDE DEF f, d
<1>4. ASSUME NEW i \in 1 .. Len(d), d[i].kind = "SABME"
      PROVE  Recd(r) = <<>> /\ (Raised(r) => n >= 2)
  <2>1. i + 1 \in 1 .. Len(c) /\ 1 \in 1 .. (i + 1) - 1 /\ c[i + 1].kind = "SABME"
    BY <1>1, <1>4
  <2>2. Recd(a) = <<>> /\ f.kind # "I" /\ (f.kind = "SABME" => n >= 2)
        /\ (Raised(a) => n >= 2)
    BY <1>1, <2>1 DEF SabOK
  <2>3. RecvKept(a, r)
    BY <1>2, <2>2 DEF RecvTook, IsInfo
  <2>4. Recd(r) = Recd(a)
    BY <2>3, KeptRecd DEF RecvKept
  <2>. QED  BY <1>2, <2>2, <2>4
<1>5. n = 0 => ~ Raised(r)
  <2>1. 1 \in 1 .. Len(c)
    BY <1>1
  <2>2. f.kind = "SABME" => n >= 1
    BY <1>1, <2>1 DEF SabOK
  <2>. QED  BY <1>2, <2>2 DEF SabOK
<1>6. SabOK(n, r, d)
  BY <1>3, <1>4, <1>5 DEF SabOK
<1>. QED  BY <1>6 DEF d

(* A SABME that reaches the answerer.                                      *)
LEMMA SabHead ==
    ASSUME NEW n \in Nat, NEW a, NEW c \in Seq(Frame), SabOK(n, a, c), c # <<>>,
           Head(c).kind = "SABME"
    PROVE  Recd(a) = <<>> /\ (Raised(a) => n >= 2)
<1>1. Len(c) \in Nat \ {0} /\ Head(c) = c[1]
  BY EmptySeq
<1>2. 1 \in 1 .. Len(c)
  BY <1>1
<1>. QED  BY <1>1, <1>2 DEF SabOK

-----------------------------------------------------------------------------
(* The link as the station p sees it: l is p, m its peer, c the frames     *)
(* under way to p, d those under way to the peer.                          *)

(* The direction that ends at the station q.                               *)
OrdInto(q, l, m, c) == Sound(q, m) /\ Held(m) /\ Ord(l, m, c)
GapInto(l, m, c, b) == InOrder(m) /\ Gap(l, m, c, b)

(* x is the caller, a the answerer: only the caller sends SABME, and rings *)
(* of control frames hold no item.                                         *)
Sab(x, a, d, c) ==
    /\ SabOK(x.sabmes, a, d \o x.ctrl)
    /\ Free(c, "SABME") /\ Free(a.ctrl, "SABME")
    /\ Free(x.ctrl, "I") /\ Free(a.ctrl, "I")

SabAt(p, l, m, c, d) == IF p = "caller" THEN Sab(l, m, d, c) ELSE Sab(m, l, c, d)

(* One SABME was enough so far.                                            *)
Single(l, m) == l.sabmes <= 1 /\ m.sabmes <= 1

Link(p, l, m, c, d) ==
    /\ OrdInto(p, m, l, c) /\ OrdInto(Peer(p), l, m, d)
    /\ SabAt(p, l, m, c, d)
    /\ Single(l, m) =>
         GapInto(m, l, c, d \o l.ctrl) /\ GapInto(l, m, d, c \o m.ctrl)

(* The two stations, and what they are known to be.                        *)
Ends(l, m, c, d) ==
    Good(l) /\ Good(m) /\ c \in Seq(Frame) /\ d \in Seq(Frame)

(* The two ends of the link.                                               *)
LEMMA Peers ==
    ASSUME NEW p \in Station
    PROVE  /\ Peer(p) \in Station /\ Peer(p) # p /\ Peer(Peer(p)) = p
           /\ \A x \in Station : x = p \/ x = Peer(p)
           /\ p = "caller" => Peer(p) = "answerer"
           /\ p # "caller" => p = "answerer" /\ Peer(p) = "caller"
BY DEF Station, Peer

(* The link is the same from either end.                                   *)
LEMMA LinkTurned ==
    ASSUME NEW p \in Station, NEW l, NEW m, NEW c, NEW d, Link(p, l, m, c, d)
    PROVE  Link(Peer(p), m, l, d, c)
<1>1. SabAt(Peer(p), m, l, d, c)
  BY Peers DEF Link, SabAt
<1>. QED  BY <1>1, Peers DEF Link, Single

(* What the caller queues: a SABME only while nothing was fetched, so that *)
(* no item is ahead of it.                                                 *)
LEMMA CallerQueues ==
    ASSUME NEW x, Good(x), NEW a, Good(a), NEW d \in Seq(Frame), NEW c,
           Sab(x, a, d, c), Ord(x, a, d), Held(a),
           NEW r, Good(r), Sound("caller", r), CtrlStep(x, r),
           r.sabmes = x.sabmes \/ r.sabmes = x.sabmes + 1, x.taken <= r.taken
    PROVE  SabOK(r.sabmes, a, d \o r.ctrl) /\ Free(r.ctrl, "I")
<1>1. /\ x.ctrl \in Seq(Frame) /\ x.sabmes \in Nat /\ r.sabmes \in Nat
      /\ x.taken \in Nat /\ r.taken \in Nat /\ LastRecd(a) \in Nat
  BY RecdTypes, AckedType
<1>2. d \o x.ctrl \in Seq(Frame) /\ Len(d) \in Nat
  BY <1>1, PipeTypes
<1>3. SabOK(x.sabmes, a, d \o x.ctrl) /\ Free(x.ctrl, "I")
  BY DEF Sab
<1>4. r.sabmes >= x.sabmes
  BY <1>1
<1>5. CASE r.ctrl = x.ctrl
  BY <1>1, <1>2, <1>3, <1>4, <1>5, SabMore
<1>6. ASSUME NEW g \in Frame, r.ctrl = Append(x.ctrl, g), Queued(g, x, r)
      PROVE  SabOK(r.sabmes, a, d \o r.ctrl) /\ Free(r.ctrl, "I")
  <2>1. d \o r.ctrl = Append(d \o x.ctrl, g)
    BY <1>1, <1>6, PipeQueue
  <2>2. ASSUME g.kind = "SABME"
        PROVE  r.sabmes = x.sabmes + 1 /\ Recd(a) = <<>> /\ Free(d \o x.ctrl, "I")
    <3>1. r.sabmes = x.sabmes + 1 /\ r.state = "ESTAB"
      BY <1>6, <2>2 DEF Queued
    <3>2. r.taken = 0
      BY <3>1 DEF Sound
    <3>3. x.taken = 0
      BY <1>1, <3>2
    <3>4. LastRecd(a) <= 0 /\ \A i \in 1 .. Len(d) : IsInfo(d[i]) => d[i].data \in 1 .. 0
      BY <3>3 DEF Ord, OrdOK
    <3>5. Recd(a) = <<>>
      BY <3>4, <1>1 DEF Held
    <3>6. Free(d, "I")
      BY <3>4 DEF Free, IsInfo
    <3>7. Free(d \o x.ctrl, "I")
      BY <1>1, <1>3, <3>6, FreeConcat
    <3>. QED  BY <3>1, <3>5, <3>7
  <2>3. SabOK(r.sabmes, a, Append(d \o x.ctrl, g))
    BY <1>1, <1>2, <1>3, <1>4, <2>2, SabAppend
  <2>4. g.kind # "I"
    BY <1>6 DEF Queued, IsInfo
  <2>5. Free(r.ctrl, "I")
    BY <1>1, <1>3, <1>6, <2>4, FreeSteps
  <2>. QED  BY <2>1, <2>3, <2>5
<1>. QED  BY <1>5, <1>6 DEF CtrlStep

(* What the answerer queues: neither SABME nor an item.                    *)
LEMMA AnswererQueues ==
    ASSUME NEW a, Good(a), Free(a.ctrl, "SABME"), Free(a.ctrl, "I"),
           NEW r, Sound("answerer", r), CtrlStep(a, r)
    PROVE  Free(r.ctrl, "SABME") /\ Free(r.ctrl, "I")
<1>1. a.ctrl \in Seq(Frame)
  BY RecdTypes
<1>2. r.state # "ESTAB"
  BY DEF Sound
<1>3. CASE r.ctrl = a.ctrl
  BY <1>3
<1>4. ASSUME NEW g \in Frame, r.ctrl = Append(a.ctrl, g), Queued(g, a, r)
      PROVE  Free(r.ctrl, "SABME") /\ Free(r.ctrl, "I")
  <2>1. g.kind # "SABME" /\ g.kind # "I"
    BY <1>2, <1>4 DEF Queued, IsInfo
  <2>2. Free(Append(a.ctrl, g), "SABME")
    BY <1>1, <2>1, FreeSteps
  <2>3. Free(Append(a.ctrl, g), "I")
    BY <1>1, <2>1, FreeSteps
  <2>. QED  BY <1>4, <2>2, <2>3
<1>. QED  BY <1>3, <1>4 DEF CtrlStep

(* The frames a station queues acknowledge what it has.                    *)
LEMMA QueueAcks ==
    ASSUME NEW l, Good(l), NEW m, Good(m), NEW c \in Seq(Frame), NEW d \in Seq(Frame),
           NEW r, Good(r), CtrlStep(m, r), Ord(l, r, c), Gap(l, r, c, d \o m.ctrl)
    PROVE  Gap(l, r, c, d \o r.ctrl)
<1>1. m.ctrl \in Seq(Frame)
  BY RecdTypes
<1>2. d \o m.ctrl \in Seq(Frame)
  BY <1>1, PipeTypes
<1>3. CASE r.ctrl = m.ctrl
  BY <1>3
<1>4. ASSUME NEW g \in Frame, r.ctrl = Append(m.ctrl, g), Queued(g, m, r)
      PROVE  Gap(l, r, c, d \o r.ctrl)
  <2>1. d \o r.ctrl = Append(d \o m.ctrl, g)
    BY <1>1, <1>4, PipeQueue
  <2>2. Numbered(g) => r.state = "DATA" /\ g.nr = r.vr
    BY <1>4 DEF Queued
  <2>3. Gap(l, r, c, Append(d \o m.ctrl, g))
    BY <1>2, <2>2, GapAcks
  <2>. QED  BY <2>1, <2>3
<1>. QED  BY <1>3, <1>4 DEF CtrlStep

-----------------------------------------------------------------------------
(* The events at the station p.                                            *)

(* A SABME reaches only the answerer, who has received nothing yet; if it  *)
(* has fetched an item, it is not the first.                               *)
LEMMA LinkSabme ==
    ASSUME NEW p \in Station, NEW l, NEW m, NEW c, NEW d, Ends(l, m, c, d),
           Link(p, l, m, c, d), c # <<>>, Head(c).kind = "SABME"
    PROVE  p = "answerer" /\ Recd(l) = <<>> /\ (Raised(l) => m.sabmes >= 2)
<1>1. CASE p = "caller"
  <2>1. Free(c, "SABME")
    BY <1>1 DEF Link, SabAt, Sab
  <2>. QED  BY <2>1, FreeSteps DEF Ends
<1>2. CASE p # "caller"
  <2>1. SabOK(m.sabmes, l, c \o m.ctrl)
    BY <1>2 DEF Link, SabAt, Sab
  <2>2. m.sabmes \in Nat /\ m.ctrl \in Seq(Frame)
    BY RecdTypes DEF Ends
  <2>3. Head(c \o m.ctrl) = Head(c) /\ c \o m.ctrl # <<>>
    BY <2>2, PipeTail DEF Ends
  <2>4. c \o m.ctrl \in Seq(Frame)
    BY <2>2, PipeTypes DEF Ends
  <2>5. Recd(l) = <<>> /\ (Raised(l) => m.sabmes >= 2)
    BY <2>1, <2>2, <2>3, <2>4, SabHead
  <2>. QED  BY <1>2, <2>5, Peers
<1>. QED  BY <1>1, <1>2

(* The two stations' part of SabAt on a step that queues at most one       *)
(* frame, without a SABME being received.                                  *)
LEMMA SabQueues ==
    ASSUME NEW p \in Station, NEW l, NEW m, NEW c, NEW d, Ends(l, m, c, d),
           Link(p, l, m, c, d), NEW r, Good(r), Sound(p, r), CtrlStep(l, r),
           r.sabmes = l.sabmes \/ r.sabmes = l.sabmes + 1, l.taken <= r.taken,
           NEW e \in Seq(Frame),
           p = "caller" => Free(e, "SABME"),
           p # "caller" => SabOK(m.sabmes, r, e \o m.ctrl)
    PROVE  SabAt(p, r, m, e, d)
<1>1. CASE p = "caller"
  <2>1. Sab(l, m, d, c) /\ Ord(l, m, d) /\ Held(m)
    BY <1>1 DEF Link, SabAt, OrdInto
  <2>2. SabOK(r.sabmes, m, d \o r.ctrl) /\ Free(r.ctrl, "I")
    BY <1>1, <2>1, CallerQueues DEF Ends
  <2>3. Sab(r, m, d, e)
    BY <1>1, <2>1, <2>2 DEF Sab
  <2>. QED  BY <1>1, <2>3 DEF SabAt
<1>2. CASE p # "caller"
  <2>1. p = "answerer" /\ Sab(m, l, c, d)
    BY <1>2, Peers DEF Link, SabAt
  <2>2. Free(l.ctrl, "SABME") /\ Free(l.ctrl, "I")
    BY <2>1 DEF Sab
  <2>3. Free(r.ctrl, "SABME") /\ Free(r.ctrl, "I")
    BY <2>1, <2>2, AnswererQueues DEF Ends
  <2>4. Sab(m, r, e, d)
    BY <1>2, <2>1, <2>3 DEF Sab
  <2>. QED  BY <1>2, <2>4 DEF SabAt
<1>. QED  BY <1>1, <1>2

(* A frame is received.                                                    *)
LEMMA LinkReceive ==
    ASSUME NEW p \in Station, NEW l, NEW m, NEW c, NEW d, Ends(l, m, c, d),
           Link(p, l, m, c, d), c # <<>>, NEW r, Good(r), RxStep(p, l, Head(c), r)
    PROVE  /\ Link(p, r, m, Tail(c), d)
           /\ RecvTook(l, Head(c), r) =>
                Head(c).data > LastRecd(l) /\ Head(c).data <= m.taken
<1>. DEFINE f == Head(c)
<1>0. /\ Good(l) /\ Good(m) /\ c \in Seq(Frame) /\ d \in Seq(Frame)
      /\ l.ctrl \in Seq(Frame) /\ m.ctrl \in Seq(Frame) /\ m.sabmes \in Nat
      /\ f \in Frame /\ Tail(c) \in Seq(Frame) /\ l.taken \in Nat
      /\ l.sabmes \in Nat /\ r.sabmes \in Nat /\ r.taken \in Nat
  BY RecdTypes, AckedType, HeadTailProperties DEF Ends
<1>1. /\ OrdInto(p, m, l, c) /\ OrdInto(Peer(p), l, m, d)
      /\ SabAt(p, l, m, c, d)
  BY DEF Link
<1>2. /\ Sound(p, r) /\ CtrlStep(l, r) /\ SendStep(l, f, r)
      /\ RecvKept(l, r) \/ RecvTook(l, f, r)
      /\ r.sabmes = l.sabmes \/ r.sabmes = l.sabmes + 1
  BY DEF RxStep
<1>3. /\ Ord(m, r, Tail(c)) /\ Held(r)
      /\ RecvTook(l, f, r) => f.data > LastRecd(l) /\ f.data <= m.taken
  BY <1>0, <1>1, <1>2, OrdReceiver DEF OrdInto
<1>4. Ord(r, m, d)
  BY <1>0, <1>1, <1>2, OrdSender DEF OrdInto
<1>5. OrdInto(p, m, r, Tail(c)) /\ OrdInto(Peer(p), r, m, d)
  BY <1>1, <1>2, <1>3, <1>4 DEF OrdInto
<1>6. SabAt(p, r, m, Tail(c), d)
  <2>1. l.taken <= r.taken
    BY <1>0, <1>2 DEF SendStep
  <2>2. p = "caller" => Free(Tail(c), "SABME")
    BY <1>0, <1>1, FreeSteps DEF SabAt, Sab
  <2>3. ASSUME p # "caller" PROVE SabOK(m.sabmes, r, Tail(c) \o m.ctrl)
    <3>1. SabOK(m.sabmes, l, c \o m.ctrl) /\ p = "answerer"
      BY <1>1, <2>3, Peers DEF SabAt, Sab
    <3>2. /\ c \o m.ctrl \in Seq(Frame) /\ c \o m.ctrl # <<>>
          /\ Head(c \o m.ctrl) = f /\ Tail(c \o m.ctrl) = Tail(c) \o m.ctrl
      BY <1>0, PipeTypes, PipeTail
    <3>3. RxStep("answerer", l, Head(c \o m.ctrl), r)
      BY <3>1, <3>2
    <3>4. SabOK(m.sabmes, r, Tail(c \o m.ctrl))
      BY <1>0, <3>1, <3>2, <3>3, SabReceive
    <3>. QED  BY <3>2, <3>4
  <2>. QED  BY <1>0, <1>2, <2>1, <2>2, <2>3, SabQueues
<1>7. ASSUME Single(r, m)
      PROVE  GapInto(m, r, Tail(c), d \o r.ctrl) /\ GapInto(r, m, d, Tail(c) \o m.ctrl)
  <2>1. Single(l, m)
    BY <1>0, <1>2, <1>7 DEF Single
  <2>2. GapInto(m, l, c, d \o l.ctrl) /\ GapInto(l, m, d, c \o m.ctrl)
    BY <2>1 DEF Link
  <2>3. d \o l.ctrl \in Seq(Frame) /\ c \o m.ctrl \in Seq(Frame)
    BY <1>0, PipeTypes
  <2>4. Gap(m, r, Tail(c), d \o l.ctrl) /\ InOrder(r)
    BY <1>0, <1>1, <1>2, <2>2, <2>3, GapReceiver DEF OrdInto, GapInto
  <2>5. Gap(m, r, Tail(c), d \o r.ctrl)
    BY <1>0, <1>2, <1>3, <2>4, QueueAcks
  <2>6. Tail(c) \o m.ctrl = Tail(c \o m.ctrl) /\ Head(c \o m.ctrl) = f /\ c \o m.ctrl # <<>>
    BY <1>0, PipeTail
  <2>7. ~ (f.kind = "SABME" /\ l.taken > 0)
    <3>1. f.kind = "SABME" /\ l.taken > 0 => m.sabmes >= 2
      BY LinkSabme DEF Raised
    <3>. QED  BY <3>1, <1>0, <1>7 DEF Single
  <2>8. SendStep(l, Head(c \o m.ctrl), r)
    BY <1>2, <2>6
  <2>9. Gap(r, m, d, Tail(c \o m.ctrl))
    BY <1>0, <1>1, <2>2, <2>3, <2>6, <2>7, <2>8, GapSender DEF OrdInto, GapInto
  <2>. QED  BY <2>2, <2>4, <2>5, <2>6, <2>9 DEF GapInto
<1>. QED  BY <1>3, <1>5, <1>6, <1>7 DEF Link

(* Nothing is exchanged with the line: a timer, the terminal, the user.    *)
LEMMA LinkHere ==
    ASSUME NEW p \in Station, NEW l, NEW m, NEW c, NEW d, Ends(l, m, c, d),
           Link(p, l, m, c, d), NEW r, Good(r), HereStep(p, l, r), Held(r)
    PROVE  Link(p, r, m, c, d)
<1>0. /\ Good(l) /\ Good(m) /\ c \in Seq(Frame) /\ d \in Seq(Frame)
      /\ l.ctrl \in Seq(Frame) /\ m.ctrl \in Seq(Frame) /\ m.sabmes \in Nat
      /\ l.sabmes \in Nat /\ r.sabmes \in Nat /\ r.taken \in Nat
  BY RecdTypes, AckedType DEF Ends
<1>1. /\ OrdInto(p, m, l, c) /\ OrdInto(Peer(p), l, m, d)
      /\ SabAt(p, l, m, c, d)
  BY DEF Link
<1>2. /\ Sound(p, r) /\ CtrlStep(l, r)
      /\ r.sabmes = l.sabmes \/ r.sabmes = l.sabmes + 1
      /\ r.va = l.va /\ Acked(r) = Acked(l) /\ r.taken = l.taken /\ (Live(r) => Live(l))
      /\ Recd(r) = Recd(l) /\ (Open(r) => Open(l) /\ r.vr = l.vr)
      /\ Raised(r) => Raised(l)
  BY DEF HereStep
<1>3. LastRecd(r) = LastRecd(l)
  BY <1>2 DEF LastRecd
<1>4. Ord(m, r, c)
  <2>1. OrdOK(m.va, Acked(m), m.taken, l.vr, LastRecd(l), Open(l), c)
    BY <1>1 DEF OrdInto, Ord
  <2>2. OrdOK(m.va, Acked(m), m.taken, r.vr, LastRecd(l), Open(r), c)
    BY <1>0, <1>2, <2>1, OrdKept
  <2>. QED  BY <1>3, <2>2 DEF Ord
<1>5. Ord(r, m, d)
  BY <1>1, <1>2 DEF OrdInto, Ord
<1>6. OrdInto(p, m, r, c) /\ OrdInto(Peer(p), r, m, d)
  BY <1>1, <1>2, <1>4, <1>5 DEF OrdInto
<1>7. SabAt(p, r, m, c, d)
  <2>1. p = "caller" => Free(c, "SABME")
    BY <1>1 DEF SabAt, Sab
  <2>2. ASSUME p # "caller" PROVE SabOK(m.sabmes, r, c \o m.ctrl)
    <3>1. SabOK(m.sabmes, l, c \o m.ctrl)
      BY <1>1, <2>2 DEF SabAt, Sab
    <3>2. c \o m.ctrl \in Seq(Frame)
      BY <1>0, PipeTypes
    <3>3. m.sabmes >= m.sabmes
      BY <1>0
    <3>4. Recd(r) = Recd(l) /\ (Raised(r) => Raised(l))
      BY <1>2
    <3>. QED  BY <1>0, <3>1, <3>2, <3>3, <3>4, SabMore
  <2>3. l.taken <= r.taken
    BY <1>0, <1>2
  <2>. QED  BY <1>0, <1>2, <2>1, <2>2, <2>3, SabQueues
<1>8. ASSUME Single(r, m)
      PROVE  GapInto(m, r, c, d \o r.ctrl) /\ GapInto(r, m, d, c \o m.ctrl)
  <2>1. Single(l, m)
    BY <1>0, <1>2, <1>8 DEF Single
  <2>2. GapInto(m, l, c, d \o l.ctrl) /\ GapInto(l, m, d, c \o m.ctrl)
    BY <2>1 DEF Link
  <2>3. GapOK(m.va, Acked(m), Live(m), l.vr, LastRecd(l), Open(l), c, d \o l.ctrl)
    BY <2>2 DEF GapInto, Gap
  <2>4. GapOK(m.va, Acked(m), Live(m), r.vr, LastRecd(l), Open(r), c, d \o l.ctrl)
    BY <1>2, <2>3, GapKept
  <2>5. Gap(m, r, c, d \o l.ctrl)
    BY <1>3, <2>4 DEF Gap
  <2>6. Gap(m, r, c, d \o r.ctrl)
    BY <1>0, <1>2, <1>4, <2>5, QueueAcks
  <2>7. GapOK(l.va, Acked(l), Live(l), m.vr, LastRecd(m), Open(m), d, c \o m.ctrl)
    BY <2>2 DEF GapInto, Gap
  <2>8. GapOK(l.va, Acked(l), Live(r), m.vr, LastRecd(m), Open(m), d, c \o m.ctrl)
    BY <1>2, <2>7, GapKept
  <2>9. Gap(r, m, d, c \o m.ctrl)
    BY <1>2, <2>8 DEF Gap
  <2>10. InOrder(r) /\ InOrder(m)
    BY <1>2, <2>2 DEF GapInto, InOrder
  <2>. QED  BY <2>6, <2>9, <2>10 DEF GapInto
<1>. QED  BY <1>6, <1>7, <1>8 DEF Link

(* The oldest control frame leaves the ring for the line.                  *)
LEMMA LinkSendCtrl ==
    ASSUME NEW p \in Station, NEW l, NEW m, NEW c, NEW d, Ends(l, m, c, d),
           Link(p, l, m, c, d), l.ctrl # <<>>
    PROVE  Link(p, [l EXCEPT !.ctrl = Tail(@)], m, c, Append(d, Head(l.ctrl)))
<1>. DEFINE r == [l EXCEPT !.ctrl = Tail(@)]
            g == Head(l.ctrl)
<1>0. /\ Good(l) /\ Good(m) /\ c \in Seq(Frame) /\ d \in Seq(Frame)
      /\ l.ctrl \in Seq(Frame) /\ m.ctrl \in Seq(Frame) /\ m.sabmes \in Nat
      /\ l.sabmes \in Nat
  BY RecdTypes DEF Ends
<1>1. g \in Frame /\ Tail(l.ctrl) \in Seq(Frame)
  BY <1>0, HeadTailProperties
<1>2. /\ OrdInto(p, m, l, c) /\ OrdInto(Peer(p), l, m, d)
      /\ SabAt(p, l, m, c, d)
  BY DEF Link
<1>3. Same(l, r) /\ r.ctrl = Tail(l.ctrl) /\ r.sabmes = l.sabmes
  BY <1>0 DEF Good, StationType, Same
<1>. HIDE DEF r, g
<1>4. /\ Recd(r) = Recd(l) /\ LastRecd(r) = LastRecd(l) /\ Open(r) = Open(l)
      /\ Acked(r) = Acked(l) /\ Live(r) = Live(l) /\ (Raised(r) <=> Raised(l))
      /\ (Held(l) => Held(r)) /\ (InOrder(l) => InOrder(r))
      /\ r.vr = l.vr /\ r.va = l.va /\ r.taken = l.taken /\ r.state = l.state
  BY <1>3 DEF Same, Recd, LastRecd, Open, Acked, Live, Raised, Held, LastOut, InOrder
<1>5. Sound(p, l) => Sound(p, r)
  BY <1>3, <1>4 DEF Same, Sound
<1>6. Free(l.ctrl, "I")
  BY <1>2 DEF SabAt, Sab
<1>7. ~ IsInfo(g) /\ Free(Tail(l.ctrl), "I")
  BY <1>0, <1>6, FreeSteps DEF IsInfo, g
<1>8. OrdInto(p, m, r, c)
  BY <1>2, <1>4, <1>5 DEF OrdInto, Ord
<1>9. OrdInto(Peer(p), r, m, Append(d, g))
  <2>1. OrdOK(l.va, Acked(l), l.taken, m.vr, LastRecd(m), Open(m), d)
    BY <1>2 DEF OrdInto, Ord
  <2>2. OrdOK(l.va, Acked(l), l.taken, m.vr, LastRecd(m), Open(m), Append(d, g))
    BY <1>0, <1>1, <1>7, <2>1, OrdOther
  <2>. QED  BY <1>2, <1>4, <2>2 DEF OrdInto, Ord
<1>10. Append(d, g) \o r.ctrl = d \o l.ctrl
  BY <1>0, <1>3, PipeMove DEF g
<1>11. SabAt(p, r, m, c, Append(d, g))
  <2>1. CASE p = "caller"
    <3>1. Sab(l, m, d, c)
      BY <1>2, <2>1 DEF SabAt
    <3>2. Sab(r, m, Append(d, g), c)
      BY <1>3, <1>7, <1>10, <3>1 DEF Sab
    <3>. QED  BY <2>1, <3>2 DEF SabAt
  <2>2. CASE p # "caller"
    <3>1. Sab(m, l, c, d)
      BY <1>2, <2>2 DEF SabAt
    <3>2. Free(d, "SABME") /\ Free(l.ctrl, "SABME") /\ SabOK(m.sabmes, l, c \o m.ctrl)
      BY <3>1 DEF Sab
    <3>3. g.kind # "SABME" /\ Free(Tail(l.ctrl), "SABME")
      BY <1>0, <3>2, FreeSteps DEF g
    <3>4. Free(Append(d, g), "SABME")
      BY <1>0, <1>1, <3>2, <3>3, FreeSteps
    <3>5. c \o m.ctrl \in Seq(Frame)
      BY <1>0, PipeTypes
    <3>6. SabOK(m.sabmes, r, c \o m.ctrl)
      <4>1. m.sabmes >= m.sabmes
        BY <1>0
      <4>2. Recd(r) = Recd(l) /\ (Raised(r) => Raised(l))
        BY <1>4
      <4>. QED  BY <1>0, <3>2, <3>5, <4>1, <4>2, SabMore
    <3>7. Sab(m, r, c, Append(d, g))
      BY <1>3, <1>7, <3>1, <3>3, <3>4, <3>6 DEF Sab
    <3>. QED  BY <2>2, <3>7 DEF SabAt
  <2>. QED  BY <2>1, <2>2
<1>12. ASSUME Single(r, m)
       PROVE  /\ GapInto(m, r, c, Append(d, g) \o r.ctrl)
              /\ GapInto(r, m, Append(d, g), c \o m.ctrl)
  <2>1. Single(l, m)
    BY <1>3, <1>12 DEF Single
  <2>2. GapInto(m, l, c, d \o l.ctrl) /\ GapInto(l, m, d, c \o m.ctrl)
    BY <2>1 DEF Link
  <2>3. GapInto(m, r, c, d \o l.ctrl)
    BY <1>4, <2>2 DEF GapInto, Gap
  <2>4. GapOK(l.va, Acked(l), Live(l), m.vr, LastRecd(m), Open(m), d, c \o m.ctrl)
    BY <2>2 DEF GapInto, Gap
  <2>5. GapOK(l.va, Acked(l), Live(l), m.vr, LastRecd(m), Open(m), Append(d, g), c \o m.ctrl)
    BY <1>0, <1>1, <1>7, <2>4, GapOther
  <2>6. GapInto(r, m, Append(d, g), c \o m.ctrl)
    BY <1>4, <2>2, <2>5 DEF GapInto, Gap
  <2>. QED  BY <1>10, <2>3, <2>6
<1>13. Link(p, r, m, c, Append(d, g))
  BY <1>8, <1>9, <1>11, <1>12 DEF Link
<1>. QED  BY <1>13 DEF r, g

(* An I frame leaves for the line.                                         *)
LEMMA LinkSendInfo ==
    ASSUME NEW p \in Station, NEW l, NEW m, NEW c, NEW d, Ends(l, m, c, d),
           Link(p, l, m, c, d), InfoSendable(l), Good(sent_info(l))
    PROVE  Link(p, sent_info(l), m, c, Append(d, InfoFrame(l)))
<1>. DEFINE r == sent_info(l)
            f == InfoFrame(l)
<1>0. /\ Good(l) /\ Good(m) /\ c \in Seq(Frame) /\ d \in Seq(Frame)
      /\ m.ctrl \in Seq(Frame) /\ m.sabmes \in Nat
      /\ l.sabmes \in Nat /\ Acked(l) \in Nat /\ l.taken \in Nat
      /\ l.va \in SeqNo
  BY RecdTypes, AckedType, FieldTypes DEF Ends
<1>1. l.ctrl = <<>> /\ l.state = "DATA"
  BY DEF InfoSendable
<1>2. /\ OrdInto(p, m, l, c) /\ OrdInto(Peer(p), l, m, d)
      /\ SabAt(p, l, m, c, d)
  BY DEF Link
<1>3. /\ Sound(p, r) /\ Kept(l, r) /\ r.va = l.va /\ Acked(r) = Acked(l)
      /\ r.taken = l.taken \/ r.taken = l.taken + 1
      /\ f \in Frame /\ IsInfo(f) /\ f.nr = l.vr
      /\ Acked(l) < f.data /\ f.data <= r.taken
      /\ f.ns = Plus(l.va, f.data - Acked(l) - 1)
  BY <1>0, <1>2, SentStep DEF OrdInto
<1>4. Good(r)
  OBVIOUS
<1>. HIDE DEF r, f
<1>5. /\ Recd(r) = Recd(l) /\ LastRecd(r) = LastRecd(l) /\ Open(r) = Open(l)
      /\ Live(r) /\ Live(l) /\ Raised(r) /\ Raised(l)
      /\ (Held(l) => Held(r)) /\ (InOrder(l) => InOrder(r))
      /\ r.vr = l.vr /\ r.state = l.state /\ r.ctrl = <<>> /\ r.sabmes = l.sabmes
  BY <1>1, <1>3 DEF Kept, Recd, LastRecd, Open, Live, Raised, Held, LastOut, InOrder
<1>6. OrdInto(p, m, r, c)
  BY <1>2, <1>3, <1>5 DEF OrdInto, Ord
<1>7. /\ OrdType(l.va, Acked(l), l.taken, m.vr, LastRecd(m), Open(m))
      /\ OrdType(l.va, Acked(l), r.taken, m.vr, LastRecd(m), Open(m))
      /\ r.taken \in Nat /\ l.taken <= r.taken
  <2>1. OrdType(r.va, Acked(r), r.taken, m.vr, LastRecd(m), Open(m))
    BY <1>0, <1>4, DirType
  <2>2. r.taken \in Nat
    BY <1>4, AckedType
  <2>. QED  BY <1>0, <1>3, <2>1, <2>2, DirType
<1>8. OrdOK(l.va, Acked(l), r.taken, m.vr, LastRecd(m), Open(m), d)
  <2>1. OrdOK(l.va, Acked(l), l.taken, m.vr, LastRecd(m), Open(m), d)
    BY <1>2 DEF OrdInto, Ord
  <2>2. Acked(l) + 0 <= l.taken /\ 0 \in Nat
    BY <1>0, <1>7 DEF OrdType
  <2>3. OrdOK(Plus(l.va, 0), Acked(l) + 0, r.taken, m.vr, LastRecd(m), Open(m), d)
    BY <1>0, <1>7, <2>1, <2>2, OrdAdvance
  <2>4. Plus(l.va, 0) = l.va /\ Acked(l) + 0 = Acked(l)
    BY <1>0, LapmAssumption DEF Plus, SeqNo
  <2>. QED  BY <2>3, <2>4
<1>9. OrdInto(Peer(p), r, m, Append(d, f))
  <2>1. OrdOK(l.va, Acked(l), r.taken, m.vr, LastRecd(m), Open(m), Append(d, f))
    BY <1>0, <1>3, <1>7, <1>8, OrdSend
  <2>. QED  BY <1>2, <1>3, <2>1 DEF OrdInto, Ord
<1>10. f.kind # "SABME"
  BY <1>3 DEF IsInfo
<1>11. /\ \A s \in Seq(Frame) : s \o <<>> = s
       /\ Append(d, f) \in Seq(Frame)
  BY <1>0, <1>3, ConcatProperties, EmptySeq, AppendProperties
<1>12. SabAt(p, r, m, c, Append(d, f))
  <2>1. CASE p = "caller"
    <3>1. Sab(l, m, d, c)
      BY <1>2, <2>1 DEF SabAt
    <3>2. SabOK(l.sabmes, m, d)
      BY <1>0, <1>1, <1>11, <3>1 DEF Sab
    <3>3. l.sabmes >= l.sabmes
      BY <1>0
    <3>4. SabOK(l.sabmes, m, Append(d, f))
      BY <1>0, <1>3, <1>10, <3>2, <3>3, SabAppend
    <3>5. Sab(r, m, Append(d, f), c)
      BY <1>1, <1>5, <1>11, <3>1, <3>4 DEF Sab
    <3>. QED  BY <2>1, <3>5 DEF SabAt
  <2>2. CASE p # "caller"
    <3>1. Sab(m, l, c, d)
      BY <1>2, <2>2 DEF SabAt
    <3>2. Free(Append(d, f), "SABME")
      BY <1>0, <1>3, <1>10, <3>1, FreeSteps DEF Sab
    <3>3. SabOK(m.sabmes, r, c \o m.ctrl)
      <4>1. m.sabmes >= m.sabmes
        BY <1>0
      <4>2. Recd(r) = Recd(l) /\ (Raised(r) => Raised(l))
        BY <1>5
      <4>3. c \o m.ctrl \in Seq(Frame) /\ SabOK(m.sabmes, l, c \o m.ctrl)
        BY <1>0, <3>1, PipeTypes DEF Sab
      <4>. QED  BY <1>0, <4>1, <4>2, <4>3, SabMore
    <3>4. Sab(m, r, c, Append(d, f))
      BY <1>1, <1>5, <3>1, <3>2, <3>3 DEF Sab
    <3>. QED  BY <2>2, <3>4 DEF SabAt
  <2>. QED  BY <2>1, <2>2
<1>13. ASSUME Single(r, m)
       PROVE  /\ GapInto(m, r, c, Append(d, f) \o r.ctrl)
              /\ GapInto(r, m, Append(d, f), c \o m.ctrl)
  <2>1. Single(l, m)
    BY <1>5, <1>13 DEF Single
  <2>2. GapInto(m, l, c, d \o l.ctrl) /\ GapInto(l, m, d, c \o m.ctrl)
    BY <2>1 DEF Link
  <2>3. d \o l.ctrl = d /\ Append(d, f) \o r.ctrl = Append(d, f)
    BY <1>0, <1>1, <1>5, <1>11
  <2>4. GapInto(m, r, c, d)
    BY <1>5, <2>2, <2>3 DEF GapInto, Gap
  <2>5. Gap(m, r, c, Append(d, f))
    <3>1. Numbered(f) => r.state = "DATA" /\ f.nr = r.vr
      BY <1>1, <1>3, <1>5
    <3>2. Ord(m, r, c) /\ Gap(m, r, c, d)
      BY <1>6, <2>4 DEF OrdInto, GapInto
    <3>. QED  BY <1>0, <1>3, <1>4, <3>1, <3>2, GapAcks
  <2>6. GapOK(l.va, Acked(l), Live(l), m.vr, LastRecd(m), Open(m), d, c \o m.ctrl)
    BY <2>2 DEF GapInto, Gap
  <2>7. LastRecd(m) <= r.taken
    BY <1>8 DEF OrdOK
  <2>8. GapOK(l.va, Acked(l), Live(l), m.vr, LastRecd(m), Open(m), Append(d, f), c \o m.ctrl)
    BY <1>0, <1>3, <1>5, <1>7, <2>6, <2>7, GapSend
  <2>9. Live(r) = Live(l)
    BY <1>1, <1>5 DEF Live
  <2>10. GapInto(r, m, Append(d, f), c \o m.ctrl)
    BY <1>3, <2>2, <2>8, <2>9 DEF GapInto, Gap
  <2>. QED  BY <2>3, <2>4, <2>5, <2>10 DEF GapInto
<1>14. Link(p, r, m, c, Append(d, f))
  BY <1>6, <1>9, <1>12, <1>13 DEF Link
<1>. QED  BY <1>14 DEF r, f

(* The line loses the frames under way to p but for the last ones, e: one  *)
(* frame is destroyed, or none is read any more.                           *)
LEMMA LinkLose ==
    ASSUME NEW p \in Station, NEW l, NEW m, NEW c, NEW d, Ends(l, m, c, d),
           Link(p, l, m, c, d), c # <<>>, NEW e, e = Tail(c) \/ e = <<>>
    PROVE  Link(p, l, m, e, d)
<1>0. /\ Good(l) /\ Good(m) /\ c \in Seq(Frame) /\ d \in Seq(Frame)
      /\ m.ctrl \in Seq(Frame) /\ m.sabmes \in Nat
  BY RecdTypes DEF Ends
<1>1. e \in Seq(Frame)
  BY <1>0, HeadTailProperties, EmptySeq
<1>2. /\ OrdInto(p, m, l, c) /\ OrdInto(Peer(p), l, m, d)
      /\ SabAt(p, l, m, c, d)
  BY DEF Link
<1>3. OrdInto(p, m, l, e)
  <2>1. Ord(m, l, Tail(c)) /\ Ord(m, l, <<>>)
    BY <1>0, <1>2, OrdTail, OrdEmpty DEF OrdInto, Ord
  <2>. QED  BY <1>2, <2>1 DEF OrdInto
<1>4. PICK k \in Nat : /\ Len(c \o m.ctrl) = Len(e \o m.ctrl) + k
                       /\ \A i \in 1 .. Len(e \o m.ctrl) :
                             (e \o m.ctrl)[i] = (c \o m.ctrl)[i + k]
  <2>. DEFINE b == c \o m.ctrl
  <2>1. b \in Seq(Frame) /\ b # <<>> /\ Tail(c) \o m.ctrl = Tail(b)
    BY <1>0, PipeTypes, PipeTail
  <2>2. CASE e = Tail(c)
    <3>. HIDE DEF b
    <3>1. /\ Len(b) = Len(Tail(b)) + 1
          /\ \A i \in 1 .. Len(Tail(b)) : Tail(b)[i] = b[i + 1]
      BY <2>1, HeadTailProperties
    <3>. QED  BY <2>1, <2>2, <3>1 DEF b
  <2>3. CASE e = <<>>
    <3>1. e \o m.ctrl = m.ctrl
      BY <1>0, <2>3, ConcatProperties
    <3>2. /\ Len(c \o m.ctrl) = Len(m.ctrl) + Len(c) /\ Len(c) \in Nat
          /\ \A i \in 1 .. Len(m.ctrl) : m.ctrl[i] = (c \o m.ctrl)[i + Len(c)]
      <4>1. /\ Len(c) \in Nat /\ Len(m.ctrl) \in Nat
            /\ Len(c \o m.ctrl) = Len(c) + Len(m.ctrl)
            /\ \A i \in 1 .. Len(m.ctrl) : (c \o m.ctrl)[Len(c) + i] = m.ctrl[i]
        BY <1>0, PipeTypes
      <4>2. \A i \in 1 .. Len(m.ctrl) : i + Len(c) = Len(c) + i
        BY <4>1
      <4>. QED  BY <4>1, <4>2
    <3>. QED  BY <3>1, <3>2
  <2>. QED  BY <2>2, <2>3
<1>5. c \o m.ctrl \in Seq(Frame) /\ e \o m.ctrl \in Seq(Frame)
  BY <1>0, <1>1, PipeTypes
<1>6. SabAt(p, l, m, e, d)
  <2>1. CASE p = "caller"
    <3>0. Free(c, "SABME")
      BY <1>2, <2>1 DEF SabAt, Sab
    <3>1. Free(e, "SABME")
      <4>1. Free(Tail(c), "SABME") /\ Free(<<>>, "SABME")
        BY <1>0, <3>0, FreeSteps
      <4>. QED  BY <4>1
    <3>. QED  BY <1>2, <2>1, <3>1 DEF SabAt, Sab
  <2>2. CASE p # "caller"
    <3>1. SabOK(m.sabmes, l, c \o m.ctrl)
      BY <1>2, <2>2 DEF SabAt, Sab
    <3>2. SabOK(m.sabmes, l, e \o m.ctrl)
      BY <1>0, <1>4, <1>5, <3>1, SabSuffix
    <3>. QED  BY <1>2, <2>2, <3>2 DEF SabAt, Sab
  <2>. QED  BY <2>1, <2>2
<1>7. ASSUME Single(l, m)
      PROVE  GapInto(m, l, e, d \o l.ctrl) /\ GapInto(l, m, d, e \o m.ctrl)
  <2>1. GapInto(m, l, c, d \o l.ctrl) /\ GapInto(l, m, d, c \o m.ctrl)
    BY <1>7 DEF Link
  <2>2. Gap(m, l, Tail(c), d \o l.ctrl) /\ Gap(m, l, <<>>, d \o l.ctrl)
    BY <1>0, <2>1, GapTail, GapEmpty DEF GapInto, Gap
  <2>3. Live(l) => AckOK(l.va, Acked(l), LastRecd(m), c \o m.ctrl)
    BY <2>1 DEF GapInto, Gap, GapOK
  <2>4. Live(l) => AckOK(l.va, Acked(l), LastRecd(m), e \o m.ctrl)
    BY <1>4, <1>5, <2>3, AckSuffix
  <2>5. Gap(l, m, d, e \o m.ctrl)
    BY <2>1, <2>4 DEF GapInto, Gap, GapOK
  <2>. QED  BY <2>1, <2>2, <2>5 DEF GapInto
<1>. QED  BY <1>2, <1>3, <1>6, <1>7 DEF Link

-----------------------------------------------------------------------------
(* The invariant of the link.                                              *)

DataInv ==
    \A p \in Station : Link(p, st[p], st[Peer(p)], line[p], line[Peer(p)])

(* What Inv says of the ends.                                              *)
LEMMA InvEnds ==
    ASSUME Inv, NEW p \in Station
    PROVE  /\ Ends(st[p], st[Peer(p)], line[p], line[Peer(p)])
           /\ DOMAIN st = Station /\ DOMAIN line = Station
<1>1. GoodStations /\ GoodLine
  BY InvParts
<1>. QED  BY <1>1, Peers DEF GoodStations, GoodLine, Ends, Good

(* It is enough to look from one end.                                      *)
LEMMA FromOneEnd ==
    ASSUME NEW p \in Station,
           Link(p, st'[p], st'[Peer(p)], line'[p], line'[Peer(p)])
    PROVE  DataInv'
<1>1. Link(Peer(p), st'[Peer(p)], st'[p], line'[Peer(p)], line'[p])
  BY LinkTurned
<1>2. Link(Peer(p), st'[Peer(p)], st'[Peer(Peer(p))], line'[Peer(p)], line'[Peer(Peer(p))])
  BY <1>1, Peers
<1>. QED  BY <1>2, Peers DEF DataInv

(* Initially nothing was fetched, received or sent.                        *)
LEMMA InitData == Init => DataInv
<1>. SUFFICES ASSUME Init, NEW p \in Station
              PROVE  Link(p, InitStation(p), InitStation(Peer(p)), <<>>, <<>>)
  BY Peers DEF Init, DataInv
<1>1. ASSUME NEW q \in Station
      PROVE  LET l == InitStation(q)
             IN  /\ Recd(l) = <<>> /\ l.vr = 0 /\ l.va = 0 /\ l.taken = 0 /\ Acked(l) = 0
                 /\ LastRecd(l) = 0 /\ l.ctrl = <<>> /\ l.sabmes = 0 /\ l.out = <<>>
                 /\ l.rx_buf = <<>> /\ l.state = "IDLE" /\ Sound(q, l)
  <2>. DEFINE l == InitStation(q)
  <2>1. /\ l.out = <<>> /\ l.rx_buf = <<>> /\ l.vr = 0 /\ l.va = 0 /\ l.taken = 0
        /\ l.sent = <<>> /\ l.tx = <<>> /\ l.ctrl = <<>> /\ l.sabmes = 0
        /\ l.state = "IDLE" /\ ~ l.config /\ l.written = 0
        /\ (q = "answerer" => l.timer # "negotiate")
    BY DEF InitStation
  <2>. HIDE DEF l
  <2>2. Recd(l) = <<>>
    BY <2>1 DEF Recd
  <2>3. Acked(l) = 0 /\ LastRecd(l) = 0
    <3>1. Len(l.sent) = 0 /\ Len(l.tx) = 0 /\ l.taken = 0
      BY <2>1, EmptySeq
    <3>2. Acked(l) = 0
      BY ONLY <3>1 DEF Acked
    <3>. QED  BY <2>2, <3>2 DEF LastRecd
  <2>4. Sound(q, l)
    BY <2>1, <2>2 DEF Sound
  <2>. QED  BY <2>1, <2>2, <2>3, <2>4 DEF l
<1>2. ASSUME NEW q \in Station
      PROVE  /\ OrdInto(q, InitStation(Peer(q)), InitStation(q), <<>>)
             /\ GapInto(InitStation(Peer(q)), InitStation(q), <<>>, <<>>)
  <2>. DEFINE l == InitStation(q)
              m == InitStation(Peer(q))
  <2>1. /\ Recd(l) = <<>> /\ LastRecd(l) = 0 /\ l.vr = 0 /\ l.rx_buf = <<>> /\ Sound(q, l)
        /\ m.va = 0 /\ Acked(m) = 0 /\ m.taken = 0
    BY <1>1, Peers
  <2>. HIDE DEF l, m
  <2>2. Held(l) /\ InOrder(l)
    BY <2>1 DEF Held, InOrder
  <2>3. Ord(m, l, <<>>)
    BY <2>1 DEF Ord, OrdOK
  <2>4. 0 = Plus(0, 0 - 0)
    BY LapmAssumption DEF Plus
  <2>5. Gap(m, l, <<>>, <<>>)
    BY <2>1, <2>4 DEF Gap, GapOK, AckOK, NextOK
  <2>. QED  BY <2>1, <2>2, <2>3, <2>5 DEF OrdInto, GapInto, l, m
<1>3. OrdInto(Peer(p), InitStation(p), InitStation(Peer(p)), <<>>)
      /\ GapInto(InitStation(p), InitStation(Peer(p)), <<>>, <<>>)
  BY <1>2, Peers
<1>4. ASSUME NEW x \in Station, NEW y \in Station
      PROVE  Sab(InitStation(x), InitStation(y), <<>>, <<>>)
  <2>. DEFINE l == InitStation(x)
              m == InitStation(y)
  <2>1. /\ l.ctrl = <<>> /\ m.ctrl = <<>> /\ m.taken = 0 /\ m.state = "IDLE"
    BY <1>1
  <2>. HIDE DEF l, m
  <2>2. <<>> \o l.ctrl = <<>> /\ ~ Raised(m)
    BY <2>1 DEF Raised
  <2>3. SabOK(l.sabmes, m, <<>> \o l.ctrl)
    BY <2>2 DEF SabOK
  <2>. QED  BY <2>1, <2>3 DEF Sab, Free, l, m
<1>5. SabAt(p, InitStation(p), InitStation(Peer(p)), <<>>, <<>>)
  BY <1>4, Peers DEF SabAt
<1>6. <<>> \o InitStation(p).ctrl = <<>> /\ <<>> \o InitStation(Peer(p)).ctrl = <<>>
  BY <1>1, Peers
<1>. QED  BY <1>2, <1>3, <1>5, <1>6 DEF Link

(* A step that only changes the station p.                                 *)
LEMMA HereData ==
    ASSUME Inv, DataInv, NEW p \in Station, NEW r, Good(r), HereStep(p, st[p], r), Held(r),
           st' = [st EXCEPT ![p] = r], line' = line
    PROVE  DataInv'
<1>1. Ends(st[p], st[Peer(p)], line[p], line[Peer(p)]) /\ DOMAIN st = Station
  BY InvEnds
<1>2. Link(p, st[p], st[Peer(p)], line[p], line[Peer(p)])
  BY DEF DataInv
<1>3. Link(p, r, st[Peer(p)], line[p], line[Peer(p)])
  BY <1>1, <1>2, LinkHere
<1>4. st'[p] = r /\ st'[Peer(p)] = st[Peer(p)]
  BY <1>1, Peers
<1>. QED  BY <1>3, <1>4, FromOneEnd

(* A step after which the terminal has what it had.                        *)
LEMMA QuietData ==
    ASSUME Inv, DataInv, NEW p \in Station, NEW r, Good(r), HereStep(p, st[p], r),
           r.out = st[p].out, r.rx_buf = st[p].rx_buf,
           st' = [st EXCEPT ![p] = r], line' = line
    PROVE  DataInv'
<1>1. Held(st[p])
  BY DEF DataInv, Link, OrdInto
<1>2. Held(r)
  BY <1>1, KeptRecd
<1>. QED  BY <1>2, HereData

(* What a station is known to be.                                          *)
LEMMA StationFacts ==
    ASSUME Inv, DataInv, NEW p \in Station
    PROVE  Good(st[p]) /\ Sound(p, st[p]) /\ Held(st[p])
<1>1. Link(p, st[p], st[Peer(p)], line[p], line[Peer(p)])
  BY DEF DataInv
<1>. QED  BY <1>1, InvEnds DEF Ends, Link, OrdInto

(* What the step of receiving does.                                        *)
LEMMA ReceiveData ==
    ASSUME Inv, DataInv, NEW p \in Station, Receive(p)
    PROVE  /\ DataInv'
           /\ \E r : /\ st' = [st EXCEPT ![p] = r] /\ r.written = st[p].written
                     /\ \/ r.out = st[p].out
                        \/ \E n \in Nat : /\ r.out = Append(st[p].out, n)
                                          /\ n > LastOut(st[p]) /\ n <= st[Peer(p)].written
<1>. DEFINE l == st[p]
            m == st[Peer(p)]
            c == line[p]
            d == line[Peer(p)]
            f == Head(c)
<1>1. Ends(l, m, c, d) /\ DOMAIN st = Station /\ DOMAIN line = Station
  BY InvEnds
<1>2. Link(p, l, m, c, d) /\ c # <<>>
  BY DEF DataInv, Receive
<1>3. PICK room \in BOOLEAN : st' = [st EXCEPT ![p] = lapm_rx_complete(l, f, room)]
  BY DEF Receive
<1>. DEFINE r == lapm_rx_complete(l, f, room)
<1>4. Good(l) /\ Good(m) /\ Sound(p, l) /\ Sound(Peer(p), m) /\ f \in Frame
  BY <1>1, <1>2, StationFacts, Peers, HeadTailProperties DEF Ends
<1>5. st' = [st EXCEPT ![p] = r] /\ line' = [line EXCEPT ![p] = Tail(c)]
  BY <1>3 DEF Receive
<1>. HIDE DEF l, m, c, d, f
<1>6. Good(r)
  BY <1>4, RxCompleteGood
<1>7. f.kind = "SABME" => p = "answerer" /\ Recd(l) = <<>>
  BY <1>1, <1>2, LinkSabme DEF f
<1>8. RxStep(p, l, f, r)
  BY <1>4, <1>7, RxCompleteStep
<1>. HIDE DEF r
<1>9. /\ Link(p, r, m, Tail(c), d)
      /\ RecvTook(l, f, r) => f.data > LastRecd(l) /\ f.data <= m.taken
  BY <1>1, <1>2, <1>6, <1>8, LinkReceive DEF f
<1>10. st'[p] = r /\ st'[Peer(p)] = m /\ line'[p] = Tail(c) /\ line'[Peer(p)] = d
  BY <1>1, <1>5, Peers DEF m, d
<1>11. DataInv'
  BY <1>9, <1>10, FromOneEnd
<1>12. r.written = l.written
  BY <1>8 DEF RxStep
<1>13. CASE RecvKept(l, r)
  BY <1>5, <1>11, <1>12, <1>13 DEF RecvKept, l
<1>14. CASE RecvTook(l, f, r)
  <2>1. LastOut(l) = LastRecd(l)
    BY <1>4, <1>14, TookRecd
  <2>2. f.data \in Nat
    BY <1>4, FrameTypes DEF Frame
  <2>3. m.taken <= m.written /\ m.taken \in Nat /\ m.written \in Nat
    BY <1>4, AckedType, RecdTypes DEF Sound
  <2>4. f.data <= m.written
    BY <1>9, <1>14, <2>2, <2>3
  <2>5. r.out = l.out \/ r.out = Append(l.out, f.data)
    BY <1>14 DEF RecvTook
  <2>6. f.data > LastOut(l)
    BY <1>9, <1>14, <2>1
  <2>. QED  BY <1>5, <1>11, <1>12, <2>2, <2>4, <2>5, <2>6 DEF l, m
<1>. QED  BY <1>8, <1>13, <1>14 DEF RxStep

(* What the step of handing the kept item over does.                       *)
LEMMA PushData ==
    ASSUME Inv, DataInv, NEW p \in Station, PushRest(p)
    PROVE  /\ DataInv'
           /\ \E r : /\ st' = [st EXCEPT ![p] = r] /\ r.written = st[p].written
                     /\ \E n \in Nat : /\ r.out = Append(st[p].out, n)
                                       /\ n > LastOut(st[p]) /\ n <= st[Peer(p)].written
<1>. DEFINE l == st[p]
            m == st[Peer(p)]
            r == push_rest_data(l)
            n == l.rx_buf[1]
<1>1. Good(l) /\ Sound(p, l) /\ Held(l) /\ Good(m) /\ Sound(Peer(p), m)
  BY StationFacts, Peers
<1>2. l.state = "DATA" /\ l.rx_buf # <<>> /\ line' = line /\ st' = [st EXCEPT ![p] = r]
  BY DEF PushRest
<1>3. Ord(m, l, line[p])
  BY DEF DataInv, Link, OrdInto
<1>4. Good(r)
  BY <1>1, <1>2, PushGood
<1>. HIDE DEF l, m
<1>5. /\ HereStep(p, l, r) /\ r.out = l.out \o l.rx_buf /\ r.rx_buf = <<>>
      /\ r.written = l.written
  BY <1>1, <1>2, PushHere
<1>. HIDE DEF r
<1>6. Recd(r) = Recd(l) /\ LastRecd(r) = LastRecd(l)
  BY <1>5 DEF HereStep, LastRecd
<1>7. Held(r)
  BY <1>1, <1>5, <1>6 DEF Held
<1>8. DataInv'
  BY <1>2, <1>4, <1>5, <1>7, HereData DEF l
<1>9. l.out \in Seq(Nat) /\ l.rx_buf \in Seq(Nat) /\ Len(l.rx_buf) <= 1
  BY <1>1, RecdTypes DEF Sound
<1>10. Len(l.rx_buf) = 1 /\ n \in Nat
  <2>1. Len(l.rx_buf) \in Nat /\ Len(l.rx_buf) # 0
    BY <1>2, <1>9, EmptySeq, LenProperties
  <2>. DEFINE k == Len(l.rx_buf)
  <2>2. Len(l.rx_buf) = 1
    <3>1. k \in Nat /\ k # 0 /\ k <= 1
      BY <1>9, <2>1
    <3>. HIDE DEF k
    <3>2. k = 1
      BY <3>1
    <3>. QED  BY <3>2 DEF k
  <2>. QED  BY <1>9, <2>2, ElementOfSeq
<1>11. l.rx_buf = <<n>>
  BY <1>9, <1>10
<1>. HIDE DEF n
<1>12. r.out = Append(l.out, n)
  BY <1>5, <1>9, <1>10, <1>11, AppendIsConcat
<1>13. n > LastOut(l)
  BY <1>1, <1>2 DEF Held, n
<1>14. LastRecd(l) = n
  <2>1. Recd(l) = Append(l.out, n)
    BY <1>5, <1>12 DEF Recd
  <2>2. Recd(l) # <<>> /\ Recd(l)[Len(Recd(l))] = n
    BY <1>9, <1>10, <2>1, AppendProperties
  <2>. QED  BY <2>2 DEF LastRecd
<1>15. n <= m.written
  <2>1. n <= m.taken
    BY <1>3, <1>14 DEF Ord, OrdOK
  <2>2. m.taken <= m.written /\ m.taken \in Nat /\ m.written \in Nat
    BY <1>1, AckedType, RecdTypes DEF Sound
  <2>. QED  BY <1>10, <2>1, <2>2
<1>. QED  BY <1>2, <1>5, <1>8, <1>10, <1>12, <1>13, <1>15 DEF l, m

(* The other steps at a station: what the terminal was given is the same,  *)
(* and only Write changes what it wrote.                                   *)
Untold(p) ==
    \E r : /\ st' = [st EXCEPT ![p] = r] /\ r.written = st[p].written
           /\ r.out = st[p].out

(* Timer, user and negotiation.                                            *)
LEMMA LocalData ==
    ASSUME Inv, DataInv, NEW p \in Station,
           Negotiate(p) \/ Timeout(p) \/ Hangup(p) \/ Stop(p)
    PROVE  DataInv' /\ Untold(p)
<1>. DEFINE l == st[p]
<1>1. Good(l) /\ Sound(p, l)
  BY StationFacts
<1>2. ASSUME NEW r, Good(r), HereStep(p, l, r), r.out = l.out, r.rx_buf = l.rx_buf,
             r.written = l.written, st' = [st EXCEPT ![p] = r], line' = line
      PROVE  DataInv' /\ Untold(p)
  BY <1>2, QuietData DEF Untold
<1>3. CASE Negotiate(p)
  <2>. DEFINE r == lapm_config([l EXCEPT !.framing = TRUE])
  <2>1. st' = [st EXCEPT ![p] = r] /\ line' = line /\ l.timer = "negotiate"
    BY <1>3 DEF Negotiate
  <2>2. Good([l EXCEPT !.framing = TRUE])
    BY <1>1, FlagsGood
  <2>3. Good(r)
    BY <2>2, ConfigGood
  <2>4. HereStep(p, l, r) /\ r.out = l.out /\ r.rx_buf = l.rx_buf /\ r.written = l.written
    BY <1>1, <2>1, NegotiateHere
  <2>. QED  BY <1>2, <2>1, <2>3, <2>4
<1>4. CASE Timeout(p)
  <2>. DEFINE r == t401_timeout(l)
  <2>1. st' = [st EXCEPT ![p] = r] /\ line' = line
    BY <1>4 DEF Timeout
  <2>2. Good(r)
    BY <1>1, <1>4, T401Good DEF Timeout
  <2>3. HereStep(p, l, r) /\ Local(l, r)
    BY <1>1, T401Here
  <2>. QED  BY <1>2, <2>1, <2>2, <2>3 DEF Local
<1>5. CASE Hangup(p)
  <2>. DEFINE h == [l EXCEPT !.push = FALSE]
              e == lapm_disconnect(h)
              r == [e EXCEPT !.modem = "ecdisc"]
  <2>1. st' = [st EXCEPT ![p] = r] /\ line' = line
    BY <1>5 DEF Hangup
  <2>2. HereStep(p, l, r) /\ Local(l, r)
    BY <1>1, HangupHere
  <2>3. Good(h)
    BY <1>1, FlagsGood
  <2>. HIDE DEF h
  <2>4. Good(e)
    BY <2>3, ConnectGood
  <2>. HIDE DEF e
  <2>5. Good(r)
    BY <2>4, FlagsGood
  <2>. QED  BY <1>2, <2>1, <2>2, <2>5 DEF Local
<1>6. CASE Stop(p)
  <2>. DEFINE r == ec_release(l)
  <2>1. st' = [st EXCEPT ![p] = r] /\ line' = line
    BY <1>6 DEF Stop
  <2>2. Good(r)
    BY <1>1, FlagsGood
  <2>3. HereStep(p, l, r) /\ Local(l, r)
    BY <1>1, StopHere
  <2>. QED  BY <1>2, <2>1, <2>2, <2>3 DEF Local
<1>. QED  BY <1>3, <1>4, <1>5, <1>6

(* The terminal writes.                                                    *)
LEMMA WriteData ==
    ASSUME Inv, DataInv, NEW p \in Station, Write(p)
    PROVE  /\ DataInv'
           /\ \E r : /\ st' = [st EXCEPT ![p] = r] /\ r.written = st[p].written + 1
                     /\ r.out = st[p].out
<1>. DEFINE l == st[p]
            r == [l EXCEPT !.written = @ + 1]
<1>1. Good(l) /\ Sound(p, l)
  BY StationFacts
<1>2. st' = [st EXCEPT ![p] = r] /\ line' = line
  BY DEF Write
<1>3. Good(r)
  BY <1>1, FlagsGood
<1>4. /\ HereStep(p, l, r) /\ r.out = l.out /\ r.rx_buf = l.rx_buf
      /\ r.written = l.written + 1
  BY <1>1, WriteHere
<1>. QED  BY <1>2, <1>3, <1>4, QuietData

(* A frame is sent.                                                        *)
LEMMA SendData ==
    ASSUME Inv, DataInv, NEW p \in Station, SendCtrl(p) \/ SendInfo(p)
    PROVE  DataInv' /\ Untold(p)
<1>. DEFINE l == st[p]
            m == st[Peer(p)]
            c == line[p]
            d == line[Peer(p)]
<1>1. Ends(l, m, c, d) /\ DOMAIN st = Station /\ DOMAIN line = Station
  BY InvEnds
<1>2. Link(p, l, m, c, d)
  BY DEF DataInv
<1>3. Good(l) /\ Sound(p, l)
  BY StationFacts
<1>4. ASSUME NEW r, NEW g, st' = [st EXCEPT ![p] = r],
             line' = [line EXCEPT ![Peer(p)] = Append(d, g)],
             Link(p, r, m, c, Append(d, g)), r.written = l.written, r.out = l.out
      PROVE  DataInv' /\ Untold(p)
  <2>1. /\ st'[p] = r /\ st'[Peer(p)] = m
        /\ line'[p] = c /\ line'[Peer(p)] = Append(d, g)
    BY <1>1, <1>4, Peers
  <2>2. DataInv'
    BY <1>4, <2>1, FromOneEnd
  <2>. QED  BY <1>4, <2>2 DEF Untold
<1>5. CASE SendCtrl(p)
  <2>. DEFINE r == [l EXCEPT !.ctrl = Tail(@)]
  <2>1. /\ st' = [st EXCEPT ![p] = r] /\ l.ctrl # <<>>
        /\ line' = [line EXCEPT ![Peer(p)] = Append(d, Head(l.ctrl))]
    BY <1>5 DEF SendCtrl
  <2>2. Link(p, r, m, c, Append(d, Head(l.ctrl)))
    BY <1>1, <1>2, <2>1, LinkSendCtrl
  <2>3. r.written = l.written /\ r.out = l.out
    BY <1>3 DEF Good, StationType
  <2>. QED  BY <1>4, <2>1, <2>2, <2>3
<1>6. CASE SendInfo(p)
  <2>. DEFINE r == sent_info(l)
  <2>1. /\ st' = [st EXCEPT ![p] = r] /\ InfoSendable(l)
        /\ line' = [line EXCEPT ![Peer(p)] = Append(d, InfoFrame(l))]
    BY <1>6 DEF SendInfo
  <2>2. Good(r)
    BY <1>3, <2>1, SentInfoGood
  <2>3. Link(p, r, m, c, Append(d, InfoFrame(l)))
    BY <1>1, <1>2, <2>1, <2>2, LinkSendInfo
  <2>4. r.written = l.written /\ r.out = l.out
    BY <1>3, <2>1, SentStep DEF Kept
  <2>. QED  BY <1>4, <2>1, <2>3, <2>4
<1>. QED  BY <1>5, <1>6

(* Frames are lost.                                                        *)
LEMMA LoseData ==
    ASSUME Inv, DataInv, NEW p \in Station, Lose(p) \/ Drain(p)
    PROVE  DataInv' /\ st' = st
<1>. DEFINE l == st[p]
            m == st[Peer(p)]
            c == line[p]
            d == line[Peer(p)]
<1>1. Ends(l, m, c, d) /\ DOMAIN st = Station /\ DOMAIN line = Station
  BY InvEnds
<1>2. Link(p, l, m, c, d)
  BY DEF DataInv
<1>3. PICK e : /\ line' = [line EXCEPT ![p] = e] /\ st' = st /\ c # <<>>
               /\ e = Tail(c) \/ e = <<>>
  BY DEF Lose, Drain
<1>4. Link(p, l, m, e, d)
  BY <1>1, <1>2, <1>3, LinkLose
<1>5. line'[p] = e /\ line'[Peer(p)] = d /\ st'[p] = l /\ st'[Peer(p)] = m
  BY <1>1, <1>3, Peers
<1>. QED  BY <1>3, <1>4, <1>5, FromOneEnd

(* Every step of the link keeps the invariant.                             *)
LEMMA StepData == Inv /\ DataInv /\ [Next]_vars => DataInv'
<1>. SUFFICES ASSUME Inv, DataInv, [Next]_vars PROVE DataInv'
  OBVIOUS
<1>1. ASSUME NEW p \in Station, Write(p) PROVE DataInv'
  BY <1>1, WriteData
<1>2. ASSUME NEW p \in Station, Negotiate(p) \/ Timeout(p) \/ Hangup(p) \/ Stop(p)
      PROVE  DataInv'
  BY <1>2, LocalData
<1>3. ASSUME NEW p \in Station, SendCtrl(p) \/ SendInfo(p) PROVE DataInv'
  BY <1>3, SendData
<1>4. ASSUME NEW p \in Station, Receive(p) PROVE DataInv'
  BY <1>4, ReceiveData
<1>5. ASSUME NEW p \in Station, PushRest(p) PROVE DataInv'
  BY <1>5, PushData
<1>6. ASSUME NEW p \in Station, Lose(p) \/ Drain(p) PROVE DataInv'
  BY <1>6, LoseData
<1>7. CASE UNCHANGED vars
  BY <1>7 DEF vars, DataInv
<1>. QED  BY <1>1, <1>2, <1>3, <1>4, <1>5, <1>6, <1>7 DEF Next

-----------------------------------------------------------------------------
(* The theorems.                                                           *)

(* The invariant in the terms of the properties.                           *)
LEMMA DataMeaning ==
    ASSUME Inv, DataInv, SingleSetup, NEW p \in Station
    PROVE  /\ InOrder(st[p])
           /\ Live(st[p]) => Acked(st[p]) <= Len(Recd(st[Peer(p)]))
<1>. DEFINE l == st[p]
            m == st[Peer(p)]
<1>1. Link(p, l, m, line[p], line[Peer(p)]) /\ Good(m)
  BY StationFacts, Peers DEF DataInv
<1>2. st["answerer"].sabmes = 0 /\ st["caller"].sabmes <= 1
  BY StationFacts DEF Sound, SingleSetup, Station
<1>3. Single(l, m)
  BY <1>2, Peers DEF Single
<1>4. InOrder(l) /\ InOrder(m) /\ Gap(l, m, line[Peer(p)], line[p] \o m.ctrl)
  BY <1>1, <1>3 DEF Link, GapInto
<1>5. Live(l) => Acked(l) <= LastRecd(m)
  BY <1>4 DEF Gap, GapOK
<1>. QED  BY <1>1, <1>4, <1>5, InOrderLast

(* As long as the caller needs only one SABME, what a terminal and rx_buf  *)
(* have got is 1, 2, 3 ...: rx_info takes a frame whose ns is vr, and      *)
(* within one window no other item bears that number.                      *)
THEOREM LapmNoGap == Spec => []NoGap
<1>1. Init => Inv /\ DataInv
  BY InitGood, InitData
<1>2. Inv /\ DataInv /\ [Next]_vars => (Inv /\ DataInv)'
  BY StepGood, StepData
<1>3. Inv /\ DataInv => NoGap
  BY DataMeaning DEF NoGap, InOrder, Recd, Received
<1>. QED  BY <1>1, <1>2, <1>3, PTL DEF Spec

(* As long as the caller needs only one SABME, ack_info frees no frame     *)
(* that the other modem has not taken.                                     *)
THEOREM LapmNothingLost == Spec => []NothingLost
<1>1. Init => Inv /\ DataInv
  BY InitGood, InitData
<1>2. Inv /\ DataInv /\ [Next]_vars => (Inv /\ DataInv)'
  BY StepGood, StepData
<1>3. Inv /\ DataInv => NothingLost
  <2>. SUFFICES ASSUME Inv, DataInv, SingleSetup, NEW p \in Station, st[p].state = "DATA"
                PROVE  st[p].taken - Len(Unacked(st[p])) <= Len(Received(Peer(p)))
    BY DEF NothingLost
  <2>1. Acked(st[p]) <= Len(Recd(st[Peer(p)]))
    BY DataMeaning DEF Live
  <2>. DEFINE l == st[p]
              n == Len(l.sent)
              k == Len(l.tx)
  <2>2. Good(l)
    BY StationFacts
  <2>3. n \in Nat /\ k \in Nat /\ l.taken \in Nat /\ Len(Unacked(l)) = n + k
    BY <2>2, FieldTypes, LenProperties, ConcatProperties DEF Unacked
  <2>4. Acked(l) = l.taken - n - k
    BY DEF Acked
  <2>. HIDE DEF n, k, l
  <2>5. l.taken - Len(Unacked(l)) = Acked(l)
    BY <2>3, <2>4
  <2>6. Recd(st[Peer(p)]) = Received(Peer(p))
    BY DEF Recd, Received
  <2>. QED  BY <2>1, <2>5, <2>6 DEF l
<1>. QED  BY <1>1, <1>2, <1>3, PTL DEF Spec

(* What the terminals wrote and were given.                                *)
Written == [p \in Station |-> st[p].written]
Given == [p \in Station |-> st[p].out]

(* A step that changes one station changes one entry at most.              *)
LEMMA OneEntry ==
    ASSUME Inv, NEW p \in Station, NEW r, st' = [st EXCEPT ![p] = r]
    PROVE  /\ Written' = [Written EXCEPT ![p] = r.written]
           /\ Given' = [Given EXCEPT ![p] = r.out]
           /\ r.written = st[p].written => Written' = Written
           /\ r.out = st[p].out => Given' = Given
           /\ Written[p] = st[p].written /\ Given[p] = st[p].out
<1>1. DOMAIN st = Station
  BY InvEnds
<1>2. \A x \in Station : st'[x] = IF x = p THEN r ELSE st[x]
  BY <1>1
<1>3. Written' = [Written EXCEPT ![p] = r.written]
  <2>. DEFINE w == [x \in Station |-> IF x = p THEN r.written ELSE st[x].written]
  <2>1. \A x \in Station : st'[x].written = IF x = p THEN r.written ELSE st[x].written
    BY <1>2
  <2>2. Written' = w
    BY <2>1 DEF Written
  <2>3. [Written EXCEPT ![p] = r.written] = w
    BY DEF Written
  <2>. QED  BY <2>2, <2>3
<1>4. Given' = [Given EXCEPT ![p] = r.out]
  <2>. DEFINE w == [x \in Station |-> IF x = p THEN r.out ELSE st[x].out]
  <2>1. \A x \in Station : st'[x].out = IF x = p THEN r.out ELSE st[x].out
    BY <1>2
  <2>2. Given' = w
    BY <2>1 DEF Given
  <2>3. [Given EXCEPT ![p] = r.out] = w
    BY DEF Given
  <2>. QED  BY <2>2, <2>3
<1>5. r.written = st[p].written => Written' = Written
  BY <1>2 DEF Written
<1>6. r.out = st[p].out => Given' = Given
  BY <1>2 DEF Given
<1>7. Written[p] = st[p].written /\ Given[p] = st[p].out
  BY DEF Written, Given
<1>. QED  BY <1>3, <1>4, <1>5, <1>6, <1>7

(* Each step is a step of the ordered channel, or changes nothing there.   *)
LEMMA ChannelStep ==
    Inv /\ DataInv /\ [Next]_vars => [Channel!Next]_<<Written, Given>>
<1>. SUFFICES ASSUME Inv, DataInv, [Next]_vars
              PROVE  Channel!Next \/ UNCHANGED <<Written, Given>>
  OBVIOUS
<1>1. ASSUME NEW p \in Station, Write(p) PROVE Channel!Next
  <2>1. PICK r : /\ st' = [st EXCEPT ![p] = r] /\ r.written = st[p].written + 1
                 /\ r.out = st[p].out
    BY <1>1, WriteData
  <2>2. Written' = [Written EXCEPT ![p] = @ + 1] /\ Given' = Given
    <3>1. /\ Written' = [Written EXCEPT ![p] = r.written] /\ Given' = Given
          /\ Written[p] = st[p].written
      BY <2>1, OneEntry
    <3>. QED  BY <2>1, <3>1
  <2>3. Channel!Accept(p)
    BY <2>2 DEF Channel!Accept, Written, Given
  <2>. QED  BY <2>3 DEF Channel!Next
<1>2. ASSUME NEW p \in Station, Untold(p) PROVE UNCHANGED <<Written, Given>>
  BY <1>2, OneEntry DEF Untold
<1>3. ASSUME NEW p \in Station, NEW r, NEW n \in Nat, st' = [st EXCEPT ![p] = r],
             r.written = st[p].written, r.out = Append(st[p].out, n),
             n > LastOut(st[p]), n <= st[Peer(p)].written
      PROVE  Channel!Next
  <2>1. Written' = Written /\ Given' = [Given EXCEPT ![p] = Append(@, n)]
    <3>1. /\ Written' = Written /\ Given' = [Given EXCEPT ![p] = r.out]
          /\ Given[p] = st[p].out
      BY <1>3, OneEntry
    <3>. QED  BY <1>3, <3>1
  <2>2. LastOut(st[p]) = Channel!LastGot(p)
    BY DEF LastOut, Channel!LastGot
  <2>3. LastOut(st[p]) \in Nat /\ st[Peer(p)].written \in Nat
    <3>1. Good(st[p]) /\ Good(st[Peer(p)])
      BY StationFacts, Peers
    <3>2. st[p].out \in Seq(Nat) /\ st[Peer(p)].written \in Nat
      BY <3>1, RecdTypes
    <3>3. CASE st[p].out = <<>>
      BY <3>2, <3>3 DEF LastOut
    <3>4. CASE st[p].out # <<>>
      <4>1. Len(st[p].out) \in 1 .. Len(st[p].out)
        BY <3>2, <3>4, EmptySeq, LenProperties
      <4>2. st[p].out[Len(st[p].out)] \in Nat
        BY <3>2, <4>1, ElementOfSeq
      <4>. QED  BY <3>2, <3>4, <4>2 DEF LastOut
    <3>. QED  BY <3>3, <3>4
  <2>. DEFINE x == LastOut(st[p])
              y == st[Peer(p)].written
  <2>4. n \in x + 1 .. y
    <3>1. x \in Nat /\ y \in Nat /\ n > x /\ n <= y
      BY <1>3, <2>3
    <3>. HIDE DEF x, y
    <3>. QED  BY <3>1
  <2>5. y = [e \in Station |-> st[e].written][[e \in Station |-> Peer(e)][p]]
    BY Peers
  <2>. HIDE DEF x, y
  <2>6. Channel!Deliver(p)
    BY <2>1, <2>2, <2>4, <2>5 DEF Channel!Deliver, Written, Given, x
  <2>. QED  BY <2>6 DEF Channel!Next
<1>4. ASSUME NEW p \in Station, Receive(p)
      PROVE  Channel!Next \/ UNCHANGED <<Written, Given>>
  <2>1. PICK r : /\ st' = [st EXCEPT ![p] = r] /\ r.written = st[p].written
                 /\ \/ r.out = st[p].out
                    \/ \E n \in Nat : /\ r.out = Append(st[p].out, n)
                                      /\ n > LastOut(st[p]) /\ n <= st[Peer(p)].written
    BY <1>4, ReceiveData
  <2>2. CASE r.out = st[p].out
    BY <1>2, <2>1, <2>2 DEF Untold
  <2>. QED  BY <1>3, <2>1, <2>2
<1>5. ASSUME NEW p \in Station, PushRest(p) PROVE Channel!Next
  BY <1>3, <1>5, PushData
<1>6. ASSUME NEW p \in Station, Lose(p) \/ Drain(p) PROVE UNCHANGED <<Written, Given>>
  BY <1>6, LoseData DEF Written, Given
<1>7. CASE UNCHANGED vars
  BY <1>7 DEF vars, Written, Given
<1>8. ASSUME NEW p \in Station,
             \/ Negotiate(p) \/ Timeout(p) \/ Hangup(p) \/ Stop(p)
             \/ SendCtrl(p) \/ SendInfo(p)
      PROVE  UNCHANGED <<Written, Given>>
  BY <1>2, <1>8, LocalData, SendData
<1>. QED  BY <1>1, <1>4, <1>5, <1>6, <1>7, <1>8 DEF Next

(* The link of modem_ec.c implements an ordered channel: whatever frames   *)
(* are lost, whenever timers expire or users hang up, and however often    *)
(* the link is set up, each terminal is given items the other one wrote,   *)
(* each at most once and in order.                                         *)
THEOREM LapmOrderedDelivery == Spec => OrderedDelivery
<1>1. Init => Inv /\ DataInv
  BY InitGood, InitData
<1>2. Inv /\ DataInv /\ [Next]_vars => (Inv /\ DataInv)'
  BY StepGood, StepData
<1>3. Init => Channel!Init
  BY DEF Init, InitStation, Channel!Init
<1>4. Inv /\ DataInv /\ [Next]_vars => [Channel!Next]_<<Written, Given>>
  BY ChannelStep
<1>. QED  BY <1>1, <1>2, <1>3, <1>4, PTL
          DEF Spec, OrderedDelivery, Channel!Spec, Written, Given

=============================================================================
