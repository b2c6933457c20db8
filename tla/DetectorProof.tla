--------------------------- MODULE DetectorProof ---------------------------
(***************************************************************************)
(* For every delay, timer and amount of noise, two modems that have left   *)
(* the detection phase speak the same protocol.                            *)
(*                                                                         *)
(* The argument: the answerer's ec_enable is never taken back, and it is   *)
(* set before the first character that could make the caller decide for    *)
(* error correction is sent.  The caller decides against it only after an  *)
(* answer that says so.                                                    *)
(***************************************************************************)
EXTENDS Detector, TLAPS

FromCaller == {"ODP0", "ODP1", "noise"}
                \cup (IF det["caller"].ec_enable THEN {"FLAG"} ELSE {})

FromAnswerer == {"ADP0", "noise"}
                  \cup (IF det["answerer"].ec_enable THEN {"ADP1_V42", "FLAG"} ELSE {})
                  \cup (IF answerer = "v14" THEN {"ADP1_V14"} ELSE {})

(* What is under way was sent by a station that had decided so.            *)
LineInv ==
    /\ line["answerer"] \in Seq(FromCaller)
    /\ line["caller"] \in Seq(FromAnswerer)

AnswererInv ==
    LET a == det["answerer"]
    IN  /\ a.ec_enable => answerer = "v42"
        /\ a.transmits => (answerer = "v14" \/ a.ec_enable)
        /\ a.phase = "detect" => answerer # "none"
        /\ a.func # "start"

CallerInv ==
    LET c == det["caller"]
    IN  /\ c.ec_enable => det["answerer"].ec_enable
        /\ c.func = "finish" => (c.ec_enable \/ answerer = "v14")
        /\ c.phase = "async" => answerer = "v14"

PhaseInv ==
    \A p \in Station :
      /\ det[p].phase = "hdlc" => det[p].ec_enable
      /\ det[p].phase = "async" => ~det[p].ec_enable
      /\ det[p].phase = "start" => ~det[p].ec_enable

DetectorInv == TypeOK /\ LineInv /\ AnswererInv /\ CallerInv /\ PhaseInv

(* A sequence over a set is one over every larger set.                     *)
LEMMA SeqOverLarger ==
    ASSUME NEW S, NEW T, S \subseteq T, NEW s \in Seq(S)
    PROVE  s \in Seq(T)
  OBVIOUS

(* What hearing a character may change.                                    *)
HeardSoundly(e, d, p, ch) ==
    /\ e \in DetectorType
    /\ e.phase = d.phase
    /\ ch = "FLAG" => e.ec_enable
    /\ p = "answerer" =>
         /\ e.func # "start"
         /\ e.ec_enable => (d.ec_enable \/ ch = "FLAG" \/ answerer = "v42")
         /\ (d.ec_enable /\ answerer = "v42") => e.ec_enable
         /\ e.transmits => (d.transmits \/ answerer # "v42" \/ e.ec_enable)
    /\ p = "caller" =>
         /\ e.ec_enable => (d.ec_enable \/ ch \in {"FLAG", "ADP1_V42"})
         /\ (d.ec_enable /\ ch # "ADP1_V14") => e.ec_enable
         /\ e.func = "finish" => (d.func = "finish" \/ e.ec_enable \/ ch = "ADP1_V14")

LEMMA Decides ==
    ASSUME NEW d \in DetectorType, NEW ec \in BOOLEAN, NEW n \in Nat
    PROVE  /\ decided(d, ec, n) \in DetectorType
           /\ decided(d, ec, n).phase = d.phase
           /\ decided(d, ec, n).transmits = d.transmits
           /\ decided(d, ec, n).ec_enable = ec
           /\ decided(d, ec, n).func = "finish"
  <1>1. PICK y \in DetectorType : y = [d EXCEPT !.rx_count = 2, !.ec_enable = ec]
    <2>1. PICK two \in 0 .. 2 : two = 2
      OBVIOUS
    <2>2. PICK y : y = [d EXCEPT !.rx_count = two, !.ec_enable = ec]
      OBVIOUS
    <2>3. y \in DetectorType
      BY <2>2 DEF DetectorType
    <2> QED BY <2>1, <2>2, <2>3
  <1>2. y.phase = d.phase /\ y.transmits = d.transmits /\ y.ec_enable = ec
    BY <1>1 DEF DetectorType
  <1> DEFINE e == decided(d, ec, n)
  <1>3. e = [y EXCEPT !.timer = n, !.func = "finish"]
    BY <1>1 DEF decided, finish_in
  <1> SUFFICES /\ e \in DetectorType /\ e.phase = d.phase /\ e.transmits = d.transmits
               /\ e.ec_enable = ec /\ e.func = "finish"
    OBVIOUS
  <1> HIDE DEF e
  <1>4. e \in DetectorType
    BY <1>3 DEF DetectorType
  <1>5. /\ e.phase = y.phase /\ e.transmits = y.transmits
        /\ e.ec_enable = y.ec_enable /\ e.func = "finish"
    BY <1>3 DEF DetectorType
  <1> QED BY <1>2, <1>4, <1>5

LEMMA PutChar ==
    ASSUME NEW d \in DetectorType, NEW p \in Station, NEW ch \in Char,
           p = "answerer" => (ch \in {"ODP0", "ODP1", "noise", "FLAG"} /\ d.func # "start"),
           p = "caller" => ch \notin {"ODP0", "ODP1"}
    PROVE  HeardSoundly(put_char(d, p, ch), d, p, ch)
  <1> DEFINE e == put_char(d, p, ch)
  <1> SUFFICES HeardSoundly(e, d, p, ch)
    OBVIOUS
  <1>1. CASE ch = "FLAG"
    <2>1. e = [[d EXCEPT !.ec_enable = TRUE] EXCEPT !.timer = 1, !.func = "finish"]
      BY <1>1 DEF put_char, finish_in
    <2> HIDE DEF e
    <2>2. e \in DetectorType
      BY <2>1 DEF DetectorType
    <2>3. e.phase = d.phase /\ e.func = "finish" /\ e.ec_enable = TRUE /\ e.transmits = d.transmits
      BY <2>1 DEF DetectorType
    <2> QED BY <1>1, <2>2, <2>3 DEF HeardSoundly
  <1>2. CASE ch # "FLAG" /\ d.rx_count = 0
    <2>1. PICK n \in 0 .. 1 : e = [d EXCEPT !.rx_count = n]
      BY <1>2 DEF put_char
    <2> HIDE DEF e
    <2>2. e \in DetectorType
      BY <2>1 DEF DetectorType
    <2>3. e.phase = d.phase /\ e.func = d.func /\ e.ec_enable = d.ec_enable /\ e.transmits = d.transmits
      BY <2>1 DEF DetectorType
    <2> QED BY <1>2, <2>2, <2>3 DEF HeardSoundly
  <1>3. CASE ch # "FLAG" /\ d.rx_count = 1
    <2>1. e = second_char(d, p, ch)
      BY <1>3 DEF put_char
    <2> HIDE DEF e
    <2>2. CASE ch = "ODP1" /\ p = "answerer"
      <3>1. PICK ec \in BOOLEAN : ec = (answerer = "v42")
        OBVIOUS
      <3>2. PICK z \in DetectorType : z = [d EXCEPT !.transmits = TRUE]
        BY DEF DetectorType
      <3>3. z.phase = d.phase
        BY <3>2 DEF DetectorType
      <3>4. e = decided(z, ec, AdpPatterns)
        BY <2>1, <2>2, <3>1, <3>2 DEF second_char
      <3>5. AdpPatterns \in Nat
        BY DetectorAssumption
      <3> QED BY <1>3, <2>2, <3>1, <3>3, <3>4, <3>5, Decides DEF HeardSoundly
    <2>3. CASE ch = "ADP1_V14"
      <3>1. e = decided(d, FALSE, 1)
        BY <2>1, <2>3 DEF second_char
      <3> QED BY <1>3, <2>3, <3>1, Decides DEF HeardSoundly
    <2>4. CASE ch = "ADP1_V42"
      <3>1. e = decided(d, TRUE, 1)
        BY <2>1, <2>4 DEF second_char
      <3> QED BY <1>3, <2>4, <3>1, Decides DEF HeardSoundly
    <2>5. CASE ~(ch = "ODP1" /\ p = "answerer") /\ ch \notin {"ADP1_V14", "ADP1_V42"}
      <3>1. e = [d EXCEPT !.rx_count = 0]
        BY <2>1, <2>5 DEF second_char
      <3>2. e \in DetectorType
        BY <3>1 DEF DetectorType
      <3>3. e.phase = d.phase /\ e.func = d.func /\ e.ec_enable = d.ec_enable /\ e.transmits = d.transmits
        BY <3>1 DEF DetectorType
      <3> QED BY <1>3, <2>5, <3>2, <3>3 DEF HeardSoundly
    <2> QED BY <2>2, <2>3, <2>4, <2>5
  <1>4. CASE ch # "FLAG" /\ d.rx_count = 2
    <2>1. e = d
      BY <1>4 DEF put_char
    <2> HIDE DEF e
    <2> QED BY <1>4, <2>1 DEF HeardSoundly
  <1>5. d.rx_count \in 0 .. 2
    BY DEF DetectorType
  <1> QED BY <1>1, <1>2, <1>3, <1>4, <1>5

(* What the bit timer may change.                                          *)
TimedSoundly(e, d) ==
    /\ e \in DetectorType
    /\ e.ec_enable = d.ec_enable
    /\ e.func = d.func
    /\ e.transmits => (d.transmits \/ d.func = "start")
    /\ e.phase # "start"
    /\ e.phase = "hdlc" => d.ec_enable
    /\ e.phase = "async" => (~d.ec_enable /\ d.func = "finish")

LEMMA BitTimer ==
    ASSUME NEW d \in DetectorType, d.phase = "detect"
    PROVE  TimedSoundly(bit_timer(d), d)
  <1> DEFINE e == bit_timer(d)
  <1> SUFFICES TimedSoundly(e, d)
    OBVIOUS
  <1>1. CASE d.timer = 1
    <2>1. e = bit_timer_func([d EXCEPT !.timer = 0])
      BY <1>1 DEF bit_timer
    <2>2. PICK z \in DetectorType : z = [d EXCEPT !.timer = 0]
      BY DEF DetectorType
    <2>3. /\ z.phase = "detect" /\ z.ec_enable = d.ec_enable
          /\ z.func = d.func /\ z.transmits = d.transmits
      BY <2>2 DEF DetectorType
    <2>4. e = bit_timer_func(z)
      BY <2>1, <2>2
    <2> HIDE DEF e
    <2>5. CASE z.func = "start"
      <3>1. e = [z EXCEPT !.transmits = TRUE]
        BY <2>4, <2>5 DEF bit_timer_func
      <3>2. e \in DetectorType
        BY <3>1 DEF DetectorType
      <3>3. e.phase = z.phase /\ e.ec_enable = z.ec_enable /\ e.func = z.func
        BY <3>1 DEF DetectorType
      <3> QED BY <2>3, <2>5, <3>2, <3>3 DEF TimedSoundly
    <2>6. CASE z.func = "finish"
      <3>1. e = [z EXCEPT !.phase = IF z.ec_enable THEN "hdlc" ELSE "async"]
        BY <2>4, <2>6 DEF bit_timer_func, detector_finish
      <3>2. e \in DetectorType
        BY <3>1 DEF DetectorType
      <3>3. /\ e.phase = IF z.ec_enable THEN "hdlc" ELSE "async"
            /\ e.ec_enable = z.ec_enable /\ e.func = z.func /\ e.transmits = z.transmits
        BY <3>1 DEF DetectorType
      <3> QED BY <2>3, <2>6, <3>2, <3>3 DEF TimedSoundly
    <2>7. CASE z.func = "none"
      <3>1. e = z
        BY <2>4, <2>7 DEF bit_timer_func
      <3> QED BY <2>3, <2>7, <3>1 DEF TimedSoundly
    <2> QED BY <2>5, <2>6, <2>7 DEF DetectorType
  <1>2. CASE d.timer > 1
    <2>1. e = [d EXCEPT !.timer = d.timer - 1]
      BY <1>2 DEF bit_timer, DetectorType
    <2> HIDE DEF e
    <2>2. e \in DetectorType
      BY <1>2, <2>1 DEF DetectorType
    <2>3. /\ e.phase = d.phase /\ e.ec_enable = d.ec_enable
          /\ e.func = d.func /\ e.transmits = d.transmits
      BY <2>1 DEF DetectorType
    <2> QED BY <2>2, <2>3 DEF TimedSoundly
  <1>3. CASE d.timer = 0
    <2>1. e = d
      BY <1>3 DEF bit_timer
    <2> HIDE DEF e
    <2> QED BY <2>1 DEF TimedSoundly
  <1>4. d.timer \in Nat
    BY DEF DetectorType
  <1> QED BY <1>1, <1>2, <1>3, <1>4

(* What a station that is connected sends: a caller flags only with error  *)
(* correction, an answerer patterns and flags only with what they promise. *)
LEMMA SendsWhatItDecided ==
    ASSUME DetectorInv, NEW p \in Station, det[p].phase \in {"detect", "hdlc"}
    PROVE  get_bits(det[p], p) \in
             Seq(IF p = "caller" THEN FromCaller ELSE FromAnswerer)
  <1> USE DEF DetectorInv, TypeOK
  <1> DEFINE S == IF p = "caller" THEN FromCaller ELSE FromAnswerer
  <1> SUFFICES get_bits(det[p], p) \in Seq(S)
    OBVIOUS
  <1>1. CASE det[p].phase = "hdlc"
    <2>1. "FLAG" \in S
      BY <1>1 DEF PhaseInv, FromCaller, FromAnswerer, Station
    <2>2. get_bits(det[p], p) = <<"FLAG">>
      BY <1>1 DEF get_bits
    <2> HIDE DEF S
    <2> QED BY <2>1, <2>2
  <1>2. CASE det[p].phase = "detect" /\ det[p].transmits
    <2>1. get_bits(det[p], p) = <<tx_pattern(p)[2], tx_pattern(p)[1]>>
      BY <1>2 DEF get_bits
    <2>2. CASE p = "caller"
      BY <2>1, <2>2 DEF tx_pattern, FromCaller
    <2>3. CASE p = "answerer" /\ answerer = "v14"
      BY <2>1, <2>3 DEF tx_pattern, FromAnswerer
    <2>4. CASE p = "answerer" /\ answerer # "v14"
      <3>1. det["answerer"].ec_enable
        BY <1>2, <2>4 DEF AnswererInv
      <3> QED BY <2>1, <2>4, <3>1 DEF tx_pattern, FromAnswerer
    <2> QED BY <2>2, <2>3, <2>4 DEF Station
  <1>3. CASE det[p].phase = "detect" /\ ~det[p].transmits
    BY <1>3 DEF get_bits
  <1> QED BY <1>1, <1>2, <1>3

LEMMA InitInv == Init => DetectorInv
  <1> SUFFICES ASSUME Init PROVE DetectorInv
    OBVIOUS
  <1> DEFINE z == [phase |-> "start", transmits |-> FALSE, rx_count |-> 0,
                   ec_enable |-> FALSE, timer |-> 0, func |-> "none"]
  <1>1. z \in DetectorType
    BY DEF DetectorType
  <1>2. det = [p \in Station |-> z]
    BY DEF Init
  <1>3. /\ z.phase = "start" /\ ~z.transmits /\ ~z.ec_enable /\ z.func = "none"
    OBVIOUS
  <1> HIDE DEF z
  <1>4. "caller" \in Station /\ "answerer" \in Station
    BY DEF Station
  <1>5. line = [p \in Station |-> <<>>] /\ noise = 0 /\ answerer \in Kind
    BY DEF Init
  <1>6. TypeOK
    BY <1>1, <1>2, <1>5, DetectorAssumption DEF TypeOK
  <1>7. LineInv
    BY <1>4, <1>5 DEF LineInv
  <1>8. AnswererInv /\ CallerInv /\ PhaseInv
    BY <1>2, <1>3, <1>4 DEF AnswererInv, CallerInv, PhaseInv
  <1> QED BY <1>6, <1>7, <1>8 DEF DetectorInv

LEMMA LinkInv ==
    ASSUME DetectorInv, NEW p \in Station, Link(p)
    PROVE  DetectorInv'
  <1> USE DEF DetectorInv
  <1> DEFINE k == det'[p]
  <1>0. "caller" \in Station /\ "answerer" \in Station
    BY DEF Station
  <1>1. det[p] \in DetectorType /\ det[p].phase = "start" /\ det[p].ec_enable = FALSE
    BY DEF TypeOK, Link, PhaseInv, DetectorType
  <1>2. /\ k \in DetectorType /\ k.ec_enable = FALSE
        /\ k.phase \in {"detect", "async"}
        /\ k.phase = "async" => p = "answerer"
        /\ p = "caller" => k.func = "start"
        /\ p = "answerer" => /\ k.phase = "detect" => answerer # "none"
                             /\ k.transmits => det[p].transmits
                             /\ k.func # "start"
    <2>1. CASE p = "answerer" /\ answerer = "none"
      <3>1. k = [det[p] EXCEPT !.phase = "async"]
        BY <2>1 DEF Link, TypeOK
      <3> HIDE DEF k
      <3>2. k \in DetectorType
        BY <1>1, <3>1 DEF DetectorType
      <3>3. /\ k.phase = "async" /\ k.ec_enable = FALSE
            /\ k.func = det[p].func /\ k.transmits = det[p].transmits
        BY <1>1, <3>1 DEF DetectorType
      <3> QED BY <2>1, <3>2, <3>3 DEF AnswererInv
    <2>2. CASE ~(p = "answerer" /\ answerer = "none")
      <3>1. k = modem_detector_start(det[p], p)
        BY <2>2 DEF Link, TypeOK
      <3>2. PICK t \in Nat, f \in {"start", "finish"} :
               /\ t = IF p = "caller" THEN StartDelay ELSE T400
               /\ f = IF p = "caller" THEN "start" ELSE "finish"
        BY DetectorAssumption
      <3>3. PICK zero \in 0 .. 2 : zero = 0
        OBVIOUS
      <3>4. k = [det[p] EXCEPT !.phase = "detect", !.transmits = FALSE, !.rx_count = zero,
                               !.ec_enable = FALSE, !.timer = t, !.func = f]
        BY <3>1, <3>2, <3>3 DEF modem_detector_start
      <3> HIDE DEF k
      <3>5. k \in DetectorType
        BY <1>1, <3>4 DEF DetectorType
      <3>6. k.phase = "detect" /\ k.ec_enable = FALSE /\ k.transmits = FALSE /\ k.func = f
        BY <1>1, <3>4 DEF DetectorType
      <3> QED BY <2>2, <3>2, <3>5, <3>6 DEF Station
    <2> QED BY <2>1, <2>2
  <1>3. det' = [det EXCEPT ![p] = k] /\ UNCHANGED <<line, noise, answerer>>
    BY DEF Link, TypeOK
  <1> HIDE DEF k
  <1>4. TypeOK'
    BY <1>2, <1>3 DEF TypeOK
  <1>5. \A q \in Station : det'[q].ec_enable <=> det[q].ec_enable
    BY <1>1, <1>2, <1>3 DEF TypeOK
  <1>6. LineInv'
    BY <1>0, <1>3, <1>5 DEF LineInv, FromCaller, FromAnswerer
  <1>7. AnswererInv'
    BY <1>0, <1>1, <1>2, <1>3 DEF AnswererInv, TypeOK
  <1>8. CallerInv'
    BY <1>0, <1>2, <1>3, <1>5 DEF CallerInv, TypeOK
  <1>9. PhaseInv'
    BY <1>2, <1>3 DEF PhaseInv, TypeOK
  <1> QED BY <1>4, <1>6, <1>7, <1>8, <1>9

LEMMA SendInv ==
    ASSUME DetectorInv, NEW p \in Station, Send(p)
    PROVE  DetectorInv'
  <1> USE DEF DetectorInv
  <1> DEFINE k == det'[p]
             bits == get_bits(det[p], p)
             q == Peer(p)
  <1>0. "caller" \in Station /\ "answerer" \in Station /\ q \in Station
    BY DEF Station, Peer
  <1>1. det[p] \in DetectorType /\ det[p].phase \in {"detect", "hdlc"}
    BY DEF TypeOK, Send
  <1>2. bits \in Seq(IF p = "caller" THEN FromCaller ELSE FromAnswerer)
    BY <1>1, SendsWhatItDecided
  <1>3. /\ k \in DetectorType /\ k.ec_enable = det[p].ec_enable /\ k.func = det[p].func
        /\ k.transmits => (det[p].transmits \/ det[p].func = "start")
        /\ k.phase # "start"
        /\ k.phase = "hdlc" => det[p].ec_enable
        /\ k.phase = "async" => (~det[p].ec_enable /\ det[p].func = "finish")
        /\ k.phase = "detect" => det[p].phase = "detect"
    <2>1. CASE det[p].phase = "detect"
      <3>1. k = bit_timer(det[p])
        BY <2>1 DEF Send, TypeOK
      <3> HIDE DEF k
      <3> QED BY <1>1, <2>1, <3>1, BitTimer DEF TimedSoundly
    <2>2. CASE det[p].phase = "hdlc"
      <3>1. k = det[p]
        BY <2>2 DEF Send, TypeOK
      <3> HIDE DEF k
      <3> QED BY <1>1, <2>2, <3>1 DEF PhaseInv
    <2> QED BY <1>1, <2>1, <2>2
  <1>4. /\ det' = [det EXCEPT ![p] = k]
        /\ line' = [line EXCEPT ![q] = line[q] \o bits]
        /\ noise' = noise /\ answerer' = answerer
    BY <1>0 DEF Send, TypeOK
  <1> HIDE DEF k, bits
  <1>5. \A r \in Station : det'[r].ec_enable = det[r].ec_enable
    BY <1>3, <1>4 DEF TypeOK
  <1>6. FromCaller' = FromCaller /\ FromAnswerer' = FromAnswerer
    BY <1>0, <1>4, <1>5 DEF FromCaller, FromAnswerer
  <1>7. LineInv'
    <2>1. CASE p = "caller"
      <3>1. q = "answerer"
        BY <2>1 DEF Peer
      <3> HIDE DEF q
      <3> QED BY <1>0, <1>2, <1>4, <1>6, <2>1, <3>1 DEF LineInv, TypeOK
    <2>2. CASE p = "answerer"
      <3>1. q = "caller"
        BY <2>2 DEF Peer
      <3> HIDE DEF q
      <3> QED BY <1>0, <1>2, <1>4, <1>6, <2>2, <3>1 DEF LineInv, TypeOK
    <2> QED BY <2>1, <2>2 DEF Station
  <1>8. TypeOK'
    <2>1. FromCaller \subseteq Char /\ FromAnswerer \subseteq Char
      BY DEF FromCaller, FromAnswerer, Char
    <2>2. bits \in Seq(Char)
      BY <1>2, <2>1, SeqOverLarger
    <2> HIDE DEF q
    <2> QED BY <1>0, <1>3, <1>4, <2>2 DEF TypeOK
  <1> HIDE DEF q
  <1>9. AnswererInv'
    BY <1>0, <1>3, <1>4, <1>5 DEF AnswererInv, TypeOK
  <1>10. CallerInv'
    BY <1>0, <1>3, <1>4, <1>5 DEF CallerInv, TypeOK
  <1>11. PhaseInv'
    BY <1>3, <1>4, <1>5 DEF PhaseInv, TypeOK
  <1> QED BY <1>7, <1>8, <1>9, <1>10, <1>11

LEMMA ReceiveInv ==
    ASSUME DetectorInv, NEW p \in Station, Receive(p)
    PROVE  DetectorInv'
  <1> USE DEF DetectorInv
  <1> DEFINE k == det'[p]
             ch == Head(line[p])
             a == det["answerer"]
             c == det["caller"]
  <1>0. "caller" \in Station /\ "answerer" \in Station
    BY DEF Station
  <1>1. /\ ch \in IF p = "caller" THEN FromAnswerer ELSE FromCaller
        /\ ch \in Char
    BY <1>0 DEF Receive, LineInv, TypeOK, Station
  <1>2. /\ line' = [line EXCEPT ![p] = Tail(line[p])] /\ line[p] # <<>>
        /\ noise' = noise /\ answerer' = answerer
    BY DEF Receive
  <1>3. CASE det[p].phase # "detect"
    <2>1. det' = det
      BY <1>3 DEF Receive, TypeOK
    <2>2. TypeOK'
      BY <1>2, <2>1 DEF TypeOK
    <2>3. LineInv'
      BY <1>0, <1>2, <2>1 DEF LineInv, FromCaller, FromAnswerer, TypeOK
    <2> QED BY <1>2, <2>1, <2>2, <2>3 DEF AnswererInv, CallerInv, PhaseInv
  <1>4. CASE det[p].phase = "detect"
    <2>1. /\ p = "answerer" =>
               ch \in {"ODP0", "ODP1", "noise", "FLAG"} /\ det[p].func # "start"
          /\ p = "caller" => ch \notin {"ODP0", "ODP1"}
      BY <1>1 DEF FromCaller, FromAnswerer, AnswererInv
    <2>2. det[p] \in DetectorType
      BY DEF TypeOK
    <2>3. k = put_char(det[p], p, ch)
      BY <1>4 DEF Receive, TypeOK
    <2> HIDE DEF ch
    <2>4. HeardSoundly(put_char(det[p], p, ch), det[p], p, ch)
      BY <1>1, <2>1, <2>2, PutChar
    <2>5. det' = [det EXCEPT ![p] = k]
      BY DEF Receive, TypeOK
    <2> HIDE DEF k
    <2>6. HeardSoundly(k, det[p], p, ch)
      BY <2>3, <2>4
    <2>7. TypeOK'
      BY <1>2, <2>5, <2>6 DEF TypeOK, HeardSoundly
    <2>8. CASE p = "answerer"
      <3>1. /\ k.func # "start" /\ k.phase = "detect"
            /\ a.ec_enable => k.ec_enable
            /\ k.ec_enable => answerer = "v42"
            /\ k.transmits => (answerer = "v14" \/ k.ec_enable)
        <4>1. ch = "FLAG" => answerer = "v42"
          BY <1>1, <2>8 DEF FromCaller, CallerInv, AnswererInv
        <4>2. answerer \in {"v42", "v14"}
          BY <1>4, <2>8 DEF AnswererInv, TypeOK, Kind
        <4> QED BY <1>4, <2>6, <2>8, <4>1, <4>2 DEF HeardSoundly, AnswererInv
      <3>2. det'["answerer"] = k /\ det'["caller"] = c
        BY <1>0, <2>5, <2>8 DEF TypeOK
      <3>3. FromCaller' = FromCaller /\ FromAnswerer \subseteq FromAnswerer'
        BY <1>2, <3>1, <3>2 DEF FromCaller, FromAnswerer
      <3>4. LineInv'
        <4>1. line'["answerer"] \in Seq(FromCaller) /\ line'["caller"] = line["caller"]
          BY <1>0, <1>2, <2>8 DEF LineInv, TypeOK
        <4>2. line["caller"] \in Seq(FromAnswerer')
          BY <3>3, SeqOverLarger DEF LineInv
        <4> QED BY <3>3, <4>1, <4>2 DEF LineInv
      <3> QED BY <1>2, <1>4, <2>7, <2>8, <3>1, <3>2, <3>4
             DEF AnswererInv, CallerInv, PhaseInv, Station
    <2>9. CASE p = "caller"
      <3>1. ch \in {"FLAG", "ADP1_V42"} => a.ec_enable
        BY <1>1, <2>9 DEF FromAnswerer
      <3>2. ch = "ADP1_V14" => answerer = "v14"
        BY <1>1, <2>9 DEF FromAnswerer
      <3>3. c.ec_enable => answerer = "v42"
        BY DEF CallerInv, AnswererInv
      <3>4. /\ k.phase = "detect"
            /\ c.ec_enable => k.ec_enable
            /\ k.ec_enable => a.ec_enable
            /\ k.func = "finish" => (k.ec_enable \/ answerer = "v14")
        BY <1>4, <2>6, <2>9, <3>1, <3>2, <3>3 DEF HeardSoundly, CallerInv
      <3>5. det'["caller"] = k /\ det'["answerer"] = a
        BY <1>0, <2>5, <2>9 DEF TypeOK
      <3>6. FromAnswerer' = FromAnswerer /\ FromCaller \subseteq FromCaller'
        BY <1>2, <3>4, <3>5 DEF FromCaller, FromAnswerer
      <3>7. LineInv'
        <4>1. line'["caller"] \in Seq(FromAnswerer) /\ line'["answerer"] = line["answerer"]
          BY <1>0, <1>2, <2>9 DEF LineInv, TypeOK
        <4>2. line["answerer"] \in Seq(FromCaller')
          BY <3>6, SeqOverLarger DEF LineInv
        <4> QED BY <3>6, <4>1, <4>2 DEF LineInv
      <3> QED BY <1>2, <1>4, <2>7, <2>9, <3>4, <3>5, <3>7
             DEF AnswererInv, CallerInv, PhaseInv, Station
    <2> QED BY <2>8, <2>9 DEF Station
  <1> QED BY <1>3, <1>4

LEMMA StopInv ==
    ASSUME DetectorInv, NEW p \in Station, Stop(p)
    PROVE  DetectorInv'
  <1> USE DEF DetectorInv
  <1> DEFINE k == det'[p]
  <1>0. "caller" \in Station /\ "answerer" \in Station
    BY DEF Station
  <1>1. k = [det[p] EXCEPT !.phase = "gone"] /\ det[p] \in DetectorType
    BY DEF Stop, TypeOK
  <1>2. det' = [det EXCEPT ![p] = k] /\ UNCHANGED <<line, noise, answerer>>
    BY DEF Stop, TypeOK
  <1> HIDE DEF k
  <1>3. k \in DetectorType
    BY <1>1 DEF DetectorType
  <1>4. /\ k.phase = "gone" /\ k.ec_enable = det[p].ec_enable
        /\ k.transmits = det[p].transmits /\ k.func = det[p].func
    BY <1>1 DEF DetectorType
  <1>5. TypeOK'
    BY <1>2, <1>3 DEF TypeOK
  <1>6. \A q \in Station : det'[q].ec_enable = det[q].ec_enable
    BY <1>2, <1>4 DEF TypeOK
  <1>7. LineInv'
    BY <1>0, <1>2, <1>6 DEF LineInv, FromCaller, FromAnswerer
  <1>8. AnswererInv'
    BY <1>0, <1>2, <1>4, <1>6 DEF AnswererInv, TypeOK
  <1>9. CallerInv'
    BY <1>0, <1>2, <1>4, <1>6 DEF CallerInv, TypeOK
  <1>10. PhaseInv'
    BY <1>2, <1>4, <1>6 DEF PhaseInv, TypeOK
  <1> QED BY <1>5, <1>7, <1>8, <1>9, <1>10

LEMMA DamageInv ==
    ASSUME DetectorInv, NEW p \in Station, Damage(p)
    PROVE  DetectorInv'
  <1> USE DEF DetectorInv
  <1>0. "caller" \in Station /\ "answerer" \in Station
    BY DEF Station
  <1>1. /\ det' = det /\ answerer' = answerer /\ line[p] # <<>> /\ noise' = noise + 1 /\ noise < MaxNoise
        /\ line' = [line EXCEPT ![p] = [line[p] EXCEPT ![1] = "noise"]]
    BY DEF Damage
  <1>2. "noise" \in FromCaller /\ "noise" \in FromAnswerer /\ "noise" \in Char
    BY DEF FromCaller, FromAnswerer, Char
  <1>3. FromCaller' = FromCaller /\ FromAnswerer' = FromAnswerer
    BY <1>1 DEF FromCaller, FromAnswerer
  <1>4. ASSUME NEW S, NEW s \in Seq(S), s # <<>>, "noise" \in S
        PROVE  [s EXCEPT ![1] = "noise"] \in Seq(S)
    BY <1>4
  <1>5. LineInv'
    <2>1. CASE p = "caller"
      BY <1>0, <1>1, <1>2, <1>3, <1>4, <2>1 DEF LineInv, TypeOK
    <2>2. CASE p = "answerer"
      BY <1>0, <1>1, <1>2, <1>3, <1>4, <2>2 DEF LineInv, TypeOK
    <2> QED BY <2>1, <2>2 DEF Station
  <1>6. TypeOK'
    <2>1. [line[p] EXCEPT ![1] = "noise"] \in Seq(Char)
      BY <1>1, <1>2, <1>4 DEF TypeOK
    <2> QED BY <1>1, <2>1, DetectorAssumption DEF TypeOK
  <1> QED BY <1>1, <1>5, <1>6 DEF AnswererInv, CallerInv, PhaseInv

(* The inductive invariant.                                                *)
THEOREM DetectorInvariant == Spec => []DetectorInv
  <1>1. DetectorInv /\ [Next]_vars => DetectorInv'
    <2> SUFFICES ASSUME DetectorInv, [Next]_vars PROVE DetectorInv'
      OBVIOUS
    <2>1. ASSUME NEW p \in Station, Link(p) PROVE DetectorInv'
      BY <2>1, LinkInv
    <2>2. ASSUME NEW p \in Station, Send(p) PROVE DetectorInv'
      BY <2>2, SendInv
    <2>3. ASSUME NEW p \in Station, Receive(p) PROVE DetectorInv'
      BY <2>3, ReceiveInv
    <2>4. ASSUME NEW p \in Station, Damage(p) PROVE DetectorInv'
      BY <2>4, DamageInv
    <2>5. ASSUME NEW p \in Station, Stop(p) PROVE DetectorInv'
      BY <2>5, StopInv
    <2>6. CASE UNCHANGED vars
      BY <2>6 DEF vars, DetectorInv, TypeOK, LineInv, FromCaller, FromAnswerer,
                  AnswererInv, CallerInv, PhaseInv
    <2> QED BY <2>1, <2>2, <2>3, <2>4, <2>5, <2>6 DEF Next
  <1> QED BY InitInv, <1>1, PTL DEF Spec

(* Type correctness of the detection phase.                                *)
THEOREM DetectorTypeOK == Spec => []TypeOK
  <1>1. DetectorInv => TypeOK
    BY DEF DetectorInv
  <1> QED BY DetectorInvariant, <1>1, PTL

(* Whatever the delays, T400, the number of ADPs and the damaged           *)
(* characters: two modems that have both left the detection phase          *)
(* (detector_finish) go on with the same protocol.                         *)
THEOREM DetectionAgrees == Spec => []SameProtocol
  <1>1. DetectorInv => SameProtocol
    BY DEF DetectorInv, AnswererInv, CallerInv, PhaseInv, SameProtocol, Decided, Station
  <1> QED BY DetectorInvariant, <1>1, PTL

=============================================================================
