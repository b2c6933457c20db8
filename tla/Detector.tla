------------------------------ MODULE Detector ------------------------------
(***************************************************************************)
(* The detection phase of V.42 (slmodemd/modem_pack.c, "Packer detector"): *)
(* two modems whose data pumps are connected find out whether both correct *)
(* errors.  The caller sends originator patterns (ODP), the answerer       *)
(* answers with ADP; whoever decides for error correction goes on to HDLC  *)
(* and sends flags, which the other one understands too.                   *)
(*                                                                         *)
(* The line carries characters.  One step of a sender is one call of       *)
(* modem_get_bits for the 36 bits of a pattern, and bit timers count such  *)
(* steps.                                                                  *)
(***************************************************************************)
EXTENDS Integers, Sequences

CONSTANTS
    StartDelay,    \* the caller's 64*8 bits before its first ODP
    AdpPatterns,   \* MAX_TX_PATTERNS (16)
    T400,          \* the answerer's patience (3/4 s)
    LineCap,       \* bound: characters under way in one direction
    MaxNoise       \* bound: characters the line damages

Station == {"caller", "answerer"}
Peer(p) == IF p = "caller" THEN "answerer" ELSE "caller"

ASSUME DetectorAssumption ==
    /\ {StartDelay, AdpPatterns, T400} \subseteq Nat \ {0}
    /\ LineCap \in Nat /\ MaxNoise \in Nat

(* The noise character stands for every one without a meaning here.        *)
Char == {"ODP0", "ODP1", "ADP0", "ADP1_V14", "ADP1_V42", "FLAG", "noise"}

(* Who answers: this code; a modem that says it has no error correction;   *)
(* one that does not take part.                                            *)
Kind == {"v42", "v14", "none"}

VARIABLES det, line, noise, answerer

vars == <<det, line, noise, answerer>>

DetectorType ==
    [phase : {"start", "detect", "hdlc", "async", "gone"},
     transmits : BOOLEAN,                     \* tx_count > 0
     rx_count : 0 .. 2,
     ec_enable : BOOLEAN,
     timer : Nat, func : {"none", "start", "finish"}]

-----------------------------------------------------------------------------
tx_pattern(p) ==
    IF p = "caller" THEN <<"ODP0", "ODP1">>
    ELSE <<"ADP0", IF answerer = "v14" THEN "ADP1_V14" ELSE "ADP1_V42">>

rx_pattern(p) == tx_pattern(Peer(p))

(* Fault: the answerer is muted without T400.                              *)
modem_detector_start_patient(d, p) ==
    [d EXCEPT !.phase = "detect", !.transmits = FALSE, !.rx_count = 0,
              !.ec_enable = FALSE,
              !.timer = IF p = "caller" THEN StartDelay ELSE 0,
              !.func = IF p = "caller" THEN "start" ELSE "finish"]

modem_detector_start(d, p) ==
    [d EXCEPT !.phase = "detect", !.transmits = FALSE, !.rx_count = 0,
              !.ec_enable = FALSE,
              !.timer = IF p = "caller" THEN StartDelay ELSE T400,
              !.func = IF p = "caller" THEN "start" ELSE "finish"]

finish_in(d, n) == [d EXCEPT !.timer = n, !.func = "finish"]

decided(d, ec, n) == finish_in([d EXCEPT !.rx_count = 2, !.ec_enable = ec], n)

(* Fault: the answerer answers and does not take up error correction.      *)
second_char_forgets(d, p, ch) ==
    CASE ch = "ODP1" /\ p = "answerer" ->
           decided([d EXCEPT !.transmits = TRUE], FALSE, AdpPatterns)
      [] ch = "ADP1_V14" -> decided(d, FALSE, 1)
      [] ch = "ADP1_V42" -> decided(d, TRUE, 1)
      [] OTHER -> [d EXCEPT !.rx_count = 0]

(* The switch of modem_detector_put_bits: the character after the first    *)
(* one of a pattern.                                                       *)
second_char(d, p, ch) ==
    CASE ch = "ODP1" /\ p = "answerer" ->
           decided([d EXCEPT !.transmits = TRUE], answerer = "v42", AdpPatterns)
      [] ch = "ADP1_V14" -> decided(d, FALSE, 1)
      [] ch = "ADP1_V42" -> decided(d, TRUE, 1)
      [] OTHER -> [d EXCEPT !.rx_count = 0]

(* Fault: flags are not looked for.                                        *)
put_char_deaf(d, p, ch) ==
    CASE d.rx_count = 0 ->
           [d EXCEPT !.rx_count = IF ch = rx_pattern(p)[1] THEN 1 ELSE 0]
      [] d.rx_count = 1 -> second_char(d, p, ch)
      [] OTHER -> d

(* modem_detector_put_bits, for one character.  A flag is understood at    *)
(* any time, a pattern only until the first complete one.                  *)
put_char(d, p, ch) ==
    CASE ch = "FLAG" -> finish_in([d EXCEPT !.ec_enable = TRUE], 1)
      [] ch # "FLAG" /\ d.rx_count = 0 ->
           [d EXCEPT !.rx_count = IF ch = rx_pattern(p)[1] THEN 1 ELSE 0]
      [] ch # "FLAG" /\ d.rx_count = 1 -> second_char(d, p, ch)
      [] OTHER -> d

(* detector_finish and STATUS_PACK_LINK.                                   *)
detector_finish(d) == [d EXCEPT !.phase = IF d.ec_enable THEN "hdlc" ELSE "async"]

bit_timer_func(d) ==
    CASE d.func = "start" -> [d EXCEPT !.transmits = TRUE]
      [] d.func = "finish" -> detector_finish(d)
      [] OTHER -> d

(* The bit timer in modem_get_bits; 0 is off.                              *)
bit_timer(d) ==
    CASE d.timer = 1 -> bit_timer_func([d EXCEPT !.timer = 0])
      [] d.timer > 1 -> [d EXCEPT !.timer = @ - 1]
      [] OTHER -> d

(* What one call of get_bits puts on the line.  The first character sent   *)
(* is tx_pattern[1], counted from 0.                                       *)
get_bits(d, p) ==
    CASE d.phase = "hdlc" -> <<"FLAG">>
      [] d.phase = "detect" /\ d.transmits -> <<tx_pattern(p)[2], tx_pattern(p)[1]>>
      [] OTHER -> <<>>

-----------------------------------------------------------------------------
Init ==
    /\ det = [p \in Station |->
                [phase |-> "start", transmits |-> FALSE, rx_count |-> 0,
                 ec_enable |-> FALSE, timer |-> 0, func |-> "none"]]
    /\ line = [p \in Station |-> <<>>]
    /\ noise = 0
    /\ answerer \in Kind

(* STATUS_DP_LINK at p.                                                    *)
Link(p) ==
    /\ det[p].phase = "start"
    /\ det' = [det EXCEPT ![p] =
                 IF p = "answerer" /\ answerer = "none"
                 THEN [@ EXCEPT !.phase = "async"] ELSE modem_detector_start(@, p)]
    /\ UNCHANGED <<line, noise, answerer>>

Send(p) ==
    LET bits == get_bits(det[p], p)
    IN  /\ det[p].phase \in {"detect", "hdlc"}
        /\ Len(line[Peer(p)]) + Len(bits) <= LineCap
        /\ line' = [line EXCEPT ![Peer(p)] = @ \o bits]
        /\ det' = [det EXCEPT ![p] = IF @.phase = "detect" THEN bit_timer(@) ELSE @]
        /\ UNCHANGED <<noise, answerer>>

Receive(p) ==
    /\ line[p] # <<>>
    /\ det' = [det EXCEPT ![p] =
                 IF @.phase = "detect" THEN put_char(@, p, Head(line[p])) ELSE @]
    /\ line' = [line EXCEPT ![p] = Tail(@)]
    /\ UNCHANGED <<noise, answerer>>

(* p hangs up or loses the carrier: modem_stop takes the packer away.      *)
Stop(p) ==
    /\ det[p].phase # "gone"
    /\ det' = [det EXCEPT ![p] = [@ EXCEPT !.phase = "gone"]]
    /\ UNCHANGED <<line, noise, answerer>>

Damage(p) ==
    /\ line[p] # <<>> /\ Head(line[p]) # "noise" /\ noise < MaxNoise
    /\ line' = [line EXCEPT ![p] = [@ EXCEPT ![1] = "noise"]]
    /\ noise' = noise + 1
    /\ UNCHANGED <<det, answerer>>

Next ==
    \E p \in Station : Link(p) \/ Send(p) \/ Receive(p) \/ Stop(p) \/ Damage(p)

Spec == Init /\ [][Next]_vars

(* The data pumps connect, and exchange bits until they are stopped.       *)
FairSpec ==
    /\ Spec
    /\ \A p \in Station : WF_vars(Link(p)) /\ WF_vars(Send(p)) /\ WF_vars(Receive(p))

-----------------------------------------------------------------------------
TypeOK ==
    /\ det \in [Station -> DetectorType]
    /\ line \in [Station -> Seq(Char)]
    /\ noise \in 0 .. MaxNoise
    /\ answerer \in Kind

Decided(p) == det[p].phase \in {"hdlc", "async"}

(* Two modems that have both left the detection phase speak the same       *)
(* protocol, whatever was lost and whenever T400 expired (put_bits,        *)
(* detector_finish): none waits for frames from one that sends characters. *)
SameProtocol ==
    Decided("caller") /\ Decided("answerer") =>
      det["caller"].phase = det["answerer"].phase

(* An answerer that went on to error correction is followed by its caller, *)
(* even when every ADP was damaged: the caller understands flags           *)
(* (modem_detector_put_bits).                                              *)
CallerFollows ==
    det["answerer"].phase = "hdlc" ~>
      det["caller"].phase = "hdlc" \/ \E p \in Station : det[p].phase = "gone"

(* The answerer leaves the detection phase, also when its caller is not    *)
(* heard or falls silent half way through a pattern: T400 is armed from    *)
(* the start and what is heard only replaces it by another end             *)
(* (modem_detector_start and modem_detector_put_bits).                     *)
AnswererEnds == det["answerer"].phase = "detect" ~> det["answerer"].phase # "detect"

=============================================================================
