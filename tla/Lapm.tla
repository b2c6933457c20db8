------------------------------- MODULE Lapm -------------------------------
(***************************************************************************)
(* The V.42 error-correcting link of slmodemd (slmodemd/modem_ec.c): two   *)
(* stations, each one the `struct lapm_state' of a modem, joined by a      *)
(* telephone line that keeps the order of frames but may destroy them (the *)
(* HDLC receiver drops a frame whose FCS is wrong).                        *)
(*                                                                         *)
(* A station is a record.  The C functions that work on it are operators   *)
(* from a record to the record they leave behind; an action picks one      *)
(* station, applies the operator of one entry point of the code (a frame   *)
(* to send, a frame received, the bit timer, the rest-data poll, a local   *)
(* hangup) and exchanges frames with the line.                             *)
(*                                                                         *)
(* A frame's information field is one item: the n-th piece of data the     *)
(* station's terminal wrote is the number n.                               *)
(***************************************************************************)
EXTENDS Integers, Sequences

CONSTANTS
    Modulus,      \* sequence numbers are 0..Modulus-1 (the code: & 0x7f, 128)
    TxWin,        \* tx_win_size (the code: 15)
    InfoFrames,   \* LAPM_INFO_FRAMES (16), the ring of I frames
    CtrlFrames,   \* LAPM_CTRL_FRAMES (8), the ring of S and U frames
    MaxRtx,       \* LAPM_MAX_RTX (5)
    LineCap,      \* bound: frames under way in one direction
    MaxData,      \* bound: items written by each terminal
    MaxLoss,      \* bound: frames the line destroys
    MaxEarly,     \* bound: T401 expiries while frames are still under way
    Hangups       \* the stations whose user may hang up

Station == {"caller", "answerer"}
Peer(p) == IF p = "caller" THEN "answerer" ELSE "caller"

ASSUME LapmAssumption ==
    /\ Modulus \in Nat /\ TxWin \in Nat /\ InfoFrames \in Nat
    /\ CtrlFrames \in Nat /\ MaxRtx \in Nat
    /\ 0 < TxWin /\ TxWin < Modulus /\ TxWin < InfoFrames
    /\ LineCap \in Nat /\ MaxData \in [Station -> Nat] /\ MaxLoss \in Nat
    /\ MaxEarly \in Nat
    /\ CtrlFrames > 1
    /\ Hangups \subseteq Station

VARIABLES
    st,      \* st[p]: the station at p
    line,    \* line[p]: the frames under way towards p, oldest first
    losses,  \* frames destroyed so far
    early    \* T401 expiries before the line was quiet

vars == <<st, line, losses, early>>

-----------------------------------------------------------------------------
(* Arithmetic on sequence numbers: (a-b)&0x7f and (a+n)&0x7f for numbers   *)
(* that are already below the modulus.                                     *)

SeqNo == 0 .. Modulus - 1
Dist(a, b) == IF a >= b THEN a - b ELSE a - b + Modulus
Plus(a, n) == IF a + n < Modulus THEN a + n ELSE a + n - Modulus

LapmState == {"IDLE", "ESTAB", "DATA", "DISC"}
SKind == {"RR", "RNR", "REJ"}
UKind == {"SABME", "DISC", "UA", "DM", "XID"}

(* cmd: the address octet makes the frame a command (else a response).     *)
(* pf: the poll/final bit.  ns and data matter for I, nr for I and S.      *)
Frame == [kind : {"I"} \cup SKind \cup UKind, cmd : BOOLEAN, pf : BOOLEAN,
          nr : SeqNo, ns : SeqNo, data : Nat]

(* The modem around the link, as far as the link depends on it:            *)
(* STATE_EC_ESTAB, STATE_MODEM_ONLINE, STATE_EC_DISC, and "down" for       *)
(* STATE_DP_DISC and later, when get_bits and put_bits are cleared.        *)
ModemState == {"estab", "online", "ecdisc", "down"}

StationType ==
    [state : LapmState, config : BOOLEAN, busy : BOOLEAN,
     peer_busy : BOOLEAN, reject : BOOLEAN,
     vs : SeqNo, va : SeqNo, vr : SeqNo, rtx_count : 0 .. MaxRtx + 1,
     timer : {"off", "negotiate", "t401"},  \* bit_timer, bit_timer_func
     framing : BOOLEAN,                     \* hdlc.get_tx_frame is set
     sent : Seq(Nat),                       \* ring from sent_info to tx_info
     tx : Seq(Nat),                         \* ring from tx_info to info_list
     ctrl : Seq(Frame),                     \* ring from tx_ctrl to ctrl_list
     rx_buf : Seq(Nat),                     \* received, not yet accepted
     push : BOOLEAN,                        \* packer_process = push_rest_data
     modem : ModemState,
     written : Nat, taken : Nat,            \* items queued, items fetched
     out : Seq(Nat),                        \* history: items given to the tty
     sabmes : Nat,                          \* history: SABMEs made
     dropped : BOOLEAN]                     \* history: ctrl had no room once

-----------------------------------------------------------------------------
(* Control frames.  get_ctrl_frame keeps one frame of the ring free (the   *)
(* one that may be on its way to the line), and a frame that finds no room *)
(* is dropped with an error message.                                       *)

tx_ctrl(l, f) ==
    IF Len(l.ctrl) < CtrlFrames - 1
    THEN [l EXCEPT !.ctrl = Append(@, f)] ELSE [l EXCEPT !.dropped = TRUE]

UFrame(k, cmd, pf) ==
    [kind |-> k, cmd |-> cmd, pf |-> pf, nr |-> 0, ns |-> 0, data |-> 0]

tx_super(l, k, cmd, pf) ==
    tx_ctrl(l, [kind |-> k, cmd |-> cmd, pf |-> pf, nr |-> l.vr, ns |-> 0,
                data |-> 0])

(* RNR when this station is busy, RR otherwise.                            *)
tx_ready(l, cmd, pf) == tx_super(l, IF l.busy THEN "RNR" ELSE "RR", cmd, pf)

TX_SABME(l) == [tx_ctrl(l, UFrame("SABME", TRUE, TRUE)) EXCEPT !.sabmes = @ + 1]
TX_DISC(l) == tx_ctrl(l, UFrame("DISC", TRUE, TRUE))
TX_UA(l, pf) == tx_ctrl(l, UFrame("UA", FALSE, pf))

(* TX_DM(l,1) ors the mask 1 into the control octet, where the final bit   *)
(* is 0x10: the frame leaves with that bit clear.                          *)
TX_DM(l) == tx_ctrl(l, UFrame("DM", FALSE, FALSE))
tx_xid(l, cmd) == tx_ctrl(l, UFrame("XID", cmd, FALSE))

T401_START(l) == [l EXCEPT !.timer = "t401", !.rtx_count = 0]
T401_STOP(l) == [l EXCEPT !.timer = "off", !.rtx_count = 0]

reset(l) ==
    [l EXCEPT !.busy = FALSE, !.peer_busy = FALSE, !.vs = 0, !.va = 0,
              !.vr = 0, !.sent = <<>>, !.tx = <<>>]

(* modem_update_status as far as the link sees it.  STATUS_EC_LINK puts    *)
(* the modem online from whatever state; STATUS_EC_RELEASE hangs up, and   *)
(* no bit is exchanged any more.                                           *)
ec_link(l) == [l EXCEPT !.modem = "online"]
ec_release(l) == [l EXCEPT !.modem = "down"]

(* Fault: nothing is armed to repeat the SABME.                            *)
connect_untimed(l) == TX_SABME([reset(l) EXCEPT !.state = "ESTAB"])

lapm_connect(l) ==
    T401_START(TX_SABME([reset(l) EXCEPT !.state = "ESTAB"]))

lapm_disconnect(l) == T401_START(TX_DISC([l EXCEPT !.state = "DISC"]))

lapm_config(l) ==
    LET c == [l EXCEPT !.config = TRUE]
        r == IF l.state = "DATA"
             THEN tx_super([c EXCEPT !.busy = TRUE], "RNR", TRUE, TRUE) ELSE c
    IN  T401_START(tx_xid(r, TRUE))

-----------------------------------------------------------------------------
(* Information frames.                                                     *)

(* Fault: one frame too many in the window.                                *)
window_off_by_one(l) == ~ l.peer_busy /\ Dist(l.vs, l.va) <= TxWin

WindowOpen(l) == ~ l.peer_busy /\ Dist(l.vs, l.va) < TxWin

(* The ring has a frame left for new data.                                 *)
InfoFrameFree(l) == Len(l.sent) < InfoFrames - 1

(* tx_info fetches one new item when none is waiting to be sent ...        *)
tx_fetches(l) ==
    /\ WindowOpen(l) /\ l.tx = <<>> /\ InfoFrameFree(l)
    /\ l.modem = "online" /\ l.taken < l.written

tx_info(l) ==
    IF tx_fetches(l)
    THEN [l EXCEPT !.tx = <<l.taken + 1>>, !.taken = @ + 1] ELSE l

(* ... and tells whether an I frame is ready.                              *)
tx_info_ready(l) == WindowOpen(l) /\ (l.tx # <<>> \/ tx_fetches(l))

(* Faults: vs is not moved back; the sent frames are forgotten; nothing is *)
(* sent again.                                                             *)
reject_keeps_vs(l) == [l EXCEPT !.tx = l.sent \o l.tx, !.sent = <<>>]
reject_forgets(l) == [l EXCEPT !.vs = l.va, !.sent = <<>>]
reject_nothing(l) == l

reject_info(l) ==
    IF l.state = "DATA"
    THEN [l EXCEPT !.vs = l.va, !.tx = l.sent \o l.tx, !.sent = <<>>] ELSE l

(* Fault: the loop runs once too often.                                    *)
freed_one_more(l, nr) ==
    IF Dist(nr, l.va) < Len(l.sent) THEN Dist(nr, l.va) + 1 ELSE Len(l.sent)

(* The number of frames that ack_info's loop frees: up to nr, unless the   *)
(* list of sent frames runs empty first ("VERY BAD").                      *)
Freed(l, nr) ==
    IF Dist(nr, l.va) <= Len(l.sent) THEN Dist(nr, l.va) ELSE Len(l.sent)

(* The test of nr: two of its three conjuncts, x&0x7f >= 0, always hold.   *)
nr_accepted(l) == Dist(l.vs, l.va) <= TxWin

ack_info(l, nr) ==
    LET n == Freed(l, nr)
        a == [l EXCEPT !.va = Plus(@, n),
                       !.sent = SubSeq(@, n + 1, Len(@))]
    IN  IF ~ nr_accepted(l) THEN lapm_disconnect(l)
        ELSE IF n > 0 /\ l.rtx_count = 0
             THEN IF a.vs # a.va THEN T401_START(a) ELSE T401_STOP(a)
             ELSE a

(* Fault: the peer is not told that the busy state is over.                *)
push_silently(l) ==
    [l EXCEPT !.out = @ \o l.rx_buf, !.rx_buf = <<>>, !.busy = FALSE, !.push = FALSE]

push_rest_data(l) ==
    tx_super([l EXCEPT !.out = @ \o l.rx_buf, !.rx_buf = <<>>,
                       !.busy = FALSE, !.push = FALSE], "RR", TRUE, FALSE)

(* Fault: vr is not incremented.                                           *)
rx_keeps_vr(l, d, room) ==
    IF room /\ l.modem = "online"
    THEN [l EXCEPT !.reject = FALSE, !.out = Append(@, d)]
    ELSE [l EXCEPT !.reject = FALSE, !.rx_buf = <<d>>, !.busy = TRUE,
                   !.push = TRUE]

(* put_chars takes the item (there is room for it) or leaves it, in which  *)
(* case it waits in rx_buf and the station is busy.                        *)
rx_accept(l, d, room) ==
    IF room /\ l.modem = "online"
    THEN [l EXCEPT !.reject = FALSE, !.out = Append(@, d), !.vr = Plus(@, 1)]
    ELSE [l EXCEPT !.reject = FALSE, !.rx_buf = <<d>>, !.vr = Plus(@, 1),
                   !.busy = TRUE, !.push = TRUE]

rx_info(l, f, room) ==
    LET a == ack_info(l, f.nr)
        r == rx_accept(a, f.data, room)
    IN  IF a.busy THEN IF f.pf THEN tx_super(a, "RNR", FALSE, TRUE) ELSE a
        ELSE IF f.ns # a.vr
        THEN IF a.reject THEN a
             ELSE [tx_super(a, "REJ", FALSE, f.pf) EXCEPT !.reject = TRUE]
        ELSE IF r.busy THEN tx_super(r, "RNR", FALSE, f.pf)
        ELSE IF r.peer_busy \/ f.pf \/ ~ tx_info_ready(r)
        THEN tx_super(r, "RR", FALSE, f.pf)
        ELSE tx_info(r)

(* Supervisory commands.  The reply goes to the address of the command.    *)
rx_super_cmd(l, f) ==
    LET a == ack_info([l EXCEPT !.peer_busy = (f.kind = "RNR")], f.nr)
        r == IF f.kind = "REJ" /\ a.rtx_count = 0
             THEN reject_info(T401_STOP(a)) ELSE a
    IN  IF f.kind = "RNR"
        THEN IF f.pf THEN tx_ready(a, FALSE, TRUE) ELSE a
        ELSE IF f.pf \/ ~ tx_info_ready(r) THEN tx_ready(r, FALSE, f.pf)
        ELSE tx_info(r)

rx_super_rsp(l, f) ==
    LET a == ack_info([l EXCEPT !.peer_busy = (f.kind = "RNR")], f.nr)
        again == IF f.kind = "REJ" THEN a.rtx_count = 0 \/ f.pf
                 ELSE a.rtx_count # 0 /\ f.pf
        r == IF again THEN T401_STOP(reject_info(a)) ELSE a
    IN  IF l.rtx_count = 0 /\ f.pf THEN l     \* unsolicited final response
        ELSE IF f.kind = "RNR" /\ r.rtx_count = 0 THEN T401_START(r) ELSE r

-----------------------------------------------------------------------------
(* Unnumbered frames.                                                      *)

rx_unnum_cmd(l, f) ==
    CASE f.kind = "SABME" ->
           ec_link(T401_STOP(TX_UA([reset(l) EXCEPT !.state = "DATA"], f.pf)))
      [] f.kind = "DISC" ->
           IF l.state = "IDLE" THEN TX_DM(l)
           ELSE ec_release(T401_STOP(TX_UA(
                  reset([l EXCEPT !.state = "IDLE"]), f.pf)))
      [] f.kind = "XID" -> tx_xid(l, FALSE)
      [] OTHER -> l

rx_dm(l, f) ==
    CASE l.state \in {"ESTAB", "DISC"} /\ f.pf ->
           ec_release(T401_STOP(reset([l EXCEPT !.state = "IDLE"])))
      [] l.state = "DATA" /\ (l.rtx_count # 0 \/ ~ f.pf) ->
           ec_release(reset([l EXCEPT !.state = "IDLE"]))
      [] l.state = "IDLE" /\ ~ f.pf -> ec_link(l)
      [] OTHER -> l

rx_ua(l) ==
    CASE l.state = "ESTAB" ->
           ec_link(T401_STOP(reset([l EXCEPT !.state = "DATA"])))
      [] l.state = "DISC" ->
           ec_release(T401_STOP(reset([l EXCEPT !.state = "IDLE"])))
      [] OTHER -> l

rx_xid_rsp(l) ==
    LET c == T401_STOP([l EXCEPT !.config = FALSE])
    IN  CASE ~ l.config -> l
          [] l.config /\ l.state = "IDLE" -> lapm_connect(c)
          [] l.config /\ l.state = "DATA" ->
               tx_super([c EXCEPT !.busy = FALSE], "RR", TRUE, FALSE)
          [] OTHER -> c

rx_unnum_rsp(l, f) ==
    CASE f.kind = "DM" -> rx_dm(l, f)
      [] f.kind = "UA" -> rx_ua(l)
      [] f.kind = "XID" -> rx_xid_rsp(l)
      [] OTHER -> l

(* A numbered frame connects a station that is establishing, and makes one *)
(* that is disconnecting give up; the idle station ignores it.             *)
valid_data_state(l) ==
    CASE l.state = "ESTAB" -> ec_link([reset(l) EXCEPT !.state = "DATA"])
      [] l.state = "DISC" -> ec_release([reset(l) EXCEPT !.state = "IDLE"])
      [] OTHER -> l

lapm_rx_complete(l, f, room) ==
    LET v == valid_data_state(l)
    IN  IF f.kind \in UKind
        THEN IF f.cmd THEN rx_unnum_cmd(l, f) ELSE rx_unnum_rsp(l, f)
        ELSE IF v.state # "DATA" THEN v
        ELSE IF f.kind = "I" THEN rx_info(v, f, room)
        ELSE IF f.cmd THEN rx_super_cmd(v, f) ELSE rx_super_rsp(v, f)

-----------------------------------------------------------------------------
(* The bit timer.                                                          *)

t401_give_up(l) ==
    LET z == [l EXCEPT !.rtx_count = 0, !.timer = "off"]
    IN  CASE l.state \in {"ESTAB", "DISC"} ->
               ec_release([z EXCEPT !.state = "IDLE"])
          [] l.state = "DATA" -> lapm_disconnect(z)
          [] OTHER -> z

t401_retry(l) ==
    LET r == [l EXCEPT !.rtx_count = @ + 1]
    IN  CASE l.config -> tx_xid(r, TRUE)
          [] ~ l.config /\ l.state = "ESTAB" -> TX_SABME(r)
          [] ~ l.config /\ l.state = "DISC" -> TX_DISC(r)
          [] ~ l.config /\ l.state = "DATA" -> tx_ready(r, TRUE, TRUE)
          [] OTHER -> r

t401_timeout(l) ==
    IF l.rtx_count > MaxRtx THEN t401_give_up(l) ELSE t401_retry(l)

(* lapm_get_tx_frame: control frames first; then, in the data state, the   *)
(* oldest waiting I frame, or a new one.                                   *)
tx_source(l) == IF l.tx = <<>> THEN tx_info(l) ELSE l

InfoSendable(l) ==
    /\ l.ctrl = <<>>
    /\ ~ l.peer_busy /\ ~ l.config /\ l.state = "DATA"
    /\ l.tx # <<>> \/ tx_fetches(l)

InfoFrame(l) ==
    [kind |-> "I", cmd |-> TRUE, pf |-> FALSE, nr |-> l.vr, ns |-> l.vs,
     data |-> Head(tx_source(l).tx)]

sent_info(l) ==
    LET s == tx_source(l)
        m == [s EXCEPT !.sent = Append(@, Head(s.tx)), !.tx = Tail(@),
                       !.vs = Plus(@, 1)]
    IN  IF l.timer = "off" THEN T401_START(m) ELSE m

-----------------------------------------------------------------------------
(* lapm_init and modem_ec_start: the answerer frames at once, the caller   *)
(* when its negotiation delay is over.                                     *)

InitStation(p) ==
    [state |-> "IDLE", config |-> FALSE, busy |-> FALSE, peer_busy |-> FALSE,
     reject |-> FALSE, vs |-> 0, va |-> 0, vr |-> 0, rtx_count |-> 0,
     timer |-> IF p = "caller" THEN "negotiate" ELSE "off",
     framing |-> p = "answerer", sent |-> <<>>, tx |-> <<>>, ctrl |-> <<>>,
     rx_buf |-> <<>>, push |-> FALSE, modem |-> "estab", written |-> 0,
     taken |-> 0, out |-> <<>>, sabmes |-> 0, dropped |-> FALSE]

Init ==
    /\ st = [p \in Station |-> InitStation(p)]
    /\ line = [p \in Station |-> <<>>]
    /\ losses = 0
    /\ early = 0

Up(p) == st[p].modem # "down"

(* The terminal at p writes one more item into the modem's xmit queue.     *)
Write(p) ==
    /\ st[p].modem = "online"
    /\ st[p].written < MaxData[p]
    /\ st' = [st EXCEPT ![p].written = @ + 1]
    /\ UNCHANGED <<line, losses, early>>

(* modem_ec_negotiate: the caller's bit timer starts the XID exchange.     *)
Negotiate(p) ==
    /\ Up(p) /\ st[p].timer = "negotiate"
    /\ st' = [st EXCEPT ![p] = lapm_config([@ EXCEPT !.framing = TRUE])]
    /\ UNCHANGED <<line, losses, early>>

SendCtrl(p) ==
    /\ Up(p) /\ st[p].framing /\ st[p].ctrl # <<>>
    /\ Len(line[Peer(p)]) < LineCap
    /\ line' = [line EXCEPT ![Peer(p)] = Append(@, Head(st[p].ctrl))]
    /\ st' = [st EXCEPT ![p].ctrl = Tail(@)]
    /\ UNCHANGED <<losses, early>>

SendInfo(p) ==
    /\ Up(p) /\ st[p].framing /\ InfoSendable(st[p])
    /\ Len(line[Peer(p)]) < LineCap
    /\ line' = [line EXCEPT ![Peer(p)] = Append(@, InfoFrame(st[p]))]
    /\ st' = [st EXCEPT ![p] = sent_info(@)]
    /\ UNCHANGED <<losses, early>>

Receive(p) ==
    /\ Up(p) /\ line[p] # <<>>
    /\ \E room \in BOOLEAN :
          st' = [st EXCEPT ![p] = lapm_rx_complete(@, Head(line[p]), room)]
    /\ line' = [line EXCEPT ![p] = Tail(@)]
    /\ UNCHANGED <<losses, early>>

(* Nothing is under way and nothing waits to be sent.                      *)
Quiet ==
    \A p \in Station :
        /\ line[p] = <<>>
        /\ Up(p) /\ st[p].framing => st[p].ctrl = <<>> /\ ~ InfoSendable(st[p])

(* T401 is 57600 bit times, several windows long: it expires when nothing  *)
(* is under way any more, or, at most MaxEarly times, before.              *)
Timeout(p) ==
    /\ Up(p) /\ st[p].timer = "t401"
    /\ Quiet \/ early < MaxEarly
    /\ early' = IF Quiet THEN early ELSE early + 1
    /\ st' = [st EXCEPT ![p] = t401_timeout(@)]
    /\ UNCHANGED <<line, losses>>

PushRest(p) ==
    /\ Up(p) /\ st[p].push /\ st[p].state = "DATA" /\ st[p].rx_buf # <<>>
    /\ st[p].modem = "online"
    /\ st' = [st EXCEPT ![p] = push_rest_data(@)]
    /\ UNCHANGED <<line, losses, early>>

(* modem_hup(m,1) with error correction: modem_ec_stop, STATE_EC_DISC.     *)
Hangup(p) ==
    /\ p \in Hangups /\ st[p].modem \in {"estab", "online"}
    /\ st' = [st EXCEPT ![p] =
                [lapm_disconnect([@ EXCEPT !.push = FALSE])
                   EXCEPT !.modem = "ecdisc"]]
    /\ UNCHANGED <<line, losses, early>>

(* run_modem_stop, which modem_hup scheduled.                              *)
Stop(p) ==
    /\ st[p].modem = "ecdisc"
    /\ st' = [st EXCEPT ![p] = ec_release(@)]
    /\ UNCHANGED <<line, losses, early>>

(* The line destroys the oldest frame; what reaches a station that is down *)
(* is not read.                                                            *)
Lose(p) ==
    /\ Up(p) /\ line[p] # <<>> /\ losses < MaxLoss
    /\ line' = [line EXCEPT ![p] = Tail(@)]
    /\ losses' = losses + 1
    /\ UNCHANGED <<st, early>>

Drain(p) ==
    /\ ~ Up(p) /\ line[p] # <<>>
    /\ line' = [line EXCEPT ![p] = <<>>]
    /\ UNCHANGED <<st, losses, early>>

Next ==
    \E p \in Station :
        \/ Write(p) \/ Negotiate(p) \/ SendCtrl(p) \/ SendInfo(p)
        \/ Receive(p) \/ Timeout(p) \/ PushRest(p) \/ Hangup(p) \/ Stop(p)
        \/ Lose(p) \/ Drain(p)

Spec == Init /\ [][Next]_vars

(* The data pump asks for bits and hands over bits at the sample clock, so *)
(* sending, receiving, the bit timer and the rest-data poll all happen as  *)
(* long as the modem is up, and a scheduled stop is carried out.  Writing, *)
(* hanging up and losing frames are nobody's duty.                         *)
Fairness ==
    \A p \in Station :
        /\ WF_vars(Negotiate(p)) /\ WF_vars(SendCtrl(p) \/ SendInfo(p))
        /\ WF_vars(Receive(p)) /\ WF_vars(Timeout(p)) /\ WF_vars(PushRest(p))
        /\ WF_vars(Stop(p)) /\ WF_vars(Drain(p))

FairSpec == Spec /\ Fairness

-----------------------------------------------------------------------------
(* Properties.                                                             *)

TypeOK ==
    /\ st \in [Station -> StationType]
    /\ line \in [Station -> Seq(Frame)]
    /\ losses \in 0 .. MaxLoss
    /\ early \in 0 .. MaxEarly

Unacked(l) == l.sent \o l.tx
Received(p) == st[p].out \o st[p].rx_buf

(* The ring of I frames agrees with the sequence variables: as many frames *)
(* are between sent_info and tx_info as vs is ahead of va, the window is   *)
(* never exceeded, and the frames kept for retransmission are exactly the  *)
(* last items fetched, in order (modem_ec.c: tx_info, ack_info,            *)
(* reject_info, lapm_get_tx_frame, reset).                                 *)
RingOK(l) ==
    /\ Len(l.sent) = Dist(l.vs, l.va)
    /\ Len(l.sent) + Len(l.tx) <= TxWin
    /\ \A i \in 1 .. Len(l.sent) :
          l.sent[i] = l.taken - Len(l.sent) - Len(l.tx) + i
    /\ \A i \in 1 .. Len(l.tx) : l.tx[i] = l.taken - Len(l.tx) + i
    /\ Len(l.sent) + Len(l.tx) <= l.taken

RingInv == \A p \in Station : RingOK(st[p])

(* Two error branches of the code are never taken: tx_info does not find   *)
(* the ring of I frames full while the window is open ("cannot alloc       *)
(* frame"), and ack_info does not find more than a window outstanding ("nr *)
(* sequence error. disconnect!").                                          *)
NoRingError ==
    \A p \in Station :
        /\ WindowOpen(st[p]) /\ st[p].tx = <<>> => InfoFrameFree(st[p])
        /\ nr_accepted(st[p])

SingleSetup == st["caller"].sabmes <= 1

(* As long as the caller needs only one SABME, data arrives without a gap. *)
NoGap ==
    SingleSetup =>
        \A p \in Station : \A i \in 1 .. Len(Received(p)) : Received(p)[i] = i

(* As long as the caller needs only one SABME, an item that was fetched    *)
(* from the xmit queue is either kept for retransmission or with the other *)
(* modem: an acknowledgement never frees a frame the peer has not taken.   *)
NothingLost ==
    SingleSetup =>
        \A p \in Station :
            st[p].state = "DATA" =>
                st[p].taken - Len(Unacked(st[p])) <= Len(Received(Peer(p)))

-----------------------------------------------------------------------------
Finished == \E p \in Station : ~ Up(p)

(* Setting up the link ends: a station that sent SABME or DISC and waits   *)
(* for the answer leaves that state, by an answer or because T401 gave up  *)
(* (t401_timeout, rx_unnum_rsp, valid_data_state).                         *)
WaitEnds ==
    \A p \in Station :
        []<>(st[p].state \notin {"ESTAB", "DISC"} \/ ~ Up(p))

(* p takes its peer for busy though the peer is so no longer, and no timer *)
(* runs to ask: tx_info sends nothing, and T403, which would ask, does not *)
(* exist.  The RR of push_rest_data was destroyed, or found the ring of    *)
(* control frames full, and T401, which the RNR response had started, was  *)
(* stopped in ack_info by a frame that acknowledged everything: a poll of  *)
(* the peer while it was busy (an RNR command), or an I frame after it,    *)
(* which leaves peer_busy as it is.                                        *)
Forgotten(p) ==
    /\ losses > 0 \/ st[Peer(p)].dropped
    /\ st[p].peer_busy /\ st[p].timer = "off" /\ ~ st[Peer(p)].busy

(* What the terminal wrote arrives in the end, unless the link ends, had   *)
(* to be set up twice, or p is left for ever with a forgotten busy peer.   *)
(* Every other loss is repaired by REJ, by T401 or by the next frame, also *)
(* when data waits behind a busy peer (tx_info, reject_info, rx_super_cmd, *)
(* rx_super_rsp, t401_timeout).                                            *)
Delivered ==
    \A p \in Station :
        []<> ~ Forgotten(p) =>
            <>[](\/ Len(st[Peer(p)].out) = st[p].written
                 \/ Finished \/ ~ SingleSetup)

(* Nobody waits for ever on a peer that reported itself busy:              *)
(* push_rest_data sends RR, and an RNR response starts T401 to ask again   *)
(* (rx_super_rsp).  The one wait that does not end is the forgotten one.   *)
BusyEnds ==
    \A p \in Station :
        []<> ~ Forgotten(p) => []<>(~ st[p].peer_busy \/ Finished)

-----------------------------------------------------------------------------
(* The link is an ordered channel in each direction: whatever is lost, and *)
(* however often the link is reset, no item reaches a terminal that was    *)
(* not written, none twice, and none overtakes another.                    *)
Channel == INSTANCE OrderedChannel
             WITH End <- Station, Other <- [p \in Station |-> Peer(p)],
                  accepted <- [p \in Station |-> st[p].written],
                  got <- [p \in Station |-> st[p].out]

OrderedDelivery == Channel!Spec

=============================================================================
