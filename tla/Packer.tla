------------------------------- MODULE Packer -------------------------------
(***************************************************************************)
(* The framing of slmodemd/modem_pack.c, bit by bit: HDLC (flags, zero     *)
(* insertion, FCS, loss of synchronism and its recovery) below the error   *)
(* corrector, and start-stop characters when there is none.                *)
(*                                                                         *)
(* One modem sends and one receives.  The data pumps take words of nbits   *)
(* bits from modem_*_get_bits and bring them to modem_*_put_bits of the    *)
(* other end; the line may invert a bit.  A byte is the sequence of its    *)
(* bits as they are sent, the lowest first.  A shifter (bits_state) is the *)
(* sequence of its s->bit valid bits, the oldest first.                    *)
(***************************************************************************)
EXTENDS Integers, Sequences

CONSTANTS
    Frames,      \* bound: the frames the error corrector sends
    Chars,       \* bound: the characters written without it
    NBits,       \* how many bits a word of the data pump has
    RxSize,      \* size of _rx_buf
    MaxFrames,   \* bound: how many frames or characters are sent
    MaxFlips     \* bound: how many bits the line inverts

Bit == {0, 1}
Byte == [1 .. 8 -> Bit]
ShiftWidth == 32

ASSUME PackerAssumption ==
    /\ NBits \subseteq 1 .. 8 /\ RxSize \in Nat /\ MaxFrames \in Nat /\ MaxFlips \in Nat
    /\ \A f \in Frames : f \in Seq(Byte) /\ Len(f) > 0 /\ Len(f) + 2 <= RxSize
    /\ Chars \subseteq Byte

VARIABLES
    mode,        \* "hdlc" or "async"
    nbits,       \* the size of a word
    tx,          \* the shifter pack, tx_ones and tx_frame
    rx,          \* the shifter unpack, rx_ones, rx_error and rx_frame
    sent,        \* history: what get_tx_frame or get_chars gave
    got,         \* what rx_complete or put_chars was given
    flips,       \* history: the bits inverted
    idle,        \* history: flags or marks since the last frame, up to 4
    short        \* history: the receiver looked at bits it did not have

vars == <<mode, nbits, tx, rx, sent, got, flips, idle, short>>

-----------------------------------------------------------------------------
HDLC_FLAG == <<0, 1, 1, 1, 1, 1, 1, 0>>
NoFrame == [left |-> <<>>, fcs |-> <<>>, some |-> FALSE]

INIT_FCS == [i \in 1 .. 16 |-> 1]
GOOD_FCS == <<0, 0, 0, 1, 1, 1, 0, 1, 0, 0, 0, 0, 1, 1, 1, 1>>     \* 0xf0b8

(* A loop over the bits of a byte, or over what comes in their place.      *)
eight(step(_, _), a, b) ==
    step(step(step(step(step(step(step(step(a, b[1]), b[2]), b[3]), b[4]),
                        b[5]), b[6]), b[7]), b[8])

(* GET_FCS.  The table holds what eight shifts of the register do, with    *)
(* the feedback of 0x8408.                                                 *)
fcs_shift(fcs, b) ==
    LET x == (fcs[1] + b) % 2
        shifted == [i \in 1 .. 16 |-> IF i = 16 THEN 0 ELSE fcs[i + 1]]
    IN  [i \in 1 .. 16 |-> IF i \in {4, 11, 16} THEN (shifted[i] + x) % 2 ELSE shifted[i]]

GET_FCS(fcs, byte) == eight(fcs_shift, fcs, byte)

(* HDLC_PUT_BYTE: a zero is put in behind five ones.                       *)
put_bit(t, b) ==
    [t EXCEPT !.bits = @ \o IF b = 1 /\ t.ones = 4 THEN <<1, 0>> ELSE <<b>>,
              !.ones = IF b = 1 /\ @ < 4 THEN @ + 1 ELSE 0]

HDLC_PUT_BYTE(t, byte) == eight(put_bit, t, byte)

(* One turn of the loop of modem_hdlc_get_bits that puts bits in, of the   *)
(* three it may be.                                                        *)
put_flag(t, f) == [t EXCEPT !.bits = @ \o HDLC_FLAG, !.frame = f]

put_fcs(t) ==
    LET inverted == [i \in 1 .. 16 |-> 1 - t.frame.fcs[i]]
        low == HDLC_PUT_BYTE(t, SubSeq(inverted, 1, 8))
    IN  [HDLC_PUT_BYTE(low, SubSeq(inverted, 9, 16)) EXCEPT !.ones = 0, !.frame = NoFrame]

put_data(t) ==
    LET in == Head(t.frame.left)
    IN  [HDLC_PUT_BYTE(t, in) EXCEPT
           !.frame = [t.frame EXCEPT !.left = Tail(@), !.fcs = GET_FCS(@, in)]]

(* What modem_hdlc_get_bits may have in its shifter for the next word: one *)
(* turn brings at least eight bits.                                        *)
hdlc_filled ==
    IF Len(tx.bits) >= nbits THEN {[tx |-> tx, sent |-> sent]}
    ELSE IF ~ tx.frame.some
    THEN {[tx |-> put_flag(tx, NoFrame), sent |-> sent]} \cup
         {[tx |-> put_flag(tx, [left |-> f, fcs |-> INIT_FCS, some |-> TRUE]),
           sent |-> Append(sent, f)] : f \in IF Len(sent) < MaxFrames THEN Frames ELSE {}}
    ELSE IF tx.frame.left = <<>> THEN {[tx |-> put_fcs(tx), sent |-> sent]}
    ELSE {[tx |-> put_data(tx), sent |-> sent]}

(* modem_async_get_bits: a start bit, the character and a stop bit; marks  *)
(* when there is no character.                                             *)
async_filled ==
    LET marks == [i \in 1 .. nbits - Len(tx.bits) |-> 1]
    IN  IF Len(tx.bits) >= nbits THEN {[tx |-> tx, sent |-> sent]}
        ELSE {[tx |-> [tx EXCEPT !.bits = @ \o marks], sent |-> sent]} \cup
             {[tx |-> [tx EXCEPT !.bits = (@ \o <<0>> \o c) \o <<1>>],
               sent |-> Append(sent, <<c>>)] : c \in IF Len(sent) < MaxFrames THEN Chars ELSE {}}

-----------------------------------------------------------------------------
(* Fault: the FCS is taken off and not looked at.                          *)
any_fcs_good(r, i) == ~ r.error /\ i = 0 /\ Len(r.buf) >= 3

(* Whether the frame that a flag ends is handed over; i bits of the next   *)
(* byte came before the flag.                                              *)
good_frame(r, i) ==
    ~ r.error /\ i = 0 /\ Len(r.buf) >= 3 /\ r.fcs = GOOD_FCS

(* Fault: an error is forgotten only with a good frame.                    *)
flag_keeps_error(r) ==
    [r EXCEPT !.bits = SubSeq(@, 9, Len(@)), !.ones = 0,
              !.error = @ /\ r.fcs # INIT_FCS, !.buf = <<>>, !.fcs = INIT_FCS]

(* A flag, whatever came before it, begins a frame.                        *)
rx_flag(r) ==
    [r EXCEPT !.bits = SubSeq(@, 9, Len(@)), !.ones = 0, !.error = FALSE,
              !.buf = <<>>, !.fcs = INIT_FCS]

(* A bit of a byte, and the zero behind it when it is the fifth one: a one *)
(* there is no data.                                                       *)
rx_bit(r) ==
    LET b == r.bits[1]
        five == b = 1 /\ r.ones = 4
    IN  [r EXCEPT !.bits = SubSeq(@, IF five THEN 3 ELSE 2, Len(@)),
                  !.ones = IF b = 1 /\ r.ones < 4 THEN @ + 1 ELSE 0,
                  !.error = five /\ r.bits[2] = 1,
                  !.buf = IF five /\ r.bits[2] = 1 THEN <<>> ELSE @]

(* Fault: the bits a flag needs are not reckoned with.                     *)
lookahead_short == 8 + 8

(* A byte, two zeros in it, and a flag.                                    *)
lookahead == 8 + 8 + 2

(* The loop over the bits of one byte: a is the receiver, what it has of   *)
(* the byte, whether a flag was met, the frame handed over.                *)
rx_turn(a, i) ==
    IF a.flag THEN a
    ELSE IF Len(a.r.bits) < 8 THEN [a EXCEPT !.flag = TRUE, !.short = TRUE]
    ELSE IF SubSeq(a.r.bits, 1, 8) = HDLC_FLAG
    THEN [a EXCEPT !.r = rx_flag(@), !.flag = TRUE,
                   !.whole = IF good_frame(a.r, i)
                             THEN <<SubSeq(a.r.buf, 1, Len(a.r.buf) - 2)>> ELSE <<>>]
    ELSE IF a.r.error THEN [a EXCEPT !.r.bits = Tail(@)]
    ELSE [a EXCEPT !.out = Append(@, a.r.bits[1]), !.r = rx_bit(@)]

rx_byte(r) ==
    eight(rx_turn,
          [r |-> r, out |-> <<>>, flag |-> FALSE, whole |-> <<>>, short |-> FALSE],
          <<0, 1, 2, 3, 4, 5, 6, 7>>)

(* Fault: the size of rx_frame is not looked at.                           *)
rx_store_all(r, out) == [r EXCEPT !.buf = Append(@, out), !.fcs = GET_FCS(@, out)]

(* A whole byte goes to rx_frame.                                          *)
rx_store(r, out) ==
    IF Len(r.buf) < RxSize
    THEN [r EXCEPT !.buf = Append(@, out), !.fcs = GET_FCS(@, out)]
    ELSE [r EXCEPT !.buf = <<>>, !.error = TRUE]

(* modem_hdlc_put_bits for one word.                                       *)
hdlc_put(word) ==
    LET r == [rx EXCEPT !.bits = @ \o word]
        a == rx_byte(r)
    IN  IF Len(r.bits) < lookahead
        THEN [rx |-> r, whole |-> <<>>, short |-> FALSE]
        ELSE [rx |-> IF a.flag \/ a.r.error THEN a.r ELSE rx_store(a.r, a.out),
              whole |-> a.whole, short |-> a.short]

(* modem_async_put_bits for one word: marks before a start bit are left    *)
(* out, the stop bit is not looked at.                                     *)
async_put(word) ==
    LET all == rx.bits \o word
        starts == {i \in 1 .. Len(all) : all[i] = 0}
        bits == IF starts = {} THEN <<>>
                ELSE SubSeq(all, CHOOSE i \in starts : \A j \in starts : i <= j, Len(all))
    IN  IF Len(bits) < 10
        THEN [rx |-> [rx EXCEPT !.bits = bits], whole |-> <<>>, short |-> FALSE]
        ELSE [rx |-> [rx EXCEPT !.bits = SubSeq(bits, 11, Len(bits))],
              whole |-> << <<SubSeq(bits, 2, 9)>> >>, short |-> FALSE]

-----------------------------------------------------------------------------
(* What the line makes of a word.                                          *)
Heard(word) ==
    {[word |-> word, flips |-> flips]} \cup
    {[word |-> [word EXCEPT ![i] = 1 - @], flips |-> flips + 1] :
       i \in IF mode = "hdlc" /\ flips < MaxFlips THEN 1 .. nbits ELSE {}}

(* A word is fetched at one end and comes in at the other.                 *)
Word ==
    \E t \in IF mode = "hdlc" THEN hdlc_filled ELSE async_filled :
      \E h \in Heard(SubSeq(t.tx.bits, 1, nbits)) :
        \E p \in {IF mode = "hdlc" THEN hdlc_put(h.word) ELSE async_put(h.word)} :
          /\ tx' = [t.tx EXCEPT !.bits = SubSeq(@, nbits + 1, Len(@))]
          /\ sent' = t.sent
          /\ rx' = p.rx
          /\ got' = got \o p.whole
          /\ short' = (short \/ p.short)
          /\ flips' = h.flips
          /\ idle' = IF t.sent # sent \/ tx.frame.some THEN 0
                     ELSE IF Len(tx.bits) < nbits /\ idle < 4 THEN idle + 1 ELSE idle
          /\ UNCHANGED <<mode, nbits>>

(* modem_hdlc_start and modem_async_start: the receiver of frames waits    *)
(* for a flag.                                                             *)
Init ==
    /\ mode \in {"hdlc", "async"} /\ nbits \in NBits
    /\ tx = [bits |-> <<>>, ones |-> 0, frame |-> NoFrame]
    /\ rx = [bits |-> <<>>, ones |-> 0, error |-> TRUE, buf |-> <<>>, fcs |-> INIT_FCS]
    /\ sent = <<>> /\ got = <<>> /\ flips = 0 /\ idle = 0 /\ short = FALSE

Next == Word

Spec == Init /\ [][Next]_vars

-----------------------------------------------------------------------------
(* The type invariant.  The shifters are 32 bits wide: what is valid in    *)
(* one, with the word that is next, fits.                                  *)
TypeOK ==
    /\ mode \in {"hdlc", "async"} /\ nbits \in NBits
    /\ tx.bits \in Seq(Bit) /\ Len(tx.bits) + nbits <= ShiftWidth
    /\ rx.bits \in Seq(Bit) /\ Len(rx.bits) + nbits <= ShiftWidth
    /\ tx.ones \in 0 .. 4 /\ rx.ones \in 0 .. 4
    /\ rx.error \in BOOLEAN /\ Len(rx.buf) <= RxSize

(* modem_hdlc_put_bits never looks past the bits it has: those it waits    *)
(* for are enough for a byte with two zeros in it and a flag behind it.    *)
LookaheadEnough == ~ short

(* Only what was sent is handed over, whole, in order and once, though the *)
(* line inverts a bit: of the data, of a flag, of an inserted zero, or one *)
(* that makes a flag or a zero out of data.                                *)
OnlySent ==
    \E kept \in SUBSET DOMAIN sent :
      LET k == SelectSeq([i \in DOMAIN sent |-> i], LAMBDA i : i \in kept)
      IN  got = [n \in 1 .. Len(k) |-> sent[k[n]]]

(* What is sent arrives within a few flags or marks, whatever its bits and *)
(* the size of the words, and the receiver finds back to the frames: an    *)
(* inverted bit costs two of them at the most, those on both sides of the  *)
(* flag it spoils.                                                         *)
Arrives == idle = 4 => Len(got) >= Len(sent) - 2 * flips

=============================================================================
