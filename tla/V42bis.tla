------------------------------- MODULE V42bis -------------------------------
(***************************************************************************)
(* V.42bis compression (slmodemd/modem_comp.c) between the characters a    *)
(* terminal writes and the I frames of the link, and back (the compressor  *)
(* get and put of modem.c): the encoder of one modem, the decoder of the   *)
(* other, and between them the frames, which the link neither loses nor    *)
(* reorders (module Lapm).                                                 *)
(*                                                                         *)
(* A character has CharSize bits instead of 8; all else that depends on    *)
(* it follows, so codewords do not fit bytes here either.  The linked      *)
(* lists of the dictionary are sets: the children of an entry.  When the   *)
(* encoder changes its mode, by its compression statistics, is a choice.   *)
(***************************************************************************)
EXTENDS Integers, Sequences

CONSTANTS
    CharSize,    \* bits of a character
    DictSize,    \* entries of a dictionary
    MaxString,   \* longest string of a dictionary
    InfoSize,    \* characters in an I frame
    BufSize,     \* size of comp.buf
    MaxCwSize,   \* the decoder's limit of cw_size (dict_size >> 3)
    MaxChars,    \* bound: characters written
    Written,     \* bound: the characters a terminal writes
    LineCap,     \* bound: frames under way
    MaxSwitch,   \* bound: how often the encoder changes its mode
    MaxShort     \* bound: how often the terminal takes less than it is given

pow2[n \in Nat] == IF n = 0 THEN 1 ELSE 2 * pow2[n - 1]

TotalChars == pow2[CharSize]
FirstEntry == 3
FirstFree == TotalChars + FirstEntry
EscapeStep == 51

(* The dictionary has more free entries than a longest string has          *)
(* prefixes (512 - 259 against at most 250), so one is always a leaf;      *)
(* comp.buf holds a longest string (256 against 34), and the codewords are *)
(* far shorter than the decoder's limit (11 bits for 2048 entries, against *)
(* 256).                                                                   *)
ASSUME V42bisAssumption ==
    /\ CharSize \in Nat \ {0} /\ DictSize \in Nat
    /\ MaxString \in Nat \ {0} /\ DictSize - FirstFree >= MaxString
    /\ InfoSize \in Nat \ {0} /\ BufSize \in Nat /\ BufSize >= MaxString
    /\ MaxCwSize \in Nat /\ MaxCwSize > CharSize /\ DictSize <= pow2[MaxCwSize]
    /\ MaxChars \in Nat /\ Written \subseteq 0 .. TotalChars - 1
    /\ LineCap \in Nat /\ MaxSwitch \in Nat /\ MaxShort \in Nat

VARIABLES
    enc, dec,    \* the comp_state of the encoder and of the decoder
    frame,       \* the I frame that is being filled
    line,        \* the frames under way
    rest,        \* what is left of a received frame
    putting,     \* modem_comp_put_chars is in its loop
    out,         \* comp.buf with its head and count
    sent, got,   \* history: characters written, and shown to the terminal
    switched,    \* history: how often the mode changed
    shorts,      \* history: how often the terminal took less
    overlaid,    \* history: a flush met output still in comp.buf
    flushed      \* history: the last frame ended for want of characters

vars == <<enc, dec, frame, line, rest, putting, out, sent, got, switched,
          shorts, overlaid, flushed>>
encVars == <<enc, frame, sent, switched, flushed>>
decVars == <<dec, rest, putting, out, got, shorts, overlaid>>

-----------------------------------------------------------------------------
Byte == 0 .. TotalChars - 1
FreeEntry == FirstFree .. DictSize - 1
Codeword == 0 .. DictSize - 1

(* Control codewords, and commands behind an escape character.             *)
CCW_ETM == 0
CCW_FLUSH == 1
CCW_STEPUP == 2
CC_ECM == 0
CC_EID == 1
CC_RESET == 2

CompType ==
    [mode : {"TRANSPARENT", "COMPRESSED"}, escape : BOOLEAN, err : BOOLEAN,
     update_at : Codeword, next_free : FreeEntry, last_matched : Codeword,
     last_added : Codeword, cw_size : Nat, escape_char : Byte,
     parent : [FreeEntry -> Codeword], ch : [FreeEntry -> Byte],
     bit_len : Nat, bit_data : Nat, flushed_len : Nat,
     str : Seq(Byte),                         \* str_data, str_len
     obuf : Seq(Byte)]                        \* obuf from ohead to olen

dict_init(c) ==
    [c EXCEPT !.parent = [e \in FreeEntry |-> 0],
              !.next_free = FirstFree, !.last_matched = 0, !.update_at = 0,
              !.last_added = 0, !.cw_size = CharSize + 1, !.bit_len = 0,
              !.flushed_len = 0, !.str = <<>>, !.escape_char = 0,
              !.mode = "TRANSPARENT", !.escape = FALSE]

(* The next free entry is in no list of children.                          *)
match_char(c, at, x) ==
    LET found == {e \in FreeEntry : /\ c.parent[e] = at /\ e # c.next_free
                                    /\ c.ch[e] = x}
    IN  IF at = 0 THEN x + FirstEntry
        ELSE IF found = {} THEN 0 ELSE CHOOSE e \in found : TRUE

(* The entry after the new one that has no children is the next to be used *)
(* again; it leaves the list of its parent.                                *)
add_char(c, at, x) ==
    LET new == c.next_free
        parent == [c.parent EXCEPT ![new] = at]
        leaves == {e \in FreeEntry : \A f \in FreeEntry : parent[f] # e}
        after(e) == (e - new - 1) % (DictSize - FirstFree)
    IN  [c EXCEPT !.parent = parent, !.ch[new] = x, !.last_added = new,
                  !.next_free = CHOOSE e \in leaves :
                                   \A f \in leaves : after(e) <= after(f)]

(* What encoder and decoder do alike with a character: the entry that the  *)
(* last string called for is added ...                                     *)
updated(c, x) ==
    LET added == IF match_char(c, c.update_at, x) = 0
                 THEN add_char(c, c.update_at, x) ELSE c
    IN  IF c.update_at = 0 THEN c ELSE [added EXCEPT !.update_at = 0]

(* ... it ends the string, which is not to use the entry just added ...    *)
ends_string(c, x) == match_char(c, c.last_matched, x) \in {0, c.last_added}

string_ended(c, x, sent_off) ==
    LET s == [sent_off EXCEPT !.last_matched = 0]
    IN  IF match_char(c, c.last_matched, x) = 0
        THEN [s EXCEPT !.update_at = c.last_matched]
        ELSE [s EXCEPT !.last_added = 0]

(* ... or becomes a part of it; a string of full length ends by itself.    *)
collected(c, x) ==
    [c EXCEPT !.last_matched = match_char(c, c.last_matched, x), !.str = Append(@, x)]

string_full(c, sent_off) ==
    IF Len(c.str) + c.flushed_len = MaxString
    THEN [sent_off EXCEPT !.last_matched = 0] ELSE c

-----------------------------------------------------------------------------
(* The encoder.                                                            *)

(* The characters of a string as they are sent in transparent mode, and    *)
(* the escape character behind them, which moves in both modes.            *)
escapes(esc, str) ==
    LET e[i \in 0 .. Len(str)] ==
          IF i = 0 THEN [out |-> <<>>, esc |-> esc]
          ELSE LET a == e[i - 1]
               IN  IF str[i] = a.esc
                   THEN [out |-> a.out \o <<str[i], CC_EID>>,
                         esc |-> (a.esc + EscapeStep) % TotalChars]
                   ELSE [out |-> Append(a.out, str[i]), esc |-> a.esc]
    IN  e

escaped(esc, str) == escapes(esc, str)[Len(str)].out
escape_after(esc, str) == escapes(esc, str)[Len(str)].esc

(* SEND_CW and SEND_BITS, and with ALIGN_BITS between them.                *)
put_bits(c, len, data) ==
    LET n == len \div CharSize
    IN  [c EXCEPT !.obuf = @ \o [i \in 1 .. n |->
                      (data \div pow2[CharSize * (i - 1)]) % TotalChars],
                  !.bit_data = data \div pow2[CharSize * n],
                  !.bit_len = len - CharSize * n]

SEND_CW(c, cw) ==
    put_bits(c, c.bit_len + c.cw_size, c.bit_data + cw * pow2[c.bit_len])

send_aligned(c, cw) ==
    LET len == c.bit_len + c.cw_size
    IN  put_bits(c, len + ((-len) % CharSize), c.bit_data + cw * pow2[c.bit_len])

(* Fault: the codeword is sent in the old size.                            *)
step_up_never(c, cw) == c

(* One STEPUP for each bit that the codeword is too long; threshold is     *)
(* always pow2[cw_size].                                                   *)
step_up(c, cw) ==
    LET stepped[n \in 0 .. DictSize] ==
          IF n = 0 THEN c
          ELSE [SEND_CW(stepped[n - 1], CCW_STEPUP) EXCEPT !.cw_size = @ + 1]
    IN  stepped[CHOOSE n \in 0 .. DictSize :
                  /\ cw < pow2[c.cw_size + n]
                  /\ n = 0 \/ cw >= pow2[c.cw_size + n - 1]]

(* send_data(c, c->last_matched), the only way it is called.               *)
send_data(c) ==
    LET sending ==
          IF c.mode = "TRANSPARENT"
          THEN [c EXCEPT !.obuf = @ \o escaped(c.escape_char, c.str)]
          ELSE SEND_CW(step_up(c, c.last_matched), c.last_matched)
    IN  [sending EXCEPT !.escape_char = escape_after(c.escape_char, c.str),
                        !.str = <<>>, !.flushed_len = 0]

(* Fault: the string before the change is not continued in the dictionary. *)
test_mode_forgets(c, switch) ==
    LET d == IF c.last_matched = 0 THEN c ELSE [send_data(c) EXCEPT !.last_matched = 0]
    IN  CASE ~ switch -> c
          [] switch /\ c.mode = "TRANSPARENT" ->
               [d EXCEPT !.obuf = @ \o <<d.escape_char, CC_ECM>>,
                         !.bit_data = 0, !.mode = "COMPRESSED"]
          [] switch /\ c.mode = "COMPRESSED" ->
               [send_aligned([d EXCEPT !.last_added = 0], CCW_ETM)
                  EXCEPT !.mode = "TRANSPARENT"]

test_mode(c, switch) ==
    LET d == IF c.last_matched = 0 THEN c
             ELSE [send_data(c) EXCEPT !.update_at = c.last_matched, !.last_matched = 0]
    IN  CASE ~ switch -> c
          [] switch /\ c.mode = "TRANSPARENT" ->
               [d EXCEPT !.obuf = @ \o <<d.escape_char, CC_ECM>>,
                         !.bit_data = 0, !.mode = "COMPRESSED"]
          [] switch /\ c.mode = "COMPRESSED" ->
               [send_aligned([d EXCEPT !.last_added = 0], CCW_ETM)
                  EXCEPT !.mode = "TRANSPARENT"]

(* One character.  sw: whether the mode changes after the string that it   *)
(* ends, and after the character.                                          *)
comp_encode(c, x, sw) ==
    LET u == updated(c, x)
        v == IF ends_string(u, x)
             THEN updated(test_mode(string_ended(u, x, send_data(u)), sw[1]), x) ELSE u
        w == collected(v, x)
    IN  test_mode(string_full(w, send_data(w)), sw[2])

(* Fault: a flush ends the string in transparent mode too.                 *)
flush_ends_string(c) ==
    LET d == IF c.last_matched = 0 THEN c ELSE send_data(c)
        f == [d EXCEPT !.update_at = c.last_matched, !.last_matched = 0, !.flushed_len = 0]
    IN  CASE c.update_at # 0 -> c
          [] c.update_at = 0 /\ c.mode = "TRANSPARENT" -> f
          [] c.update_at = 0 /\ c.mode = "COMPRESSED" -> send_aligned(f, CCW_FLUSH)

(* In transparent mode the string goes on, its first part already sent; in *)
(* compressed mode it ends.                                                *)
comp_flush_encoder(c) ==
    LET d == IF c.last_matched = 0 THEN c
             ELSE [send_data(c) EXCEPT !.flushed_len = c.flushed_len + Len(c.str)]
        f == [d EXCEPT !.update_at = c.last_matched, !.last_matched = 0, !.flushed_len = 0]
    IN  CASE c.update_at # 0 -> c
          [] c.update_at = 0 /\ c.mode = "TRANSPARENT" -> d
          [] c.update_at = 0 /\ c.mode = "COMPRESSED" -> send_aligned(f, CCW_FLUSH)

-----------------------------------------------------------------------------
(* The decoder.                                                            *)

send_string(c) == [c EXCEPT !.obuf = @ \o c.str, !.str = <<>>, !.flushed_len = 0]

(* Fault: the decoder keeps a string until it ends.                        *)
no_flush_decoder(c) == c

comp_flush_decoder(c) ==
    [send_string(c) EXCEPT !.flushed_len = c.flushed_len + Len(c.str)]

(* The strings of the entries; recv_data appends one to str_data.          *)
strings(c) ==
    LET s[e \in Codeword] ==
          IF e < FirstFree THEN <<e - FirstEntry>>
          ELSE IF c.parent[e] = 0 THEN <<c.ch[e]>>
          ELSE Append(s[c.parent[e]], c.ch[e])
    IN  s

recv_data(c, cw) == [c EXCEPT !.str = @ \o strings(c)[cw]]

(* A codeword that stands for a string.  One beyond the dictionary is read *)
(* from outside of it, which is as bad as the two errors that are noticed. *)
regular_codeword(c, cw) ==
    LET r == recv_data(c, cw)
        p == match_char(r, r.update_at, r.str[1])
        u == IF r.update_at = 0 THEN r
             ELSE IF p = 0 THEN add_char(r, r.update_at, r.str[1])
             ELSE IF p = r.last_added THEN [r EXCEPT !.last_added = 0] ELSE r
        full == Len(u.str) + u.flushed_len = MaxString
    IN  IF cw = c.next_free \/ cw >= DictSize THEN [c EXCEPT !.err = TRUE]
        ELSE IF r.update_at # 0 /\ p = 0 /\ cw = u.next_free THEN [u EXCEPT !.err = TRUE]
        ELSE send_string([u EXCEPT !.update_at = IF full THEN 0 ELSE cw,
                                   !.escape_char = escape_after(@, u.str)])

codeword(c, cw) ==
    CASE cw = CCW_ETM ->
           [c EXCEPT !.bit_len = 0, !.mode = "TRANSPARENT", !.last_matched = 0,
                     !.last_added = 0]
      [] cw = CCW_FLUSH -> [c EXCEPT !.bit_len = 0]
      [] cw = CCW_STEPUP ->
           [c EXCEPT !.cw_size = @ + 1, !.err = c.cw_size + 1 > MaxCwSize]
      [] OTHER -> regular_codeword(c, cw)

(* A byte in compressed mode: it completes a codeword, or not.             *)
decode_bits(c, x) ==
    LET len == c.bit_len + CharSize
        data == c.bit_data + x * pow2[c.bit_len]
        size == pow2[c.cw_size]
    IN  IF len < c.cw_size THEN [c EXCEPT !.bit_len = len, !.bit_data = data]
        ELSE codeword([c EXCEPT !.bit_len = len - c.cw_size, !.bit_data = data \div size],
                      data % size)

(* A character in transparent mode.                                        *)
decode_char(c, x) ==
    LET u == updated(c, x)
        v == IF ends_string(u, x)
             THEN updated(string_ended(u, x, send_string(u)), x) ELSE u
        w == collected(v, x)
    IN  string_full(w, send_string(w))

(* The command behind an escape character.                                 *)
decode_command(c, x) ==
    CASE x = CC_ECM ->
           [send_string(c) EXCEPT !.mode = "COMPRESSED", !.update_at = c.last_matched,
                                  !.last_matched = 0]
      [] x = CC_EID ->
           decode_char([c EXCEPT !.escape_char = (@ + EscapeStep) % TotalChars],
                       c.escape_char)
      [] x = CC_RESET -> dict_init(send_string(c))
      [] OTHER -> [c EXCEPT !.err = TRUE]

comp_decode(c, x) ==
    CASE c.mode = "COMPRESSED" -> decode_bits(c, x)
      [] c.mode = "TRANSPARENT" /\ c.escape ->
           decode_command([c EXCEPT !.escape = FALSE], x)
      [] c.mode = "TRANSPARENT" /\ ~ c.escape /\ x = c.escape_char ->
           [c EXCEPT !.escape = TRUE]
      [] OTHER -> decode_char(c, x)

-----------------------------------------------------------------------------
(* The sender: modem_comp_get_chars fills a frame.                         *)

Taken(s, n) == SubSeq(s, 1, n)
Left(s, n) == SubSeq(s, n + 1, Len(s))
AtMost(m, n) == IF m < n THEN m ELSE n

(* Fault: more is copied than there is room for.                           *)
get_odata_all(c, n) == Len(c.obuf)

(* get_odata into a frame that has room for n more.                        *)
get_odata(c, n) == AtMost(Len(c.obuf), n)

(* modem_comp_encode: when what an earlier frame had no room for fills     *)
(* this one, the character that was just fetched is not encoded.           *)
modem_comp_encode(c, x, sw, room) ==
    IF Len(c.obuf) >= room THEN c ELSE comp_encode(c, x, sw)

modem_comp_flush_encoder(c, room) ==
    IF Len(c.obuf) >= room THEN c ELSE comp_flush_encoder(c)

(* What the frame has room for goes into it.                               *)
Filled(c) ==
    LET n == get_odata(c, InfoSize - Len(frame))
    IN  /\ frame' = frame \o Taken(c.obuf, n)
        /\ enc' = [c EXCEPT !.obuf = Left(@, n)]

GetChar ==
    /\ Len(frame) < InfoSize /\ Len(sent) < MaxChars
    /\ \E x \in Written, sw \in [1 .. 2 -> BOOLEAN] :
          /\ sw[1] => ends_string(updated(enc, x), x)
          /\ switched' = switched + (IF sw[1] THEN 1 ELSE 0) + (IF sw[2] THEN 1 ELSE 0)
          /\ switched' <= MaxSwitch
          /\ Filled(modem_comp_encode(enc, x, sw, InfoSize - Len(frame)))
          /\ sent' = Append(sent, x)
    /\ flushed' = FALSE
    /\ UNCHANGED <<decVars, line>>

(* There is no character, or no room: the frame ends, flushed in the first *)
(* case.                                                                   *)
EndFrame ==
    /\ Len(line) < LineCap
    /\ LET room == InfoSize - Len(frame)
           c == IF room = 0 THEN enc ELSE modem_comp_flush_encoder(enc, room)
           n == get_odata(c, room)
           f == frame \o Taken(c.obuf, n)
       IN  /\ enc' = [c EXCEPT !.obuf = Left(@, n)]
           /\ line' = IF f = <<>> THEN line ELSE Append(line, f)
           /\ flushed' = (room > 0)
    /\ frame' = <<>>
    /\ UNCHANGED <<decVars, sent, switched>>

-----------------------------------------------------------------------------
(* The receiver: modem_comp_put_chars for a frame, or for the rest of one  *)
(* that the link kept while it was busy.                                   *)

(* Output is put at the start of comp.buf, whatever is there.              *)
stored(p, s) ==
    [p EXCEPT !.buf = [i \in DOMAIN @ |-> IF i <= Len(s) THEN s[i] ELSE @[i]],
              !.count = @ + Len(s)]

(* comp_send_output when the terminal takes k.                             *)
comp_send_output(p, k) ==
    IF k = p.count THEN [p EXCEPT !.head = 0, !.count = 0]
    ELSE [p EXCEPT !.head = @ + k, !.count = @ - k]

shown(p, k) == SubSeq(p.buf, p.head + 1, p.head + k)
short(p, k) == IF k < p.count THEN 1 ELSE 0

PutChars ==
    /\ ~ putting /\ ~ dec.err
    /\ rest # <<>> \/ line # <<>>
    /\ \E k \in 0 .. out.count :
          /\ out' = comp_send_output(out, k)
          /\ got' = got \o shown(out, k)
          /\ shorts' = shorts + short(out, k)
    /\ shorts' <= MaxShort
    /\ putting' = (out'.count = 0)
    /\ rest' = IF rest = <<>> THEN Head(line) ELSE rest
    /\ line' = IF rest = <<>> THEN Tail(line) ELSE line
    /\ UNCHANGED <<encVars, dec, overlaid>>

(* One byte.  The loop ends when the terminal does not take what it gave;  *)
(* behind the last byte the decoder is flushed all the same.               *)
Decode ==
    /\ putting
    /\ LET c == comp_decode(dec, Head(rest))
           n == get_odata(c, BufSize)
           p == stored(out, Taken(c.obuf, n))
           d == [c EXCEPT !.obuf = Left(@, n)]
           last == Len(rest) = 1
       IN  \E k \in 0 .. p.count :
             LET q == comp_send_output(p, k)
                 e == comp_flush_decoder(d)
                 s == stored(q, e.obuf)
             IN  \E j \in IF last THEN 0 .. s.count ELSE {0} :
                   /\ dec' = IF last THEN [e EXCEPT !.obuf = <<>>] ELSE d
                   /\ out' = IF last THEN comp_send_output(s, j) ELSE q
                   /\ got' = got \o shown(p, k) \o (IF last THEN shown(s, j) ELSE <<>>)
                   /\ shorts' = shorts + short(p, k) + (IF last THEN short(s, j) ELSE 0)
                   /\ shorts' <= MaxShort
                   /\ overlaid' = (overlaid \/ (last /\ q.count > 0 /\ e.obuf # <<>>))
                   /\ putting' = (~ last /\ q.count = 0 /\ ~ c.err)
    /\ rest' = Tail(rest)
    /\ UNCHANGED <<encVars, line>>

-----------------------------------------------------------------------------
(* comp_init.                                                              *)
NewComp ==
    dict_init([mode |-> "TRANSPARENT", escape |-> FALSE, err |-> FALSE,
               update_at |-> 0, next_free |-> FirstFree, last_matched |-> 0,
               last_added |-> 0, cw_size |-> 0, escape_char |-> 0,
               parent |-> [e \in FreeEntry |-> 0], ch |-> [e \in FreeEntry |-> 0],
               bit_len |-> 0, bit_data |-> 0, flushed_len |-> 0,
               str |-> <<>>, obuf |-> <<>>])

Init ==
    /\ enc = NewComp /\ dec = NewComp
    /\ frame = <<>> /\ line = <<>> /\ rest = <<>> /\ putting = FALSE
    /\ out = [buf |-> [i \in 1 .. BufSize |-> 0], head |-> 0, count |-> 0]
    /\ sent = <<>> /\ got = <<>> /\ switched = 0 /\ shorts = 0
    /\ overlaid = FALSE /\ flushed = FALSE

Next == GetChar \/ EndFrame \/ PutChars \/ Decode

Spec == Init /\ [][Next]_vars

-----------------------------------------------------------------------------
TypeOK ==
    /\ enc \in CompType /\ dec \in CompType
    /\ frame \in Seq(Byte) /\ Len(frame) <= InfoSize
    /\ line \in Seq(Seq(Byte)) /\ rest \in Seq(Byte) /\ putting \in BOOLEAN
    /\ out \in [buf : [1 .. BufSize -> Byte], head : Nat, count : Nat]
    /\ sent \in Seq(Byte) /\ got \in Seq(Byte)
    /\ switched \in 0 .. MaxSwitch /\ shorts \in 0 .. MaxShort
    /\ overlaid \in BOOLEAN /\ flushed \in BOOLEAN

(* The terminal sees what the other one wrote, in order and nothing else,  *)
(* as long as no flush at the end of a frame met output in comp.buf that   *)
(* the terminal had not taken (modem_comp_put_chars).                      *)
ShownAsWritten ==
    ~ overlaid => Len(got) <= Len(sent) /\ got = SubSeq(sent, 1, Len(got))

(* A decoder that is given what this encoder produces never finds an       *)
(* error: no codeword for an entry that is free or that the decoder frees  *)
(* itself (add_char, comp_decode).                                         *)
NoDecoderError == ~ dec.err

(* All that was fetched has been sent, flushed and decoded.                *)
Drained ==
    /\ flushed /\ frame = <<>> /\ enc.obuf = <<>> /\ line = <<>>
    /\ rest = <<>> /\ ~ dec.err

(* A poll that finds no character leaves nothing behind in the encoder:    *)
(* once the frames are decoded all that was written has been shown, or is  *)
(* in comp.buf (comp_flush_encoder, comp_flush_decoder).                   *)
FlushComplete ==
    Drained /\ ~ overlaid => Len(got) + out.count = Len(sent)

(* Once all is decoded, the two dictionaries are the same, and so are the  *)
(* modes, the codeword sizes and the escape characters that both sides     *)
(* derive from the data.                                                   *)
InStep ==
    Drained => /\ enc.parent = dec.parent /\ enc.ch = dec.ch
               /\ enc.next_free = dec.next_free /\ enc.mode = dec.mode
               /\ enc.cw_size = dec.cw_size /\ enc.escape_char = dec.escape_char

=============================================================================
