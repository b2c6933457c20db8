# A TLA+ model of D-Modem

D-Modem makes a dial-up modem out of a SIP telephone line. `slmodemd` is a
daemon that offers a terminal (a pty) and behaves like a modem on it; for every
call it starts a `d-modem` process that speaks SIP and RTP through pjsip. The
two exchange raw audio over a socket pair.

This directory models the control logic of both programs, checks it with TLC on
small instances and proves the main invariants with TLAPS for every instance.

## 1. Inventory

| Component | Source | State | Operations | Status |
|---|---|---|---|---|
| V.42 LAPM error corrector | `slmodemd/modem_ec.c` | `lapm_state`: link state, `vs`/`va`/`vr`, busy flags, rings of I and control frames, T401, rest of received data | frame received, frame wanted, bit timer, rest-data poll, connect, disconnect, configure | `Lapm`, `OrderedChannel`, `LapmProof` |
| Modem control | `slmodemd/modem.c`, call commands of `modem_at.c` | `struct modem`: `state`, `command`, `started`, hook, data pump, sample timer, result code, packer, xmit buffer, escape | AT call commands, hangup from five sides, samples, escape, voice session | `Modem`, `ModemProof` |
| Daemon main loop, socket driver | `slmodemd/modem_main.c` | the select loop, `dev->fd`, `update_delay`, the child process | read, process, write back; `socket_start`, `socket_stop` | `Call`, `CallProof`; terminal branch in `Modem` |
| d-modem | `d-modem.c` | `port.sock`, `destroying`, SIP call, two pjsua threads | `on_call_state`, `on_call_media_state`, `dmodem_get_frame`, `dmodem_put_frame`, `error_exit` | `Call`, `CallProof` |
| Timers and events | `slmodemd/modem_timer.c`, `modem_event`, `modem_ring` | timer list, `event`, `new_event`, one shared `event_timer` | SIGALRM handler, add, delete, ring, escape | `Terminal`, `TerminalProof` |
| Transmit buffer | `modem.c` (`xmit`) | ring with head, tail, count, size | write, fetch, empty | `Terminal`, `TerminalProof`; `Modem` has a bounded queue of lines |
| V.42 detection phase | `slmodemd/modem_pack.c` | `detect_state`: pattern counters, `ec_enable`; the bit timer | patterns sent and heard, flags, T400 | `Detector`, `DetectorProof` |
| Async and HDLC framing | `slmodemd/modem_pack.c` | bit shifters, counts of ones, FCS, `rx_error` | get and put bits | `Packer`, `PackerProof` |
| V.42bis compression | `slmodemd/modem_comp.c`, the compressor functions of `modem.c` | two dictionaries, transparent or compressed mode, strings and bits under way, `comp.buf` | encode, decode, flush, change of mode | `V42bis`, `V42bisDecoderProof`, `V42bisProof` |
| AT command parser | `slmodemd/modem_at.c`, `modem_at_process` | `at_line`, S registers | one line at a time | call and voice commands in `Modem`, line assembly and `A/` in `Terminal` (with `TerminalProof`); commands that set parameters are not modelled |
| Data pumps, DSP | `dp_*.c`, binary `dsplibs.o` | - | - | not modelled: signal processing. What a pump may report is a choice |
| Parameters, data file, debug, command line, tests | `modem_param.c` etc. | tables and files | - | not modelled: no protocol |
| pjproject | `pjproject-2.11.1/`: `conference.c`, `pjsua_call.c`, `pjsua_media.c`, `pjsua_core.c` | the lock and the connections of the conference bridge; worker threads | clock tick, removal of a port, change of the media, end of a call, `pjsua_destroy` | what d-modem depends on is in `Call`; the rest is vendored and not modelled |

How they interact. `modem_run` selects over the pty and the socket. Samples read
from the socket go through `modem_process` to the data pump; the pump asks for
and hands over bits, which the packer turns into frames or characters; LAPM
exchanges frames with the packer and characters with the xmit buffer and the
pty. Status reports (`modem_update_status`) run the other way: from the pump,
the detector and LAPM to the modem's state. Every hangup ends in the sample
timer, whose function is `run_modem_stop`. The SIGALRM handler runs between any
two instructions of this single thread. The child has two threads that share
`port.sock`, `destroying` and pjmedia's conference bridge: the media thread holds
the bridge's lock for a whole clock tick, the blocking `read` of
`dmodem_get_frame` included, and the SIP thread needs it to change a call's media
and to end the call.

What is hard here:

- a hangup can come from the terminal, the pty, the carrier, the link, a typed
  character or the loss of the child, in every state, and again while one is
  being carried out;
- state outlives a call: the sample timer, `escape_count`, `update_delay`,
  `packer_process` and the xmit buffer;
- LAPM meets lost frames, late timeouts and repeated set-up commands, and its
  counters wrap;
- the audio loop contains no timeout: both sides read before they write;
- the child's two threads test and set `destroying` without a lock, and each
  joins the other in `pjsua_destroy`; only the bridge orders them;
- a change of the call's media meets a frame that is in the bridge;
- the child may vanish before any write of the daemon; a signal may interrupt a
  wait.

`PROJECT.json` lists these hazards, each at its line, with the property that
covers it or the reason why none does yet.

What makes each component correct:

| Component | Correctness |
|---|---|
| LAPM | in-order delivery without duplicates; no acknowledged item lost; rings agree with sequence numbers; waiting ends |
| Modem control | a call has a device; a hangup is always finished; a call command gets its result; a timer works on the call it was set for |
| Daemon and d-modem | audio neither starves nor grows; a hangup on one side ends the other; the child is gone before the next call |
| Timers and events | no event lost or delivered to the wrong call; an escape has its guard time and is obeyed |
| Transmit buffer | a FIFO; nothing of a data call is read as a command |
| Detection phase | both ends go on with the same protocol; the phase ends |
| Framing | what is handed over was sent; a clean line loses nothing; a damaged frame costs no more than its neighbours |
| V.42bis | both dictionaries agree; what is shown was written; a flush leaves nothing behind |

## 2. Modules

### Lapm

Two stations (`st`), each the `lapm_state` of one modem and the little of
`struct modem` that LAPM looks at, and the frames under way in each direction
(`line`). Each C function is an operator of the same name from a station record
to the record it leaves behind: `tx_info`, `ack_info`, `reject_info`, `rx_info`,
`rx_super_cmd`, `rx_super_rsp`, `rx_unnum_cmd`, `rx_unnum_rsp`,
`valid_data_state`, `t401_timeout`, `lapm_connect`, `lapm_disconnect`,
`lapm_config`, `reset`. Actions are the entry points: `Negotiate`, `SendCtrl`
and `SendInfo` (`lapm_get_tx_frame`, `lapm_tx_complete`), `Receive`
(`lapm_rx_complete`), `Timeout` (the bit timer), `PushRest`, `Hangup`
(`modem_ec_stop`), `Stop`. `Write` is the terminal; `Lose` and `Drain` are the
line.

Abstractions. The payload of an I frame is one item, the n-th item a terminal
wrote being the number n; so a gap, a repetition and a reordering are all
visible. A ring is the sequence of frames between its pointers. XID is exchanged
but its parameters are not negotiated. The line destroys whole frames, since the
HDLC receiver drops a frame with a bad FCS; it does not reorder. Kept as they
are in the code: the final bit `TX_DM` never sets, the two conjuncts of the nr
test that always hold, the control frame dropped when its ring is full, what
`reset` leaves untouched.

`OrderedChannel` is the abstract specification: each end receives some of the
items the other wrote, each at most once, in order. `OrderedDelivery` states that
`Lapm` implements it under the mapping `accepted <- written, got <- out`.

### Modem

One record `m` with the fields of `struct modem` that decide control, `loop` (in
`select`, in `modem_process`, in `modem_at_process`), and `alive`, which becomes
false when a null function pointer is called. Operators again carry the names of
the C functions (`modem_set_state`, `modem_hup`, `modem_start`, `modem_stop`,
`modem_answer`, `modem_dial`, `modem_hook`, `modem_online`, `modem_reset`,
`voice_start`, `voice_stop`, `finish`, `dp_link`, `pack_link`, `ec_link`,
`ec_release`, `do_modem_change_dp`, `modem_write`, `modem_escape`).

Actions: `Write` (pty input), `AtLine` and `AtDone` (`modem_at_process`),
`Escape` (`modem_event`), `Fragment` (one fragment of `modem_dp_process`),
`OtherSamples` (`modem_process` without a data pump), `EndSamples` (its end, with
the sample timer), `ReadFails` (the forced hangup in `modem_run`), `PtyHangup`.

Abstractions. A terminal writes whole lines: the call commands, the voice
commands, the escape sequence and other text. What the pump, the detector and
the error corrector may report is `PumpMay`, a set that depends on which of them
can run in the given state. Sample counts are gone; a timer that is set may be
over at the end of any `modem_process`. Fax, caller ID and ring detection are
left out. `owed` and `leftover` are history: a call command still waits for its
result; the device was once stopped, or not started, with the timer still set.

### Call

The daemon's device branch (`daemon`, `fd`, `held`, `ud`, `stop`), one child
record per call (`kid`), and the units of audio under way in both directions
(`toKid`, `toDaemon`). A unit stands for a part of a frame, so that a frame can
be cut by `update_delay`. A child has a SIP thread (`sip`) and a media thread
(`media`); the test of `destroying`, its assignment and `pjsua_destroy` are
separate steps.

The bridge is part of the model. `Tick` is the media clock: it locks the bridge
and enters `get_frame`, and the lock is held while `get_frame` waits and while
`error_exit` destroys pjsua. Between two ticks (`BridgeFree`) the bridge may hold a
frame that was read and not yet put (`got`), as a frame of 20 ms takes several ticks.
`conf_remove_port` is what `pjmedia_conf_remove_port` does to d-modem's port: it
has no transmitter any more, so the bridge clears its buffer and puts a frame of
type NONE (`conference.c`, `write_port`), for which `put_frame` writes nothing
(`put_none`). The frame is lost; `lost` counts it. A re-INVITE that changes the media
(`Reinvite`, `media_channel_update`) removes the call's slot in this way and adds a
new one. When the call is on hold then, `on_call_media_state` sets `done` to 0 and
connects the port again when media resume (`MediaActive`); when it is active,
`done` is still 1 and the port stays unconnected. The end of a call takes the call
out of the bridge (`media_channel_deinit`) before `on_call_state` is called.

A write to a socket whose other end is closed kills the daemon,
which does not handle SIGPIPE, and fails in the child, which ignores it.

Abstractions. The modem is reduced to `stop` (it wants to be stopped) and to the
delay it asks for, once a call. SIP is the set of events d-modem reacts to:
ringing, media active, other media, disconnected. The two calls of
`pjsua_conf_connect` are one step: no frame of the port is complete before the
second. `pjsua_destroy` is its first action, to join the worker threads; what
follows ends in `exit`. A failing `fork` or `socketpair` and a failing `execl` are not
modelled.

### Detector

The two ends of the detection phase (`det`, the `detect_state` and the bit timer
of each modem) and the characters under way (`line`). `Link` is `STATUS_DP_LINK`;
`Send` is one `modem_get_bits` with the bit timer behind it; `Receive` is
`modem_put_bits` for one character; `Stop` is `modem_stop` after a hangup or the
loss of the carrier; `Damage` is the line. `put_char` and
`second_char` are the loop and the switch of `modem_detector_put_bits`,
`detector_finish` goes on to HDLC or to async characters. `answerer` never changes
and says who answers: this code, a modem that answers with the V.14 pattern, or
one that does not take part.

Abstractions. A character stands for its ten bits and the marks after it, and
one `Send` for the 36 bits of a pattern: a pump that fetches bits in smaller
pieces is not covered. A damaged character is one without a meaning; it never
turns into another pattern.

### Terminal

The terminal's side of one modem. `xmit` is the ring with its head, tail and
count; `write_round` and `read_round` are one turn of the loops of `modem_write`
and `modem_get_chars`, which are cut at the end of the buffer. `at` is `at_line`
with `at_count`; `AtChar` is one turn of `modem_at_process`. `esc` is
`escape_count` and the time since `last_esc_check`. `event`, `new_event` and
`timer` are the words that `modem_event`, `schedule_event` and the SIGALRM handler
share. `pc` says where the main thread is, wherever the handler makes a
difference: at the top of the loop, before or in `select`, between the two
halves of `schedule_event` (`Arm` is the second), between reading and clearing
`m->event` (`ModemEvent`), in `modem_at_process`. `Alarm` is the handler; it may
run at each of these points.

Abstractions. Time is kept as differences and `Tick` moves it; the alarm comes in
the tick in which the timer expires. The call is its state: `Connect`, `Hangup`
and `Stop` stand for what `Modem` has in detail. Characters are the few that the
code tells apart. A cell of the ring that was read is `nul`. Whether a ring is
valid, by its length and count, is a choice; so is the number of rings after
which the modem answers. A `modem_start` that fails does so at its
end, when the device does not start; the code may also fail for the hook, before
it empties the ring, or for want of memory, before it clears the events
(`modem.c:1128-1146`). The other variables are history: what the ring should
hold and which of it was written during a call (`queue`), whether a call ended
with data in the ring (`cut`), whether data was taken for a command (`ran`),
whether a call began or went on within a line (`begun`), with an old
`escape_count` (`inherited`), where the handler met the main thread (`raced`).

### V42bis

The encoder of one modem, the decoder of the other (`enc`, `dec`, each a
`comp_state`), the frames between them, and the two functions of `modem.c` around
them. `GetChar` and `EndFrame` are `modem_comp_get_chars`, `PutChars` and `Decode`
`modem_comp_put_chars`, with `out` for `comp.buf`. Operators carry the names of the
C functions; `updated`, `ends_string`, `string_ended`, `collected` and `string_full`
are what `comp_encode` and the transparent half of `comp_decode` have in common.

Abstractions. A character has two bits instead of eight, so there are seven
entries at the start and codewords of three bits and more; what depends on the
size of a character follows it. The linked lists of the dictionary are sets of
children. When the encoder changes its mode, from the statistics of the last
256 characters, is a choice. The link is a queue of frames: `Lapm` is where it is
shown to be one. `comp_force_reset` and `comp_force_change_mode` are called
nowhere and left out.

### Packer

Both framings of `modem_pack.c` between two modems, bit by bit. A byte is the
sequence of its eight bits in the order they are sent, a shifter the sequence of
its valid bits. `Word` is one word of `nbits` bits, from `modem_*_get_bits` at one
end (`hdlc_filled`, `async_filled`) to `modem_*_put_bits` at the other (`hdlc_put`,
`async_put`); `Heard` is the line, which may invert a bit of it. The FCS is the
real CRC of 16 bits, computed bit by bit where the code has a table of 256
entries. Nothing is scaled down but the number and length of frames and the size
of the receive buffer.

## 3. Runs

| Run | Instance | What it shows |
|---|---|---|
| `lapm_data` | modulus 4, window 2, ring 3, 2 items one way and 1 the other, 1 loss, 1 early timeout | `RingInv`, `NoRingError`, `NoGap`, `NothingLost`, and that `Lapm` implements `OrderedChannel` |
| `lapm_live` | 2 items one way and 1 the other, 1 loss, one frame at a time in each direction, the caller may hang up | `WaitEnds`: SABME and DISC do not wait for ever; `Delivered`: what is written arrives; `BusyEnds`: a busy peer is not waited for in vain; the last two except a forgotten busy peer |
| `modem_call` | 2 lines in the buffer, data calls | `CallHasDevice`, `StopScheduled`, `HangupSchedulesStop`, `TerminalTold`, `AnswerTimerOwned` |
| `modem_live` | 1 line, with voice | `HangupCompletes`: a scheduled stop happens |
| `modem_voice` | 1 line, with voice | `HangupSchedulesStop` is violated |
| `call_audio` | 2 calls, frame of 2 units, delays -3 and 1, 1 signal | `TwoFramesCirculate`, `WholeFrames`, `WaitedUnlessAlarmed`, `OneDestroys` |
| `call_live` | 2 calls, no delays, no signal, any number of media changes | `FrameServed`, `HangupEnds`, `RemoteEndSeen`, with the exceptions they name |
| `call_pipe` | 1 call | `DaemonSurvives` is violated: the child exits before the first write |
| `detector_phase` | T400 of 4 fetches against a start delay of 2, 2 ADPs, 2 damaged characters, each kind of answerer | `SameProtocol`, `CallerFollows`, `AnswererEnds` |
| `terminal` | ring of 5, line of 4, guard time 1, ring check after 2, 4 writes or rings, the handler at every point | `RingIsQueue`, `EventKept`, `DataNotRun`, `LineEndedOnline`, `RepeatLast`, `EscapeGuarded`, `EscapeTaken` |
| `v42bis` | characters of 2 bits, dictionary of 10, strings of 3, frames of 8, 6 characters, 2 changes of mode, 1 short write | `TypeOK`, `ShownAsWritten`, `NoDecoderError`, `FlushComplete`, `InStep` |
| `packer` | words of 1, 3 and 8 bits, 3 frames or characters, 2 inverted bits, receive buffer of 6 | `TypeOK`, `LookaheadEnough`, `OnlySent`, `Arrives` |

Why the bounds are enough for what is asked. Modulus 4 with window 2 wraps the
sequence numbers within three items and keeps the relation of the code (window
15 of modulus 128, ring 16): a window may be full, a ring may be one larger than
the window, and the distance of two live numbers is below half the modulus. One
loss can hit each kind of frame at each point, including the UA that makes the
caller repeat its SABME. In `lapm_live` the second item may wait behind a peer that
the first has made busy, and the item of the other side acknowledges or repairs
what was lost; the forgotten busy peer of `BusyEnds` happens there. (Without hangups
both also hold with two losses, or with a third item; data then waits behind the
forgotten peer, so the exceptions of `Delivered` are met too.) Two lines in the xmit buffer let a command meet the
effect of the one before it in the same `modem_at_process`; calls may follow one
another without limit, so left-over state is met. Two calls let a child of the
first be alive in the second; media may change without limit, so both
frames of a call can be lost. A frame of two units is the smallest that can be
cut; -3 drops more than a frame, 1 adds less than one. T400 of 4 is short enough
to expire before the first ODP is heard and long enough to be replaced by it; two
damaged characters can spoil both ADPs. In `terminal` what is written does not
divide the ring, so writes and reads run over its end at every position; a line
of 4 is full with `ATx`; four inputs are enough for a call, data, an escape
sequence or a ring behind it, and a command after the call. In `v42bis` three
entries are free, so the third new string already uses one again; six characters
reach that in both modes and need one STEPUP. The run decodes each frame before
the encoder goes on (`InTurns`, an action constraint): the encoder reads nothing of
the decoder, so every other order of their steps ends in the same states. In `packer` one frame has an FCS that
ends with five ones, the other gets two zeros into one byte; words of 3 bits meet
every alignment; two inverted bits can spoil two flags, or a frame twice.

Deadlock is not checked where the system may come to rest: after both
modems of `Lapm` are down or all is delivered; after the daemon of `Modem` has
called a null pointer (with voice), after the last call of `Call`, after the
detection phase, after the last character of `V42bis`. `modem_call`, `terminal`
and `packer` check it: these never stop.

### Fairness

- `Lapm`: the pump exchanges bits at the sample clock as long as the modem is
  up, and the bit timer and `packer_process` are served in the same function
  (`modem_get_bits`); so sending, receiving, timeouts, the rest-data poll and the
  scheduled stop are weakly fair. Writing, hanging up and losing are not. Losses
  are finite by `MaxLoss`: a line that destroys everything delivers nothing.
- `Modem`: `modem_at_process` runs to its end (weak fairness of `AtLine`,
  `AtDone`). Samples keep coming while the device is started and `modem_run`
  serves it in every round, and the sample count only grows, so the sample timer
  is over some time: strong fairness of the sample actions and
  `EndSamples(TRUE)`, because commands in between disable them for a moment.
- `Call`: every thread runs. SIP decides a ringing or held call (pjsip's
  INVITE timers, the user at the other end), so a call does not ring for ever;
  the media clock is faster than any change of the media (strong fairness of
  `Media`); the bridge is unlocked between two ticks, and the SIP thread, which
  waits for it in `pj_mutex_lock`, gets it some time (strong fairness of `SipLocks`);
  the scheduled stop's sample timer ends (`ProcessStop`). No fairness for the
  terminal, for signals, for re-INVITEs, for the remote hangup of an active call.
- `Terminal`: the clock runs and its signal is delivered (`Tick` or `Alarm`), and
  the main thread runs (`Loop`). No fairness for the terminal, rings, calls and
  the link.
- `Detector`: the pumps link, and fetch and deliver bits until they are stopped;
  they may be stopped at any time.

## 4. Findings

1. *A null call at the end of a voice session* (`modem_voice`). `modem_run`
   relies on `modem_hangup` setting `sample_timer_func`; in the idle state, where
   `AT+VLS=1` leaves the modem, it does not.
2. *A lost child kills the daemon* (`call_pipe`). The comments at `modem_main.c:945`
   and 949 promise a forced hangup when the child is lost. In the run the child
   exits during its start-up, for example because there is no `SIP_LOGIN`, before
   `socket_start` writes its first frame (`modem_main.c:647`); the write raises
   SIGPIPE, which only d-modem ignores, and kills the daemon. The write at
   `modem_main.c:976` is exposed in the same way to a child that closes its socket
   after the daemon's read.

### Observations

Met while modelling, and visible as the condition or the bound of a property:

- *wait does not always wait* (`WaitedUnlessAlarmed`). SIGALRM interrupts
  `wait(NULL)` ("for exec'ed child", `modem_main.c:663`): the next call starts
  while the last child holds its SIP port, and from then on each wait takes the
  child of the call before.
- *Changes of the media take the audio away* (`lost` in `TwoFramesCirculate`). A
  re-INVITE that changes the stream, such as a hold, while a frame is in the
  bridge loses that frame (`d-modem.c:53`), and nothing ever replaces it. After two
  such changes nothing circulates: the media thread waits in `get_frame` for ever
  with the bridge locked (`FrameServed` except `lost[i] >= 2 * Frame`), the daemon,
  which does everything when audio comes, carries out no hangup (`HangupEnds` except
  `Silent`), and a BYE of the other side waits for the bridge (`RemoteEndSeen`).
- *An active call may become deaf* (`Silent`): a re-INVITE that changes the stream
  and leaves the call active finds `done = 1` (`d-modem.c:114`), so the new slot is
  not connected with the port.
- *The media thread may join a thread that waits for it* (`HangupEnds` except
  `Stuck`): after a hangup of the daemon `error_exit` calls `pjsua_destroy` inside a
  clock tick, with the bridge locked. If the end of the call or a change of the
  media comes at that moment, the SIP thread waits for the bridge and the media
  thread for the SIP thread; the daemon waits for the child. That both threads
  destroy pjsua, however, cannot happen (`OneDestroys`).
- *A peer may stay busy for ever after one loss* (`Forgotten`, the exception of
  `BusyEnds` and `Delivered`). `ack_info` stops T401 with the comment "stop T401 ,
  start T403" (`modem_ec.c:788`), but T403 is compiled out. An RNR response starts
  T401, so that a lost RR is asked for; but when a frame that acknowledges
  everything comes first, T401 stops. It may be an I frame, which leaves
  `peer_busy` set (no loss but that of the RR is needed), or the RNR command with
  which a busy station polls. The RR need not even reach the line: `tx_ctrl` drops it
  when the ring of control frames is full (`dropped`). Then no timer asks again, and `tx_info`
  (`modem_ec.c:710`) holds data back until the peer happens to poll.
- *The originator has no T400*. The comment at `modem_pack.c:170` gives both ends a
  way out of the detection phase; `modem_detector_start` arms T400 for the answerer
  only. If the first ODPs are damaged, or the answerer does not take part, the
  answerer goes on to data while the caller sends ODPs for ever
  (`CallerFollows` speaks only of answerers with error correction).
- *The handler between two steps of `modem_event`* (`EventKept`, `EscapeTaken`
  except `"clear" \in raced`): `event = m->event; m->event = 0` loses what SIGALRM
  marks in between, a ring check or an escape. In `schedule_event` the mask is set
  before the expiry, so the handler of a ring timer marks a new escape at once
  and the guard time behind `+++` is not kept (`EscapeGuarded`).
- *`escape_count` outlives a call* (`inherited`): a call that ends between `+++` and
  its event leaves 3 in it, and the first escape sequence of the next call is
  taken for too many characters.
- *`xmit` outlives a call* (`DataNotRun` except `cut`): `modem_stop` does not empty
  it, and what the link had not fetched is run as commands with the next write.
- *Data behind `ATO`* (`LineEndedOnline` except `begun`): `modem_at_process` goes on
  with the buffer after it went on-line; a command line that was being typed when
  the modem answered by itself is still there after the call.
- *`A/` after a backspace* (`RepeatLast` except `edited`) runs the rest of an older
  line. So does `A/` after a command that was taken back to nothing and ended
  empty: the end is stored in the first place only, and the next `A` overwrites
  it.
- *`comp.buf` is written over* (`ShownAsWritten` except `overlaid`): the flush behind
  the last byte of a frame (`modem.c:1003`) puts its output at the start of
  `comp.buf` even if the terminal has not taken what is there. What the terminal
  did not take is offered again only when another frame comes.
- An idle link in compressed mode sends a FLUSH codeword with every poll.
- The nr test of `ack_info` (`modem_ec.c:768`) demands `va <= nr <= vs` in its
  comment, but two of its three conjuncts are `x & 0x7f >= 0`. `RingInv` holds all
  the same.

Further properties that hold only under a condition state it. `TerminalTold` and
`AnswerTimerOwned` need `~ leftover`, because `modem_stop` does not clear the
sample timer: after `ATZ` twice, or after an `ATA` whose device did not start, the
timer fires in the next call. `NoGap`, `NothingLost` and `Delivered` need a link
that was set up once: a repeated SABME resets both stations and what was under
way is gone (in-order delivery without duplicates survives even then). `Delivered`
and `BusyEnds` also need a station that is not left for ever with a forgotten busy
peer (`[]<> ~ Forgotten(p)`). `FrameServed` and `RemoteEndSeen` need a frame that
was not lost, `HangupEnds` a call that does not stay silent and no thread that is
`Stuck`; a daemon that SIGPIPE killed counts as ended. Each of these exceptions
is needed: without it TLC finds a counterexample. `TwoFramesCirculate` and `WholeFrames` need a call in
which `update_delay` was not used; it is also not reset between calls.

## 5. Proofs

TLAPS proves the following for every value of the constants that satisfies the
modules' assumptions.

`LapmProof`, from `LapmAssumption` (the window is positive, smaller than the
modulus and smaller than the ring of I frames; more than one control frame):

- `LapmTypeOK`, `LapmRingInv`, `LapmNoRingError`.

The inductive invariant is `TypeOK /\ RingInv`. `RingInv` says of each station
that `sent` is as long as `vs` is ahead of `va`, that `sent` and `tx` together fit
into the window, and that they hold the last items fetched, in order; without the
last part `reject_info` could not be shown to put frames back in the right place,
and without the second `tx_info` could meet a full ring. Each C function is shown
to keep a single station good (one lemma per function), `OneStation` lifts this to
the pair, and `StepGood` has one step per action. `NoRingError` follows from the
invariant: the ring is larger than the window.

`ModemProof`, from `ModemAssumption`:

- `ModemInvariant`, `TypeCorrect`, `CallsHaveDevice`, `StopsScheduled`, and
  without voice commands `HangupsScheduleStop`, `TerminalsTold`,
  `AnswerTimersOwned`.

The inductive invariant `IInv` adds to the properties what the code relies on
between functions: which packer and pump a state may have, that in
`modem_process` an unstarted device has no timer, that while commands are read a
started device has a pump (no voice), that nothing is owed in command mode.
`SetState`, `Hup`, `Stop` and `Start` say what the four basic functions change;
each command and each report has a lemma over them; `NextIInv` has one step per
action.

`CallProof`, from `CallAssumption` (frames are not empty, delays are integers):

- `CallInvariant`, `CallTypeOK`, `AudioConserved`, `FramesWhole`, `ThreadsOrdered`,
  `ChildrenWaitedFor`.

`TwoFramesCirculate` is not inductive: it speaks only of calls whose two ends
are open and started. The invariant `IInv` adds the frames that are still to be
written to the sum (`KidOwes`, `DaemonOwes`), bounds the sum by two frames once
an end is closed, and says that each amount is a whole number of frames, so that
a read never cuts one. What a change of the media loses is a part of the sum, so
that the sum stays the same when a frame in the bridge is dropped. `Ordered` is the
argument for `OneDestroys`: the media thread is in a callback only while the call is
connected in the bridge, the SIP thread has taken it out before it gets to
`on_call_state`, and it can do so only between two callbacks; so the two tests of
`destroying` never overlap. `ReapedOK` says that without a signal only the
child of the current call may be alive, from which the wait takes the right
child. `KidStep` and `DaemonStep` reduce a step to the call it works on.

`DetectorProof`, from `DetectorAssumption` (delays and timers are positive):

- `DetectorInvariant`, `DetectorTypeOK`, `DetectionAgrees`.

`SameProtocol` speaks of two modems that have finished; the invariant
`DetectorInv` says why they cannot differ. The answerer's `ec_enable` is never
taken back and is set before anything is sent that could make the caller decide
for error correction (`LineInv` ties the characters under way to what their
sender has decided); the caller's finish is armed only by such a character or by
the V.14 answer, which only an answerer without error correction gives. `PutChar`
and `BitTimer` say what the two functions may change; there is one lemma per
action.

The data theorems of `LapmProof`, from `LapmAssumption` alone (no bound on the
number of items, losses or set-ups is used):

- `LapmNoGap`, `LapmNothingLost`, and `LapmOrderedDelivery`: `Lapm` implements
  `OrderedChannel`.

The invariant is the one above together with `DataInv`, which describes each
direction of the link (`Link`). `OrdOK` relates the sequence numbers, which are taken
modulo `Modulus`, to the places of items, which are not: an unacknowledged item has
the number that its place behind `va` gives it, a copy of an item that the receiver
has already is less than a window behind `vr`, and of two I frames under way the
later one is less than a window behind the earlier. As the line does not reorder,
a window below the modulus is enough for the number of a frame to say whether it
is the next. `OrdOK` holds whatever is lost and however often the link is set up;
it gives the refinement. `GapOK` adds that no acknowledgement, taken or under way,
is beyond what the receiver has, and that the frames it is still to get are
numbered from `vr` on; this holds only while one SABME was enough, and gives the
other two. `SabOK` says why: no I frame is under way before a SABME, and only a
second SABME can meet an answerer that was set up already.
The module has a lemma for what each function of `modem_ec.c` does to one
direction, then puts the directions together, one step per action, and maps every
step to one of `OrderedChannel` or a stutter.

`TerminalProof`, from `TerminalAssumption` and `WritesAssumption` (a write fits the
ring, a line has room for `A`, `/` and the end):

- `TerminalTypeOK`, `TerminalRingIsQueue`, `TerminalEventKept`,
  `TerminalDataNotRun`, `TerminalLineEndedOnline`, `TerminalRepeatLast`,
  `TerminalEscapeGuarded`.

`TInv` is the type invariant, the ring with its queue (`Holds`) and `LineOK`: the
last place of `at_line` is never written, so that `strlen` ends within it.
`RingIsQueue` is inductive over one turn of a copying loop: the positions a turn
writes are not those of the queue (`WritePositions`). The other theorems each add
a small invariant. `EventInv`: between reading and clearing `m->event` it is what
was read, unless the handler ran there. `DataInv`: whenever commands may be read,
data in the ring was left by a call. `LineInv`: in a call that did not begin within
a line, no line is begun, from dialling on. `RepeatInv`: what is typed are
characters, no Nul and no blank, and while no more than the first of a line is
there, the rest of `at_line` with an `A` before it is the last command or none; a
line that is given up, blanked or run each leaves it so, for its own reason
(`RepeatsNothing`, `RepeatsCommand`). That `at_cmd` has only characters that are
before `at_count`, and the first of them first, is shown by unfolding its
recursive function (`AtCmdCopied`). The attempt to prove it
showed the empty line above. `EscapeInv`: rings are counted only
without a call, so no ring timer is under way when an escape is scheduled, and the
time left of the timer and the time since the last character together are never
less than the guard time.

`PackerProof`, from `PackerAssumption` (words of one to eight bits; frames are not
empty and fit the receive buffer with their FCS):

- `PackerTypeOK`, `PackerLookaheadEnough`.

The shifters have 32 bits. `PInv` bounds what is in them between two words: the
sender has at most 19 bits (a word of which one bit is missing, and an FCS of
sixteen bits with its inserted zeros), the receiver at most 17, one less than
`modem_hdlc_put_bits` waits for. Both come from counting inserted zeros: five times
their number and the ones since the last of them are no more than the bits sent
and the ones before (`Grown`, `Taken`). So a byte and a flag behind it are always
within the bits that are there. Whatever the line inverts, this holds: the proof
takes any bits for those that were received.

`V42bisProof`, resting on the lemmas of `V42bisDecoderProof` about the decoder, from
`V42bisAssumption` (more free entries than a longest string has
prefixes, `comp.buf` holds a longest string, the decoder's limit on the width leaves
room for every entry):

- `V42bisInvariant`, `V42bisType`, `V42bisNoError`;
- `V42bisShown`, `V42bisFlushed` and `V42bisInStep`, for frames that have room for
  what one character or one flush makes (`LargeFrames`);
- `CodeFramesLarge`: the code's sizes are such (characters of 8 bits, at most 2048
  entries, strings of at most 34 characters, frames of at least 128 bytes, of which
  one character takes at most 89).

None of the properties is inductive: between the encoding of a character and its
decoding lie the encoder's output, the frame being filled, the frames under way and
the rest of one, and in compressed mode the encoder has used a string for its
dictionary that the decoder has not heard of. The argument is about ways:
`Decodes(p, s, q, T)` says that the bytes `s` lead the decoder from the point `p` to
the point `q`, a point being the decoder's state, as if it had just been flushed
(`View`), and how much of the text `T` it has; on the way there is no error and the
characters shown are those of `T`. Ways are joined where the encoder writes and cut
where a frame ends or a byte is decoded. `IInv` says that what is under way is a way
through the text that was encoded, at whose end the decoder follows the encoder
(`Rel`). In transparent mode (`RelT`) the two have taken in the same characters, but
for those of the string at hand, and match, add and end strings alike (`Alike`). In
compressed mode (`RelC`) the bits that wait in the encoder are the end of a codeword
whose beginning the decoder has (`Pending`); the dictionaries are equal between two
strings, and within one the encoder's is what the first character of that string
will make of the decoder's (`StrC`), so that the codeword, when it comes, spells the
same string and is neither the free entry nor the one it frees (`Allowed`). That
`last_added` may not be used for the string after it is needed exactly here.

`LargeFrames` is needed for what `modem_comp_encode` does when the frame has no room
for what is left over: it returns without encoding the character, which is lost. The
same at a flush, which is then left out. `Bound` counts the bits of a character: at
most three codewords with the `STEPUP`s before them, two changes of the mode, and a
string written in transparent mode with every character escaped; no more than that
is left over, so the next frame takes it (`Sender`). Without the hypothesis the
decoder still finds no error, as what is lost is lost before the encoder's
dictionary has it. The instance that TLC checks has frames below this bound, and
there the properties hold for its texts.

The recursive functions (`pow2`, `escapes`, `step_up`, `strings`; `at_cmd` of
`Terminal` likewise) are reasoned about
by their defining equations, which are proved from the existence of a function that
satisfies them: by the least number for which there would be none (`Least`), as the
library's induction theorems cannot be used. For `strings` the invariant says
that there is such a function (`DictOK`): the entries form no circle.

Only model-checked:

- Liveness under fairness, which is beyond the prover: `WaitEnds`, `Delivered`,
  `BusyEnds`, `HangupCompletes`, `FrameServed`, `HangupEnds`, `RemoteEndSeen`,
  `CallerFollows`, `AnswererEnds`, `EscapeTaken`.
- `OnlySent` and `Arrives` of `Packer`: what the CRC and the destuffing compute for
  every frame needs induction over data. (For more than a few inverted bits
  `OnlySent` is not true either: a CRC of 16 bits lets some errors pass.)

The violations are TLC counterexamples. `TypeOK` of `Lapm`, `Modem`, `Call`,
`Detector` and `Terminal` is not part of a run: the theorems cover it.

## 6. State and plan

Done: `Lapm` and `OrderedChannel` with `LapmProof`; `Modem` with `ModemProof`; `Call` with `CallProof`; `Detector` with `DetectorProof`; `Terminal`
with `TerminalProof`; `Packer` with `PackerProof`; `V42bis` with `V42bisProof`.

Left: the link across calls, `packer_process` and `lapm_exit` (hazard at
`modem.c:607`), composed from `Modem` and one station of `Lapm`.

## 7. Not modelled

- Fax and caller ID, whose protocols are in the binary `dsplibs.o`; the commands
  of `modem_at.c` that only read or set S registers.
- Data pumps and signal processing: `dp_dummy.c` and `dp_sinus.c` are test pumps,
  the real ones are in `dsplibs.o`. `Modem` has what a pump may report as a choice.
- Parameters, data file, debug log, command line, homologation tables and the
  test program: no protocol and no state that outlives a call.
- `pjproject-2.11.1`: the SIP stack is vendored third-party code, more than nine
  tenths of the repository's lines, used by D-Modem through a dozen functions of
  pjsua. `Call` has the parts that decide what d-modem's callbacks meet: the lock
  and the connections of the conference bridge, a change of a stream, the steps
  before `on_call_state` at the end of a call, the join in `pjsua_destroy`. The
  program's own code is `d-modem.c` and `slmodemd/`, about 11,000 lines.
- Two daemons on one pty (a failing `execl`), pty re-creation, shutdown by SIGTERM,
  and the ALSA and kernel drivers, which `main` never selects.
