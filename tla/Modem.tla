------------------------------- MODULE Modem -------------------------------
(***************************************************************************)
(* The control of one modem of slmodemd (slmodemd/modem.c, the call        *)
(* commands of modem_at.c, and the main loop of modem_main.c around them): *)
(* its state, command mode and data mode, the data pump it runs, and the   *)
(* sample timer by which every hangup is finished.                         *)
(*                                                                         *)
(* The modem is a record.  The C functions are operators from a record to  *)
(* the record they leave behind.  What the DSP library, the error          *)
(* corrector and the device may report is chosen by the environment.       *)
(***************************************************************************)
EXTENDS Integers, Sequences

CONSTANTS
    XmitCap,     \* bound: lines the xmit buffer holds
    Voice        \* whether the terminal uses the voice commands

ASSUME ModemAssumption == XmitCap \in Nat \ {0} /\ Voice \in BOOLEAN

VARIABLES
    m,        \* the modem
    loop,     \* where the main loop is: in select, in modem_process or in
              \* modem_at_process
    alive,    \* the daemon has not called a null function pointer
    leftover  \* history: the device was once stopped, or not started,
              \* with the sample timer still set

vars == <<m, loop, alive, leftover>>

-----------------------------------------------------------------------------
Disc == {"EC_DISC", "DP_DISC"}                     \* IS_STATE_DISC
Connecting == {"DP_ESTAB", "EC_ESTAB"}             \* IS_STATE_CONNECTING
State == {"IDLE", "ONLINE", "COMMAND_ONLINE"} \cup Disc \cup Connecting

Result == {"NO CARRIER", "BUSY", "NO ANSWER", "NO DIALTONE"}

PumpError == [error |-> "NO CARRIER", busy |-> "BUSY",
              noanswer |-> "NO ANSWER", nodialtone |-> "NO DIALTONE"]

(* What a terminal writes in one go.  A line that is no command of the     *)
(* call is "text"; it is data while online and ignored otherwise.          *)
CallCommand == {"ATA", "ATD", "ATH0", "ATH1", "ATO", "ATZ"}
VoiceCommand == {"+VLS=1", "+VLS=0", "+VTX"}
Line == {"text", "+++"} \cup CallCommand \cup VoiceCommand

HookState == {"on", "off"}
DataPump == {"none", "callprog", "pump", "linked"}  \* linked: it exchanges bits
Handler == {"none", "dp", "voice"}
TimerFunc == {"off", "change_dp", "stop"}
Packer == {"none", "detector", "hdlc", "async"}

ModemType ==
    [state : State, command : BOOLEAN, started : BOOLEAN, hook : HookState,
     dp : DataPump,
     process : Handler,                        \* the sample handler
     timer : TimerFunc,                        \* sample_timer(_func)
     rc : {"none"} \cup Result,                \* result_code
     bits : Packer,                            \* get_bits, put_bits
     detecting : BOOLEAN,                      \* bit_timer of the detector
     caller : BOOLEAN, ec : BOOLEAN,           \* caller, cfg.ec
     voice : BOOLEAN,                          \* voice_obj
     escape : BOOLEAN,                         \* escape_count is 3
     event : BOOLEAN,                          \* MDMEVENT_ESCAPE scheduled
     xmit : Seq(Line),
     owed : BOOLEAN]                           \* history: a call command
                                               \* still waits for its result

-----------------------------------------------------------------------------
modem_set_state(x, s) ==
    IF x.state = s THEN x
    ELSE [x EXCEPT
           !.state = s,
           !.command = CASE s \in {"IDLE", "COMMAND_ONLINE"} -> TRUE
                         [] s \in Connecting \cup {"ONLINE"} -> FALSE
                         [] OTHER -> @,
           !.bits = IF s \in {"IDLE", "DP_ESTAB", "DP_DISC"} THEN "none" ELSE @]

(* Fault: a hangup of a modem that has no link yet is not finished.        *)
schedule_nothing(x) == IF x.state = "DP_DISC" THEN x ELSE [x EXCEPT !.timer = "stop"]

schedule_modem_stop(x) == [x EXCEPT !.timer = "stop"]

NoCarrier(x) == [x EXCEPT !.rc = IF @ = "none" THEN "NO CARRIER" ELSE @]

(* Fault: the cause of the hangup is not kept for the terminal.            *)
hup_without_result(x, local) ==
    CASE x.state = "DP_ESTAB" ->
           schedule_modem_stop(modem_set_state(x, "DP_DISC"))
      [] x.state \in {"EC_ESTAB", "ONLINE", "COMMAND_ONLINE"} ->
           schedule_modem_stop(modem_set_state(x,
              IF local /\ x.ec THEN "EC_DISC" ELSE "DP_DISC"))
      [] x.state = "EC_DISC" -> modem_set_state(x, "DP_DISC")
      [] OTHER -> x

(* A local hangup of a linked modem with error correction releases the     *)
(* link first (modem_ec_stop: the bit timer is the link's from now on, see *)
(* module Lapm); a second hangup, or one by the other side, drops the      *)
(* carrier.  An idle modem ignores it.                                     *)
modem_hup(x, local) ==
    CASE x.state = "DP_ESTAB" ->
           schedule_modem_stop(NoCarrier(modem_set_state(x, "DP_DISC")))
      [] x.state \in {"EC_ESTAB", "ONLINE", "COMMAND_ONLINE"} ->
           schedule_modem_stop(NoCarrier(
              IF local /\ x.ec
              THEN [modem_set_state(x, "EC_DISC") EXCEPT !.detecting = FALSE]
              ELSE modem_set_state(x, "DP_DISC")))
      [] x.state = "EC_DISC" -> modem_set_state(x, "DP_DISC")
      [] OTHER -> x

(* modem_report_result: a result that ends the wait for a call command.    *)
Reported(x) == [x EXCEPT !.owed = FALSE]

ec_link(x) == Reported(modem_set_state(x, "ONLINE"))

ec_release(x) ==
    modem_hup([x EXCEPT !.rc = "NO CARRIER"], x.state = "EC_DISC")

(* Both packers stop the bit timer when they start.                        *)
pack_link(x) ==
    IF x.ec THEN [x EXCEPT !.bits = "hdlc", !.detecting = FALSE]
    ELSE ec_link([x EXCEPT !.bits = "async", !.detecting = FALSE])

(* nonec: the data pump is one of those without error correction.          *)
dp_link(x, nonec, detector) ==
    LET y == modem_set_state([x EXCEPT !.ec = @ /\ ~ nonec], "EC_ESTAB")
    IN  IF y.ec /\ detector
        THEN [y EXCEPT !.bits = "detector", !.detecting = TRUE]
        ELSE pack_link(y)

finish(x, result) == modem_hup([x EXCEPT !.rc = result], x.state \in Disc)

-----------------------------------------------------------------------------
(* Starting and stopping.                                                  *)

(* The socket driver's stop never fails.  modem_stop leaves the sample     *)
(* timer alone.                                                            *)
modem_stop(x) ==
    [modem_set_state(x, "IDLE")
       EXCEPT !.process = "none", !.started = FALSE, !.hook = "on",
              !.caller = FALSE, !.command = TRUE, !.dp = "none",
              !.voice = FALSE, !.rc = "none",
              !.owed = @ /\ x.rc = "none"]

StopIfStarted(x) == IF x.started THEN modem_stop(x) ELSE x

(* Fault: a device that does not start leaves the modem in the call.       *)
start_without_stop(x, ec, ok) ==
    [modem_set_state([StopIfStarted(x) EXCEPT !.rc = "none", !.ec = ec], "DP_ESTAB")
       EXCEPT !.hook = "off", !.xmit = <<>>, !.command = FALSE, !.event = FALSE,
              !.started = ok]

(* ec: the S-registers ask for error correction.  ok: the device starts.   *)
modem_start(x, ec, ok) ==
    LET s == [modem_set_state([StopIfStarted(x) EXCEPT !.rc = "none", !.ec = ec],
                              "DP_ESTAB")
                EXCEPT !.hook = "off", !.xmit = <<>>, !.command = FALSE,
                       !.event = FALSE]
    IN  IF ok THEN [s EXCEPT !.started = TRUE]
        ELSE modem_stop([s EXCEPT !.rc = "NO CARRIER"])

(* ATA.  The sample timer is set before the modem is started.              *)
modem_answer(x, ec, ok) ==
    IF x.dp # "none" THEN x
    ELSE [modem_start([StopIfStarted(x) EXCEPT !.timer = "change_dp"], ec, ok)
            EXCEPT !.owed = ok]

(* ATD.  made: the call progress detector could be created.                *)
modem_dial(x, ec, made, ok) ==
    LET c == [StopIfStarted(x) EXCEPT !.caller = TRUE]
    IN  IF x.dp # "none" THEN x
        ELSE IF ~ made THEN c
        ELSE [modem_start([c EXCEPT !.dp = "callprog", !.process = "dp"], ec, ok)
                EXCEPT !.owed = ok]

(* ATH0 and ATH1.                                                          *)
modem_hook(x, h) ==
    IF x.hook = h THEN x ELSE [modem_hup(x, TRUE) EXCEPT !.hook = h]

modem_online(x) ==
    IF x.state # "COMMAND_ONLINE" THEN x
    ELSE Reported(modem_set_state(x, "ONLINE"))

voice_start(x, ok) ==
    IF x.voice \/ x.started THEN x
    ELSE [x EXCEPT !.voice = TRUE, !.timer = "off", !.process = "voice",
                   !.hook = "off", !.started = ok]

voice_stop(x) ==
    modem_stop([x EXCEPT !.process = "none", !.timer = "off", !.voice = FALSE])

(* +VTX, +VRX and +VTS: what is written next is for the voice library.     *)
voice_command(x) == [x EXCEPT !.command = FALSE]

(* Fault: ATZ does not hang up.                                            *)
reset_without_hup(x) == [modem_set_state(x, "IDLE") EXCEPT !.command = TRUE]

(* ATZ.  The state is idle at once, while the stop is still scheduled; the *)
(* mode goes back to data, which ends a voice session.                     *)
modem_reset(x) ==
    LET y == IF x.state # "IDLE" THEN modem_hup(x, TRUE)
             ELSE IF x.started THEN modem_stop(x)
             ELSE [x EXCEPT !.hook = "on"]
        z == [modem_set_state(y, "IDLE") EXCEPT !.command = TRUE]
    IN  IF z.voice THEN voice_stop(z) ELSE z

(* One command line.                                                       *)
command(x, l, ec, made, ok) ==
    CASE l = "ATA" -> modem_answer(x, ec, ok)
      [] l = "ATD" -> modem_dial(x, ec, made, ok)
      [] l = "ATH0" -> modem_hook(x, "on")
      [] l = "ATH1" -> modem_hook(x, "off")
      [] l = "ATO" -> modem_online(x)
      [] l = "ATZ" -> modem_reset(x)
      [] l = "+VLS=1" /\ Voice -> voice_start(x, ok)
      [] l = "+VLS=0" /\ x.voice -> voice_stop(x)
      [] l = "+VTX" /\ x.voice -> voice_command(x)
      [] OTHER -> x

-----------------------------------------------------------------------------
(* Samples.                                                                *)

do_modem_change_dp(x, made) ==
    IF made THEN [x EXCEPT !.dp = "pump", !.process = "dp"]
    ELSE modem_hup(x, TRUE)

(* What may happen while the data pump handles one fragment of samples:    *)
(* its own status, or, once it exchanges bits, the end of the detection    *)
(* phase, a status of the error corrector, or a fetch of characters.       *)
PumpMay(x) ==
    {"ok", "change_dp"} \cup DOMAIN PumpError
    \cup (IF x.dp \in {"pump", "linked"} THEN {"connect"} ELSE {})
    \cup (IF x.dp = "linked" /\ x.detecting THEN {"pack_link", "no_ec"} ELSE {})
    \cup (IF x.dp = "linked" /\ x.bits = "hdlc" THEN {"ec_link"} ELSE {})
    \cup (IF x.dp = "linked" /\ x.ec THEN {"ec_release"} ELSE {})
    \cup (IF x.dp = "linked" /\ x.state = "ONLINE" /\ x.xmit # <<>>
          THEN {"get_chars"} ELSE {})

(* how: the pump has no error correction, or detection is wanted, or not.  *)
connected(x, how) ==
    LET y == [x EXCEPT !.dp = "linked"]
    IN  IF x.state \in {"IDLE", "DP_ESTAB"}
        THEN dp_link(y, how = "nonec", how = "detect") ELSE y

fragment(x, e, how, made) ==
    CASE e \in DOMAIN PumpError ->
           [finish(x, PumpError[e]) EXCEPT !.process = "none"]
      [] e = "connect" -> connected(x, how)
      [] e = "change_dp" -> do_modem_change_dp(x, made)
      [] e = "pack_link" -> pack_link([x EXCEPT !.ec = TRUE])
      [] e = "no_ec" -> pack_link([x EXCEPT !.ec = FALSE])
      [] e = "ec_link" -> ec_link(x)
      [] e = "ec_release" -> ec_release(x)
      [] e = "get_chars" -> [x EXCEPT !.xmit = Tail(@)]
      [] OTHER -> x

(* Fault: the sample timer is not cleared before its function is called.   *)
expire_again(x, made) ==
    CASE x.timer = "stop" -> modem_stop(x)
      [] x.timer = "change_dp" -> do_modem_change_dp(x, made)
      [] OTHER -> x

(* Fault: the sample timer is looked at only while there is a data pump.   *)
expire_with_pump(x, made) ==
    LET y == [x EXCEPT !.timer = "off"]
    IN  CASE x.dp = "none" -> x
          [] x.dp # "none" /\ x.timer = "stop" -> modem_stop(y)
          [] x.dp # "none" /\ x.timer = "change_dp" -> do_modem_change_dp(y, made)
          [] OTHER -> y

(* The sample timer is over: its function is called, once.                 *)
expire(x, made) ==
    LET y == [x EXCEPT !.timer = "off"]
    IN  CASE x.timer = "stop" -> modem_stop(y)
          [] x.timer = "change_dp" -> do_modem_change_dp(y, made)
          [] OTHER -> y

(* A status of the voice library; a failure ends the session.              *)
voice_process(x, status) ==
    CASE status = "ok" -> [x EXCEPT !.command = TRUE]
      [] status = "connect" -> [x EXCEPT !.command = FALSE]
      [] status = "failed" -> voice_stop(x)
      [] OTHER -> x

-----------------------------------------------------------------------------
(* Writing.                                                                *)

(* modem_check_escape.  timely: the guard time was kept.                   *)
check_escape(x, l, timely) ==
    LET e == l = "+++" /\ timely /\ ~ x.escape
    IN  [x EXCEPT !.escape = e, !.event = @ \/ e]

queued(x, l) ==
    IF Len(x.xmit) < XmitCap THEN [x EXCEPT !.xmit = Append(@, l)] ELSE x

modem_write(x, l, timely) ==
    IF x.state \in Connecting THEN modem_hup(x, TRUE)
    ELSE queued(IF x.state = "ONLINE" THEN check_escape(x, l, timely) ELSE x, l)

(* modem_event for MDMEVENT_ESCAPE.                                        *)
modem_escape(x) ==
    LET y == [x EXCEPT !.event = FALSE, !.escape = FALSE]
    IN  IF x.state = "ONLINE" /\ x.escape
        THEN [modem_set_state(y, "COMMAND_ONLINE") EXCEPT !.xmit = <<>>]
        ELSE y

-----------------------------------------------------------------------------
Init ==
    /\ m = [state |-> "IDLE", command |-> TRUE, started |-> FALSE,
            hook |-> "on", dp |-> "none", process |-> "none",
            timer |-> "off", rc |-> "none", bits |-> "none",
            detecting |-> FALSE, caller |-> FALSE, ec |-> FALSE,
            voice |-> FALSE, escape |-> FALSE, event |-> FALSE,
            xmit |-> <<>>, owed |-> FALSE]
    /\ loop = "select" /\ alive = TRUE /\ leftover = FALSE

(* The terminal writes a line; in command mode the daemon goes on to the   *)
(* commands it finds in the buffer.                                        *)
Write ==
    /\ alive /\ loop = "select"
    /\ \E l \in Line, timely \in BOOLEAN : m' = modem_write(m, l, timely)
    /\ loop' = IF m.state \notin Connecting /\ m.command THEN "at" ELSE "select"
    /\ UNCHANGED <<alive, leftover>>

LeftoverStep == leftover' = (leftover \/ (~ m'.started /\ m'.timer # "off"))

AtLine ==
    /\ loop = "at" /\ m.xmit # <<>>
    /\ \E ec \in BOOLEAN, made \in BOOLEAN, ok \in BOOLEAN :
          m' = command([m EXCEPT !.xmit = Tail(@)], Head(m.xmit), ec, made, ok)
    /\ LeftoverStep
    /\ UNCHANGED <<loop, alive>>

AtDone ==
    /\ loop = "at" /\ m.xmit = <<>>
    /\ loop' = "select"
    /\ UNCHANGED <<m, alive, leftover>>

Escape ==
    /\ alive /\ loop = "select" /\ m.event
    /\ m' = modem_escape(m)
    /\ UNCHANGED <<loop, alive, leftover>>

(* modem_dp_process: as many fragments as the device delivered.            *)
Fragment ==
    /\ alive /\ m.started /\ m.dp # "none"
    /\ \/ loop = "select" /\ m.process = "dp"
       \/ loop = "samples"
    /\ \E e \in PumpMay(m), how \in {"detect", "skip", "nonec"}, made \in BOOLEAN :
          m' = fragment(m, e, how, made)
    /\ loop' = "samples"
    /\ UNCHANGED <<alive, leftover>>

(* The end of modem_process.  due: the count has reached the sample timer. *)
EndSamples(due) ==
    /\ loop = "samples"
    /\ \E made \in BOOLEAN :
          m' = IF due THEN expire(m, made) ELSE m
    /\ loop' = "select"
    /\ UNCHANGED <<alive, leftover>>

(* modem_process without a data pump: silence, or the voice library.       *)
OtherSamples ==
    /\ alive /\ loop = "select" /\ m.started
    /\ m.process # "dp" \/ m.dp = "none"
    /\ \E s \in {"none", "ok", "connect", "failed"} :
          m' = IF m.process = "voice" THEN voice_process(m, s) ELSE m
    /\ loop' = "samples"
    /\ UNCHANGED <<alive, leftover>>

(* The child process closed the socket: "hack to force hangup".            *)
ReadFails ==
    /\ alive /\ loop = "select" /\ m.started
    /\ LET h == modem_hup(m, TRUE)
       IN  \E made \in BOOLEAN :
             m' = expire(h, made) /\ alive' = (h.timer # "off")
    /\ UNCHANGED <<loop, leftover>>

(* The terminal side of the pty is closed, or its speed set to B0.         *)
PtyHangup ==
    /\ alive /\ loop = "select"
    /\ m' = modem_hup(m, TRUE)
    /\ UNCHANGED <<loop, alive, leftover>>

Next ==
    \/ Write \/ AtLine \/ AtDone \/ Escape \/ Fragment
    \/ (\E due \in BOOLEAN : EndSamples(due)) \/ OtherSamples \/ ReadFails
    \/ PtyHangup

Spec == Init /\ [][Next]_vars

(* The device delivers samples as long as it is started, every select      *)
(* serves it before the terminal, and its sample count grows: modem_process*)
(* is entered, ends, and sooner or later finds the timer over.             *)
Fairness ==
    /\ WF_vars(AtLine) /\ WF_vars(AtDone)
    /\ SF_vars(Fragment \/ OtherSamples)
    /\ SF_vars(EndSamples(TRUE))

FairSpec == Spec /\ Fairness

-----------------------------------------------------------------------------
TypeOK ==
    /\ m \in ModemType
    /\ loop \in {"select", "at", "samples"}
    /\ alive \in BOOLEAN /\ leftover \in BOOLEAN

(* The modem is in a call, or has a data pump, only while its device is    *)
(* started (modem_start, modem_dial_start, modem_stop): no error path      *)
(* leaves a call without samples to drive it.                              *)
CallHasDevice == m.state # "IDLE" \/ m.dp # "none" => m.started

(* Every hangup is going to be finished: a modem that disconnects, or that *)
(* ATZ put into the idle state over a live data pump, has its stop         *)
(* scheduled (modem_hup, modem_reset).                                     *)
StopScheduled ==
    m.state \in Disc \/ (m.state = "IDLE" /\ m.dp # "none") => m.timer = "stop"

(* What the comment in modem_run says of modem_hangup: it "sets            *)
(* sample_timer_func to run_modem_stop()", which modem_run then calls.     *)
HangupSchedulesStop ==
    m.started /\ loop = "select" => modem_hup(m, TRUE).timer = "stop"

(* As long as no timer was left over from an earlier call: a call command  *)
(* that was accepted gets its CONNECT or its failure before the modem      *)
(* takes commands in the idle state again (modem_hup keeps a result_code,  *)
(* modem_stop reports it).                                                 *)
TerminalTold == m.command /\ m.state = "IDLE" /\ ~ leftover => ~ m.owed

(* As long as no timer was left over from an earlier call: the timer that  *)
(* brings in the data pump of an answered call finds a modem that is being *)
(* answered and has no data pump; it never replaces the call progress      *)
(* detector of a dialled call (modem_answer, modem_dial_start).            *)
AnswerTimerOwned ==
    m.timer = "change_dp" /\ ~ leftover
      => m.dp = "none" /\ m.state = "DP_ESTAB"

(* A scheduled stop happens, whatever a late SABME or the terminal do in   *)
(* between: the device is released (or an ATA, which stops it first, is    *)
(* already answering the next call).                                       *)
HangupCompletes ==
    m.timer = "stop" ~> ~ m.started \/ m.timer = "change_dp"

=============================================================================
