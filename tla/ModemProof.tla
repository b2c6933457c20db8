----------------------------- MODULE ModemProof -----------------------------
(***************************************************************************)
(* TLAPS proofs about Modem, for every buffer size.  Good is what holds of *)
(* the modem alone, Told what also holds of it as long as no sample timer  *)
(* was left over and the voice commands are not used.                      *)
(***************************************************************************)
EXTENDS Modem, TLAPS, SequenceTheorems

(* A device that runs without a data pump belongs to an answered call that *)
(* has none yet; no command is read there.                                 *)
Bare(x) ==
    x.started /\ x.dp = "none" => ~ x.command /\ x.state \in {"DP_ESTAB", "DP_DISC"}

Good(x) ==
    /\ x \in ModemType
    /\ x.state # "IDLE" \/ x.dp # "none" => x.started
    /\ x.state \in Disc \/ (x.state = "IDLE" /\ x.dp # "none") => x.timer = "stop"
    /\ x.state = "IDLE" /\ x.started => x.timer # "change_dp"
    /\ ~ Voice => ~ x.voice /\ x.process # "voice" /\ Bare(x)

(* A modem that is not started has no timer left over.                     *)
Quiet(x) == ~ x.started => x.timer = "off"

Told(x) ==
    /\ x.owed => /\ ~ x.command
                 /\ x.state \in Connecting \cup Disc
                 /\ x.timer = "stop" => x.rc # "none"
    /\ x.timer = "change_dp" => x.dp = "none" /\ x.state = "DP_ESTAB"

(* Commands are still to be read.                                          *)
Reading == loop = "at" /\ m.xmit # <<>>

IInv ==
    /\ Good(m)
    /\ loop \in {"select", "at", "samples"}
    /\ alive \in BOOLEAN /\ leftover \in BOOLEAN
    /\ loop = "samples" => m.started \/ m.timer = "off"
    /\ ~ Voice /\ Reading /\ m.started => m.dp # "none"
    /\ ~ Voice /\ ~ leftover =>
         Told(m) /\ Quiet(m) /\ (Reading => ~ m.owed)

(* The fields that neither a change of state nor a hangup touches.         *)
Same(x, y) ==
    /\ y.started = x.started /\ y.dp = x.dp /\ y.process = x.process
    /\ y.voice = x.voice /\ y.xmit = x.xmit /\ y.owed = x.owed

(* What modem_set_state changes, and what it leaves alone.                 *)
LEMMA SetState ==
    ASSUME NEW x \in ModemType, NEW s \in State
    PROVE  LET y == modem_set_state(x, s) IN
           /\ y \in ModemType
           /\ y.state = s
           /\ x.state = s \/ s \in Disc => y.command = x.command
           /\ x.state # s /\ s \in {"IDLE", "COMMAND_ONLINE"} => y.command = TRUE
           /\ x.state # s /\ s \in Connecting \cup {"ONLINE"} => y.command = FALSE
           /\ y.timer = x.timer /\ y.rc = x.rc
           /\ Same(x, y)
<1>. DEFINE c == CASE s \in {"IDLE", "COMMAND_ONLINE"} -> TRUE
                   [] s \in Connecting \cup {"ONLINE"} -> FALSE
                   [] OTHER -> x.command
            b == IF s \in {"IDLE", "DP_ESTAB", "DP_DISC"} THEN "none" ELSE x.bits
            z == [x EXCEPT !.state = s, !.command = c, !.bits = b]
<1>1. /\ c \in BOOLEAN
      /\ s \in Disc => c = x.command
      /\ s \in {"IDLE", "COMMAND_ONLINE"} => c = TRUE
      /\ s \in Connecting \cup {"ONLINE"} => c = FALSE
  <2>1. x.command \in BOOLEAN
    BY DEF ModemType
  <2>2. CASE s \in {"IDLE", "COMMAND_ONLINE"}
    BY <2>2 DEF Connecting, Disc
  <2>3. CASE s \in Connecting \cup {"ONLINE"}
    BY <2>3 DEF Connecting, Disc
  <2>4. CASE s \notin {"IDLE", "COMMAND_ONLINE"} \cup Connecting \cup {"ONLINE"}
    BY <2>1, <2>4
  <2>. QED  BY <2>2, <2>3, <2>4
<1>2. b \in Packer
  BY DEF ModemType, Packer
<1>. HIDE DEF c, b
<1>3. z \in ModemType
  <2>1. c \in BOOLEAN  BY <1>1
  <2>. QED  BY <2>1, <1>2 DEF ModemType
<1>4. modem_set_state(x, s) = IF x.state = s THEN x ELSE z
  BY DEF modem_set_state, z, c, b
<1>5. /\ z.state = s /\ z.command = c
      /\ z.timer = x.timer /\ z.rc = x.rc
      /\ Same(x, z)
  BY DEF ModemType, Same
<1>6. Same(x, x)
  BY DEF Same
<1>. HIDE DEF z
<1>. QED  BY <1>1, <1>3, <1>4, <1>5, <1>6

(* Scheduling the stop, with the reason the terminal will be told.         *)
LEMMA Schedule ==
    ASSUME NEW x \in ModemType
    PROVE  LET y == schedule_modem_stop(NoCarrier(x)) IN
           /\ y \in ModemType
           /\ y.timer = "stop" /\ y.rc # "none"
           /\ y.state = x.state /\ y.command = x.command
           /\ Same(x, y)
<1>. DEFINE r == IF x.rc = "none" THEN "NO CARRIER" ELSE x.rc
<1>1. r \in {"none"} \cup Result /\ r # "none"
  BY DEF ModemType, Result
<1>2. "stop" \in TimerFunc
  BY DEF TimerFunc
<1>3. NoCarrier(x) = [x EXCEPT !.rc = r]
  BY DEF NoCarrier
<1>. HIDE DEF r
<1>. QED  BY <1>1, <1>2, <1>3 DEF schedule_modem_stop, ModemType, Same

(* modem_ec_stop takes the bit timer away from the detector.               *)
LEMMA EcStop ==
    ASSUME NEW x \in ModemType
    PROVE  LET y == [x EXCEPT !.detecting = FALSE] IN
           /\ y \in ModemType
           /\ y.timer = x.timer /\ y.rc = x.rc
           /\ y.state = x.state /\ y.command = x.command
           /\ Same(x, y)
BY DEF ModemType, Same

(* modem_hup keeps the modem good, schedules the stop of every modem that  *)
(* was not idle, and keeps the reason for the terminal.                    *)
LEMMA Hup ==
    ASSUME NEW x, Good(x), NEW local \in BOOLEAN
    PROVE  LET y == modem_hup(x, local) IN
           /\ Good(y)
           /\ Told(x) => Told(y)
           /\ Same(x, y)
           /\ x.state = "IDLE" => y = x
           /\ x.state # "IDLE" => y.state \in Disc /\ y.timer = "stop"
<1>. DEFINE d == modem_set_state(x, "DP_DISC")
            e == modem_set_state(x, "EC_DISC")
            f == [e EXCEPT !.detecting = FALSE]
            y == modem_hup(x, local)
<1>0. x \in ModemType
  BY DEF Good
<1>1. "DP_DISC" \in State /\ "EC_DISC" \in State
  BY DEF State, Disc
<1>2. /\ d \in ModemType /\ d.state = "DP_DISC" /\ d.command = x.command
      /\ d.timer = x.timer /\ d.rc = x.rc /\ Same(x, d)
  BY <1>0, <1>1, SetState DEF Disc
<1>3. /\ e \in ModemType /\ e.state = "EC_DISC" /\ e.command = x.command
      /\ e.timer = x.timer /\ e.rc = x.rc /\ Same(x, e)
  BY <1>0, <1>1, SetState DEF Disc
<1>. HIDE DEF d, e
<1>4. /\ f \in ModemType /\ f.state = "EC_DISC" /\ f.command = x.command
      /\ f.timer = x.timer /\ f.rc = x.rc /\ Same(x, f)
  BY <1>3, EcStop DEF Same
<1>. HIDE DEF f
<1>5. CASE x.state \in {"DP_ESTAB", "EC_ESTAB", "ONLINE", "COMMAND_ONLINE"}
  <2>. PICK w \in {d, f} : /\ y = schedule_modem_stop(NoCarrier(w))
                           /\ x.state = "DP_ESTAB" => w = d
    BY <1>5 DEF modem_hup, d, e, f
  <2>1. /\ y \in ModemType /\ y.state \in Disc /\ y.command = x.command
        /\ y.timer = "stop" /\ y.rc # "none" /\ Same(x, y)
        /\ x.state = "DP_ESTAB" => y.state = "DP_DISC"
    BY <1>2, <1>4, Schedule DEF Same, Disc
  <2>2. Good(y)
    BY <2>1, <1>5 DEF Good, Bare, Same, Disc
  <2>3. Told(x) => Told(y)
    BY <2>1 DEF Told, Same
  <2>. QED  BY <2>1, <2>2, <2>3, <1>5
<1>6. CASE x.state = "EC_DISC"
  <2>1. y = d  BY <1>6 DEF modem_hup, d
  <2>. QED  BY <2>1, <1>2, <1>6 DEF Good, Told, Bare, Same, Disc, Connecting
<1>7. CASE x.state \in {"IDLE", "DP_DISC"}
  <2>1. y = x  BY <1>7 DEF modem_hup
  <2>. QED  BY <2>1, <1>0, <1>7 DEF Good, Told, Bare, Same, Disc, Connecting
<1>. QED  BY <1>0, <1>5, <1>6, <1>7 DEF ModemType, State, Disc, Connecting

(* What modem_stop leaves behind.  It leaves the sample timer alone.       *)
LEMMA Stop ==
    ASSUME NEW x \in ModemType
    PROVE  LET y == modem_stop(x) IN
           /\ y \in ModemType
           /\ y.state = "IDLE" /\ ~ y.started /\ y.dp = "none"
           /\ y.process = "none" /\ y.voice = FALSE
           /\ y.timer = x.timer /\ y.xmit = x.xmit
           /\ x.rc # "none" \/ ~ x.owed => ~ y.owed
           /\ Good(y)
<1>. DEFINE i == modem_set_state(x, "IDLE")
            o == i.owed /\ x.rc = "none"
            z == [i EXCEPT !.process = "none", !.started = FALSE, !.hook = "on",
                           !.caller = FALSE, !.command = TRUE, !.dp = "none",
                           !.voice = FALSE, !.rc = "none", !.owed = o]
<1>1. /\ i \in ModemType /\ i.state = "IDLE" /\ i.timer = x.timer
      /\ i.xmit = x.xmit /\ i.owed = x.owed
  BY SetState DEF State, Same
<1>2. modem_stop(x) = z
  BY DEF modem_stop
<1>. HIDE DEF i
<1>3. o \in BOOLEAN
  BY <1>1 DEF ModemType
<1>4. x.rc # "none" \/ ~ x.owed => o = FALSE
  BY <1>1
<1>. HIDE DEF o
<1>5. /\ "none" \in Handler /\ "on" \in HookState /\ "none" \in DataPump
      /\ "none" \in {"none"} \cup Result
  BY DEF Handler, HookState, DataPump
<1>6. z \in ModemType
  BY <1>1, <1>3, <1>5 DEF ModemType
<1>7. /\ z.state = "IDLE" /\ z.started = FALSE /\ z.dp = "none"
      /\ z.process = "none" /\ z.voice = FALSE
      /\ z.timer = x.timer /\ z.xmit = x.xmit /\ z.owed = o
  BY <1>1 DEF ModemType
<1>. HIDE DEF z
<1>8. Good(z)
  BY <1>6, <1>7 DEF Good, Bare, Disc
<1>. QED  BY <1>2, <1>4, <1>6, <1>7, <1>8

(* modem_start of a stopped modem: a call is being made on a started       *)
(* device, or the modem is idle and stopped.                               *)
LEMMA Start ==
    ASSUME NEW x \in ModemType, ~ x.started,
           NEW ec \in BOOLEAN, NEW ok \in BOOLEAN
    PROVE  LET y == modem_start(x, ec, ok) IN
           /\ y \in ModemType
           /\ y.timer = x.timer /\ y.xmit = <<>>
           /\ ok => /\ y.started /\ y.state = "DP_ESTAB" /\ ~ y.command
                    /\ y.dp = x.dp /\ y.process = x.process /\ y.voice = x.voice
           /\ ~ ok => Good(y) /\ ~ y.started
<1>. DEFINE a == [x EXCEPT !.rc = "none", !.ec = ec]
            b == modem_set_state(a, "DP_ESTAB")
            s == [b EXCEPT !.hook = "off", !.xmit = <<>>, !.command = FALSE,
                           !.event = FALSE]
            t == [s EXCEPT !.started = TRUE]
            u == [s EXCEPT !.rc = "NO CARRIER"]
<1>1. modem_start(x, ec, ok) = IF ok THEN t ELSE modem_stop(u)
  BY DEF modem_start, StopIfStarted
<1>2. /\ "off" \in HookState /\ <<>> \in Seq(Line) /\ "none" \in {"none"} \cup Result
      /\ "NO CARRIER" \in {"none"} \cup Result /\ "DP_ESTAB" \in State
  BY DEF HookState, Result, State, Connecting
<1>3. /\ a \in ModemType /\ a.timer = x.timer /\ a.dp = x.dp
      /\ a.process = x.process /\ a.voice = x.voice
  BY <1>2 DEF ModemType
<1>. HIDE DEF a
<1>4. /\ b \in ModemType /\ b.state = "DP_ESTAB" /\ b.timer = x.timer
      /\ b.dp = x.dp /\ b.process = x.process /\ b.voice = x.voice
  <2>1. a \in ModemType /\ "DP_ESTAB" \in State  BY <1>2, <1>3
  <2>2. b \in ModemType /\ b.state = "DP_ESTAB" /\ b.timer = a.timer /\ Same(a, b)
    BY ONLY <2>1, SetState DEF b
  <2>. QED  BY <2>2, <1>3 DEF Same
<1>. HIDE DEF b
<1>5. /\ s \in ModemType /\ s.state = "DP_ESTAB" /\ s.timer = x.timer
      /\ s.dp = x.dp /\ s.process = x.process /\ s.voice = x.voice
      /\ s.xmit = <<>> /\ s.command = FALSE
  BY <1>2, <1>4 DEF ModemType
<1>. HIDE DEF s
<1>6. /\ t \in ModemType /\ t.state = "DP_ESTAB" /\ t.timer = x.timer
      /\ t.dp = x.dp /\ t.process = x.process /\ t.voice = x.voice
      /\ t.xmit = <<>> /\ t.command = FALSE /\ t.started = TRUE
  BY <1>5 DEF ModemType
<1>7. u \in ModemType /\ u.timer = x.timer /\ u.xmit = <<>>
  BY <1>2, <1>5 DEF ModemType
<1>. HIDE DEF t, u
<1>8. CASE ok
  BY <1>1, <1>6, <1>8
<1>9. CASE ~ ok
  BY <1>1, <1>7, <1>9, Stop
<1>. QED  BY <1>8, <1>9

(* StopIfStarted leaves a stopped modem without a data pump.               *)
LEMMA Stopped ==
    ASSUME NEW x, Good(x)
    PROVE  LET y == StopIfStarted(x) IN
           /\ Good(y)
           /\ ~ y.started /\ y.dp = "none" /\ y.state = "IDLE"
           /\ y.timer = x.timer /\ y.xmit = x.xmit
           /\ ~ x.owed => ~ y.owed
<1>1. x \in ModemType
  BY DEF Good
<1>2. CASE x.started
  BY <1>1, <1>2, Stop DEF StopIfStarted
<1>3. CASE ~ x.started
  BY <1>3 DEF StopIfStarted, Good
<1>. QED  BY <1>2, <1>3

-----------------------------------------------------------------------------
(* The commands.  Kept(x, y) is what one command line keeps, from the      *)
(* modem x that reads it to the modem y it leaves.                         *)
Kept(x, y) ==
    /\ Good(y)
    /\ ~ Voice /\ (x.started => x.dp # "none") =>
         /\ y.xmit # <<>> /\ y.started => y.dp # "none"
         /\ Told(x) /\ Quiet(x) /\ ~ x.owed /\ Quiet(y) =>
              Told(y) /\ (y.xmit # <<>> => ~ y.owed)

(* A command that does nothing keeps everything.                           *)
LEMMA KeptSame == ASSUME NEW x, Good(x) PROVE Kept(x, x)
BY DEF Kept

(* A command that stops the modem.                                         *)
LEMMA KeptStop ==
    ASSUME NEW x, NEW y, Good(y), ~ y.started, ~ x.owed => ~ y.owed
    PROVE  Kept(x, y)
BY DEF Kept, Told, Quiet

(* A command that puts a call on a started device.                         *)
LEMMA KeptStart ==
    ASSUME NEW x, NEW y \in ModemType, y.started, y.state = "DP_ESTAB",
           ~ y.command, y.xmit = <<>>, ~ Voice => ~ y.voice /\ y.process # "voice",
           \/ y.timer = "change_dp" /\ y.dp = "none"
           \/ y.timer = x.timer /\ (x.started => x.dp = "none")
    PROVE  Kept(x, y)
<1>1. Good(y)
  BY DEF Good, Bare, Disc
<1>2. ASSUME ~ Voice, x.started => x.dp # "none", Quiet(x)
      PROVE  Told(y)
  BY <1>2 DEF Told, Quiet, Connecting
<1>. QED  BY <1>1, <1>2 DEF Kept

(* ATA.                                                                    *)
LEMMA Answer ==
    ASSUME NEW x, Good(x), NEW ec \in BOOLEAN, NEW ok \in BOOLEAN
    PROVE  Kept(x, modem_answer(x, ec, ok))
<1>. DEFINE p == StopIfStarted(x)
            w == [p EXCEPT !.timer = "change_dp"]
            s == modem_start(w, ec, ok)
            y == [s EXCEPT !.owed = ok]
<1>1. CASE x.dp # "none"
  BY <1>1, KeptSame DEF modem_answer
<1>2. CASE x.dp = "none"
  <2>1. modem_answer(x, ec, ok) = y
    BY <1>2 DEF modem_answer
  <2>2. p \in ModemType /\ Good(p) /\ ~ p.started /\ p.dp = "none"
    BY Stopped DEF Good
  <2>. HIDE DEF p
  <2>3. "change_dp" \in TimerFunc
    BY DEF TimerFunc
  <2>4. /\ w \in ModemType /\ ~ w.started /\ w.dp = "none"
        /\ w.timer = "change_dp" /\ w.process = p.process /\ w.voice = p.voice
    BY <2>2, <2>3 DEF ModemType
  <2>. HIDE DEF w
  <2>5. /\ s \in ModemType
        /\ s.timer = "change_dp" /\ s.xmit = <<>>
        /\ ok => /\ s.started /\ s.state = "DP_ESTAB" /\ ~ s.command
                 /\ s.dp = "none" /\ s.process = p.process /\ s.voice = p.voice
        /\ ~ ok => Good(s) /\ ~ s.started
    BY <2>4, Start
  <2>. HIDE DEF s
  <2>6. /\ y \in ModemType /\ y.owed = ok
        /\ y.timer = s.timer /\ y.xmit = s.xmit /\ y.started = s.started
        /\ y.state = s.state /\ y.command = s.command /\ y.dp = s.dp
        /\ y.process = s.process /\ y.voice = s.voice
    BY <2>5 DEF ModemType
  <2>. HIDE DEF y
  <2>7. CASE ok
    <3>1. /\ y \in ModemType /\ y.started /\ y.state = "DP_ESTAB" /\ ~ y.command
          /\ y.xmit = <<>> /\ y.timer = "change_dp" /\ y.dp = "none"
      BY <2>5, <2>6, <2>7
    <3>2. ~ Voice => ~ y.voice /\ y.process # "voice"
      BY <2>2, <2>5, <2>6, <2>7 DEF Good
    <3>3. Kept(x, y)
      BY ONLY <3>1, <3>2, <1>2, KeptStart
    <3>. QED  BY <3>3, <2>1
  <2>8. CASE ~ ok
    <3>1. Good(y)  BY <2>5, <2>6, <2>8 DEF Good, Bare
    <3>. QED  BY <3>1, <2>1, <2>5, <2>6, <2>8, KeptStop
  <2>. QED  BY <2>7, <2>8
<1>. QED  BY <1>1, <1>2

(* ATD.                                                                    *)
LEMMA Dial ==
    ASSUME NEW x, Good(x),
           NEW ec \in BOOLEAN, NEW made \in BOOLEAN, NEW ok \in BOOLEAN
    PROVE  Kept(x, modem_dial(x, ec, made, ok))
<1>. DEFINE p == StopIfStarted(x)
            c == [p EXCEPT !.caller = TRUE]
            w == [c EXCEPT !.dp = "callprog", !.process = "dp"]
            s == modem_start(w, ec, ok)
            y == [s EXCEPT !.owed = ok]
<1>1. CASE x.dp # "none"
  BY <1>1, KeptSame DEF modem_dial
<1>2. CASE x.dp = "none"
  <2>1. modem_dial(x, ec, made, ok) = IF made THEN y ELSE c
    BY <1>2 DEF modem_dial
  <2>2. /\ p \in ModemType /\ Good(p) /\ ~ p.started /\ p.dp = "none"
        /\ p.timer = x.timer /\ (~ x.owed => ~ p.owed)
    BY Stopped DEF Good
  <2>. HIDE DEF p
  <2>3. /\ c \in ModemType /\ c.started = p.started /\ c.dp = p.dp
        /\ c.timer = p.timer /\ c.process = p.process /\ c.voice = p.voice
        /\ c.state = p.state /\ c.command = p.command /\ c.owed = p.owed
    BY <2>2 DEF ModemType
  <2>. HIDE DEF c
  <2>4. Good(c)
    BY <2>2, <2>3 DEF Good, Bare
  <2>5. "callprog" \in DataPump /\ "dp" \in Handler
    BY DEF DataPump, Handler
  <2>6. /\ w \in ModemType /\ w.started = FALSE
        /\ w.timer = x.timer /\ w.process = "dp" /\ w.voice = p.voice
    <3>1. c.started = FALSE  BY <2>2, <2>3 DEF ModemType
    <3>. QED  BY <3>1, <2>2, <2>3, <2>5 DEF ModemType
  <2>. HIDE DEF w
  <2>7. /\ s \in ModemType
        /\ s.timer = x.timer /\ s.xmit = <<>>
        /\ ok => /\ s.started /\ s.state = "DP_ESTAB" /\ ~ s.command
                 /\ s.process = "dp" /\ s.voice = p.voice
        /\ ~ ok => Good(s) /\ ~ s.started
    BY <2>6, Start
  <2>. HIDE DEF s
  <2>8. /\ y \in ModemType /\ y.owed = ok
        /\ y.timer = s.timer /\ y.xmit = s.xmit /\ y.started = s.started
        /\ y.state = s.state /\ y.command = s.command /\ y.dp = s.dp
        /\ y.process = s.process /\ y.voice = s.voice
    BY <2>7 DEF ModemType
  <2>. HIDE DEF y
  <2>9. CASE ~ made
    BY <2>1, <2>2, <2>3, <2>4, <2>9, KeptStop
  <2>10. CASE made /\ ok
    <3>1. /\ y \in ModemType /\ y.started /\ y.state = "DP_ESTAB" /\ ~ y.command
          /\ y.xmit = <<>> /\ y.timer = x.timer
      BY <2>7, <2>8, <2>10
    <3>2. ~ Voice => ~ y.voice /\ y.process # "voice"
      BY <2>2, <2>7, <2>8, <2>10 DEF Good
    <3>3. Kept(x, y)
      BY ONLY <3>1, <3>2, <1>2, KeptStart
    <3>. QED  BY <3>3, <2>1, <2>10
  <2>11. CASE made /\ ~ ok
    <3>1. Good(y)  BY <2>7, <2>8, <2>11 DEF Good, Bare
    <3>. QED  BY <3>1, <2>1, <2>7, <2>8, <2>11, KeptStop
  <2>. QED  BY <2>9, <2>10, <2>11
<1>. QED  BY <1>1, <1>2

(* ATH0 and ATH1.                                                          *)
LEMMA Hook ==
    ASSUME NEW x, Good(x), NEW h \in HookState
    PROVE  Kept(x, modem_hook(x, h))
<1>. DEFINE u == modem_hup(x, TRUE)
            y == [u EXCEPT !.hook = h]
<1>1. modem_hook(x, h) = IF x.hook = h THEN x ELSE y
  BY DEF modem_hook
<1>2. Good(u) /\ (Told(x) => Told(u)) /\ Same(x, u) /\ u \in ModemType
  BY Hup DEF Good
<1>. HIDE DEF u
<1>3. /\ y \in ModemType /\ y.started = u.started /\ y.dp = u.dp
      /\ y.timer = u.timer /\ y.process = u.process /\ y.voice = u.voice
      /\ y.state = u.state /\ y.command = u.command /\ y.owed = u.owed
      /\ y.rc = u.rc /\ y.xmit = u.xmit
  BY <1>2 DEF ModemType
<1>. HIDE DEF y
<1>4. Good(y) /\ (Told(u) => Told(y))
  BY <1>2, <1>3 DEF Good, Told, Bare
<1>5. Kept(x, y)
  BY <1>2, <1>3, <1>4 DEF Kept, Same
<1>. QED  BY <1>1, <1>5, KeptSame

(* ATO.                                                                    *)
LEMMA Online ==
    ASSUME NEW x, Good(x)
    PROVE  Kept(x, modem_online(x))
<1>. DEFINE o == modem_set_state(x, "ONLINE")
            y == [o EXCEPT !.owed = FALSE]
<1>1. CASE x.state # "COMMAND_ONLINE"
  BY <1>1, KeptSame DEF modem_online
<1>2. CASE x.state = "COMMAND_ONLINE"
  <2>1. modem_online(x) = y
    BY <1>2 DEF modem_online, Reported
  <2>2. x \in ModemType /\ "ONLINE" \in State
    BY DEF Good, State
  <2>3. o \in ModemType /\ o.state = "ONLINE" /\ o.timer = x.timer /\ Same(x, o)
    BY ONLY <2>2, SetState DEF o
  <2>. HIDE DEF o
  <2>4. /\ y \in ModemType /\ y.state = "ONLINE" /\ y.timer = x.timer
        /\ y.started = x.started /\ y.dp = x.dp /\ y.voice = x.voice
        /\ y.process = x.process /\ y.owed = FALSE
    BY <2>3 DEF ModemType, Same
  <2>. HIDE DEF y
  <2>5. Good(y)
    BY <1>2, <2>4 DEF Good, Bare, Disc
  <2>6. Told(x) => Told(y)
    BY <1>2, <2>4 DEF Told
  <2>7. Kept(x, y)
    BY <2>4, <2>5, <2>6 DEF Kept
  <2>. QED  BY <2>1, <2>7
<1>. QED  BY <1>1, <1>2

(* AT+VLS=1.                                                               *)
LEMMA VoiceStart ==
    ASSUME NEW x, Good(x), NEW ok \in BOOLEAN, Voice
    PROVE  Kept(x, voice_start(x, ok))
<1>. DEFINE y == [x EXCEPT !.voice = TRUE, !.timer = "off", !.process = "voice",
                           !.hook = "off", !.started = ok]
<1>1. x \in ModemType /\ "off" \in TimerFunc /\ "voice" \in Handler /\ "off" \in HookState
  BY DEF Good, TimerFunc, Handler, HookState
<1>2. y \in ModemType /\ y.state = x.state /\ y.dp = x.dp /\ y.timer = "off"
  BY <1>1 DEF ModemType
<1>3. voice_start(x, ok) = IF x.voice \/ x.started THEN x ELSE y
  BY DEF voice_start
<1>. HIDE DEF y
<1>4. ~ x.started => Good(y)
  BY <1>2 DEF Good, Disc
<1>5. ~ x.started => Kept(x, y)
  BY <1>4 DEF Kept
<1>. QED  BY <1>3, <1>5, KeptSame

(* AT+VLS=0, and the end of a voice session.                               *)
LEMMA VoiceStop ==
    ASSUME NEW x \in ModemType
    PROVE  LET y == voice_stop(x) IN
           /\ Good(y) /\ ~ y.started /\ y.timer = "off"
           /\ ~ x.owed => ~ y.owed
<1>. DEFINE w == [x EXCEPT !.process = "none", !.timer = "off", !.voice = FALSE]
<1>1. "off" \in TimerFunc /\ "none" \in Handler
  BY DEF TimerFunc, Handler
<1>2. w \in ModemType /\ w.timer = "off" /\ w.owed = x.owed
  BY <1>1 DEF ModemType
<1>3. voice_stop(x) = modem_stop(w)
  BY DEF voice_stop
<1>. HIDE DEF w
<1>4. LET y == modem_stop(w) IN
      /\ Good(y) /\ ~ y.started /\ y.timer = "off" /\ (~ w.owed => ~ y.owed)
  BY ONLY <1>2, Stop
<1>. QED  BY <1>2, <1>3, <1>4

(* ATZ.  The modem may be idle with its device still running; then the     *)
(* stop is scheduled.                                                      *)
LEMMA Reset ==
    ASSUME NEW x, Good(x), ~ Voice /\ x.started => x.dp # "none"
    PROVE  Kept(x, modem_reset(x))
<1>. DEFINE h == [x EXCEPT !.hook = "on"]
            y == IF x.state # "IDLE" THEN modem_hup(x, TRUE)
                 ELSE IF x.started THEN modem_stop(x) ELSE h
            i == modem_set_state(y, "IDLE")
            z == [i EXCEPT !.command = TRUE]
            Left(r) == /\ r \in ModemType
                       /\ r.started => /\ r.timer = "stop" /\ r.dp = x.dp /\ x.started
                       /\ ~ r.started => r.dp = "none"
                       /\ ~ x.owed => ~ r.owed
                       /\ ~ Voice => ~ r.voice /\ r.process # "voice"
<1>0. x \in ModemType /\ "on" \in HookState /\ "IDLE" \in State
  BY DEF Good, HookState, State
<1>1. Left(y)
  <2>1. CASE x.state # "IDLE"
    <3>. DEFINE u == modem_hup(x, TRUE)
    <3>1. Good(u) /\ Same(x, u) /\ u.timer = "stop"
      BY <2>1, Hup
    <3>. HIDE DEF u
    <3>2. Left(u)
      BY <3>1 DEF Good, Same
    <3>. QED  BY <3>2, <2>1 DEF u
  <2>2. CASE x.state = "IDLE" /\ x.started
    BY <2>2, <1>0, Stop
  <2>3. CASE x.state = "IDLE" /\ ~ x.started
    <3>1. /\ h \in ModemType /\ h.started = x.started /\ h.dp = x.dp
          /\ h.owed = x.owed /\ h.voice = x.voice /\ h.process = x.process
      BY <1>0 DEF ModemType
    <3>. HIDE DEF h
    <3>2. Left(h)
      BY <3>1, <2>3 DEF Good
    <3>. QED  BY <3>2, <2>3
  <2>. QED  BY <2>1, <2>2, <2>3
<1>. HIDE DEF y
<1>2. i \in ModemType /\ i.state = "IDLE" /\ i.timer = y.timer /\ Same(y, i)
  <2>1. y \in ModemType /\ "IDLE" \in State  BY <1>0, <1>1
  <2>. QED  BY ONLY <2>1, SetState DEF i
<1>. HIDE DEF i
<1>3. /\ z \in ModemType /\ z.state = "IDLE" /\ z.timer = y.timer
      /\ z.started = y.started /\ z.dp = y.dp /\ z.owed = y.owed
      /\ z.voice = y.voice /\ z.process = y.process
  BY <1>2 DEF ModemType, Same
<1>4. modem_reset(x) = IF z.voice THEN voice_stop(z) ELSE z
  BY DEF modem_reset, z, i, y, h
<1>. HIDE DEF z
<1>5. Left(z)
  BY <1>1, <1>3
<1>6. CASE z.voice
  BY <1>3, <1>4, <1>5, <1>6, VoiceStop, KeptStop
<1>7. CASE ~ z.voice
  <2>1. Good(z)
    BY <1>3, <1>5 DEF Good, Bare, Disc
  <2>2. ~ x.owed /\ Quiet(z) => Told(z)
    BY <1>5 DEF Told, Quiet
  <2>3. Kept(x, z)
    BY <1>5, <2>1, <2>2 DEF Kept
  <2>. QED  BY <1>4, <1>7, <2>3
<1>. QED  BY <1>6, <1>7

(* One command line.                                                       *)
LEMMA Command ==
    ASSUME NEW x, Good(x), ~ Voice /\ x.started => x.dp # "none", NEW l \in Line,
           NEW ec \in BOOLEAN, NEW made \in BOOLEAN, NEW ok \in BOOLEAN
    PROVE  Kept(x, command(x, l, ec, made, ok))
<1>. DEFINE y == command(x, l, ec, made, ok)
<1>1. CASE l = "ATA"
  BY <1>1, Answer DEF command
<1>2. CASE l = "ATD"
  BY <1>2, Dial DEF command
<1>3. CASE l \in {"ATH0", "ATH1"}
  <2>1. "on" \in HookState /\ "off" \in HookState
    BY DEF HookState
  <2>. QED  BY <1>3, <2>1, Hook DEF command
<1>4. CASE l = "ATO"
  BY <1>4, Online DEF command
<1>5. CASE l = "ATZ"
  BY <1>5, Reset DEF command
<1>6. CASE l = "+VLS=1" /\ Voice
  BY <1>6, VoiceStart DEF command
<1>7. CASE l = "+VLS=0" /\ x.voice
  <2>1. x \in ModemType  BY DEF Good
  <2>2. Kept(x, voice_stop(x))
    BY <2>1, VoiceStop, KeptStop
  <2>. QED  BY <1>7, <2>2 DEF command
<1>8. CASE l = "+VTX" /\ x.voice
  <2>1. voice_command(x) \in ModemType
        /\ voice_command(x).state = x.state /\ voice_command(x).dp = x.dp
        /\ voice_command(x).started = x.started /\ voice_command(x).timer = x.timer
    BY DEF Good, ModemType, voice_command
  <2>2. Voice
    BY <1>8 DEF Good
  <2>3. Kept(x, voice_command(x))
    BY <2>1, <2>2 DEF Kept, Good
  <2>. QED  BY <1>8, <2>3 DEF command
<1>9. CASE \/ l \in {"text", "+++"}
           \/ l = "+VLS=1" /\ ~ Voice
           \/ l \in {"+VLS=0", "+VTX"} /\ ~ x.voice
  BY <1>9, KeptSame DEF command
<1>. QED  BY <1>1, <1>2, <1>3, <1>4, <1>5, <1>6, <1>7, <1>8, <1>9
            DEF Line, CallCommand, VoiceCommand

-----------------------------------------------------------------------------
(* Samples.  Live(x): the modem runs a data pump; Runs(x, y): it goes on   *)
(* from x to y, and what the terminal is owed is kept.                     *)
Live(x) == Good(x) /\ x.started /\ x.dp # "none"

Runs(x, y) == Live(y) /\ (Told(x) => Told(y))

(* The fields that the invariant reads.                                    *)
Core(x, y) ==
    /\ y.state = x.state /\ y.command = x.command /\ y.timer = x.timer
    /\ y.rc = x.rc /\ y.started = x.started /\ y.dp = x.dp
    /\ y.process = x.process /\ y.voice = x.voice /\ y.owed = x.owed

(* A step that leaves them alone keeps what they say.                      *)
LEMMA Minor ==
    ASSUME NEW x, Good(x), NEW y \in ModemType, Core(x, y)
    PROVE  Good(y) /\ (Told(x) => Told(y)) /\ (Live(x) => Runs(x, y))
<1>1. Good(y)
  BY DEF Good, Bare, Core, Same
<1>2. Told(x) => Told(y)
  BY DEF Told, Core, Same
<1>. QED  BY <1>1, <1>2 DEF Live, Runs, Core, Same

(* EC_LINK: the modem is online, and has said so.                          *)
LEMMA EcLink ==
    ASSUME NEW x, Live(x)
    PROVE  Runs(x, ec_link(x))
<1>. DEFINE o == modem_set_state(x, "ONLINE")
            y == [o EXCEPT !.owed = FALSE]
<1>1. ec_link(x) = y
  BY DEF ec_link, Reported
<1>2. x \in ModemType /\ "ONLINE" \in State
  BY DEF Live, Good, State
<1>3. o \in ModemType /\ o.state = "ONLINE" /\ o.timer = x.timer /\ Same(x, o)
  BY ONLY <1>2, SetState DEF o
<1>. HIDE DEF o
<1>4. /\ y \in ModemType /\ y.state = "ONLINE" /\ y.timer = x.timer
      /\ y.started = x.started /\ y.dp = x.dp /\ y.voice = x.voice
      /\ y.process = x.process /\ y.owed = FALSE
  BY <1>3 DEF ModemType, Same
<1>. HIDE DEF y
<1>5. Good(y)
  BY <1>4 DEF Live, Good, Bare, Disc
<1>6. Told(x) => Told(y)
  BY <1>4 DEF Told, Live
<1>. QED  BY <1>1, <1>4, <1>5, <1>6 DEF Runs, Live

(* The packer of the link, or the one without error correction.            *)
LEMMA PackLink ==
    ASSUME NEW x, Live(x)
    PROVE  Runs(x, pack_link(x))
<1>. DEFINE h == [x EXCEPT !.bits = "hdlc", !.detecting = FALSE]
            a == [x EXCEPT !.bits = "async", !.detecting = FALSE]
<1>1. pack_link(x) = IF x.ec THEN h ELSE ec_link(a)
  BY DEF pack_link
<1>2. x \in ModemType /\ "hdlc" \in Packer /\ "async" \in Packer
  BY DEF Live, Good, Packer
<1>3. h \in ModemType /\ Core(x, h) /\ a \in ModemType /\ Core(x, a)
  BY <1>2 DEF ModemType, Core, Same
<1>. HIDE DEF h, a
<1>4. Runs(x, h) /\ Runs(x, a)
  BY <1>3, Minor DEF Live
<1>5. Runs(a, ec_link(a))
  BY <1>4, EcLink DEF Runs
<1>. QED  BY <1>1, <1>4, <1>5 DEF Runs

(* DP_LINK in the idle state or while a call is being made.                *)
LEMMA DpLink ==
    ASSUME NEW x, Live(x), x.state \in {"IDLE", "DP_ESTAB"},
           NEW nonec \in BOOLEAN, NEW detector \in BOOLEAN
    PROVE  Runs(x, dp_link(x, nonec, detector))
<1>. DEFINE e == x.ec /\ ~ nonec
            w == [x EXCEPT !.ec = e]
            y == modem_set_state(w, "EC_ESTAB")
            d == [y EXCEPT !.bits = "detector", !.detecting = TRUE]
<1>1. dp_link(x, nonec, detector) = IF y.ec /\ detector THEN d ELSE pack_link(y)
  BY DEF dp_link
<1>2. x \in ModemType /\ "EC_ESTAB" \in State /\ "detector" \in Packer /\ e \in BOOLEAN
  BY DEF Live, Good, State, Packer, Connecting, ModemType
<1>. HIDE DEF e
<1>3. w \in ModemType /\ Core(x, w)
  BY <1>2 DEF ModemType, Core, Same
<1>4. Live(w) /\ w.state = x.state /\ (Told(x) => Told(w))
  BY <1>3, Minor DEF Live, Runs, Core
<1>. HIDE DEF w
<1>5. /\ y \in ModemType /\ y.state = "EC_ESTAB" /\ y.timer = w.timer
      /\ y.rc = w.rc /\ Same(w, y)
      /\ w.state # "EC_ESTAB" /\ "EC_ESTAB" \in Connecting \cup {"ONLINE"}
           => y.command = FALSE
  <2>1. w \in ModemType /\ "EC_ESTAB" \in State  BY <1>2, <1>3
  <2>. QED  BY ONLY <2>1, SetState DEF y
<1>. HIDE DEF y
<1>6. y.command = FALSE
  BY <1>4, <1>5 DEF Connecting
<1>7. Good(y)
  BY <1>4, <1>5 DEF Live, Good, Bare, Same, Disc
<1>8. Told(w) => Told(y)
  BY <1>4, <1>5, <1>6 DEF Told, Live, Same, Connecting
<1>9. Runs(x, y)
  BY <1>4, <1>5, <1>7, <1>8 DEF Runs, Live, Same
<1>10. d \in ModemType /\ Core(y, d)
  BY <1>2, <1>5 DEF ModemType, Core, Same
<1>. HIDE DEF d
<1>11. Runs(y, d)
  BY <1>9, <1>10, Minor DEF Runs, Live
<1>12. Runs(y, pack_link(y))
  BY <1>9, PackLink DEF Runs
<1>. QED  BY <1>1, <1>9, <1>11, <1>12 DEF Runs

(* A result code is set and the modem hangs up.                            *)
LEMMA HupResult ==
    ASSUME NEW x, Live(x), NEW r \in Result, NEW local \in BOOLEAN
    PROVE  Runs(x, modem_hup([x EXCEPT !.rc = r], local))
<1>. DEFINE w == [x EXCEPT !.rc = r]
<1>1. x \in ModemType /\ r # "none"
  BY DEF Live, Good, Result
<1>2. /\ w \in ModemType /\ w.rc = r /\ Same(x, w) /\ w.state = x.state
      /\ w.command = x.command /\ w.timer = x.timer
  BY <1>1 DEF ModemType, Same
<1>. HIDE DEF w
<1>3. Good(w)
  BY <1>2 DEF Live, Good, Bare, Same
<1>4. Told(x) => Told(w)
  BY <1>1, <1>2 DEF Told, Same
<1>5. LET y == modem_hup(w, local) IN Good(y) /\ Same(w, y) /\ (Told(w) => Told(y))
  BY ONLY <1>3, Hup, local \in BOOLEAN
<1>. QED  BY <1>2, <1>4, <1>5 DEF Runs, Live, Same, w

(* The data pump of a call is created, or the modem hangs up.              *)
LEMMA ChangeDp ==
    ASSUME NEW x, Good(x), x.started, NEW made \in BOOLEAN,
           Told(x) => x.timer # "change_dp", x.state = "IDLE" => x.timer = "stop"
    PROVE  LET y == do_modem_change_dp(x, made) IN
           Good(y) /\ y.started /\ (Told(x) => Told(y)) /\ (Live(x) => Live(y))
<1>. DEFINE p == [x EXCEPT !.dp = "pump", !.process = "dp"]
<1>1. x \in ModemType /\ "pump" \in DataPump /\ "dp" \in Handler
  BY DEF Good, DataPump, Handler
<1>2. /\ p \in ModemType /\ p.state = x.state /\ p.timer = x.timer
      /\ p.started = x.started /\ p.dp = "pump" /\ p.voice = x.voice
      /\ p.process = "dp" /\ p.owed = x.owed /\ p.command = x.command
      /\ p.rc = x.rc
  BY <1>1 DEF ModemType
<1>. HIDE DEF p
<1>3. CASE made
  <2>1. do_modem_change_dp(x, made) = p
    BY <1>3 DEF do_modem_change_dp, p
  <2>2. Good(p)
    BY <1>2 DEF Good, Bare, Disc
  <2>3. Told(x) => Told(p)
    BY <1>2 DEF Told
  <2>. QED  BY <1>2, <2>1, <2>2, <2>3 DEF Live
<1>4. CASE ~ made
  <2>1. do_modem_change_dp(x, made) = modem_hup(x, TRUE)
    BY <1>4 DEF do_modem_change_dp
  <2>2. LET y == modem_hup(x, TRUE) IN Good(y) /\ Same(x, y) /\ (Told(x) => Told(y))
    BY Hup
  <2>. QED  BY <2>1, <2>2 DEF Same, Live
<1>. QED  BY <1>3, <1>4

(* A data pump that reports that it is connected.                          *)
LEMMA Connected ==
    ASSUME NEW x, Live(x), NEW how
    PROVE  Runs(x, connected(x, how))
<1>. DEFINE y == [x EXCEPT !.dp = "linked"]
            n == how = "nonec"
            d == how = "detect"
<1>1. connected(x, how) = IF x.state \in {"IDLE", "DP_ESTAB"} THEN dp_link(y, n, d) ELSE y
  BY DEF connected
<1>2. x \in ModemType /\ "linked" \in DataPump
  BY DEF Live, Good, DataPump
<1>3. /\ y \in ModemType /\ y.state = x.state /\ y.command = x.command
      /\ y.timer = x.timer /\ y.rc = x.rc /\ y.started = x.started
      /\ y.dp = "linked" /\ y.process = x.process /\ y.voice = x.voice
      /\ y.owed = x.owed
  BY <1>2 DEF ModemType
<1>. HIDE DEF y
<1>4. Good(y)
  BY <1>3 DEF Live, Good, Bare, Disc
<1>5. Told(x) => Told(y)
  BY <1>3 DEF Told, Live
<1>6. Runs(x, y)
  BY <1>3, <1>4, <1>5 DEF Runs, Live
<1>7. n \in BOOLEAN /\ d \in BOOLEAN
  OBVIOUS
<1>. HIDE DEF n, d
<1>8. x.state \in {"IDLE", "DP_ESTAB"} => Runs(y, dp_link(y, n, d))
  BY <1>3, <1>6, <1>7, DpLink DEF Runs
<1>. QED  BY <1>1, <1>6, <1>8 DEF Runs

(* One fragment of samples.                                                *)
LEMMA FragmentRuns ==
    ASSUME NEW x, Live(x), NEW e \in PumpMay(x), NEW how, NEW made \in BOOLEAN
    PROVE  Runs(x, fragment(x, e, how, made))
<1>. DEFINE y == fragment(x, e, how, made)
<1>0. x \in ModemType
  BY DEF Live, Good
<1>1. CASE e \in DOMAIN PumpError
  <2>. DEFINE r == PumpError[e]
              b == x.state \in Disc
              u == modem_hup([x EXCEPT !.rc = r], b)
              v == [u EXCEPT !.process = "none"]
  <2>0. /\ e \in {"error", "busy", "noanswer", "nodialtone"}
        /\ PumpError[e] \in {"NO CARRIER", "BUSY", "NO ANSWER", "NO DIALTONE"}
    <3>1. e \in {"error", "busy", "noanswer", "nodialtone"}
      BY <1>1 DEF PumpError
    <3>2. /\ PumpError["error"] = "NO CARRIER" /\ PumpError["busy"] = "BUSY"
          /\ PumpError["noanswer"] = "NO ANSWER"
          /\ PumpError["nodialtone"] = "NO DIALTONE"
      BY DEF PumpError
    <3>. QED  BY <3>1, <3>2
  <2>1. y = v
    BY <1>1, <2>0 DEF fragment, finish
  <2>2. r \in Result /\ b \in BOOLEAN /\ "none" \in Handler
    <3>1. r \in Result  BY <2>0 DEF Result
    <3>2. b \in BOOLEAN  OBVIOUS
    <3>3. "none" \in Handler  BY DEF Handler
    <3>. QED  BY <3>1, <3>2, <3>3
  <2>. HIDE DEF r, b
  <2>3. Runs(x, u)
    BY <2>2, HupResult
  <2>. HIDE DEF u
  <2>4. /\ v \in ModemType /\ v.state = u.state /\ v.command = u.command
        /\ v.timer = u.timer /\ v.rc = u.rc /\ v.started = u.started
        /\ v.dp = u.dp /\ v.process = "none" /\ v.voice = u.voice
        /\ v.owed = u.owed
    BY <2>2, <2>3 DEF Runs, Live, Good, ModemType
  <2>. HIDE DEF v
  <2>5. Good(v)
    BY <2>3, <2>4 DEF Runs, Live, Good, Bare
  <2>6. Told(u) => Told(v)
    BY <2>4 DEF Told
  <2>. QED  BY <2>1, <2>3, <2>4, <2>5, <2>6 DEF Runs, Live
<1>2. CASE e = "connect"
  <2>1. y = connected(x, how)  BY <1>2 DEF fragment, PumpError
  <2>. QED  BY <2>1, Connected
<1>3. CASE e = "change_dp"
  <2>1. y = do_modem_change_dp(x, made)  BY <1>3 DEF fragment, PumpError
  <2>2. x.state = "IDLE" => x.timer = "stop"
    BY DEF Live, Good
  <2>3. Told(x) => x.timer # "change_dp"
    BY DEF Told, Live
  <2>. QED  BY <2>1, <2>2, <2>3, ChangeDp DEF Runs, Live
<1>4. CASE e \in {"pack_link", "no_ec"}
  <2>. DEFINE w(b) == [x EXCEPT !.ec = b]
  <2>1. PICK b \in BOOLEAN : y = pack_link(w(b))
    BY <1>4 DEF fragment, PumpError
  <2>2. w(b) \in ModemType /\ Core(x, w(b))
    BY <1>0 DEF ModemType, Core
  <2>. HIDE DEF w
  <2>3. Runs(x, w(b))
    BY <2>2, Minor DEF Live
  <2>. QED  BY <2>1, <2>3, PackLink DEF Runs
<1>5. CASE e = "ec_link"
  <2>1. y = ec_link(x)  BY <1>5 DEF fragment, PumpError
  <2>. QED  BY <2>1, EcLink
<1>6. CASE e = "ec_release"
  <2>. DEFINE b == x.state = "EC_DISC"
  <2>1. y = modem_hup([x EXCEPT !.rc = "NO CARRIER"], b)
    BY <1>6 DEF fragment, PumpError, ec_release
  <2>2. b \in BOOLEAN /\ "NO CARRIER" \in Result
    BY DEF Result
  <2>. QED  BY <2>1, <2>2, HupResult
<1>7. CASE e = "get_chars"
  <2>. DEFINE w == [x EXCEPT !.xmit = Tail(x.xmit)]
  <2>1. y = w  BY <1>7 DEF fragment, PumpError
  <2>2. x.xmit \in Seq(Line) /\ x.xmit # <<>>
    BY <1>0, <1>7 DEF ModemType, PumpMay, PumpError
  <2>3. Tail(x.xmit) \in Seq(Line)
    BY <2>2
  <2>4. w \in ModemType /\ Core(x, w)
    BY <1>0, <2>3 DEF ModemType, Core
  <2>. QED  BY <2>1, <2>4, Minor DEF Live
<1>8. CASE e = "ok"
  <2>1. y = x  BY <1>8 DEF fragment, PumpError
  <2>. QED  BY <2>1 DEF Runs
<1>. QED  BY <1>1, <1>2, <1>3, <1>4, <1>5, <1>6, <1>7, <1>8 DEF PumpMay

(* The sample timer is over.                                               *)
LEMMA Expire ==
    ASSUME NEW x, Good(x), x.started \/ x.timer = "off", NEW made \in BOOLEAN
    PROVE  LET y == expire(x, made) IN
           Good(y) /\ (Told(x) /\ Quiet(x) => Told(y) /\ Quiet(y))
<1>. DEFINE w == [x EXCEPT !.timer = "off"]
<1>1. x \in ModemType /\ "off" \in TimerFunc
  BY DEF Good, TimerFunc
<1>2. /\ w \in ModemType /\ w.timer = "off" /\ w.state = x.state
      /\ w.command = x.command /\ w.rc = x.rc /\ Same(x, w)
  BY <1>1 DEF ModemType, Same
<1>. HIDE DEF w
<1>3. CASE x.timer = "stop"
  <2>1. expire(x, made) = modem_stop(w)
    BY <1>3 DEF expire, w
  <2>2. LET y == modem_stop(w) IN
        /\ Good(y) /\ y.timer = "off"
        /\ w.rc # "none" \/ ~ w.owed => ~ y.owed
    BY ONLY <1>2, Stop
  <2>. QED  BY <1>2, <1>3, <2>1, <2>2 DEF Told, Quiet, Same
<1>4. CASE x.timer = "change_dp"
  <2>1. expire(x, made) = do_modem_change_dp(w, made)
    BY <1>4 DEF expire, w
  <2>2. Good(w) /\ w.started /\ w.state # "IDLE"
    BY <1>2, <1>4 DEF Good, Bare, Same, Disc
  <2>3. Told(x) => Told(w)
    BY <1>2 DEF Told, Same
  <2>4. LET y == do_modem_change_dp(w, made) IN
        Good(y) /\ y.started /\ (Told(w) => Told(y))
    BY <1>2, <2>2, ChangeDp
  <2>. QED  BY <2>1, <2>3, <2>4 DEF Quiet
<1>5. CASE x.timer = "off"
  <2>1. expire(x, made) = w
    BY <1>5 DEF expire, w
  <2>2. Core(x, w)
    BY <1>2, <1>5 DEF Core, Same
  <2>3. Good(w) /\ (Told(x) => Told(w))
    BY <1>2, <2>2, Minor
  <2>. QED  BY <1>2, <2>1, <2>3 DEF Quiet
<1>. QED  BY <1>1, <1>3, <1>4, <1>5 DEF ModemType, TimerFunc

-----------------------------------------------------------------------------
(* What the voice library reports changes command mode, or ends the        *)
(* session and the device with it.                                         *)
LEMMA VoiceProcess ==
    ASSUME NEW x, Good(x), x.started, Voice, NEW status
    PROVE  LET y == voice_process(x, status) IN
           Good(y) /\ (y.started \/ y.timer = "off")
<1>. DEFINE w(b) == [x EXCEPT !.command = b]
<1>1. x \in ModemType
  BY DEF Good
<1>2. ASSUME NEW b \in BOOLEAN PROVE Good(w(b)) /\ w(b).started
  <2>1. /\ w(b) \in ModemType /\ w(b).state = x.state /\ w(b).timer = x.timer
        /\ w(b).started = x.started /\ w(b).dp = x.dp
    BY <1>1 DEF ModemType
  <2>. HIDE DEF w
  <2>. QED  BY <2>1 DEF Good
<1>3. CASE status = "ok"
  BY <1>2, <1>3 DEF voice_process
<1>4. CASE status = "connect"
  BY <1>2, <1>4 DEF voice_process
<1>5. CASE status = "failed"
  <2>1. voice_process(x, status) = voice_stop(x)
    BY <1>5 DEF voice_process
  <2>. QED  BY <1>1, <2>1, VoiceStop
<1>6. CASE status \notin {"ok", "connect", "failed"}
  BY <1>6 DEF voice_process
<1>. QED  BY <1>3, <1>4, <1>5, <1>6

(* A line is queued, and watched for the escape sequence, or it ends a     *)
(* call that is being made.                                                *)
LEMMA WriteKeeps ==
    ASSUME NEW x, Good(x), NEW l \in Line, NEW timely \in BOOLEAN
    PROVE  LET y == modem_write(x, l, timely) IN
           /\ Good(y) /\ (Told(x) => Told(y))
           /\ y.started = x.started /\ y.dp = x.dp /\ y.owed = x.owed
           /\ x.started => y.started
           /\ ~ x.started => y.timer = x.timer
<1>. DEFINE e == l = "+++" /\ timely /\ ~ x.escape
            v == x.event \/ e
            c == [x EXCEPT !.escape = e, !.event = v]
            w == IF x.state = "ONLINE" THEN c ELSE x
            q == [w EXCEPT !.xmit = Append(w.xmit, l)]
            y == IF Len(w.xmit) < XmitCap THEN q ELSE w
<1>1. x \in ModemType
  BY DEF Good
<1>2. CASE x.state \in Connecting
  <2>1. modem_write(x, l, timely) = modem_hup(x, TRUE)
    BY <1>2 DEF modem_write
  <2>2. x.state # "IDLE"
    BY <1>2 DEF Connecting
  <2>. DEFINE h == modem_hup(x, TRUE)
  <2>3. Good(h) /\ (Told(x) => Told(h)) /\ Same(x, h)
    BY Hup
  <2>4. x.started
    BY <2>2 DEF Good
  <2>. HIDE DEF h
  <2>5. h.started = x.started /\ h.dp = x.dp /\ h.owed = x.owed
    BY <2>3 DEF Same
  <2>6. modem_write(x, l, timely) = h
    BY <2>1 DEF h
  <2>. QED  BY <2>3, <2>4, <2>5, <2>6
<1>3. CASE x.state \notin Connecting
  <2>1. modem_write(x, l, timely) = y
    BY <1>3 DEF modem_write, queued, check_escape
  <2>2. e \in BOOLEAN
    OBVIOUS
  <2>3. v \in BOOLEAN
    BY <1>1, <2>2 DEF ModemType
  <2>. HIDE DEF e, v
  <2>4. c \in ModemType /\ Core(x, c)
    BY <1>1, <2>2, <2>3 DEF ModemType, Core
  <2>. HIDE DEF c
  <2>5. w \in ModemType /\ Core(x, w)
    BY <1>1, <2>4 DEF Core
  <2>. HIDE DEF w
  <2>6. w.xmit \in Seq(Line)
    BY <2>5 DEF ModemType
  <2>7. Append(w.xmit, l) \in Seq(Line)
    BY <2>6, AppendProperties
  <2>8. q \in ModemType /\ Core(w, q)
    BY <2>5, <2>7 DEF ModemType, Core
  <2>. HIDE DEF q
  <2>9. y \in ModemType /\ Core(x, y)
    BY <2>5, <2>8 DEF Core
  <2>. HIDE DEF y
  <2>10. Good(y) /\ (Told(x) => Told(y))
    BY <2>9, Minor
  <2>. QED  BY <2>1, <2>9, <2>10 DEF Core
<1>. QED  BY <1>2, <1>3

(* The escape sequence takes an online modem to command mode.              *)
LEMMA EscapeKeeps ==
    ASSUME NEW x, Good(x)
    PROVE  LET y == modem_escape(x) IN
           /\ Good(y) /\ (Told(x) => Told(y))
           /\ y.started = x.started /\ y.timer = x.timer
<1>. DEFINE y == [x EXCEPT !.event = FALSE, !.escape = FALSE]
            c == modem_set_state(y, "COMMAND_ONLINE")
            z == [c EXCEPT !.xmit = <<>>]
<1>1. modem_escape(x) = IF x.state = "ONLINE" /\ x.escape THEN z ELSE y
  BY DEF modem_escape
<1>2. x \in ModemType /\ "COMMAND_ONLINE" \in State /\ <<>> \in Seq(Line)
  BY DEF Good, State
<1>3. y \in ModemType /\ Core(x, y)
  BY <1>2 DEF ModemType, Core
<1>. HIDE DEF y
<1>4. Good(y) /\ (Told(x) => Told(y))
  BY <1>3, Minor
<1>5. /\ c \in ModemType /\ c.state = "COMMAND_ONLINE" /\ c.timer = y.timer
      /\ Same(y, c)
  <2>1. y \in ModemType /\ "COMMAND_ONLINE" \in State  BY <1>2, <1>3
  <2>. QED  BY ONLY <2>1, SetState DEF c
<1>. HIDE DEF c
<1>6. /\ z \in ModemType /\ z.state = "COMMAND_ONLINE" /\ z.timer = x.timer
      /\ z.started = x.started /\ z.dp = x.dp /\ z.voice = x.voice
      /\ z.process = x.process /\ z.owed = x.owed
  BY <1>2, <1>3, <1>5 DEF ModemType, Same, Core
<1>. HIDE DEF z
<1>7. CASE x.state = "ONLINE" /\ x.escape
  <2>1. Good(z)
    BY <1>6, <1>7 DEF Good, Bare, Disc
  <2>2. Told(x) => Told(z)
    BY <1>6, <1>7 DEF Told, Connecting, Disc
  <2>. QED  BY <1>1, <1>6, <1>7, <2>1, <2>2
<1>8. CASE ~ (x.state = "ONLINE" /\ x.escape)
  BY <1>1, <1>3, <1>4, <1>8 DEF Core
<1>. QED  BY <1>7, <1>8

-----------------------------------------------------------------------------
(* The new modem is created idle, with everything off (modem_create).      *)
LEMMA InitIInv == Init => IInv
<1>. SUFFICES ASSUME Init PROVE IInv
  OBVIOUS
<1>1. /\ "IDLE" \in State /\ "on" \in HookState /\ "none" \in DataPump
      /\ "none" \in Handler /\ "off" \in TimerFunc /\ "none" \in Packer
      /\ <<>> \in Seq(Line)
  BY DEF State, HookState, DataPump, Handler, TimerFunc, Packer
<1>2. m \in ModemType
  BY <1>1 DEF Init, ModemType
<1>3. Good(m)
  BY <1>2 DEF Init, Good, Bare, Disc
<1>4. Told(m) /\ Quiet(m) /\ ~ m.owed
  BY DEF Init, Told, Quiet
<1>. QED  BY <1>3, <1>4 DEF Init, IInv, Reading

(* Every step keeps the invariant.                                         *)
LEMMA NextIInv == IInv /\ [Next]_vars => IInv'
<1>. SUFFICES ASSUME IInv, [Next]_vars PROVE IInv'
  OBVIOUS
<1>0. Good(m) /\ m \in ModemType
  BY DEF IInv, Good
<1>. DEFINE Clean == ~ Voice /\ ~ leftover
<1>1. Clean => Told(m) /\ Quiet(m) /\ (Reading => ~ m.owed)
  BY DEF IInv
<1>2. CASE Write
  <2>1. PICK l \in Line, timely \in BOOLEAN : m' = modem_write(m, l, timely)
    BY <1>2 DEF Write
  <2>2. /\ Good(m') /\ (Told(m) => Told(m'))
        /\ m'.started = m.started /\ m'.dp = m.dp /\ m'.owed = m.owed
        /\ ~ m.started => m'.timer = m.timer
    BY ONLY <2>1, <1>0, WriteKeeps
  <2>3. Good(m)'
    BY <2>2 DEF Good, Bare
  <2>4. (Told(m) => Told(m)') /\ (Quiet(m) => Quiet(m)')
    BY <2>2 DEF Told, Quiet
  <2>5. Reading' => m.command
    BY <1>2 DEF Write, Reading
  <2>6. ~ Voice /\ Reading' /\ m'.started => m'.dp # "none"
    BY <2>2, <2>5, <1>0 DEF Good, Bare
  <2>7. Clean => (Reading' => ~ m'.owed)
    BY <2>2, <2>5, <1>1 DEF Told
  <2>8. loop' \in {"select", "at"} /\ alive' = alive /\ leftover' = leftover
    BY <1>2 DEF Write
  <2>. QED  BY <1>1, <2>3, <2>4, <2>6, <2>7, <2>8 DEF IInv
<1>3. CASE AtLine
  <2>. DEFINE x == [m EXCEPT !.xmit = Tail(m.xmit)]
              l == Head(m.xmit)
  <2>1. PICK ec \in BOOLEAN, made \in BOOLEAN, ok \in BOOLEAN :
          m' = command(x, l, ec, made, ok)
    BY <1>3 DEF AtLine
  <2>2. m.xmit \in Seq(Line) /\ m.xmit # <<>>
    BY <1>0, <1>3 DEF AtLine, ModemType
  <2>3. l \in Line /\ Tail(m.xmit) \in Seq(Line)
    BY <2>2, HeadTailProperties
  <2>4. x \in ModemType /\ Core(m, x)
    BY <1>0, <2>3 DEF ModemType, Core
  <2>. HIDE DEF x, l
  <2>5. Good(x) /\ (Told(m) => Told(x))
    BY <1>0, <2>4, Minor
  <2>6. Reading
    BY <1>3 DEF AtLine, Reading
  <2>7. ~ Voice /\ x.started => x.dp # "none"
    BY <2>4, <2>6 DEF IInv, Core
  <2>8. Kept(x, m')
    BY ONLY <2>1, <2>3, <2>5, <2>7, Command
  <2>9. Clean => Told(x) /\ Quiet(x) /\ ~ x.owed
    BY <1>1, <2>4, <2>5, <2>6 DEF Quiet, Core
  <2>10. /\ loop' = loop /\ loop = "at" /\ alive' = alive
         /\ leftover' = (leftover \/ (~ m'.started /\ m'.timer # "off"))
    BY <1>3 DEF AtLine, LeftoverStep
  <2>11. leftover' \in BOOLEAN
    BY <2>10
  <2>12. Good(m)'
    BY <2>8 DEF Kept, Good, Bare
  <2>13. ~ Voice /\ Reading' /\ m'.started => m'.dp # "none"
    BY <2>7, <2>8 DEF Kept, Reading
  <2>14. ASSUME ~ Voice, ~ leftover' PROVE (Told(m) /\ Quiet(m) /\ (Reading => ~ m.owed))'
    <3>1. ~ leftover /\ Quiet(m')
      BY <2>10, <2>14 DEF Quiet
    <3>2. Told(m') /\ (m'.xmit # <<>> => ~ m'.owed)
      BY <3>1, <2>7, <2>8, <2>9, <2>14 DEF Kept
    <3>. QED  BY <3>1, <3>2 DEF Told, Quiet, Reading
  <2>. QED  BY <2>10, <2>11, <2>12, <2>13, <2>14 DEF IInv
<1>4. CASE AtDone
  BY <1>4, <1>0, <1>1 DEF AtDone, IInv, Reading, Good, Bare, Told, Quiet
<1>5. CASE Escape
  <2>1. /\ Good(m') /\ (Told(m) => Told(m'))
        /\ m'.started = m.started /\ m'.timer = m.timer
    BY <1>0, <1>5, EscapeKeeps DEF Escape
  <2>2. Good(m)' /\ (Told(m) => Told(m)') /\ (Quiet(m) => Quiet(m)')
    BY <2>1 DEF Good, Bare, Told, Quiet
  <2>3. loop' = "select" /\ alive' = alive /\ leftover' = leftover
    BY <1>5 DEF Escape
  <2>. QED  BY <1>1, <2>2, <2>3 DEF IInv, Reading
<1>6. CASE Fragment
  <2>1. Live(m)
    BY <1>0, <1>6 DEF Fragment, Live
  <2>2. PICK e \in PumpMay(m), how \in {"detect", "skip", "nonec"}, made \in BOOLEAN :
          m' = fragment(m, e, how, made)
    BY <1>6 DEF Fragment
  <2>3. Runs(m, m')
    BY ONLY <2>1, <2>2, FragmentRuns
  <2>4. Good(m') /\ m'.started /\ (Told(m) => Told(m'))
    BY <2>3 DEF Runs, Live
  <2>5. Good(m)' /\ (Told(m) => Told(m)') /\ Quiet(m)'
    BY <2>4 DEF Good, Bare, Told, Quiet
  <2>6. loop' = "samples" /\ alive' = alive /\ leftover' = leftover
    BY <1>6 DEF Fragment
  <2>. QED  BY <1>1, <2>4, <2>5, <2>6 DEF IInv, Reading
<1>7. ASSUME NEW due \in BOOLEAN, EndSamples(due) PROVE IInv'
  <2>1. PICK made \in BOOLEAN : m' = IF due THEN expire(m, made) ELSE m
    BY <1>7 DEF EndSamples
  <2>2. m.started \/ m.timer = "off"
    BY <1>7 DEF EndSamples, IInv
  <2>3. Good(m') /\ (Told(m) /\ Quiet(m) => Told(m') /\ Quiet(m'))
    BY <1>0, <2>1, <2>2, Expire
  <2>4. Good(m)' /\ (Told(m) /\ Quiet(m) => Told(m)' /\ Quiet(m)')
    BY <2>3 DEF Good, Bare, Told, Quiet
  <2>5. loop' = "select" /\ alive' = alive /\ leftover' = leftover
    BY <1>7 DEF EndSamples
  <2>. QED  BY <1>1, <2>4, <2>5 DEF IInv, Reading
<1>8. CASE OtherSamples
  <2>1. loop' = "samples" /\ alive' = alive /\ leftover' = leftover /\ m.started
    BY <1>8 DEF OtherSamples
  <2>2. CASE m.process = "voice"
    <3>1. Voice
      BY <1>0, <2>2, ModemAssumption DEF Good
    <3>2. PICK s : m' = voice_process(m, s)
      BY <1>8, <2>2 DEF OtherSamples
    <3>3. Good(m') /\ (m'.started \/ m'.timer = "off")
      BY <1>0, <2>1, <3>1, <3>2, VoiceProcess
    <3>4. Good(m)'
      BY <3>3 DEF Good, Bare
    <3>. QED  BY <2>1, <3>1, <3>3, <3>4 DEF IInv, Reading
  <2>3. CASE m.process # "voice"
    <3>1. m' = m
      BY <1>8, <2>3 DEF OtherSamples
    <3>. QED  BY <1>0, <1>1, <2>1, <3>1 DEF IInv, Reading, Good, Bare, Told, Quiet
  <2>. QED  BY <2>2, <2>3
<1>9. CASE ReadFails
  <2>. DEFINE h == modem_hup(m, TRUE)
  <2>1. PICK made \in BOOLEAN : m' = expire(h, made) /\ alive' = (h.timer # "off")
    BY <1>9 DEF ReadFails
  <2>2. Good(h) /\ (Told(m) => Told(h)) /\ Same(m, h) /\ m.started
    BY <1>0, <1>9, Hup DEF ReadFails
  <2>. HIDE DEF h
  <2>3. h.started /\ Quiet(h)
    BY <2>2 DEF Same, Quiet
  <2>4. Good(m') /\ (Told(h) => Told(m') /\ Quiet(m'))
    BY <2>1, <2>2, <2>3, Expire
  <2>5. Good(m)' /\ (Told(m) => Told(m)' /\ Quiet(m)')
    BY <2>2, <2>4 DEF Good, Bare, Told, Quiet
  <2>6. loop' = "select" /\ alive' \in BOOLEAN /\ leftover' = leftover
    BY <1>9, <2>1 DEF ReadFails
  <2>. QED  BY <1>1, <2>5, <2>6 DEF IInv, Reading
<1>10. CASE PtyHangup
  <2>1. /\ Good(m') /\ (Told(m) => Told(m')) /\ Same(m, m')
        /\ m.state = "IDLE" => m' = m
    BY <1>0, <1>10, Hup DEF PtyHangup
  <2>2. Good(m)' /\ (Told(m) => Told(m)')
    BY <2>1 DEF Good, Bare, Told
  <2>3. Quiet(m) => Quiet(m)'
    BY <1>0, <2>1 DEF Quiet, Same, Good
  <2>4. loop' = "select" /\ alive' = alive /\ leftover' = leftover
    BY <1>10 DEF PtyHangup
  <2>. QED  BY <1>1, <2>2, <2>3, <2>4 DEF IInv, Reading
<1>11. CASE UNCHANGED vars
  BY <1>11, <1>0, <1>1 DEF vars, IInv, Reading, Good, Bare, Told, Quiet
<1>. QED
  BY <1>2, <1>3, <1>4, <1>5, <1>6, <1>7, <1>8, <1>9, <1>10, <1>11 DEF Next

(* The inductive invariant of the modem.                                   *)
THEOREM ModemInvariant == Spec => []IInv
BY InitIInv, NextIInv, PTL DEF Spec

(* Type correctness, for every buffer size and with or without voice.      *)
THEOREM TypeCorrect == Spec => []TypeOK
<1>1. IInv => TypeOK
  BY DEF IInv, Good, TypeOK
<1>. QED  BY <1>1, ModemInvariant, PTL

(* No call and no data pump without a started device (modem_start,         *)
(* modem_stop and their error paths).                                      *)
THEOREM CallsHaveDevice == Spec => []CallHasDevice
<1>1. IInv => CallHasDevice
  BY DEF IInv, Good, CallHasDevice
<1>. QED  BY <1>1, ModemInvariant, PTL

(* Every hangup is finished by a scheduled modem_stop (modem_hup,          *)
(* modem_reset).                                                           *)
THEOREM StopsScheduled == Spec => []StopScheduled
<1>1. IInv => StopScheduled
  BY DEF IInv, Good, StopScheduled
<1>. QED  BY <1>1, ModemInvariant, PTL

(* Without the voice commands, modem_run may call the sample timer's       *)
(* function after modem_hangup: it is run_modem_stop.                      *)
THEOREM HangupsScheduleStop ==
    ASSUME ~ Voice
    PROVE  Spec => []HangupSchedulesStop
<1>1. IInv => HangupSchedulesStop
  <2>. SUFFICES ASSUME IInv, m.started PROVE modem_hup(m, TRUE).timer = "stop"
    BY DEF HangupSchedulesStop
  <2>1. Good(m)
    BY DEF IInv
  <2>2. CASE m.state # "IDLE"
    BY <2>1, <2>2, Hup
  <2>3. CASE m.state = "IDLE"
    <3>1. m.timer = "stop"
      BY <2>1, <2>3 DEF Good, Bare
    <3>. QED  BY <2>1, <2>3, <3>1, Hup
  <2>. QED  BY <2>2, <2>3
<1>. QED  BY <1>1, ModemInvariant, PTL

(* Without the voice commands, and as long as no sample timer was left     *)
(* over, the terminal learns the outcome of every call command             *)
(* (modem_hup, modem_stop, modem_update_status).                           *)
THEOREM TerminalsTold ==
    ASSUME ~ Voice
    PROVE  Spec => []TerminalTold
<1>1. IInv => TerminalTold
  BY DEF IInv, Told, TerminalTold
<1>. QED  BY <1>1, ModemInvariant, PTL

(* Under the same conditions the answer timer never replaces the data pump *)
(* of another call (modem_answer, modem_dial_start).                       *)
THEOREM AnswerTimersOwned ==
    ASSUME ~ Voice
    PROVE  Spec => []AnswerTimerOwned
<1>1. IInv => AnswerTimerOwned
  BY DEF IInv, Told, AnswerTimerOwned
<1>. QED  BY <1>1, ModemInvariant, PTL

=============================================================================
