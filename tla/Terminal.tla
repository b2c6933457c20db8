------------------------------ MODULE Terminal ------------------------------
(***************************************************************************)
(* The terminal's side of slmodemd/modem.c: the xmit ring between what a   *)
(* terminal writes and what the link fetches or the command interpreter    *)
(* takes, the escape sequence with its guard times, the assembly of a      *)
(* command line, ringing, and the events that the SIGALRM handler of       *)
(* modem_timer.c marks for the main loop of modem_main.c.                  *)
(*                                                                         *)
(* The handler may run between any two steps of the main thread.  Time is  *)
(* kept as differences: how long ago the last write of a call was, how     *)
(* long until the event timer expires.  The call itself is reduced to its  *)
(* state (module Modem has the rest).                                      *)
(***************************************************************************)
EXTENDS Integers, Sequences

CONSTANTS
    XmitSize,    \* xmit.size
    LineSize,    \* size of at_line
    Guard,       \* ESCAPE_TIMEOUT
    RingDelay,   \* how long until a ring is checked
    Writes,      \* bound: what a terminal may write in one go
    MaxInputs    \* bound: how often it writes, or the line rings

ASSUME TerminalAssumption ==
    /\ XmitSize \in Nat \ {0} /\ LineSize \in Nat /\ LineSize >= 3
    /\ Guard \in Nat \ {0} /\ RingDelay \in Nat \ {0}
    /\ MaxInputs \in Nat

VARIABLES
    xmit,        \* the ring
    state, command,
    at,          \* at_line and at_count
    esc,         \* escape_count, and the time since last_esc_check
    ring_count,
    event, new_event,
    timer,       \* event_timer: added, and the time left
    pc,          \* where the main loop is
    seen,        \* the event that modem_event has read
    queue,       \* history: what the ring should hold, and whether it is data
    cut,         \* history: a call ended with data in the ring
    ran,         \* history: data was taken for a command
    begun,       \* history: a call began, or went on, within a command line
    inherited,   \* history: the call began with an escape of an earlier one
    last,        \* history: the last command run
    edited,      \* history: of this line, or of lines left empty before it,
                 \* something was taken back
    inputs,      \* bound: the writes and rings so far
    raced        \* history: where the handler met the main thread

vars == <<xmit, state, command, at, esc, ring_count, event, new_event, timer,
          pc, seen, queue, cut, ran, begun, inherited, last, edited, inputs,
          raced>>
history == <<cut, ran, begun, inherited, last, edited, inputs>>
events == <<event, new_event, timer, seen, raced>>

-----------------------------------------------------------------------------
Char == {"A", "T", "D", "O", "/", "x", "+", "cr", "bs"}
Nul == "nul"
Blank == " "
Index == 0 .. XmitSize - 1
Event == {"RING_CHECK", "ESCAPE"}

ASSUME WritesAssumption == \A w \in Writes : w \in Seq(Char) /\ Len(w) <= XmitSize

Input == inputs < MaxInputs /\ inputs' = inputs + 1

Lesser(a, b) == IF a < b THEN a ELSE b

(* One round of modem_write's loop: as much as fits before the end of the  *)
(* buffer.                                                                 *)
write_round(x, s) ==
    LET n == Lesser(Len(s), Lesser(XmitSize - x.count, XmitSize - x.head))
    IN  [left |-> SubSeq(s, n + 1, Len(s)),
         xmit |-> [x EXCEPT
                     !.buf = [i \in Index |->
                                IF i \in x.head .. x.head + n - 1
                                THEN s[i - x.head + 1] ELSE x.buf[i]],
                     !.count = @ + n, !.head = (@ + n) % XmitSize]]

(* Fault: the copy is not cut at the end of the buffer.                    *)
written_once(x, s) ==
    LET n == Lesser(Len(s), XmitSize - x.count)
    IN  [x EXCEPT !.buf = [i \in Index |->
                             IF i \in x.head .. x.head + n - 1
                             THEN s[i - x.head + 1] ELSE x.buf[i]],
                  !.count = @ + n, !.head = (@ + n) % XmitSize]

(* Two rounds: after the first all is written, the ring is full, or head   *)
(* is back at the start.                                                   *)
written(x, s) ==
    LET first == write_round(x, s)
    IN  write_round(first.xmit, first.left).xmit

(* modem_get_chars for at most n characters, in rounds as well.  What is   *)
(* left behind tail is of no use to anyone, and is Nul here.               *)
read_round(x, n) ==
    LET k == Lesser(n, Lesser(x.count, XmitSize - x.tail))
    IN  [got |-> [i \in 1 .. k |-> x.buf[x.tail + i - 1]],
         xmit |-> [x EXCEPT !.buf = [i \in Index |->
                                       IF i \in x.tail .. x.tail + k - 1
                                       THEN Nul ELSE x.buf[i]],
                            !.count = @ - k, !.tail = (@ + k) % XmitSize]]

modem_get_chars(x, n) ==
    LET first == read_round(x, n)
        second == read_round(first.xmit, n - Len(first.got))
    IN  [got |-> first.got \o second.got, xmit |-> second.xmit]

emptied == [buf |-> [i \in Index |-> Nul], head |-> 0, tail |-> 0, count |-> 0]

Tagged(s, data) == [i \in 1 .. Len(s) |-> [c |-> s[i], data |-> data]]
HasData(q) == \E i \in 1 .. Len(q) : q[i].data

-----------------------------------------------------------------------------
(* Events.                                                                 *)

(* timer_list_handler and timer_mark_event.  A select that waits is        *)
(* interrupted.                                                            *)
Alarm ==
    /\ timer.added /\ timer.left = 0
    /\ event' = event \cup new_event /\ new_event' = {}
    /\ timer' = [timer EXCEPT !.added = FALSE]
    /\ pc' = IF pc = "select" THEN "top" ELSE pc
    /\ raced' = raced \cup ({pc} \cap {"enter", "sched", "clear"})
    /\ UNCHANGED <<xmit, state, command, at, esc, ring_count, seen, queue, history>>

(* The alarm is delivered in the tick in which the timer expires.          *)
Tick ==
    /\ ~ (timer.added /\ timer.left = 0)
    /\ timer' = [timer EXCEPT !.left = IF timer.added THEN @ - 1 ELSE @]
    /\ esc' = [esc EXCEPT !.quiet = Lesser(@ + 1, Guard + 1)]
    /\ UNCHANGED <<xmit, state, command, at, ring_count, event, new_event, pc,
                   seen, queue, history, raced>>

(* The end of schedule_event: expires is written and the timer added; the  *)
(* mask was put into new_event before.                                     *)
Arm ==
    /\ pc = "sched"
    /\ timer' = [added |-> TRUE,
                 left |-> IF "ESCAPE" \in seen THEN Guard ELSE RingDelay]
    /\ pc' = "top" /\ seen' = {}
    /\ UNCHANGED <<xmit, state, command, at, esc, ring_count, event, new_event,
                   queue, history, raced>>

(* The start of schedule_event, inside of some other action.               *)
schedule_event(mask) ==
    /\ new_event' = new_event \cup {mask}
    /\ seen' = {mask} /\ pc' = "sched"
    /\ UNCHANGED <<event, timer, raced>>

(* The top of the loop of modem_run: modem_event begins, or select does.   *)
Top ==
    /\ pc = "top"
    /\ pc' = IF event = {} THEN "enter" ELSE "clear"
    /\ seen' = event
    /\ UNCHANGED <<xmit, state, command, at, esc, ring_count, event, new_event,
                   timer, queue, history, raced>>

Select ==
    /\ pc = "enter"
    /\ pc' = "select"
    /\ UNCHANGED <<xmit, state, command, at, esc, ring_count, events, queue, history>>

(* select returns after its timeout, or for the samples of the device.     *)
Wake ==
    /\ pc = "select"
    /\ pc' = "top"
    /\ UNCHANGED <<xmit, state, command, at, esc, ring_count, events, queue, history>>

(* modem_start, as far as the terminal is concerned.                       *)
modem_start ==
    /\ xmit' = emptied /\ queue' = <<>>
    /\ event' = {} /\ new_event' = {}
    /\ timer' = [timer EXCEPT !.added = FALSE]
    /\ ring_count' = 0
    /\ inherited' = (esc'.count # 0)
    /\ \/ state' = "ESTAB" /\ command' = FALSE
       \/ state' = "IDLE" /\ command' = TRUE       \* the device does not start

(* Fault: the event is dealt with and the characters stay in the ring.     *)
escape_keeps_ring ==
    /\ IF "ESCAPE" \in seen /\ state = "ONLINE" /\ esc.count = 3
       THEN state' = "COMMAND_ONLINE" /\ command' = TRUE
       ELSE UNCHANGED <<state, command>>
    /\ esc' = [esc EXCEPT !.count = IF "ESCAPE" \in seen THEN 0 ELSE @]
    /\ UNCHANGED <<xmit, queue>>

(* Fault: the escape sequence is still counted when it was obeyed.         *)
escape_keeps_count ==
    /\ IF "ESCAPE" \in seen /\ state = "ONLINE" /\ esc.count = 3
       THEN /\ state' = "COMMAND_ONLINE" /\ command' = TRUE
            /\ xmit' = emptied /\ queue' = <<>>
       ELSE UNCHANGED <<state, command, xmit, queue>>
    /\ UNCHANGED esc

(* modem_event for an escape.                                              *)
modem_escape ==
    /\ IF "ESCAPE" \in seen /\ state = "ONLINE" /\ esc.count = 3
       THEN /\ state' = "COMMAND_ONLINE" /\ command' = TRUE
            /\ xmit' = emptied /\ queue' = <<>>
       ELSE UNCHANGED <<state, command, xmit, queue>>
    /\ esc' = [esc EXCEPT !.count = IF "ESCAPE" \in seen THEN 0 ELSE @]

(* Fault: a ring that was not valid is still counted.                      *)
no_ring_forgotten == UNCHANGED ring_count

ring_forgotten == ring_count' = 0

(* modem_event, from where it clears the event.  A ring that was counted   *)
(* is valid or not, by its length and count; it may be answered, or is     *)
(* followed by a check that no other comes.                                *)
ModemEvent ==
    /\ pc = "clear"
    /\ \/ /\ ~ ("RING_CHECK" \in seen /\ ring_count > 0)      \* no ring, or cancelled
          /\ event' = {} /\ pc' = "top" /\ seen' = {}
          /\ modem_escape
          /\ UNCHANGED <<ring_count, new_event, timer, begun, inherited, raced>>
       \/ /\ "RING_CHECK" \in seen /\ ring_count > 0          \* rejected
          /\ event' = {} /\ pc' = "top" /\ seen' = {}
          /\ ring_forgotten /\ modem_escape
          /\ UNCHANGED <<new_event, timer, begun, inherited, raced>>
       \/ /\ "RING_CHECK" \in seen /\ ring_count > 1          \* valid
          /\ event' = {} /\ new_event' = new_event \cup {"RING_CHECK"}
          /\ pc' = "sched" /\ seen' = {"RING_CHECK"}
          /\ ring_forgotten /\ modem_escape
          /\ UNCHANGED <<timer, begun, inherited, raced>>
       \/ /\ "RING_CHECK" \in seen /\ ring_count > 1          \* valid, and answered
          /\ state = "IDLE"
          /\ esc' = [esc EXCEPT !.count = IF "ESCAPE" \in seen THEN 0 ELSE @]
          /\ modem_start
          /\ begun' = (begun \/ at.count > 0)
          /\ pc' = "top" /\ seen' = {}
          /\ UNCHANGED raced
    /\ UNCHANGED <<at, cut, ran, last, edited, inputs>>

(* modem_ring.  It may come too soon after the last one.                   *)
Ring ==
    /\ pc \in {"enter", "select"} /\ state = "IDLE"
    /\ \/ /\ ring_count = 0 /\ schedule_event("RING_CHECK")
          /\ ring_count' = 1
       \/ /\ ring_count = 0 /\ pc' = "top"
          /\ UNCHANGED <<ring_count, events>>
       \/ /\ ring_count > 0 /\ pc' = "top"
          /\ ring_count' = 2
          /\ UNCHANGED events
    /\ Input
    /\ UNCHANGED <<xmit, state, command, at, esc, queue, cut, ran, begun, inherited,
                   last, edited>>

(* The ring detector hears the end of a ring: it has counted the rings     *)
(* itself, and there is no need to wait.                                   *)
RingEnd ==
    /\ pc \in {"enter", "select"} /\ state = "IDLE"
    /\ event' = event \cup {"RING_CHECK"}
    /\ IF ring_count <= 1 THEN ring_count' \in 0 .. 2 ELSE UNCHANGED ring_count
    /\ pc' = "top"
    /\ Input
    /\ UNCHANGED <<xmit, state, command, at, esc, new_event, timer, seen, queue,
                   cut, ran, begun, inherited, last, edited, raced>>

-----------------------------------------------------------------------------
(* The call.                                                               *)

Connect ==
    /\ pc \in {"enter", "select"} /\ state = "ESTAB"
    /\ state' = "ONLINE" /\ pc' = "top"
    /\ UNCHANGED <<xmit, command, at, esc, ring_count, events, queue, history>>

(* modem_hup from any side, and modem_stop when the sample timer is over.  *)
Hangup ==
    /\ pc \in {"enter", "select"} /\ state \in {"ESTAB", "ONLINE", "COMMAND_ONLINE"}
    /\ state' = "DISC" /\ pc' = "top"
    /\ UNCHANGED <<xmit, command, at, esc, ring_count, events, queue, history>>

Stop ==
    /\ pc \in {"enter", "select"} /\ state = "DISC"
    /\ state' = "IDLE" /\ command' = TRUE /\ pc' = "top"
    /\ cut' = (cut \/ HasData(queue))
    /\ UNCHANGED <<xmit, at, esc, ring_count, events, queue, ran, begun, inherited,
                   last, edited, inputs>>

(* The link fetches characters.                                            *)
Fetch ==
    /\ pc \in {"enter", "select"} /\ state = "ONLINE" /\ xmit.count > 0
    /\ \E n \in 1 .. XmitSize :
         LET g == modem_get_chars(xmit, n)
         IN  /\ xmit' = g.xmit
             /\ queue' = SubSeq(queue, Len(g.got) + 1, Len(queue))
    /\ pc' = "top"
    /\ UNCHANGED <<state, command, at, esc, ring_count, events, history>>

-----------------------------------------------------------------------------
(* Writing.                                                                *)

(* Whether modem_check_escape goes on counting.                            *)
escape_counts(w) ==
    /\ Len(w) + esc.count <= 3
    /\ \A i \in 1 .. Len(w) : w[i] = "+"
    /\ IF esc.count = 0 THEN esc.quiet >= Guard ELSE esc.quiet <= Guard

(* Fault: a character that is no escape leaves the count as it was.        *)
escape_not_broken(w) ==
    IF escape_counts(w)
    THEN [count |-> esc.count + Len(w), done |-> esc.count + Len(w) = 3]
    ELSE [count |-> esc.count, done |-> FALSE]

(* modem_check_escape: the new escape_count, and whether the event is      *)
(* scheduled.                                                              *)
check_escape(w) ==
    IF escape_counts(w)
    THEN [count |-> esc.count + Len(w), done |-> esc.count + Len(w) = 3]
    ELSE [count |-> 0, done |-> FALSE]

(* modem_write.  The pty is read only as far as there is room.             *)
Write ==
    /\ pc \in {"enter", "select"}
    /\ \E w \in Writes :
         /\ Len(w) <= XmitSize - xmit.count
         /\ \/ /\ state = "ESTAB"                          \* any character hangs up
               /\ state' = "DISC" /\ pc' = "top"
               /\ UNCHANGED <<xmit, queue, esc, events>>
            \/ /\ state # "ESTAB"
               /\ xmit' = written(xmit, w)
               /\ queue' = queue \o Tagged(w, ~ command)
               /\ UNCHANGED state
               /\ IF state # "ONLINE"
                  THEN /\ pc' = IF command THEN "at" ELSE "top"
                       /\ UNCHANGED <<esc, events>>
                  ELSE /\ esc' = [count |-> check_escape(w).count, quiet |-> 0]
                       /\ IF check_escape(w).done THEN schedule_event("ESCAPE")
                          ELSE pc' = "top" /\ UNCHANGED events
    /\ Input
    /\ UNCHANGED <<command, at, ring_count, cut, ran, begun, inherited, last, edited>>

-----------------------------------------------------------------------------
(* modem_at_process, one character at a time.                              *)

strlen(l) == CHOOSE n \in DOMAIN l : l[n] = Nul /\ \A i \in 0 .. n - 1 : l[i] # Nul

(* A/ stands for the last line and its end.                                *)
again(c) == c = "/" /\ at.count = 1 /\ at.line[0] = "A"

at_ended(c) ==
    LET n == IF again(c) THEN strlen(at.line) ELSE at.count
    IN  [count |-> n, line |-> [at.line EXCEPT ![n] = Nul]]

(* at_cmd: the line without its blanks.                                    *)
at_cmd(a) ==
    LET cmd[n \in 0 .. a.count] ==
          IF n = 0 THEN <<>>
          ELSE IF a.line[n - 1] = Blank THEN cmd[n - 1]
          ELSE Append(cmd[n - 1], a.line[n - 1])
    IN  cmd[a.count]

(* Fault: a line that was given up can still be repeated.                  *)
line_kept(c) ==
    CASE c = "bs" /\ at.count > 0 -> [at EXCEPT !.count = @ - 1]
      [] ~ (c = "bs" /\ at.count > 0) /\ at.count = LineSize - 1 ->
           [at EXCEPT !.count = 0]
      [] OTHER -> [at EXCEPT !.line[at.count] = c, !.count = @ + 1]

(* What a character does to the line it does not end.                      *)
at_collected(c) ==
    CASE c = "bs" /\ at.count > 0 -> [at EXCEPT !.count = @ - 1]
      [] ~ (c = "bs" /\ at.count > 0) /\ at.count = LineSize - 1 ->
           [at EXCEPT !.count = 0, !.line[1] = Nul]
      [] OTHER -> [at EXCEPT !.line[at.count] = c, !.count = @ + 1]

(* A line that is not a command is blanked, as far as it goes.             *)
at_blanked(a) ==
    [count |-> 0,
     line |-> [i \in DOMAIN a.line |-> IF i < a.count THEN Blank ELSE a.line[i]]]

(* Fault: the line of a command is not begun anew.                         *)
at_not_reset(a) == a

at_reset(a) == [a EXCEPT !.count = 0]

IsCommand(cmd) == Len(cmd) >= 2 /\ SubSeq(cmd, 1, 2) = <<"A", "T">>

(* process_at_command for the commands that matter here; x and q are the   *)
(* ring and its contents without the character that ended the line.        *)
process_at_command(cmd, x, q) ==
    \/ /\ cmd = <<"A", "T", "D">> /\ state = "IDLE"
       /\ modem_start
       /\ UNCHANGED begun
    \/ /\ cmd = <<"A", "T", "O">> /\ state = "COMMAND_ONLINE"
       /\ state' = "ONLINE" /\ command' = FALSE
       /\ xmit' = x /\ queue' = q
       /\ begun' = (begun \/ q # <<>>)
       /\ UNCHANGED <<event, new_event, timer, ring_count, inherited>>
    \/ /\ ~ (cmd = <<"A", "T", "D">> /\ state = "IDLE")
       /\ ~ (cmd = <<"A", "T", "O">> /\ state = "COMMAND_ONLINE")
       /\ xmit' = x /\ queue' = q
       /\ UNCHANGED <<state, command, event, new_event, timer, ring_count,
                      begun, inherited>>

(* A character that does not end a line with a command in it.              *)
at_goes_on(a, x) ==
    /\ at' = a
    /\ xmit' = x /\ queue' = Tail(queue)
    /\ UNCHANGED <<state, command, event, new_event, timer, ring_count, begun,
                   inherited, last>>

(* One character takes one round of modem_get_chars.                       *)
AtChar ==
    /\ pc = "at" /\ xmit.count > 0
    /\ \E g \in {read_round(xmit, 1)} :
         \E c \in {g.got[1]} :
           /\ UNCHANGED esc
           /\ ran' = (ran \/ queue[1].data)
           /\ \/ /\ c # "cr" /\ ~ again(c)
                 /\ edited' = (edited \/ c = "bs")
                 /\ at_goes_on(at_collected(c), g.xmit)
              \/ /\ c = "cr" \/ again(c)
                 /\ edited' = (edited /\ at.count = 0)
                 /\ \E a \in {at_ended(c)} :
                      \E cmd \in {at_cmd(a)} :
                        \/ /\ ~ IsCommand(cmd)
                           /\ at_goes_on(at_blanked(a), g.xmit)
                        \/ /\ IsCommand(cmd)
                           /\ process_at_command(cmd, g.xmit, Tail(queue))
                           /\ at' = at_reset(a)
                           /\ last' = cmd
    /\ UNCHANGED <<pc, seen, cut, inputs, raced>>

AtDone ==
    /\ pc = "at" /\ xmit.count = 0
    /\ pc' = "top"
    /\ UNCHANGED <<xmit, state, command, at, esc, ring_count, events, queue, history>>

-----------------------------------------------------------------------------
Init ==
    /\ xmit = emptied
    /\ state = "IDLE" /\ command = TRUE
    /\ at = [line |-> [i \in 0 .. LineSize - 1 |-> Nul], count |-> 0]
    /\ esc = [count |-> 0, quiet |-> Guard + 1]
    /\ ring_count = 0 /\ event = {} /\ new_event = {}
    /\ timer = [added |-> FALSE, left |-> 0]
    /\ pc = "top" /\ seen = {} /\ queue = <<>>
    /\ cut = FALSE /\ ran = FALSE /\ begun = FALSE /\ inherited = FALSE
    /\ last = <<>> /\ edited = FALSE /\ inputs = 0 /\ raced = {}

Loop == Top \/ Select \/ Wake \/ Arm \/ ModemEvent \/ AtChar \/ AtDone

Clock == Tick \/ Alarm

Next ==
    \/ Clock \/ Loop
    \/ Ring \/ RingEnd \/ Connect \/ Hangup \/ Stop \/ Fetch \/ Write

Spec == Init /\ [][Next]_vars

(* The timer runs, its signal is delivered, and the daemon is scheduled.   *)
FairSpec == Spec /\ WF_vars(Clock) /\ WF_vars(Loop)

-----------------------------------------------------------------------------
(* The type invariant; it includes the bound of at_line, which             *)
(* modem_at_process indexes with at_count.                                 *)
TypeOK ==
    /\ xmit \in [buf : [Index -> Char \cup {Nul}], head : Index, tail : Index,
                 count : 0 .. XmitSize]
    /\ state \in {"IDLE", "ESTAB", "ONLINE", "COMMAND_ONLINE", "DISC"}
    /\ command \in BOOLEAN
    /\ at \in [line : [0 .. LineSize - 1 -> Char \cup {Nul, Blank}],
               count : 0 .. LineSize - 1]
    /\ esc \in [count : 0 .. 3, quiet : 0 .. Guard + 1]
    /\ ring_count \in 0 .. 2
    /\ event \subseteq Event /\ new_event \subseteq Event /\ seen \subseteq Event
    /\ timer \in [added : BOOLEAN, left : 0 .. Guard + RingDelay]
    /\ pc \in {"top", "enter", "select", "sched", "clear", "at"}
    /\ queue \in Seq([c : Char, data : BOOLEAN])

(* The xmit ring is a queue: between tail and head are the characters that *)
(* modem_write put in and modem_get_chars did not take out, in order, also *)
(* where they run over the end of the buffer.                              *)
RingIsQueue ==
    /\ xmit.count = Len(queue)
    /\ xmit.head = (xmit.tail + xmit.count) % XmitSize
    /\ \A i \in 1 .. Len(queue) :
         xmit.buf[(xmit.tail + i - 1) % XmitSize] = queue[i].c

Pending(e) == e \in event \cup new_event \/ (pc = "clear" /\ e \in seen)

(* modem_ring and modem_event share one timer and two words with the       *)
(* signal handler.  A ring that is counted is checked, and what is         *)
(* scheduled is marked, unless the handler ran in modem_event between      *)
(* reading m->event and clearing it.                                       *)
EventKept ==
    "clear" \notin raced =>
        /\ ring_count > 0 => Pending("RING_CHECK")
        /\ new_event # {} => timer.added \/ pc = "sched"

(* The terminal is taken off-line only after the guard time behind the     *)
(* escape sequence, though the event timer is shared and rescheduled,      *)
(* unless the handler marks the event of an earlier one in the middle of   *)
(* modem_write: before select, or in schedule_event.                       *)
EscapeGuarded ==
    [][state = "ONLINE" /\ state' = "COMMAND_ONLINE"
         => esc.quiet >= Guard \/ raced \cap {"enter", "sched"} # {}]_vars

(* Nothing written during a call is taken for a command, unless a call     *)
(* that ended left it in the ring: modem_stop does not empty it.           *)
DataNotRun == ran => cut

(* modem_at_process is not left within a line when it goes on-line, unless *)
(* more was written behind ATO or the modem answered while a command was   *)
(* being typed.                                                            *)
LineEndedOnline == state = "ONLINE" /\ ~ begun => at.count = 0

(* A/ runs the last command again, or nothing: not a line that was given   *)
(* up for its length or was no command; taking back what was typed leaves  *)
(* the rest of an older line behind it.                                    *)
RepeatLast ==
    LET cmd == at_cmd(at_ended("/"))
    IN  again("/") /\ ~ edited /\ IsCommand(cmd) => cmd = last

(* An escape sequence that modem_check_escape accepted is not forgotten:   *)
(* its event comes, and no later event, ring or timer takes it away, or    *)
(* the sequence is broken.  Lost is an event that the handler sets between *)
(* the two steps of modem_event, and a call that begins with the           *)
(* escape_count of an earlier one has none to wait for.                    *)
EscapeTaken ==
    state = "ONLINE" /\ esc.count = 3 /\ "clear" \notin raced /\ ~ inherited
        ~> state # "ONLINE" \/ esc.count # 3 \/ "clear" \in raced

=============================================================================
