-------------------------------- MODULE Call --------------------------------
(***************************************************************************)
(* One call after another between the daemon (modem_run and the socket     *)
(* driver of slmodemd/modem_main.c) and the d-modem process it starts for  *)
(* each (d-modem.c).  They exchange audio over a socket pair; nothing but  *)
(* the frames written at the start keeps it going, for the daemon answers  *)
(* what it reads and the child's media thread reads before it writes.      *)
(*                                                                         *)
(* A child has two threads: the SIP thread that runs on_call_state and     *)
(* on_call_media_state, and the media thread that runs get_frame and       *)
(* put_frame.  The media thread holds the lock of pjmedia's conference     *)
(* bridge for a whole tick, a blocking read included; the SIP thread needs *)
(* it to take the call out of the bridge.  The kernel and the modem (see   *)
(* module Modem) are the environment.  Audio is counted in units, Frame of *)
(* them to a frame.                                                        *)
(***************************************************************************)
EXTENDS Integers

CONSTANTS
    MaxCalls,    \* bound: how often the terminal dials
    Frame,       \* units in one frame of audio
    Delays,      \* what the data pump may put into update_delay
    MaxAlarms    \* bound: how often SIGALRM interrupts wait

ASSUME CallAssumption ==
    /\ MaxCalls \in Nat \ {0} /\ Frame \in Nat \ {0}
    /\ Delays \subseteq Int /\ MaxAlarms \in Nat

Calls == 1 .. MaxCalls

VARIABLES
    daemon,      \* where the daemon is
    cur,         \* the current call, 0 before the first
    fd,          \* dev->fd is open
    held,        \* units that were read and are to be answered
    ud,          \* update_delay
    stop,        \* the modem has its stop scheduled
    kid,         \* the child of each call
    toKid,       \* units on their way to the child of a call
    toDaemon,    \* units on their way to the daemon
    lost,        \* history: units of a call that were lost in the bridge
    shifted,     \* history: a delay was changed during the call
    alarms       \* history: how often a wait was interrupted

vars ==
    <<daemon, cur, fd, held, ud, stop, kid, toKid, toDaemon, lost, shifted, alarms>>
daemonVars == <<daemon, cur, fd, held, ud, stop, shifted, alarms>>

NoKid == [main |-> "none", call |-> "none", conn |-> FALSE, sock |-> FALSE,
          media |-> "rest", sip |-> "idle", destroying |-> FALSE]

KidType ==
    [main : {"none", "init", "up", "zombie", "reaped"},
     call : {"none", "ringing", "active", "held", "over"},
     conn : BOOLEAN,       \* the port is connected with the call in the bridge
     sock : BOOLEAN,       \* port.sock is open
     media : {"rest", "read", "got", "stale", "err_get", "err_put", "set", "destroy"},
     sip : {"idle", "change", "bye", "close", "check", "set", "destroy"},
     destroying : BOOLEAN]

EndOpen(i) == kid[i].main \in {"init", "up"} /\ kid[i].sock

DaemonEnd(i) == fd /\ i = cur /\ daemon # "dead"

-----------------------------------------------------------------------------
(* The daemon.                                                             *)

(* socket_start: the child is forked ...                                   *)
Fork ==
    /\ daemon = "idle" /\ cur < MaxCalls
    /\ cur' = cur + 1
    /\ kid' = [kid EXCEPT ![cur'] = [@ EXCEPT !.main = "init", !.sock = TRUE]]
    /\ daemon' = "starting" /\ fd' = TRUE /\ stop' = FALSE
    /\ shifted' = [shifted EXCEPT ![cur'] = ud # 0]
    /\ UNCHANGED <<held, ud, toKid, toDaemon, lost, alarms>>

(* ... and a frame of silence written.  The daemon keeps the default       *)
(* action of SIGPIPE: a write to a socket whose other end is closed kills  *)
(* it.                                                                     *)
Written(n, next) ==
    IF EndOpen(cur)
    THEN /\ toKid' = [toKid EXCEPT ![cur] = @ + n]
         /\ daemon' = next
    ELSE daemon' = "dead" /\ UNCHANGED toKid

FirstWrite ==
    /\ daemon = "starting"
    /\ Written(Frame, "select")
    /\ UNCHANGED <<cur, fd, held, ud, stop, kid, toDaemon, lost, shifted, alarms>>

(* The terminal hangs up.                                                  *)
Hangup ==
    /\ daemon = "select" /\ ~ stop
    /\ stop' = TRUE
    /\ UNCHANGED <<daemon, cur, fd, held, ud, kid, toKid, toDaemon, lost, shifted, alarms>>

(* Fault: device_read takes one unit.                                      *)
read_part ==
    /\ daemon = "select" /\ toDaemon[cur] > 0
    /\ toDaemon' = [toDaemon EXCEPT ![cur] = @ - 1]
    /\ held' = 1
    /\ daemon' = "process"
    /\ UNCHANGED <<cur, fd, ud, stop, kid, toKid, lost, shifted, alarms>>

(* device_read takes all there is; a negative update_delay drops units.    *)
Read ==
    LET n == toDaemon[cur]
        drop == IF ud >= 0 THEN 0 ELSE IF -ud >= n THEN n ELSE -ud
    IN  /\ daemon = "select" /\ n > 0
        /\ toDaemon' = [toDaemon EXCEPT ![cur] = 0]
        /\ ud' = ud + drop
        /\ held' = n - drop
        /\ daemon' = IF drop = n THEN "select" ELSE "process"
        /\ UNCHANGED <<cur, fd, stop, kid, toKid, lost, shifted, alarms>>

(* Fault: the child is not waited for.                                     *)
stop_without_wait == fd' = FALSE /\ held' = 0 /\ daemon' = "idle"

(* socket_stop; modem_stop calls it.                                       *)
socket_stop == fd' = FALSE /\ held' = 0 /\ daemon' = "wait"

(* The child has closed its end: "hack to force hangup".                   *)
ReadFails ==
    /\ daemon = "select" /\ toDaemon[cur] = 0 /\ ~ EndOpen(cur)
    /\ socket_stop
    /\ UNCHANGED <<cur, ud, stop, kid, toKid, toDaemon, lost, shifted, alarms>>

(* modem_process: the modem may hang up by itself and may ask for another  *)
(* delay; a scheduled stop is done when its sample timer is over.          *)
Process ==
    /\ daemon = "process"
    /\ stop' \in {stop, TRUE}
    /\ ud' \in {ud} \cup (IF shifted[cur] THEN {} ELSE Delays)   \* bound: once a call
    /\ shifted' = [shifted EXCEPT ![cur] = @ \/ ud' # 0]
    /\ daemon' = "write"
    /\ UNCHANGED <<cur, fd, held, kid, toKid, toDaemon, lost, alarms>>

ProcessStop ==
    /\ daemon = "process" /\ stop
    /\ socket_stop
    /\ UNCHANGED <<cur, ud, stop, kid, toKid, toDaemon, lost, shifted, alarms>>

(* Fault: nothing is written once the modem is to be stopped.              *)
write_unless_stopping ==
    /\ daemon = "write"
    /\ IF stop THEN daemon' = "select" /\ UNCHANGED toKid ELSE Written(held, "select")
    /\ held' = 0
    /\ UNCHANGED <<cur, fd, ud, stop, kid, toDaemon, lost, shifted, alarms>>

(* As many units are written as were read, and silence for a positive      *)
(* update_delay.                                                           *)
WriteBack ==
    /\ daemon = "write"
    /\ Written(held + (IF ud > 0 THEN ud ELSE 0), "select")
    /\ ud' = IF ud > 0 THEN 0 ELSE ud
    /\ held' = 0
    /\ UNCHANGED <<cur, fd, stop, kid, toDaemon, lost, shifted, alarms>>

(* wait(NULL) takes any child that has exited; SIGALRM ends it early (the  *)
(* handler is installed without SA_RESTART).                               *)
Reap ==
    /\ daemon = "wait"
    /\ \E i \in Calls :
          /\ kid[i].main = "zombie"
          /\ kid' = [kid EXCEPT ![i].main = "reaped"]
    /\ daemon' = "idle"
    /\ UNCHANGED <<cur, fd, held, ud, stop, toKid, toDaemon, lost, shifted, alarms>>

Alarm ==
    /\ daemon = "wait" /\ alarms < MaxAlarms
    /\ alarms' = alarms + 1
    /\ daemon' = "idle"
    /\ UNCHANGED <<cur, fd, held, ud, stop, kid, toKid, toDaemon, lost, shifted>>

-----------------------------------------------------------------------------
(* The child.                                                              *)

Exited(i) ==
    /\ kid' = [kid EXCEPT ![i] = [NoKid EXCEPT !.main = "zombie", !.call = "over"]]
    /\ toKid' = [toKid EXCEPT ![i] = 0]
    /\ UNCHANGED <<toDaemon, lost>>

(* main, up to its own frame of silence; nobody looks at how the write     *)
(* ended.                                                                  *)
KidStarts(i) ==
    /\ kid[i].main = "init"
    /\ kid' = [kid EXCEPT ![i].main = "up"]
    /\ toDaemon' = [toDaemon EXCEPT ![i] = @ + IF DaemonEnd(i) THEN Frame ELSE 0]
    /\ UNCHANGED <<toKid, lost>>

KidCalls(i) ==
    /\ kid[i].main = "up" /\ kid[i].call = "none"
    /\ kid' = [kid EXCEPT ![i].call = "ringing"]
    /\ UNCHANGED <<toKid, toDaemon, lost>>

(* No SIP_LOGIN, or an error before the call is made.                      *)
KidFails(i) ==
    /\ kid[i].main \in {"init", "up"} /\ kid[i].call = "none"
    /\ Exited(i)

(* The call's media become active, at first or after a hold, and           *)
(* on_call_media_state adds the port to the bridge and connects it.  The   *)
(* bridge is free: the port was not connected before.                      *)
MediaActive(i) ==
    /\ kid[i].main = "up" /\ kid[i].sip = "idle" /\ kid[i].call \in {"ringing", "held"}
    /\ kid' = [kid EXCEPT ![i] = [@ EXCEPT !.call = "active", !.conn = TRUE]]
    /\ UNCHANGED <<toKid, toDaemon, lost>>

(* Between two ticks the bridge is not locked, though it has a frame that  *)
(* was read and not yet put, or what is left of one.                       *)
BridgeFree(i) == kid[i].media \in {"rest", "got", "stale"}

(* The call's slot is removed from the bridge, with its connections.  The  *)
(* port then has no transmitter: a frame for it becomes one without audio. *)
conf_remove_port(i, call, sip) ==
    /\ kid' = [kid EXCEPT ![i] =
                 [@ EXCEPT !.conn = FALSE, !.call = call, !.sip = sip,
                           !.media = IF kid[i].media = "got" THEN "stale"
                                     ELSE kid[i].media]]
    /\ lost' = [lost EXCEPT ![i] = @ + IF kid[i].media = "got" THEN Frame ELSE 0]
    /\ UNCHANGED <<toKid, toDaemon>>

(* A re-INVITE, or a last answer, with other media than before.            *)
Reinvite(i) ==
    /\ kid[i].main = "up" /\ kid[i].sip = "idle" /\ kid[i].call = "active"
    /\ kid' = [kid EXCEPT ![i].sip = "change"]
    /\ UNCHANGED <<toKid, toDaemon, lost>>

(* The old stream is stopped and a new one gets a slot of its own.  If the *)
(* call is on hold then, on_call_media_state forgets the port (done = 0);  *)
(* if it is active it does nothing, as done is set, and the port stays     *)
(* unconnected.                                                            *)
media_channel_update(i) ==
    /\ kid[i].sip = "change" /\ BridgeFree(i)
    /\ \E call \in {"held", "active"} : conf_remove_port(i, call, "idle")

(* The media clock: the bridge is locked and get_frame entered.            *)
Tick(i) ==
    /\ kid[i].main = "up" /\ kid[i].conn /\ kid[i].media = "rest"
    /\ kid' = [kid EXCEPT ![i].media = "read"]
    /\ UNCHANGED <<toKid, toDaemon, lost>>

(* The read of get_frame blocks until there is something.                  *)
get_frame(i) ==
    /\ kid[i].media = "read"
    /\ toKid[i] > 0 \/ ~ DaemonEnd(i)
    /\ kid' = [kid EXCEPT ![i].media = IF toKid[i] >= Frame THEN "got" ELSE "err_get"]
    /\ toKid' = [toKid EXCEPT ![i] = IF @ >= Frame THEN @ - Frame ELSE 0]
    /\ UNCHANGED <<toDaemon, lost>>

(* put_frame writes a frame of type AUDIO ...                              *)
put_frame(i) ==
    /\ kid[i].media = "got"
    /\ IF kid[i].sock /\ DaemonEnd(i)
       THEN /\ kid' = [kid EXCEPT ![i].media = "rest"]
            /\ toDaemon' = [toDaemon EXCEPT ![i] = @ + Frame]
       ELSE /\ kid' = [kid EXCEPT ![i].media = "err_put"]
            /\ UNCHANGED toDaemon
    /\ UNCHANGED <<toKid, lost>>

(* Fault: the type of the frame is not looked at.                          *)
put_untyped(i) ==
    /\ kid[i].media = "stale"
    /\ kid' = [kid EXCEPT ![i].media = "rest"]
    /\ toDaemon' = [toDaemon EXCEPT ![i] = @ + IF DaemonEnd(i) THEN Frame ELSE 0]
    /\ UNCHANGED <<toKid, lost>>

(* ... and nothing for one of type NONE.                                   *)
put_none(i) ==
    /\ kid[i].media = "stale"
    /\ kid' = [kid EXCEPT ![i].media = "rest"]
    /\ UNCHANGED <<toKid, toDaemon, lost>>

(* Fault: an error of the socket is reported and nothing else.             *)
error_ignored(i) ==
    /\ kid[i].media \in {"err_get", "err_put"}
    /\ kid' = [kid EXCEPT ![i].media = IF @ = "err_get" THEN "got" ELSE "rest"]
    /\ UNCHANGED <<toKid, toDaemon, lost>>

(* error_exit in the media thread: it looks at destroying ...              *)
error_exit(i) ==
    /\ kid[i].media \in {"err_get", "err_put"}
    /\ kid' = [kid EXCEPT ![i].media =
                 IF ~ kid[i].destroying THEN "set"
                 ELSE IF @ = "err_get" THEN "got" ELSE "rest"]
    /\ UNCHANGED <<toKid, toDaemon, lost>>

(* ... sets it, and destroys pjsua, ...                                    *)
error_destroy(i) ==
    /\ kid[i].media = "set"
    /\ kid' = [kid EXCEPT ![i] = [@ EXCEPT !.media = "destroy", !.destroying = TRUE]]
    /\ UNCHANGED <<toKid, toDaemon, lost>>

(* ... which joins the SIP thread, with the bridge still locked.           *)
MediaDestroyed(i) ==
    /\ kid[i].media = "destroy" /\ kid[i].sip = "idle"
    /\ Exited(i)

(* The call ends: the other side hangs up, or nobody answers.              *)
Disconnected(i) ==
    /\ kid[i].main = "up" /\ kid[i].sip = "idle"
    /\ kid[i].call \in {"ringing", "active", "held"}
    /\ kid' = [kid EXCEPT ![i] = [@ EXCEPT !.call = "over", !.sip = "bye"]]
    /\ UNCHANGED <<toKid, toDaemon, lost>>

(* Fault: the call is taken out of the bridge whatever the bridge does.    *)
deinit_unlocked(i) == kid[i].sip = "bye" /\ conf_remove_port(i, "over", "close")

(* pjsua takes the call out of the bridge ...                              *)
media_channel_deinit(i) ==
    /\ kid[i].sip = "bye" /\ BridgeFree(i)
    /\ conf_remove_port(i, "over", "close")

(* Fault: the end of the call is not recognised.                           *)
disconnect_ignored(i) ==
    /\ kid[i].sip = "close"
    /\ kid' = [kid EXCEPT ![i].sip = "idle"]
    /\ UNCHANGED <<toKid, toDaemon, lost>>

(* ... before it calls on_call_state, which closes the socket and goes on  *)
(* as error_exit does; here pjsua_destroy joins the media thread.          *)
on_call_state(i) ==
    /\ kid[i].sip = "close"
    /\ kid' = [kid EXCEPT ![i] = [@ EXCEPT !.sock = FALSE, !.sip = "check"]]
    /\ UNCHANGED <<toKid, toDaemon, lost>>

disconnect_check(i) ==
    /\ kid[i].sip = "check"
    /\ kid' = [kid EXCEPT ![i].sip = IF kid[i].destroying THEN "idle" ELSE "set"]
    /\ UNCHANGED <<toKid, toDaemon, lost>>

disconnect_destroy(i) ==
    /\ kid[i].sip = "set"
    /\ kid' = [kid EXCEPT ![i] = [@ EXCEPT !.sip = "destroy", !.destroying = TRUE]]
    /\ UNCHANGED <<toKid, toDaemon, lost>>

SipDestroyed(i) ==
    /\ kid[i].sip = "destroy" /\ kid[i].media = "rest"
    /\ Exited(i)

-----------------------------------------------------------------------------
Init ==
    /\ daemon = "idle" /\ cur = 0 /\ fd = FALSE /\ held = 0 /\ ud = 0
    /\ stop = FALSE /\ alarms = 0
    /\ kid = [i \in Calls |-> NoKid]
    /\ toKid = [i \in Calls |-> 0] /\ toDaemon = [i \in Calls |-> 0]
    /\ lost = [i \in Calls |-> 0] /\ shifted = [i \in Calls |-> FALSE]

Daemon == FirstWrite \/ Read \/ ReadFails \/ Process \/ WriteBack \/ Reap

Main(i) == KidStarts(i) \/ KidCalls(i) \/ KidFails(i)

Media(i) ==
    Tick(i) \/ get_frame(i) \/ put_frame(i) \/ put_none(i)
    \/ error_exit(i) \/ error_destroy(i) \/ MediaDestroyed(i)

SipLocks(i) == media_channel_update(i) \/ media_channel_deinit(i)

Sip(i) ==
    on_call_state(i) \/ disconnect_check(i) \/ disconnect_destroy(i) \/ SipDestroyed(i)

SipEvent(i) == MediaActive(i) \/ Disconnected(i)

Child(i) ==
    /\ Main(i) \/ Media(i) \/ Sip(i) \/ SipLocks(i) \/ SipEvent(i) \/ Reinvite(i)
    /\ UNCHANGED daemonVars

Next ==
    \/ Daemon \/ Fork \/ Hangup \/ ProcessStop \/ Alarm
    \/ \E i \in Calls : Child(i)

Spec == Init /\ [][Next]_vars

(* Every thread runs.  The sample timer of a scheduled stop is over some   *)
(* time; a call that rings or is on hold is answered, resumed or given up; *)
(* the media clock is faster than any hold; the bridge is free between two *)
(* ticks, and the SIP thread gets it.                                      *)
Fairness ==
    /\ WF_vars(Daemon) /\ SF_vars(ProcessStop)
    /\ \A i \in Calls :
         /\ WF_vars(Child(i) /\ Main(i)) /\ SF_vars(Child(i) /\ Media(i))
         /\ WF_vars(Child(i) /\ Sip(i)) /\ SF_vars(Child(i) /\ SipLocks(i))
         /\ WF_vars(Child(i) /\ SipEvent(i) /\ kid[i].call \in {"ringing", "held"})

FairSpec == Spec /\ Fairness

-----------------------------------------------------------------------------
TypeOK ==
    /\ daemon \in {"idle", "starting", "select", "process", "write", "wait", "dead"}
    /\ cur \in 0 .. MaxCalls /\ fd \in BOOLEAN /\ held \in Nat /\ ud \in Int
    /\ stop \in BOOLEAN /\ alarms \in 0 .. MaxAlarms
    /\ kid \in [Calls -> KidType]
    /\ toKid \in [Calls -> Nat] /\ toDaemon \in [Calls -> Nat]
    /\ lost \in [Calls -> Nat] /\ shifted \in [Calls -> BOOLEAN]

(* As long as update_delay was not used, the two frames of silence that    *)
(* the two processes wrote at the start of the call circulate; audio is    *)
(* lost only with a change of the media that meets it in the bridge        *)
(* (socket_start, main, modem_run, get_frame, put_frame).                  *)
TwoFramesCirculate ==
    DaemonEnd(cur) /\ daemon # "starting" /\ kid[cur].main = "up"
      /\ kid[cur].sock /\ ~ shifted[cur] =>
      toKid[cur] + toDaemon[cur] + held
        + (IF kid[cur].media = "got" THEN Frame ELSE 0) + lost[cur] = 2 * Frame

(* As long as update_delay was not used, get_frame never reads a part of a *)
(* frame, which it would take for an error that ends the call.             *)
WholeFrames ==
    \A i \in Calls :
       kid[i].media = "read" /\ ~ shifted[i] => toKid[i] = 0 \/ toKid[i] >= Frame

(* "wait(NULL); // for exec'ed child": when the daemon can dial again, the *)
(* child of the last call, with its SIP port, is gone.                     *)
WaitedForChild ==
    daemon = "idle" => \A i \in Calls : kid[i].main \in {"none", "reaped"}

(* The same, as long as no signal interrupted the wait (socket_stop).      *)
WaitedUnlessAlarmed == alarms = 0 => WaitedForChild

(* A child that is lost makes the modem hang up ("hack to force hangup");  *)
(* the daemon goes on.                                                     *)
DaemonSurvives == daemon # "dead"

(* destroying is tested and set without a lock (error_exit,                *)
(* on_call_state); still no two threads destroy pjsua, each to join the    *)
(* other, for the end of a call has to pass the bridge first.              *)
OneDestroys ==
    \A i \in Calls :
       ~ (kid[i].media \in {"set", "destroy"} /\ kid[i].sip \in {"set", "destroy"})

(* The media thread destroys pjsua with the bridge locked and joins a SIP  *)
(* thread that waits for the bridge.                                       *)
Stuck ==
    \E i \in Calls : kid[i].media = "destroy" /\ kid[i].sip \in {"change", "bye"}

(* Both frames were lost, or the port was left unconnected: no audio       *)
(* reaches the daemon, which does everything when audio comes.             *)
Silent(i) ==
    lost[i] >= 2 * Frame \/ (kid[i].call = "active" /\ ~ kid[i].conn)

(* A media thread that waits in get_frame, holding the bridge, is served:  *)
(* daemon and child never wait for each other's audio, as long as one      *)
(* frame is left (get_frame, put_frame, modem_run).                        *)
FrameServed ==
    \A i \in Calls :
       kid[i].media = "read" ~> kid[i].media # "read" \/ lost[i] >= 2 * Frame

(* A scheduled stop ends the call, and the wait for the child ends too:    *)
(* the child sees that its socket is closed.  The exceptions: the call     *)
(* remains silent, or the end of the SIP call, or a change of its media,   *)
(* crosses the hangup (socket_stop, error_exit, on_call_state).            *)
HangupEnds ==
    \A i \in Calls :
       []<> ~ Silent(i) =>
         (stop /\ fd /\ cur = i ~> daemon \in {"idle", "dead"} \/ Stuck)

(* When the other side ends the call the daemon notices, unless the media  *)
(* thread waits with the bridge locked for audio that was lost             *)
(* (on_call_state, modem_run).                                             *)
RemoteEndSeen ==
    \A i \in Calls :
       kid[i].call = "over" ~>
         ~ DaemonEnd(i) \/ (kid[i].media = "read" /\ lost[i] >= 2 * Frame)

=============================================================================
