----------------------------- MODULE CallProof -----------------------------
(***************************************************************************)
(* Proofs about Call: for frames of any size and any number of calls, the  *)
(* two frames of silence written at the start are all the audio there is,  *)
(* one thread of a child at most destroys pjsua, and a wait that no signal *)
(* interrupts takes the child of its own call.                             *)
(***************************************************************************)
EXTENDS Call, TLAPS

(* Amounts of audio as long as update_delay is not used.                   *)
Whole == {0, Frame, 2 * Frame}

(* A frame that get_frame has read and put_frame is going to answer, and   *)
(* the frames of silence that are still to be written.                     *)
InHand(i) == IF kid[i].media = "got" THEN Frame ELSE 0
KidOwes(i) == IF kid[i].main = "init" THEN Frame ELSE 0
DaemonOwes(i) == IF i = cur /\ daemon = "starting" THEN Frame ELSE 0
Held(i) == IF i = cur THEN held ELSE 0

Total(i) ==
    toKid[i] + toDaemon[i] + Held(i) + InHand(i) + KidOwes(i) + DaemonOwes(i)
      + lost[i]

Talking(i) == DaemonEnd(i) /\ kid[i].main \in {"init", "up"} /\ kid[i].sock

(* Audio is neither made nor cut, and vanishes only when an end is closed. *)
AudioOK(i) ==
    ~ shifted[i] =>
      /\ toKid[i] \in Whole /\ toDaemon[i] \in Whole
      /\ i = cur => held \in Whole /\ ud = 0
      /\ Total(i) <= 2 * Frame
      /\ Talking(i) => Total(i) = 2 * Frame

(* A call that was not dialled yet has left no trace.                      *)
FreshOK(i) ==
    i > cur => /\ kid[i] = NoKid /\ toKid[i] = 0 /\ toDaemon[i] = 0
               /\ lost[i] = 0 /\ ~ shifted[i]

(* A process that does not run has no thread inside a callback.            *)
GoneOK(i) ==
    kid[i].main \in {"none", "zombie", "reaped"} =>
      kid[i].media = "rest" /\ kid[i].sip = "idle"

(* Without a signal only the child of the current call may be alive.       *)
ReapedOK(i) ==
    alarms = 0 /\ (i < cur \/ (i = cur /\ daemon = "idle")) =>
      kid[i].main = "reaped"

(* The bridge orders the two threads of a child: the media thread is in a  *)
(* callback only while the call is in the bridge, and the SIP thread has   *)
(* taken it out before it closes the socket; so neither finds destroying   *)
(* set by the other.                                                       *)
Ordered(k) ==
    /\ k.media \notin {"rest", "stale"} => k.conn
    /\ k.sip \in {"close", "check", "set", "destroy"} => ~ k.conn
    /\ k.destroying => k.media = "destroy" \/ k.sip = "destroy"

CallOK(i) ==
    AudioOK(i) /\ FreshOK(i) /\ GoneOK(i) /\ ReapedOK(i) /\ Ordered(kid[i])

(* What the place in modem_run says about the socket and the samples.      *)
DaemonOK ==
    /\ daemon \notin {"process", "write"} => held = 0
    /\ daemon \in {"idle", "wait"} => ~ fd
    /\ daemon \in {"starting", "select", "process", "write"} => fd
    /\ daemon # "idle" => cur > 0

IInv == TypeOK /\ DaemonOK /\ \A i \in Calls : CallOK(i)

-----------------------------------------------------------------------------
Running(i) == kid[i].main \in {"init", "up"}

(* What a step of child i leaves alone.                                    *)
OnlyKid(i) ==
    /\ UNCHANGED daemonVars
    /\ kid' \in [Calls -> KidType]
    /\ toKid' \in [Calls -> Nat] /\ toDaemon' \in [Calls -> Nat]
    /\ lost' \in [Calls -> Nat]
    /\ \A j \in Calls \ {i} :
         /\ kid'[j] = kid[j] /\ toKid'[j] = toKid[j]
         /\ toDaemon'[j] = toDaemon[j] /\ lost'[j] = lost[j]

(* A step of a running child has to keep the audio of its own call and the *)
(* order of its threads.                                                   *)
LEMMA KidStep ==
    ASSUME IInv, NEW i \in Calls, Running(i), OnlyKid(i), AudioOK(i)', GoneOK(i)',
           Ordered(kid'[i])
    PROVE  IInv'
<1>1. TypeOK' /\ DaemonOK'
  BY DEF IInv, TypeOK, DaemonOK, OnlyKid, daemonVars
<1>2. FreshOK(i)' /\ ReapedOK(i)'
  <2>1. FreshOK(i) /\ ReapedOK(i)
    BY DEF IInv, CallOK
  <2>2. ~ (i > cur)
    BY <2>1 DEF FreshOK, Running, NoKid
  <2>3. ~ (alarms = 0 /\ (i < cur \/ (i = cur /\ daemon = "idle")))
    BY <2>1 DEF ReapedOK, Running
  <2>4. QED
    BY <2>2, <2>3 DEF FreshOK, ReapedOK, OnlyKid, daemonVars
<1>3. ASSUME NEW j \in Calls \ {i} PROVE CallOK(j)'
  <2>1. CallOK(j)
    BY DEF IInv
  <2>2. QED
    BY <2>1 DEF CallOK, AudioOK, FreshOK, GoneOK, ReapedOK, Total, Held, InHand,
                KidOwes, DaemonOwes, Talking, DaemonEnd, OnlyKid, daemonVars
<1>4. QED
  BY <1>1, <1>2, <1>3 DEF IInv, CallOK

(* The facts about amounts that the proofs below start from.               *)
LEMMA Amounts ==
    ASSUME IInv, NEW i \in Calls
    PROVE  /\ kid[i] \in KidType /\ toKid[i] \in Nat /\ toDaemon[i] \in Nat
           /\ lost[i] \in Nat
           /\ Frame \in Nat /\ Frame > 0 /\ held \in Nat /\ Held(i) \in Nat
           /\ InHand(i) \in {0, Frame} /\ KidOwes(i) \in {0, Frame}
           /\ DaemonOwes(i) \in {0, Frame}
           /\ AudioOK(i) /\ GoneOK(i) /\ Ordered(kid[i])
BY CallAssumption DEF IInv, CallOK, TypeOK, Held, InHand, KidOwes, DaemonOwes

(* A step of a child that moves no audio.                                  *)
LEMMA QuietStep ==
    ASSUME IInv, NEW i \in Calls, Running(i), NEW k \in KidType,
           kid' = [kid EXCEPT ![i] = k],
           UNCHANGED <<toKid, toDaemon, lost>>, UNCHANGED daemonVars,
           k.main = kid[i].main, k.sock => kid[i].sock,
           k.media = "got" <=> kid[i].media = "got", Ordered(k)
    PROVE  IInv'
<1>1. OnlyKid(i) /\ kid'[i] = k
  BY DEF OnlyKid, IInv, TypeOK
<1>2. GoneOK(i)'
  BY <1>1 DEF GoneOK, Running
<1>3. AudioOK(i)'
  <2>1. KidOwes(i)' = KidOwes(i) /\ DaemonOwes(i)' = DaemonOwes(i)
        /\ Held(i)' = Held(i) /\ InHand(i)' = InHand(i)
        /\ (Talking(i)' => Talking(i))
    BY <1>1 DEF KidOwes, DaemonOwes, Held, InHand, Talking, DaemonEnd, daemonVars
  <2>2. Total(i)' = Total(i)
    BY <2>1 DEF Total
  <2>3. QED
    BY <2>1, <2>2, Amounts DEF AudioOK, daemonVars
<1>4. QED
  BY <1>1, <1>2, <1>3, KidStep

(* The steps of a child that move no audio.                                *)
LEMMA QuietSteps ==
    ASSUME IInv, NEW i \in Calls, UNCHANGED daemonVars,
           \/ KidCalls(i) \/ MediaActive(i) \/ Reinvite(i) \/ Tick(i)
           \/ put_none(i) \/ error_exit(i) \/ error_destroy(i) \/ Disconnected(i)
           \/ on_call_state(i) \/ disconnect_check(i) \/ disconnect_destroy(i)
    PROVE  IInv'
<1>1. kid[i] \in KidType /\ GoneOK(i) /\ Ordered(kid[i])
  BY Amounts
<1>2. CASE KidCalls(i)
  <2> DEFINE k == [kid[i] EXCEPT !.call = "ringing"]
  <2>1. k \in KidType /\ k.main = kid[i].main /\ (k.sock => kid[i].sock)
    BY <1>1, <1>2 DEF KidType
  <2>2. kid' = [kid EXCEPT ![i] = k] /\ UNCHANGED <<toKid, toDaemon, lost>>
    BY <1>2 DEF KidCalls
  <2>3. Running(i)
    BY <1>1, <1>2 DEF Running, GoneOK, KidType, KidCalls
  <2>4. (k.media = "got" <=> kid[i].media = "got") /\ Ordered(k)
    BY <1>1, <1>2 DEF KidType, Ordered, KidCalls
  <2> HIDE DEF k
  <2>5. QED
    BY <2>1, <2>2, <2>3, <2>4, QuietStep
<1>3. CASE MediaActive(i)
  <2> DEFINE k == [kid[i] EXCEPT !.call = "active", !.conn = TRUE]
  <2>1. k \in KidType /\ k.main = kid[i].main /\ (k.sock => kid[i].sock)
    BY <1>1, <1>3 DEF KidType
  <2>2. kid' = [kid EXCEPT ![i] = k] /\ UNCHANGED <<toKid, toDaemon, lost>>
    BY <1>3 DEF MediaActive
  <2>3. Running(i)
    BY <1>1, <1>3 DEF Running, GoneOK, KidType, MediaActive
  <2>4. (k.media = "got" <=> kid[i].media = "got") /\ Ordered(k)
    BY <1>1, <1>3 DEF KidType, Ordered, MediaActive
  <2> HIDE DEF k
  <2>5. QED
    BY <2>1, <2>2, <2>3, <2>4, QuietStep
<1>4. CASE Reinvite(i)
  <2> DEFINE k == [kid[i] EXCEPT !.sip = "change"]
  <2>1. k \in KidType /\ k.main = kid[i].main /\ (k.sock => kid[i].sock)
    BY <1>1, <1>4 DEF KidType
  <2>2. kid' = [kid EXCEPT ![i] = k] /\ UNCHANGED <<toKid, toDaemon, lost>>
    BY <1>4 DEF Reinvite
  <2>3. Running(i)
    BY <1>1, <1>4 DEF Running, GoneOK, KidType, Reinvite
  <2>4. (k.media = "got" <=> kid[i].media = "got") /\ Ordered(k)
    BY <1>1, <1>4 DEF KidType, Ordered, Reinvite
  <2> HIDE DEF k
  <2>5. QED
    BY <2>1, <2>2, <2>3, <2>4, QuietStep
<1>5. CASE Tick(i)
  <2> DEFINE k == [kid[i] EXCEPT !.media = "read"]
  <2>1. k \in KidType /\ k.main = kid[i].main /\ (k.sock => kid[i].sock)
    BY <1>1, <1>5 DEF KidType
  <2>2. kid' = [kid EXCEPT ![i] = k] /\ UNCHANGED <<toKid, toDaemon, lost>>
    BY <1>5 DEF Tick
  <2>3. Running(i)
    BY <1>1, <1>5 DEF Running, GoneOK, KidType, Tick
  <2>4. (k.media = "got" <=> kid[i].media = "got") /\ Ordered(k)
    BY <1>1, <1>5 DEF KidType, Ordered, Tick
  <2> HIDE DEF k
  <2>5. QED
    BY <2>1, <2>2, <2>3, <2>4, QuietStep
<1>6. CASE put_none(i)
  <2> DEFINE k == [kid[i] EXCEPT !.media = "rest"]
  <2>1. k \in KidType /\ k.main = kid[i].main /\ (k.sock => kid[i].sock)
    BY <1>1, <1>6 DEF KidType
  <2>2. kid' = [kid EXCEPT ![i] = k] /\ UNCHANGED <<toKid, toDaemon, lost>>
    BY <1>6 DEF put_none
  <2>3. Running(i)
    BY <1>1, <1>6 DEF Running, GoneOK, KidType, put_none
  <2>4. (k.media = "got" <=> kid[i].media = "got") /\ Ordered(k)
    BY <1>1, <1>6 DEF KidType, Ordered, put_none
  <2> HIDE DEF k
  <2>5. QED
    BY <2>1, <2>2, <2>3, <2>4, QuietStep
<1>7. CASE error_exit(i)
  <2> DEFINE k == [kid[i] EXCEPT !.media =
                       IF ~ kid[i].destroying THEN "set"
                       ELSE IF @ = "err_get" THEN "got" ELSE "rest"]
  <2>1. k \in KidType /\ k.main = kid[i].main /\ (k.sock => kid[i].sock)
    BY <1>1, <1>7 DEF KidType
  <2>2. kid' = [kid EXCEPT ![i] = k] /\ UNCHANGED <<toKid, toDaemon, lost>>
    BY <1>7 DEF error_exit
  <2>3. Running(i)
    BY <1>1, <1>7 DEF Running, GoneOK, KidType, error_exit
  <2>4. (k.media = "got" <=> kid[i].media = "got") /\ Ordered(k)
    BY <1>1, <1>7 DEF KidType, Ordered, error_exit
  <2> HIDE DEF k
  <2>5. QED
    BY <2>1, <2>2, <2>3, <2>4, QuietStep
<1>8. CASE error_destroy(i)
  <2> DEFINE k == [kid[i] EXCEPT !.media = "destroy", !.destroying = TRUE]
  <2>1. k \in KidType /\ k.main = kid[i].main /\ (k.sock => kid[i].sock)
    BY <1>1, <1>8 DEF KidType
  <2>2. kid' = [kid EXCEPT ![i] = k] /\ UNCHANGED <<toKid, toDaemon, lost>>
    BY <1>8 DEF error_destroy
  <2>3. Running(i)
    BY <1>1, <1>8 DEF Running, GoneOK, KidType, error_destroy
  <2>4. (k.media = "got" <=> kid[i].media = "got") /\ Ordered(k)
    BY <1>1, <1>8 DEF KidType, Ordered, error_destroy
  <2> HIDE DEF k
  <2>5. QED
    BY <2>1, <2>2, <2>3, <2>4, QuietStep
<1>9. CASE Disconnected(i)
  <2> DEFINE k == [kid[i] EXCEPT !.call = "over", !.sip = "bye"]
  <2>1. k \in KidType /\ k.main = kid[i].main /\ (k.sock => kid[i].sock)
    BY <1>1, <1>9 DEF KidType
  <2>2. kid' = [kid EXCEPT ![i] = k] /\ UNCHANGED <<toKid, toDaemon, lost>>
    BY <1>9 DEF Disconnected
  <2>3. Running(i)
    BY <1>1, <1>9 DEF Running, GoneOK, KidType, Disconnected
  <2>4. (k.media = "got" <=> kid[i].media = "got") /\ Ordered(k)
    BY <1>1, <1>9 DEF KidType, Ordered, Disconnected
  <2> HIDE DEF k
  <2>5. QED
    BY <2>1, <2>2, <2>3, <2>4, QuietStep
<1>10. CASE on_call_state(i)
  <2> DEFINE k == [kid[i] EXCEPT !.sock = FALSE, !.sip = "check"]
  <2>1. k \in KidType /\ k.main = kid[i].main /\ (k.sock => kid[i].sock)
    BY <1>1, <1>10 DEF KidType
  <2>2. kid' = [kid EXCEPT ![i] = k] /\ UNCHANGED <<toKid, toDaemon, lost>>
    BY <1>10 DEF on_call_state
  <2>3. Running(i)
    BY <1>1, <1>10 DEF Running, GoneOK, KidType, on_call_state
  <2>4. (k.media = "got" <=> kid[i].media = "got") /\ Ordered(k)
    BY <1>1, <1>10 DEF KidType, Ordered, on_call_state
  <2> HIDE DEF k
  <2>5. QED
    BY <2>1, <2>2, <2>3, <2>4, QuietStep
<1>11. CASE disconnect_check(i)
  <2> DEFINE k == [kid[i] EXCEPT !.sip =
                       IF kid[i].destroying THEN "idle" ELSE "set"]
  <2>1. k \in KidType /\ k.main = kid[i].main /\ (k.sock => kid[i].sock)
    BY <1>1, <1>11 DEF KidType
  <2>2. kid' = [kid EXCEPT ![i] = k] /\ UNCHANGED <<toKid, toDaemon, lost>>
    BY <1>11 DEF disconnect_check
  <2>3. Running(i)
    BY <1>1, <1>11 DEF Running, GoneOK, KidType, disconnect_check
  <2>4. (k.media = "got" <=> kid[i].media = "got") /\ Ordered(k)
    BY <1>1, <1>11 DEF KidType, Ordered, disconnect_check
  <2> HIDE DEF k
  <2>5. QED
    BY <2>1, <2>2, <2>3, <2>4, QuietStep
<1>12. CASE disconnect_destroy(i)
  <2> DEFINE k == [kid[i] EXCEPT !.sip = "destroy", !.destroying = TRUE]
  <2>1. k \in KidType /\ k.main = kid[i].main /\ (k.sock => kid[i].sock)
    BY <1>1, <1>12 DEF KidType
  <2>2. kid' = [kid EXCEPT ![i] = k] /\ UNCHANGED <<toKid, toDaemon, lost>>
    BY <1>12 DEF disconnect_destroy
  <2>3. Running(i)
    BY <1>1, <1>12 DEF Running, GoneOK, KidType, disconnect_destroy
  <2>4. (k.media = "got" <=> kid[i].media = "got") /\ Ordered(k)
    BY <1>1, <1>12 DEF KidType, Ordered, disconnect_destroy
  <2> HIDE DEF k
  <2>5. QED
    BY <2>1, <2>2, <2>3, <2>4, QuietStep
<1>13. QED
  BY <1>2, <1>3, <1>4, <1>5, <1>6, <1>7, <1>8, <1>9, <1>10, <1>11, <1>12


(* A child that exits takes what was under way to it with it.              *)
LEMMA ExitStep ==
    ASSUME IInv, NEW i \in Calls, Running(i), UNCHANGED daemonVars, Exited(i)
    PROVE  IInv'
<1> DEFINE k == [NoKid EXCEPT !.main = "zombie", !.call = "over"]
<1>1. k \in KidType /\ k.main = "zombie" /\ k.media = "rest" /\ k.sip = "idle"
      /\ ~ k.sock /\ Ordered(k)
  BY DEF KidType, NoKid, Ordered
<1>2. kid' = [kid EXCEPT ![i] = k] /\ toKid' = [toKid EXCEPT ![i] = 0]
      /\ toDaemon' = toDaemon /\ lost' = lost
  BY DEF Exited
<1> HIDE DEF k
<1>3. kid'[i] = k /\ toKid'[i] = 0 /\ toDaemon'[i] = toDaemon[i]
  BY <1>2 DEF IInv, TypeOK
<1>4. OnlyKid(i)
  BY <1>1, <1>2 DEF OnlyKid, IInv, TypeOK
<1>5. GoneOK(i)' /\ Ordered(kid'[i])
  BY <1>1, <1>3 DEF GoneOK
<1>6. AudioOK(i)'
  <2>1. KidOwes(i)' = 0 /\ InHand(i)' = 0 /\ Held(i)' = Held(i)
        /\ DaemonOwes(i)' = DaemonOwes(i) /\ ~ Talking(i)'
    BY <1>1, <1>3 DEF KidOwes, InHand, Held, DaemonOwes, Talking, daemonVars
  <2>2. Total(i)' <= Total(i) /\ Total(i)' \in Nat /\ Total(i) \in Nat
    BY <1>2, <1>3, <2>1, Amounts DEF Total
  <2>3. QED
    BY <1>1, <1>3, <2>1, <2>2, Amounts DEF AudioOK, Whole, daemonVars
<1>7. QED
  BY <1>4, <1>5, <1>6, KidStep

(* main writes its frame of silence.                                       *)
LEMMA KidStartsStep ==
    ASSUME IInv, NEW i \in Calls, UNCHANGED daemonVars, KidStarts(i)
    PROVE  IInv'
<1> DEFINE k == [kid[i] EXCEPT !.main = "up"]
<1>1. k \in KidType /\ k.main = "up" /\ k.media = kid[i].media
      /\ k.sock = kid[i].sock /\ Ordered(k)
  BY Amounts DEF KidType, Ordered
<1>2. kid' = [kid EXCEPT ![i] = k] /\ toKid' = toKid /\ kid[i].main = "init"
      /\ lost' = lost
  BY DEF KidStarts
<1> HIDE DEF k
<1>3. kid'[i] = k /\ toKid'[i] = toKid[i]
      /\ toDaemon'[i] = toDaemon[i] + IF DaemonEnd(i) THEN Frame ELSE 0
  BY <1>2 DEF IInv, TypeOK, KidStarts
<1>4. OnlyKid(i) /\ Running(i)
  BY <1>1, <1>2, CallAssumption DEF OnlyKid, IInv, TypeOK, KidStarts, Running
<1>5. GoneOK(i)' /\ Ordered(kid'[i])
  BY <1>1, <1>3 DEF GoneOK
<1>6. AudioOK(i)'
  <2>1. /\ KidOwes(i)' = 0 /\ KidOwes(i) = Frame /\ Held(i)' = Held(i)
        /\ DaemonOwes(i)' = DaemonOwes(i) /\ InHand(i)' = InHand(i)
        /\ DaemonEnd(i)' = DaemonEnd(i)
    BY <1>1, <1>2, <1>3
       DEF KidOwes, InHand, Held, DaemonOwes, DaemonEnd, daemonVars
  <2>2. /\ Total(i)' <= Total(i) /\ Total(i)' \in Nat /\ Total(i) \in Nat
        /\ DaemonEnd(i) => Total(i)' = Total(i)
    BY <1>2, <1>3, <2>1, Amounts DEF Total
  <2>3. Talking(i)' => Talking(i)
    BY <1>1, <1>2, <1>3, <2>1 DEF Talking
  <2>4. ~ shifted[i] => toDaemon'[i] \in Whole
    <3>1. Total(i) >= toDaemon[i] + Frame
      BY <2>1, Amounts DEF Total
    <3>2. QED
      BY <1>3, <2>2, <3>1, Amounts DEF AudioOK, Whole
  <2>5. QED
    BY <1>1, <1>3, <2>1, <2>2, <2>3, <2>4, Amounts
       DEF AudioOK, Talking, daemonVars, Whole
<1>7. QED
  BY <1>4, <1>5, <1>6, KidStep

(* get_frame takes a whole frame, or fails because the daemon is gone.     *)
LEMMA GetFrameStep ==
    ASSUME IInv, NEW i \in Calls, UNCHANGED daemonVars, get_frame(i)
    PROVE  IInv'
<1> DEFINE full == toKid[i] >= Frame
<1> DEFINE k == [kid[i] EXCEPT !.media = IF full THEN "got" ELSE "err_get"]
<1>1. k \in KidType /\ k.main = kid[i].main /\ k.sock = kid[i].sock
      /\ k.media = IF full THEN "got" ELSE "err_get"
  BY Amounts DEF KidType
<1>2. kid' = [kid EXCEPT ![i] = k] /\ toDaemon' = toDaemon /\ lost' = lost
      /\ kid[i].media = "read"
  BY DEF get_frame
<1>3. Ordered(k)
  BY <1>2, Amounts DEF Ordered, KidType
<1> HIDE DEF k
<1>4. kid'[i] = k /\ toDaemon'[i] = toDaemon[i]
      /\ toKid'[i] = IF full THEN toKid[i] - Frame ELSE 0
  BY <1>2 DEF IInv, TypeOK, get_frame
<1>5. Running(i)
  BY <1>2, Amounts DEF GoneOK, Running, KidType
<1>6. OnlyKid(i)
  <2>1. (IF full THEN toKid[i] - Frame ELSE 0) \in Nat
    BY Amounts
  <2>2. QED
    BY <1>1, <1>2, <2>1 DEF OnlyKid, IInv, TypeOK, get_frame
<1>7. GoneOK(i)' /\ Ordered(kid'[i])
  BY <1>1, <1>3, <1>4, <1>5 DEF GoneOK, Running
<1>8. AudioOK(i)'
  <2>1. /\ KidOwes(i)' = KidOwes(i) /\ Held(i)' = Held(i)
        /\ DaemonOwes(i)' = DaemonOwes(i) /\ InHand(i) = 0
        /\ InHand(i)' = IF full THEN Frame ELSE 0
        /\ (Talking(i)' => Talking(i))
    BY <1>1, <1>2, <1>4
       DEF KidOwes, InHand, Held, DaemonOwes, DaemonEnd, Talking, daemonVars
  <2>2. SUFFICES ASSUME ~ shifted[i] PROVE AudioOK(i)'
    BY DEF AudioOK, daemonVars
  <2>3. toKid[i] \in Whole /\ (full \/ toKid[i] = 0)
    BY <2>2, Amounts DEF AudioOK, Whole
  <2>4. toKid'[i] \in Whole /\ toKid'[i] + InHand(i)' = toKid[i]
    BY <1>4, <2>1, <2>3, Amounts DEF Whole
  <2>5. toKid'[i] \in Nat /\ InHand(i)' \in Nat
    BY <1>4, <2>1, Amounts
  <2>6. Total(i)' = Total(i)
    BY <1>2, <1>4, <2>1, <2>4, <2>5, Amounts DEF Total
  <2>7. QED
    BY <1>4, <2>1, <2>2, <2>4, <2>6, Amounts DEF AudioOK, daemonVars
<1>9. QED
  BY <1>5, <1>6, <1>7, <1>8, KidStep

(* put_frame answers the frame that get_frame took.                        *)
LEMMA PutFrameStep ==
    ASSUME IInv, NEW i \in Calls, UNCHANGED daemonVars, put_frame(i)
    PROVE  IInv'
<1> DEFINE ok == kid[i].sock /\ DaemonEnd(i)
<1> DEFINE k == [kid[i] EXCEPT !.media = IF ok THEN "rest" ELSE "err_put"]
<1>1. k \in KidType /\ k.main = kid[i].main /\ k.sock = kid[i].sock
      /\ k.media = IF ok THEN "rest" ELSE "err_put"
  BY Amounts DEF KidType
<1>2. kid' = [kid EXCEPT ![i] = k] /\ toKid' = toKid /\ kid[i].media = "got"
      /\ lost' = lost
  BY DEF put_frame
<1>3. Ordered(k)
  BY <1>2, Amounts DEF Ordered, KidType
<1> HIDE DEF k
<1>4. kid'[i] = k /\ toKid'[i] = toKid[i]
      /\ toDaemon'[i] = toDaemon[i] + IF ok THEN Frame ELSE 0
  BY <1>2, Amounts DEF IInv, TypeOK, put_frame
<1>5. Running(i)
  BY <1>2, Amounts DEF GoneOK, Running, KidType
<1>6. OnlyKid(i)
  BY <1>1, <1>2, CallAssumption DEF OnlyKid, IInv, TypeOK, put_frame
<1>7. GoneOK(i)' /\ Ordered(kid'[i])
  BY <1>1, <1>3, <1>4, <1>5 DEF GoneOK, Running
<1>8. AudioOK(i)'
  <2>1. /\ KidOwes(i)' = KidOwes(i) /\ Held(i)' = Held(i)
        /\ DaemonOwes(i)' = DaemonOwes(i) /\ InHand(i)' = 0
        /\ InHand(i) = Frame /\ (Talking(i)' => Talking(i) /\ ok)
    BY <1>1, <1>2, <1>4
       DEF KidOwes, InHand, Held, DaemonOwes, DaemonEnd, Talking, daemonVars
  <2>2. /\ Total(i)' <= Total(i) /\ Total(i)' \in Nat /\ Total(i) \in Nat
        /\ ok => Total(i)' = Total(i)
    BY <1>2, <1>4, <2>1, Amounts DEF Total
  <2>3. ~ shifted[i] => toDaemon'[i] \in Whole
    <3>1. Total(i) >= toDaemon[i] + Frame
      BY <2>1, Amounts DEF Total
    <3>2. QED
      BY <1>4, <2>2, <3>1, Amounts DEF AudioOK, Whole
  <2>4. QED
    BY <1>4, <2>1, <2>2, <2>3, Amounts DEF AudioOK, daemonVars
<1>9. QED
  BY <1>5, <1>6, <1>7, <1>8, KidStep

(* A frame that was in the bridge when the call is taken out is lost, and  *)
(* counted.                                                                *)
LEMMA RemoveStep ==
    ASSUME IInv, NEW i \in Calls, UNCHANGED daemonVars,
           media_channel_update(i) \/ media_channel_deinit(i)
    PROVE  IInv'
<1>1. PICK call \in {"held", "active", "over"}, sip \in {"idle", "close"} :
        conf_remove_port(i, call, sip)
  BY DEF media_channel_update, media_channel_deinit
<1>2. BridgeFree(i) /\ kid[i].sip \in {"change", "bye"}
  BY DEF media_channel_update, media_channel_deinit
<1> DEFINE gone == kid[i].media = "got"
<1> DEFINE k == [kid[i] EXCEPT !.conn = FALSE, !.call = call, !.sip = sip,
                               !.media = IF gone THEN "stale" ELSE kid[i].media]
<1>3. k \in KidType /\ k.main = kid[i].main /\ k.sock = kid[i].sock
      /\ k.media \in {"rest", "stale"}
  BY <1>1, <1>2, Amounts DEF KidType, BridgeFree
<1>4. Ordered(k)
  BY <1>1, <1>2, Amounts DEF Ordered, KidType, BridgeFree
<1>5. /\ kid' = [kid EXCEPT ![i] = k] /\ toKid' = toKid /\ toDaemon' = toDaemon
      /\ lost' = [lost EXCEPT ![i] = @ + IF gone THEN Frame ELSE 0]
  BY <1>1 DEF conf_remove_port
<1> HIDE DEF k
<1>6. kid'[i] = k /\ lost'[i] = lost[i] + IF gone THEN Frame ELSE 0
  BY <1>5 DEF IInv, TypeOK
<1>7. Running(i)
  BY <1>2, Amounts DEF GoneOK, Running, KidType
<1>8. OnlyKid(i)
  BY <1>3, <1>5, CallAssumption DEF OnlyKid, IInv, TypeOK
<1>9. GoneOK(i)'
  BY <1>3, <1>6, <1>7 DEF GoneOK, Running
<1>10. AudioOK(i)'
  <2>1. /\ KidOwes(i)' = KidOwes(i) /\ Held(i)' = Held(i)
        /\ DaemonOwes(i)' = DaemonOwes(i) /\ InHand(i)' = 0
        /\ InHand(i) = (IF gone THEN Frame ELSE 0)
        /\ (Talking(i)' => Talking(i))
    BY <1>3, <1>6
       DEF KidOwes, InHand, Held, DaemonOwes, DaemonEnd, Talking, daemonVars
  <2>2. Total(i)' = Total(i)
    BY <1>5, <1>6, <2>1, Amounts DEF Total
  <2>3. QED
    BY <1>5, <2>1, <2>2, Amounts DEF AudioOK, daemonVars
<1>11. QED
  BY <1>4, <1>6, <1>7, <1>8, <1>9, <1>10, KidStep

(* Every step of a child keeps the invariant.                              *)
LEMMA ChildStep ==
    ASSUME IInv, NEW i \in Calls, Child(i)
    PROVE  IInv'
<1>1. UNCHANGED daemonVars
  BY DEF Child
<1>2. CASE KidFails(i) \/ MediaDestroyed(i) \/ SipDestroyed(i)
  <2>1. Exited(i)
    BY <1>2 DEF KidFails, MediaDestroyed, SipDestroyed
  <2>2. Running(i)
    BY <1>2, Amounts
       DEF KidFails, MediaDestroyed, SipDestroyed, GoneOK, Running, KidType
  <2>3. QED
    BY <1>1, <2>1, <2>2, ExitStep
<1>3. CASE media_channel_update(i) \/ media_channel_deinit(i)
  BY <1>1, <1>3, RemoveStep
<1>4. CASE KidStarts(i)
  BY <1>1, <1>4, KidStartsStep
<1>5. CASE get_frame(i)
  BY <1>1, <1>5, GetFrameStep
<1>6. CASE put_frame(i)
  BY <1>1, <1>6, PutFrameStep
<1>7. CASE \/ KidCalls(i) \/ MediaActive(i) \/ Reinvite(i) \/ Tick(i)
           \/ put_none(i) \/ error_exit(i) \/ error_destroy(i) \/ Disconnected(i)
           \/ on_call_state(i) \/ disconnect_check(i) \/ disconnect_destroy(i)
  BY <1>1, <1>7, QuietSteps
<1>8. QED
  BY <1>2, <1>3, <1>4, <1>5, <1>6, <1>7
     DEF Child, Main, Media, Sip, SipLocks, SipEvent

(* What a step of the daemon within a call leaves alone.                   *)
OnlyDaemon ==
    /\ kid' = kid /\ cur' = cur /\ alarms' = alarms /\ lost' = lost
    /\ daemon' # "idle"
    /\ \A j \in Calls \ {cur} :
         /\ toKid'[j] = toKid[j] /\ toDaemon'[j] = toDaemon[j]
         /\ shifted'[j] = shifted[j]

(* A step of the daemon has to keep the audio of the current call.         *)
LEMMA DaemonStep ==
    ASSUME IInv, cur \in Calls, OnlyDaemon, TypeOK', DaemonOK', AudioOK(cur)'
    PROVE  IInv'
<1>1. ASSUME NEW j \in Calls, j # cur PROVE CallOK(j)'
  <2>1. CallOK(j)
    BY DEF IInv
  <2>2. j # cur' /\ toKid'[j] = toKid[j] /\ toDaemon'[j] = toDaemon[j]
        /\ shifted'[j] = shifted[j] /\ kid'[j] = kid[j] /\ lost'[j] = lost[j]
    BY <1>1 DEF OnlyDaemon
  <2>3. AudioOK(j)'
    BY <1>1, <2>1, <2>2
       DEF CallOK, AudioOK, Total, Held, InHand, KidOwes, DaemonOwes, Talking,
           DaemonEnd
  <2>4. FreshOK(j)' /\ GoneOK(j)' /\ ReapedOK(j)' /\ Ordered(kid'[j])
    BY <1>1, <2>1, <2>2 DEF CallOK, FreshOK, GoneOK, ReapedOK, OnlyDaemon
  <2>5. QED
    BY <2>3, <2>4 DEF CallOK
<1>2. CallOK(cur)'
  <2>1. cur \in Nat /\ GoneOK(cur) /\ Ordered(kid[cur])
    BY DEF IInv, TypeOK, CallOK
  <2>2. QED
    BY <2>1 DEF CallOK, FreshOK, GoneOK, ReapedOK, OnlyDaemon
<1>3. QED
  BY <1>1, <1>2 DEF IInv, OnlyDaemon

(* In a call: the current call is one of the calls.                        *)
LEMMA InCall == ASSUME IInv, daemon # "idle" PROVE cur \in Calls
BY DEF IInv, TypeOK, DaemonOK, Calls

(* A write adds to what is under way, or kills the daemon.                 *)
LEMMA WrittenAmount ==
    ASSUME IInv, cur \in Calls, NEW n \in Nat, NEW next, Written(n, next)
    PROVE  /\ toKid' \in [Calls -> Nat]
           /\ \A j \in Calls \ {cur} : toKid'[j] = toKid[j]
           /\ \/ toKid'[cur] = toKid[cur] + n /\ daemon' = next
              \/ toKid'[cur] = toKid[cur] /\ daemon' = "dead" /\ ~ EndOpen(cur)
BY DEF Written, IInv, TypeOK

(* socket_start writes its frame of silence.                               *)
LEMMA FirstWriteStep == ASSUME IInv, FirstWrite PROVE IInv'
<1>1. daemon = "starting" /\ cur \in Calls /\ held = 0 /\ fd
  BY InCall DEF FirstWrite, IInv, DaemonOK
<1>2. Frame \in Nat
  BY CallAssumption
<1>3. /\ toKid' \in [Calls -> Nat]
      /\ \A j \in Calls \ {cur} : toKid'[j] = toKid[j]
      /\ \/ toKid'[cur] = toKid[cur] + Frame /\ daemon' = "select"
         \/ toKid'[cur] = toKid[cur] /\ daemon' = "dead" /\ ~ EndOpen(cur)
  BY <1>1, <1>2, WrittenAmount DEF FirstWrite
<1>4. OnlyDaemon
  BY <1>3 DEF OnlyDaemon, FirstWrite
<1>5. TypeOK'
  BY <1>3 DEF TypeOK, FirstWrite, IInv
<1>6. DaemonOK'
  BY <1>1, <1>3 DEF DaemonOK, FirstWrite, IInv
<1>7. AudioOK(cur)'
  <2>1. /\ toDaemon'[cur] = toDaemon[cur] /\ kid'[cur] = kid[cur]
        /\ held' = held /\ ud' = ud /\ cur' = cur /\ shifted' = shifted
        /\ lost' = lost
    BY DEF FirstWrite
  <2>2. /\ DaemonOwes(cur) = Frame /\ DaemonOwes(cur)' = 0
        /\ KidOwes(cur)' = KidOwes(cur) /\ Held(cur)' = Held(cur)
        /\ DaemonEnd(cur) /\ (DaemonEnd(cur)' => daemon' # "dead")
        /\ InHand(cur)' \in {0, InHand(cur)}
        /\ (DaemonEnd(cur)' => InHand(cur)' = InHand(cur))
    BY <1>1, <1>3, <2>1, Amounts
       DEF DaemonOwes, KidOwes, Held, DaemonEnd, InHand, FirstWrite
  <2>3. /\ Total(cur)' <= Total(cur) /\ Total(cur)' \in Nat /\ Total(cur) \in Nat
        /\ DaemonEnd(cur)' => Total(cur)' = Total(cur)
    BY <1>1, <1>3, <2>1, <2>2, Amounts DEF Total
  <2>4. ~ shifted[cur] => toKid'[cur] \in Whole
    <3>1. Total(cur) >= toKid[cur] + Frame
      BY <1>1, <2>2, Amounts DEF Total
    <3>2. QED
      BY <1>1, <1>3, <2>3, <3>1, Amounts DEF AudioOK, Whole
  <2>5. Talking(cur)' => Talking(cur) /\ DaemonEnd(cur)'
    BY <2>1, <2>2 DEF Talking
  <2>6. QED
    BY <1>1, <2>1, <2>2, <2>3, <2>4, <2>5, Amounts DEF AudioOK
<1>8. QED
  BY <1>1, <1>4, <1>5, <1>6, <1>7, DaemonStep

(* The daemon takes what there is; without a delay it drops nothing.       *)
LEMMA ReadStep == ASSUME IInv, Read PROVE IInv'
<1>1. daemon = "select" /\ cur \in Calls /\ held = 0 /\ fd
  BY InCall DEF Read, IInv, DaemonOK
<1> DEFINE n == toDaemon[cur]
           drop == IF ud >= 0 THEN 0 ELSE IF -ud >= n THEN n ELSE -ud
<1>2. n \in Nat /\ n > 0 /\ ud \in Int
  BY <1>1, Amounts DEF Read, IInv, TypeOK
<1>3. drop \in 0 .. n /\ (ud = 0 => drop = 0)
  BY <1>2
<1>4. /\ toDaemon' = [toDaemon EXCEPT ![cur] = 0] /\ ud' = ud + drop
      /\ held' = n - drop /\ daemon' = IF drop = n THEN "select" ELSE "process"
      /\ cur' = cur /\ fd' = fd /\ stop' = stop /\ kid' = kid /\ toKid' = toKid
      /\ shifted' = shifted /\ alarms' = alarms /\ lost' = lost
  BY DEF Read
<1> HIDE DEF drop
<1>5. /\ toDaemon' \in [Calls -> Nat] /\ toDaemon'[cur] = 0
      /\ \A j \in Calls \ {cur} : toDaemon'[j] = toDaemon[j]
  BY <1>1, <1>4 DEF IInv, TypeOK
<1>6. OnlyDaemon
  BY <1>4, <1>5 DEF OnlyDaemon
<1>7. TypeOK'
  <2>1. held' \in Nat /\ ud' \in Int
    BY <1>2, <1>3, <1>4
  <2>2. QED
    BY <1>4, <1>5, <2>1 DEF TypeOK, IInv
<1>8. DaemonOK'
  BY <1>1, <1>2, <1>3, <1>4 DEF DaemonOK, IInv
<1>9. AudioOK(cur)'
  <2>1. SUFFICES ASSUME ~ shifted[cur] PROVE AudioOK(cur)'
    BY <1>4 DEF AudioOK
  <2>2. ud = 0
    BY <1>1, <2>1, Amounts DEF AudioOK
  <2>3. drop = 0 /\ held' = n /\ ud' = 0
    BY <1>2, <1>3, <1>4, <2>2
  <2>4. /\ DaemonOwes(cur)' = 0 /\ DaemonOwes(cur) = 0
        /\ KidOwes(cur)' = KidOwes(cur) /\ Held(cur)' = n /\ Held(cur) = 0
        /\ InHand(cur)' = InHand(cur) /\ Talking(cur)' = Talking(cur)
        /\ DaemonEnd(cur)' = DaemonEnd(cur)
    BY <1>1, <1>4, <2>3
       DEF DaemonOwes, KidOwes, Held, DaemonEnd, InHand, Talking
  <2>5. Total(cur)' = Total(cur)
    BY <1>1, <1>2, <1>4, <1>5, <2>4, Amounts DEF Total
  <2>6. QED
    BY <1>1, <1>4, <1>5, <2>1, <2>3, <2>4, <2>5, Amounts DEF AudioOK, Whole
<1>10. QED
  BY <1>1, <1>6, <1>7, <1>8, <1>9, DaemonStep

(* What was read is written back.                                          *)
LEMMA WriteBackStep == ASSUME IInv, WriteBack PROVE IInv'
<1>1. daemon = "write" /\ cur \in Calls /\ fd
  BY InCall DEF WriteBack, IInv, DaemonOK
<1> DEFINE n == held + (IF ud > 0 THEN ud ELSE 0)
<1>2. n \in Nat /\ (ud = 0 => n = held) /\ ud \in Int
  BY DEF IInv, TypeOK
<1>3. /\ Written(n, "select") /\ ud' = (IF ud > 0 THEN 0 ELSE ud) /\ held' = 0
      /\ cur' = cur /\ fd' = fd /\ stop' = stop /\ kid' = kid
      /\ toDaemon' = toDaemon /\ shifted' = shifted /\ alarms' = alarms
      /\ lost' = lost
  BY DEF WriteBack
<1> HIDE DEF n
<1>4. /\ toKid' \in [Calls -> Nat]
      /\ \A j \in Calls \ {cur} : toKid'[j] = toKid[j]
      /\ \/ toKid'[cur] = toKid[cur] + n /\ daemon' = "select"
         \/ toKid'[cur] = toKid[cur] /\ daemon' = "dead" /\ ~ EndOpen(cur)
  BY <1>1, <1>2, <1>3, WrittenAmount
<1>5. OnlyDaemon
  BY <1>3, <1>4 DEF OnlyDaemon
<1>6. TypeOK'
  BY <1>2, <1>3, <1>4 DEF TypeOK, IInv
<1>7. DaemonOK'
  BY <1>1, <1>3, <1>4 DEF DaemonOK, IInv
<1>8. AudioOK(cur)'
  <2>1. SUFFICES ASSUME ~ shifted[cur] PROVE AudioOK(cur)'
    BY <1>3 DEF AudioOK
  <2>2. ud = 0 /\ n = held /\ ud' = 0
    BY <1>1, <1>2, <1>3, <2>1, Amounts DEF AudioOK
  <2>3. /\ DaemonOwes(cur) = 0 /\ DaemonOwes(cur)' = 0
        /\ KidOwes(cur)' = KidOwes(cur) /\ Held(cur) = held /\ Held(cur)' = 0
        /\ (DaemonEnd(cur)' => DaemonEnd(cur) /\ daemon' # "dead")
        /\ InHand(cur)' \in {0, InHand(cur)}
        /\ (DaemonEnd(cur)' => InHand(cur)' = InHand(cur))
    BY <1>1, <1>3, <1>4, Amounts
       DEF DaemonOwes, KidOwes, Held, DaemonEnd, InHand
  <2>4. /\ Total(cur)' <= Total(cur) /\ Total(cur)' \in Nat /\ Total(cur) \in Nat
        /\ DaemonEnd(cur)' => Total(cur)' = Total(cur)
    BY <1>1, <1>3, <1>4, <2>2, <2>3, Amounts DEF Total
  <2>5. toKid'[cur] \in Whole
    <3>1. Total(cur) >= toKid[cur] + held
      BY <1>1, <2>3, Amounts DEF Total
    <3>2. QED
      BY <1>1, <1>4, <2>1, <2>2, <2>4, <3>1, Amounts DEF AudioOK, Whole
  <2>6. Talking(cur)' => Talking(cur) /\ DaemonEnd(cur)'
    BY <1>3, <2>3 DEF Talking
  <2>7. QED
    BY <1>1, <1>3, <2>1, <2>2, <2>3, <2>4, <2>5, <2>6, Amounts DEF AudioOK, Whole
<1>9. QED
  BY <1>1, <1>5, <1>6, <1>7, <1>8, DaemonStep

(* Closing the socket only loses audio.                                    *)
LEMMA StopStep ==
    ASSUME IInv, daemon \in {"select", "process"}, socket_stop,
           UNCHANGED <<cur, ud, stop, kid, toKid, toDaemon, lost, shifted, alarms>>
    PROVE  IInv'
<1>1. cur \in Calls
  BY InCall
<1>2. fd' = FALSE /\ held' = 0 /\ daemon' = "wait"
  BY DEF socket_stop
<1>3. OnlyDaemon /\ TypeOK' /\ DaemonOK'
  BY <1>2 DEF OnlyDaemon, TypeOK, DaemonOK, IInv
<1>4. AudioOK(cur)'
  <2>1. /\ DaemonOwes(cur) = 0 /\ DaemonOwes(cur)' = 0
        /\ KidOwes(cur)' = KidOwes(cur) /\ Held(cur)' = 0
        /\ InHand(cur)' = InHand(cur) /\ ~ DaemonEnd(cur)' /\ ~ Talking(cur)'
    BY <1>2 DEF DaemonOwes, KidOwes, Held, DaemonEnd, InHand, Talking
  <2>2. Total(cur)' <= Total(cur) /\ Total(cur)' \in Nat /\ Total(cur) \in Nat
    BY <1>1, <2>1, Amounts DEF Total
  <2>3. QED
    BY <1>1, <1>2, <2>1, <2>2, Amounts DEF AudioOK, Whole
<1>5. QED
  BY <1>1, <1>3, <1>4, DaemonStep

(* The modem hangs up or asks for another delay.                           *)
LEMMA ModemStep == ASSUME IInv, Hangup \/ Process PROVE IInv'
<1>1. cur \in Calls /\ daemon \in {"select", "process"} /\ fd
  BY InCall DEF Hangup, Process, IInv, DaemonOK
<1>2. /\ daemon' \in {"select", "write"} /\ (held # 0 => daemon' = "write")
      /\ cur' = cur /\ fd' = fd /\ held' = held /\ kid' = kid /\ toKid' = toKid
      /\ toDaemon' = toDaemon /\ lost' = lost /\ alarms' = alarms
      /\ stop' \in BOOLEAN /\ ud' \in Int
  BY CallAssumption DEF Hangup, Process, IInv, TypeOK, DaemonOK
<1>3. /\ shifted' \in [Calls -> BOOLEAN]
      /\ \A j \in Calls \ {cur} : shifted'[j] = shifted[j]
      /\ ~ shifted'[cur] => ~ shifted[cur] /\ (ud = 0 => ud' = 0)
  <2>1. CASE Hangup
    BY <2>1 DEF Hangup, IInv, TypeOK
  <2>2. CASE Process
    <3>1. shifted' = [shifted EXCEPT ![cur] = shifted[cur] \/ ud' # 0]
      BY <2>2 DEF Process
    <3>2. shifted \in [Calls -> BOOLEAN]
      BY DEF IInv, TypeOK
    <3>3. shifted'[cur] = (shifted[cur] \/ ud' # 0)
      BY <1>1, <3>1, <3>2
    <3>4. QED
      BY <1>1, <3>1, <3>2, <3>3, Zenon
  <2>3. QED
    BY <2>1, <2>2
<1>4. OnlyDaemon
  BY <1>2, <1>3 DEF OnlyDaemon
<1>5. TypeOK' /\ DaemonOK'
  BY <1>1, <1>2, <1>3 DEF TypeOK, DaemonOK, IInv
<1>6. AudioOK(cur)'
  <2>1. SUFFICES ASSUME ~ shifted'[cur] PROVE AudioOK(cur)'
    BY <1>2 DEF AudioOK
  <2>2. ~ shifted[cur] /\ AudioOK(cur) /\ ud = 0 /\ ud' = 0
    BY <1>1, <1>3, <2>1, Amounts DEF AudioOK
  <2>3. /\ DaemonOwes(cur)' = DaemonOwes(cur) /\ Held(cur)' = Held(cur)
        /\ KidOwes(cur)' = KidOwes(cur) /\ InHand(cur)' = InHand(cur)
        /\ DaemonEnd(cur)' = DaemonEnd(cur) /\ Talking(cur)' = Talking(cur)
    BY <1>1, <1>2 DEF DaemonOwes, Held, KidOwes, InHand, DaemonEnd, Talking
  <2>4. Total(cur)' = Total(cur)
    BY <1>2, <2>3 DEF Total
  <2>5. QED
    BY <1>2, <2>2, <2>3, <2>4 DEF AudioOK
<1>7. QED
  BY <1>1, <1>4, <1>5, <1>6, DaemonStep

(* A wait ends by a signal, after which nothing is said about children.    *)
LEMMA AlarmStep == ASSUME IInv, Alarm PROVE IInv'
<1>1. /\ daemon = "wait" /\ daemon' = "idle" /\ alarms' = alarms + 1
      /\ cur' = cur /\ fd' = fd /\ held' = held /\ ud' = ud /\ stop' = stop
      /\ kid' = kid /\ toKid' = toKid /\ toDaemon' = toDaemon
      /\ lost' = lost /\ shifted' = shifted
  BY DEF Alarm
<1>2. alarms' \in 0 .. MaxAlarms /\ alarms' # 0
  BY CallAssumption DEF Alarm, IInv, TypeOK
<1>3. TypeOK' /\ DaemonOK'
  BY <1>1, <1>2 DEF TypeOK, DaemonOK, IInv
<1>4. ASSUME NEW j \in Calls PROVE CallOK(j)'
  <2>1. CallOK(j) /\ ~ DaemonEnd(j) /\ ~ DaemonEnd(j)'
    BY <1>1 DEF IInv, DaemonOK, DaemonEnd
  <2>2. QED
    BY <1>1, <1>2, <2>1
       DEF CallOK, AudioOK, FreshOK, GoneOK, ReapedOK, Total, Held, InHand,
           KidOwes, DaemonOwes, Talking
<1>5. QED
  BY <1>3, <1>4 DEF IInv

(* Or it takes a child that has exited; without a signal before it, that   *)
(* is the child of the current call.                                       *)
LEMMA ReapStep == ASSUME IInv, Reap PROVE IInv'
<1>1. /\ daemon = "wait" /\ daemon' = "idle" /\ alarms' = alarms
      /\ cur' = cur /\ fd' = fd /\ held' = held /\ ud' = ud /\ stop' = stop
      /\ toKid' = toKid /\ toDaemon' = toDaemon /\ shifted' = shifted
      /\ lost' = lost
  BY DEF Reap
<1>2. PICK i \in Calls : /\ kid[i].main = "zombie"
                         /\ kid' = [kid EXCEPT ![i].main = "reaped"]
  BY DEF Reap
<1> DEFINE k == [kid[i] EXCEPT !.main = "reaped"]
<1>3. k \in KidType /\ k.main = "reaped" /\ k.media = kid[i].media
      /\ k.sip = kid[i].sip /\ k.sock = kid[i].sock /\ Ordered(k)
  BY Amounts DEF KidType, Ordered
<1>4. kid' = [kid EXCEPT ![i] = k]
  BY <1>2
<1> HIDE DEF k
<1>5. kid' \in [Calls -> KidType] /\ kid'[i] = k
      /\ \A j \in Calls \ {i} : kid'[j] = kid[j]
  BY <1>3, <1>4 DEF IInv, TypeOK
<1>6. TypeOK' /\ DaemonOK'
  BY <1>1, <1>5 DEF TypeOK, DaemonOK, IInv
<1>7. alarms = 0 => i = cur
  <2>1. FreshOK(i) /\ ReapedOK(i) /\ cur \in Nat
    BY DEF IInv, CallOK, TypeOK
  <2>2. QED
    BY <1>2, <2>1 DEF FreshOK, ReapedOK, NoKid, Calls
<1>8. ASSUME NEW j \in Calls PROVE CallOK(j)'
  <2>1. CallOK(j) /\ ~ DaemonEnd(j) /\ ~ DaemonEnd(j)'
    BY <1>1 DEF IInv, DaemonOK, DaemonEnd
  <2>2. kid'[j].media = kid[j].media /\ kid'[j].sip = kid[j].sip
        /\ (kid'[j].main = "init" <=> kid[j].main = "init")
        /\ (kid'[j] = kid[j] \/ j = i)
    BY <1>2, <1>3, <1>5
  <2>3. AudioOK(j)'
    BY <1>1, <2>1, <2>2
       DEF CallOK, AudioOK, Total, Held, InHand, KidOwes, DaemonOwes, Talking
  <2>4. GoneOK(j)' /\ Ordered(kid'[j])
    BY <1>2, <1>3, <1>5, <2>1, <2>2 DEF CallOK, GoneOK
  <2>5. FreshOK(j)'
    BY <1>1, <1>2, <2>1, <2>2 DEF CallOK, FreshOK, NoKid
  <2>6. ReapedOK(j)'
    BY <1>1, <1>3, <1>5, <1>7, <2>1, <2>2 DEF CallOK, ReapedOK
  <2>7. QED
    BY <2>3, <2>4, <2>5, <2>6 DEF CallOK
<1>9. QED
  BY <1>6, <1>8 DEF IInv

(* A new call starts with nothing under way and two frames to be written.  *)
LEMMA ForkStep == ASSUME IInv, Fork PROVE IInv'
<1>1. cur + 1 \in Calls /\ cur \in Nat
  BY CallAssumption DEF Fork, IInv, TypeOK, Calls
<1>2. PICK c \in Calls : c = cur + 1
  BY <1>1
<1> DEFINE k == [kid[c] EXCEPT !.main = "init", !.sock = TRUE]
<1>3. kid[c] = NoKid /\ toKid[c] = 0 /\ toDaemon[c] = 0 /\ lost[c] = 0
      /\ ~ shifted[c] /\ c > 0 /\ c \in 0 .. MaxCalls
  BY <1>1, <1>2 DEF IInv, CallOK, FreshOK, Calls
<1>4. k \in KidType /\ k.main = "init" /\ k.sock /\ k.media = "rest"
      /\ k.sip = "idle" /\ Ordered(k)
  <2>1. NoKid \in KidType /\ NoKid.media = "rest" /\ NoKid.sip = "idle"
        /\ ~ NoKid.destroying
    BY DEF NoKid, KidType
  <2>2. QED
    BY <1>3, <2>1 DEF KidType, Ordered
<1>5. /\ daemon = "idle" /\ cur' = c /\ kid' = [kid EXCEPT ![c] = k]
      /\ daemon' = "starting" /\ fd' = TRUE /\ stop' = FALSE
      /\ shifted' = [shifted EXCEPT ![c] = ud # 0] /\ held' = held /\ ud' = ud
      /\ toKid' = toKid /\ toDaemon' = toDaemon /\ alarms' = alarms
      /\ lost' = lost
  BY <1>2 DEF Fork
<1> HIDE DEF k
<1>6. /\ kid' \in [Calls -> KidType] /\ kid'[c] = k
      /\ \A j \in Calls \ {c} : kid'[j] = kid[j]
  BY <1>1, <1>2, <1>3, <1>4, <1>5 DEF IInv, TypeOK
<1>7. /\ shifted' \in [Calls -> BOOLEAN] /\ shifted'[c] = (ud # 0)
      /\ \A j \in Calls \ {c} : shifted'[j] = shifted[j]
  BY <1>1, <1>2, <1>5 DEF IInv, TypeOK
<1>8. held = 0 /\ ~ fd
  BY <1>5 DEF IInv, DaemonOK
<1>9. TypeOK' /\ DaemonOK'
  BY <1>1, <1>2, <1>3, <1>5, <1>6, <1>7, <1>8 DEF TypeOK, DaemonOK, IInv
<1>10. ASSUME NEW j \in Calls, j # c PROVE CallOK(j)'
  <2>1. CallOK(j) /\ ~ DaemonEnd(j) /\ ~ DaemonEnd(j)' /\ j # cur'
    BY <1>1, <1>5, <1>8, <1>10 DEF IInv, DaemonEnd
  <2>2. kid'[j] = kid[j] /\ shifted'[j] = shifted[j] /\ toKid'[j] = toKid[j]
        /\ toDaemon'[j] = toDaemon[j] /\ lost'[j] = lost[j] /\ j \in Nat
    BY <1>1, <1>5, <1>6, <1>7, <1>10 DEF Calls
  <2>3. AudioOK(j)'
    BY <1>1, <1>5, <1>8, <2>1, <2>2
       DEF CallOK, AudioOK, Total, Held, InHand, KidOwes, DaemonOwes, Talking
  <2>4. FreshOK(j)'
    BY <1>1, <1>2, <1>3, <1>5, <2>1, <2>2 DEF CallOK, FreshOK
  <2>5. GoneOK(j)' /\ Ordered(kid'[j])
    BY <2>1, <2>2 DEF CallOK, GoneOK
  <2>6. ReapedOK(j)'
    BY <1>1, <1>2, <1>3, <1>5, <2>1, <2>2 DEF CallOK, ReapedOK
  <2>7. QED
    BY <2>3, <2>4, <2>5, <2>6 DEF CallOK
<1>11. CallOK(c)'
  <2>1. FreshOK(c)' /\ ReapedOK(c)' /\ GoneOK(c)' /\ Ordered(kid'[c])
    BY <1>1, <1>2, <1>3, <1>4, <1>5, <1>6 DEF FreshOK, ReapedOK, GoneOK
  <2>2. /\ Held(c)' = 0 /\ InHand(c)' = 0 /\ KidOwes(c)' = Frame
        /\ DaemonOwes(c)' = Frame /\ toKid'[c] = 0 /\ toDaemon'[c] = 0
        /\ lost'[c] = 0
    BY <1>1, <1>3, <1>4, <1>5, <1>6, <1>8 DEF Held, InHand, KidOwes, DaemonOwes
  <2>3. Total(c)' = 2 * Frame /\ Frame \in Nat
    BY <2>2, CallAssumption DEF Total
  <2>4. ~ shifted'[c] => ud' = 0
    BY <1>5, <1>7
  <2>5. held' = 0
    BY <1>5, <1>8
  <2>6. AudioOK(c)'
    BY <2>2, <2>3, <2>4, <2>5 DEF AudioOK, Whole
  <2>7. QED
    BY <2>1, <2>6 DEF CallOK
<1>12. QED
  BY <1>9, <1>10, <1>11 DEF IInv

-----------------------------------------------------------------------------
(* Before the first call there is no audio and no child.                   *)
LEMMA InitIInv == Init => IInv
<1> SUFFICES ASSUME Init PROVE IInv
  OBVIOUS
<1>1. NoKid \in KidType
  BY DEF NoKid, KidType
<1>2. TypeOK /\ DaemonOK
  <2>1. cur \in 0 .. MaxCalls /\ alarms \in 0 .. MaxAlarms
    BY CallAssumption DEF Init
  <2>2. /\ kid \in [Calls -> KidType] /\ toKid \in [Calls -> Nat]
        /\ lost \in [Calls -> Nat] /\ toDaemon \in [Calls -> Nat] /\ shifted \in [Calls -> BOOLEAN]
    BY <1>1 DEF Init
  <2>3. /\ daemon = "idle" /\ cur = 0 /\ ~ fd /\ fd \in BOOLEAN /\ held = 0
        /\ ud = 0 /\ stop \in BOOLEAN
    BY DEF Init
  <2>4. DaemonOK
    BY <2>3 DEF DaemonOK
  <2>5. QED
    BY <2>1, <2>2, <2>3, <2>4 DEF TypeOK
<1>3. ASSUME NEW i \in Calls PROVE CallOK(i)
  <2>1. kid[i] = NoKid /\ toKid[i] = 0 /\ toDaemon[i] = 0 /\ lost[i] = 0
        /\ ~ shifted[i]
        /\ cur = 0 /\ held = 0 /\ ud = 0 /\ i > 0 /\ i \in Nat /\ ~ fd
        /\ daemon = "idle"
    BY DEF Init, Calls
  <2>2. Total(i) = 0 /\ ~ Talking(i) /\ Frame \in Nat
    BY <2>1, CallAssumption
       DEF Total, Held, InHand, KidOwes, DaemonOwes, Talking, DaemonEnd, NoKid
  <2>3. QED
    BY <2>1, <2>2
       DEF CallOK, AudioOK, FreshOK, GoneOK, ReapedOK, Ordered, Whole, NoKid
<1>4. QED
  BY <1>2, <1>3 DEF IInv

(* Every step of the daemon and of a child keeps the invariant.            *)
LEMMA NextIInv == IInv /\ [Next]_vars => IInv'
<1> SUFFICES ASSUME IInv, [Next]_vars PROVE IInv'
  OBVIOUS
<1>1. CASE \E i \in Calls : Child(i)
  BY <1>1, ChildStep
<1>2. CASE FirstWrite
  BY <1>2, FirstWriteStep
<1>3. CASE Read
  BY <1>3, ReadStep
<1>4. CASE WriteBack
  BY <1>4, WriteBackStep
<1>5. CASE ReadFails \/ ProcessStop
  BY <1>5, StopStep DEF ReadFails, ProcessStop
<1>6. CASE Hangup \/ Process
  BY <1>6, ModemStep
<1>7. CASE Alarm
  BY <1>7, AlarmStep
<1>8. CASE Reap
  BY <1>8, ReapStep
<1>9. CASE Fork
  BY <1>9, ForkStep
<1>10. CASE UNCHANGED vars
  BY <1>10
     DEF vars, IInv, TypeOK, DaemonOK, CallOK, AudioOK, FreshOK, GoneOK, ReapedOK,
         Total, Held, InHand, KidOwes, DaemonOwes, Talking, DaemonEnd
<1>11. QED
  BY <1>1, <1>2, <1>3, <1>4, <1>5, <1>6, <1>7, <1>8, <1>9, <1>10
     DEF Next, Daemon

(* The inductive invariant holds of the daemon and all its children.       *)
THEOREM CallInvariant == Spec => []IInv
BY InitIInv, NextIInv, PTL DEF Spec

(* Type correctness of daemon, sockets and children.                       *)
THEOREM CallTypeOK == Spec => []TypeOK
<1>1. IInv => TypeOK
  BY DEF IInv
<1>2. QED
  BY <1>1, CallInvariant, PTL

(* For every size of a frame: the two frames written at the start are what *)
(* circulates between modem_run and the child's media thread, less what a  *)
(* change of the media met in the bridge (socket_start, main, get_frame,   *)
(* put_frame).                                                             *)
THEOREM AudioConserved == Spec => []TwoFramesCirculate
<1>1. IInv => TwoFramesCirculate
  <2> SUFFICES ASSUME IInv, DaemonEnd(cur), daemon # "starting",
                      kid[cur].main = "up", kid[cur].sock, ~ shifted[cur]
               PROVE  toKid[cur] + toDaemon[cur] + held
                        + (IF kid[cur].media = "got" THEN Frame ELSE 0)
                        + lost[cur] = 2 * Frame
    BY DEF TwoFramesCirculate
  <2>1. cur \in Calls
    BY InCall DEF IInv, DaemonOK, DaemonEnd
  <2>2. Total(cur) = 2 * Frame
    BY <2>1, Amounts DEF AudioOK, Talking
  <2>3. QED
    BY <2>1, <2>2, Amounts DEF Total, Held, InHand, KidOwes, DaemonOwes
<1>2. QED
  BY <1>1, CallInvariant, PTL

(* For every size of a frame: get_frame finds nothing or a whole frame, so *)
(* that its short-read error means that the daemon has closed the socket.  *)
THEOREM FramesWhole == Spec => []WholeFrames
<1>1. IInv => WholeFrames
  <2> SUFFICES ASSUME IInv, NEW i \in Calls, kid[i].media = "read", ~ shifted[i]
               PROVE  toKid[i] = 0 \/ toKid[i] >= Frame
    BY DEF WholeFrames
  <2>1. QED
    BY Amounts DEF AudioOK, Whole
<1>2. QED
  BY <1>1, CallInvariant, PTL

(* At most one thread of a child destroys pjsua (error_exit,               *)
(* on_call_state): the bridge comes between them, not destroying.          *)
THEOREM ThreadsOrdered == Spec => []OneDestroys
<1>1. IInv => OneDestroys
  BY DEF IInv, CallOK, Ordered, OneDestroys
<1>2. QED
  BY <1>1, CallInvariant, PTL

(* For every number of calls: as long as no signal interrupted a wait, the *)
(* daemon can dial only when all children are gone (socket_stop).          *)
THEOREM ChildrenWaitedFor == Spec => []WaitedUnlessAlarmed
<1>1. IInv => WaitedUnlessAlarmed
  <2> SUFFICES ASSUME IInv, alarms = 0, daemon = "idle", NEW i \in Calls
               PROVE  kid[i].main \in {"none", "reaped"}
    BY DEF WaitedUnlessAlarmed, WaitedForChild
  <2>1. FreshOK(i) /\ ReapedOK(i) /\ cur \in Nat
    BY DEF IInv, CallOK, TypeOK
  <2>2. QED
    BY <2>1 DEF FreshOK, ReapedOK, NoKid, Calls
<1>2. QED
  BY <1>1, CallInvariant, PTL

=============================================================================
