------------------------------- MODULE Input -------------------------------
(***************************************************************************)
(* Input of the recovery: the event devices and their hot plug, the        *)
(* translation of their events into touches and virtual keys with a state  *)
(* that all devices share (minuitwrp/events.cpp), and the handler that     *)
(* turns them into what a page is told (gui.cpp, InputHandler).            *)
(*                                                                         *)
(* A device reports a packet of events at once; the GUI thread reads them  *)
(* one by one, from whichever device has some.  One finger, no chords.     *)
(***************************************************************************)
EXTENDS Naturals, Sequences, FiniteSets

CONSTANTS
    Screens,    \* touch screens
    Style,      \* what ends a touch: a tracking id of -1, a pressure of 0, or nothing
    Keyboards,  \* devices with keys
    Mice,
    Unwanted,   \* devices whose name is on the blacklist
    Pluggable,  \* devices that come and go
    MaxDevices, \* the length of evs
    Areas,      \* parts of the screen: a virtual key, an object with an action, no object
    QueueSize,  \* the events a device keeps for its reader
    MaxPackets, \* bound: packets of the devices
    MaxPlugs    \* bound: devices that come or go

Inputs == Screens \cup Keyboards \cup Mice \cup Unwanted

ASSUME InputAssumption ==
    /\ Style \in [Screens -> {"tracking", "pressure", "legacy"}]
    /\ Pluggable \subseteq Inputs /\ Areas \subseteq {"vkey", "action", "idle"}
    /\ {MaxDevices, QueueSize, MaxPackets, MaxPlugs} \subseteq Nat /\ QueueSize > 1
    /\ Screens \cap (Keyboards \cup Mice) = {}

VARIABLES
    plugged,   \* the nodes of /dev/input
    changed,   \* /dev/input is newer than lastInputMTime
    fds,       \* ev_fds
    queue,     \* the events each device keeps
    contact,   \* whether the finger is on each screen
    pressed,   \* keys that are down, of keyboards and mice
    ignored,   \* evs[].ignored
    synced,    \* synced, of evs[].p or mt_p
    pos,       \* the position itself
    downX,     \* a touch has begun: downX is not -1
    discard,
    lastWasSyn,
    releaseOnSyn, \* touchReleaseOnNextSynReport
    useTracking,  \* use_tracking_id_negative_as_touch_release
    touch, key,   \* touch_status, key_status
    state,     \* AS_IN_ACTION_AREA or AS_NO_ACTION
    at,        \* where the last touch was
    kbDown,    \* the keys that HardwareKeyboard takes for pressed
    packets, plugs,
    told,      \* history: this step told the page of the end of a touch
    sensed,    \* history: by the events read so far the finger is on the screen
    lost       \* history: events were lost while something was down

kernel == <<plugged, changed, contact, pressed, packets, plugs>>
shared == <<downX, discard, lastWasSyn, releaseOnSyn, useTracking>>
handler == <<touch, key, state, at, kbDown>>
inputVars == <<plugged, changed, fds, queue, contact, pressed, ignored, synced, pos, downX, discard,
          lastWasSyn, releaseOnSyn, useTracking, touch, key, state, at, kbDown, packets, plugs,
          told, sensed, lost>>

-----------------------------------------------------------------------------
(* The devices                                                             *)
Move(type, a) == [type |-> type, code |-> "none", at |-> a]
Ends(code) == [type |-> "end", code |-> code, at |-> "none"]
Key(code, value) == [type |-> "key", code |-> code, at |-> value]
Syn(code) == [type |-> "syn", code |-> code, at |-> "none"]

(* The packets of a finger that is put down or moved to a, and lifted.  An *)
(* event stands for both axes, and for a pressure or an id before them.    *)
TouchPacket(s, a) ==
    IF Style[s] = "legacy" THEN <<Move("abs", a), Syn("mt"), Syn("report")>>
    ELSE <<Move("abs", a), Syn("report")>>
LiftPacket(s) ==
    CASE Style[s] = "tracking" -> <<Ends("tracking-1"), Syn("report")>>
      [] Style[s] = "pressure" -> <<Ends("pressure0"), Syn("report")>>
      [] Style[s] = "legacy" -> <<Syn("mt"), Syn("report")>>

(* evdev: a reader that is too slow loses what it has not read. *)
Fits(d, packet) == Len(queue[d]) + Len(packet) <= QueueSize
Send(d, packet) ==
    /\ packets < MaxPackets /\ packets' = packets + 1
    /\ d \in plugged
    /\ queue' = IF d \notin {fds[n] : n \in 1..Len(fds)} THEN queue
                ELSE [queue EXCEPT ![d] = IF Fits(d, packet) THEN @ \o packet
                                          ELSE <<Syn("dropped"), Syn("report")>>]
    /\ lost' = (lost \/ queue'[d] # queue[d] \o packet)
    /\ told' = "none"
    /\ UNCHANGED <<plugged, changed, fds, ignored, synced, pos, shared, handler, plugs, sensed>>

Touch == \E s \in Screens, a \in Areas :
            Send(s, TouchPacket(s, a)) /\ contact' = contact \cup {s} /\ UNCHANGED pressed
Lift == \E s \in contact :
            Send(s, LiftPacket(s)) /\ contact' = contact \ {s} /\ UNCHANGED pressed
Keys == (Mice \X {"left"}) \cup (Keyboards \X {"volume"})
Press == \E p \in Keys \ pressed :
            /\ Send(p[1], <<Key(p[2], "down"), Syn("report")>>)
            /\ pressed' = pressed \cup {p} /\ UNCHANGED contact
Release == \E p \in pressed :
            /\ Send(p[1], <<Key(p[2], "up"), Syn("report")>>)
            /\ pressed' = pressed \ {p} /\ UNCHANGED contact
MoveMouse == \E m \in Mice : Send(m, <<Move("rel", "none"), Syn("report")>>) /\ UNCHANGED <<contact, pressed>>
Shake == \E d \in Unwanted : Send(d, <<Move("abs", "idle"), Syn("report")>>) /\ UNCHANGED <<contact, pressed>>

(* A time of one second hides a change that follows another. *)
Plug ==
    /\ plugs < MaxPlugs /\ plugs' = plugs + 1
    /\ \E d \in Pluggable :
         IF d \in plugged
         THEN /\ plugged' = plugged \ {d} /\ contact' = contact \ {d}
              /\ pressed' = {p \in pressed : p[1] # d}
              /\ queue' = [queue EXCEPT ![d] = <<>>] /\ lost' = TRUE
         ELSE /\ plugged' = plugged \cup {d}
              /\ UNCHANGED <<contact, pressed, queue, lost>>
    /\ changed' \in {TRUE, changed} /\ told' = "none"
    /\ UNCHANGED <<fds, ignored, synced, pos, shared, handler, packets, sensed>>

-----------------------------------------------------------------------------
(* events.cpp: opening the devices                                         *)
Listings == {f \in UNION {[1..n -> plugged] : n \in 0..MaxDevices} :
               /\ \A a, b \in DOMAIN f : f[a] = f[b] => a = b
               /\ Len(f) = MaxDevices \/ plugged \subseteq {f[n] : n \in DOMAIN f}}

(* vk_init: a device whose name is on the blacklist is ignored from now    *)
(* on; whoever has that place later still is.                              *)
EvInit ==
    /\ fds' \in Listings
    /\ ignored' = [n \in DOMAIN ignored |-> ignored[n] \/ (n <= Len(fds') /\ fds'[n] \in Unwanted)]
    /\ synced' = [n \in DOMAIN synced |-> IF n <= Len(fds') THEN FALSE ELSE synced[n]]
    /\ changed' = FALSE

(* ev_get, every two seconds: ev_exit and ev_init. *)
Reload ==
    /\ changed /\ EvInit
    /\ queue' = [d \in Inputs |-> <<>>]
    /\ lost' = TRUE /\ told' = "none"
    /\ UNCHANGED <<plugged, contact, pressed, pos, shared, handler, packets, plugs, sensed>>

-----------------------------------------------------------------------------
(* gui.cpp: the handler.  An event changes what handler, told have.        *)
Quiet == told' = "none"

doTouchStart(a) ==
    /\ Quiet /\ at' = a /\ touch' = "hold"
    /\ state' = IF a = "action" THEN "in_action" ELSE "no_action"

process_EV_ABS_up ==
    /\ told' = IF state = "in_action" THEN "release" ELSE "none"
    /\ touch' = "none"
    /\ UNCHANGED <<key, state, at, kbDown>>

process_EV_ABS(a) ==
    /\ IF touch = "none" THEN doTouchStart(a)
       ELSE Quiet /\ at' = a /\ UNCHANGED <<touch, state>>
    /\ UNCHANGED <<key, kbDown>>

process_EV_REL ==
    /\ Quiet
    /\ IF touch /= "none" THEN key' = "none" /\ at' \in Areas ELSE UNCHANGED <<key, at>>
    /\ UNCHANGED <<touch, state, kbDown>>

(* The left button is a touch at the cursor. *)
LeftButton(value) ==
    /\ IF value = "down" THEN \E a \in Areas : doTouchStart(a)
       ELSE /\ touch' = "none"
            /\ told' = IF touch /= "none" /\ state = "in_action" THEN "release" ELSE "none"
            /\ UNCHANGED state
            /\ IF told' = "release" THEN at' \in Areas ELSE UNCHANGED at
    /\ UNCHANGED <<key, kbDown>>

process_EV_KEY(code, value) ==
    IF code = "left" THEN LeftButton(value)
    ELSE /\ Quiet /\ UNCHANGED <<state, at>>
         /\ kbDown' = IF value = "down" THEN kbDown \cup {code} ELSE kbDown \ {code}
         /\ touch' = "none" /\ key' \in IF value = "down" THEN {"pressed", "none"} ELSE {"none"}

NoEvent == Quiet /\ UNCHANGED handler

-----------------------------------------------------------------------------
(* events.cpp: vk_modify, for the device at n                              *)

(* Mutant: two reports end a touch whatever the screen. *)
LiftedBySyn == lastWasSyn \/ releaseOnSyn /= 0

(* A finger is taken for lifted by two reports with nothing in between or  *)
(* a pressure of 0, until a tracking id of -1 was seen once.               *)
Lifted == IF useTracking THEN releaseOnSyn = 2 ELSE lastWasSyn \/ releaseOnSyn = 1

(* Mutant: the touches after a virtual key are still discarded. *)
ReportLiftDiscarding ==
    /\ releaseOnSyn' = 0 /\ downX' = FALSE /\ UNCHANGED discard
    /\ IF discard THEN process_EV_KEY("vkey", "up") ELSE process_EV_ABS_up
    /\ UNCHANGED <<lastWasSyn, useTracking, synced>>

ReportLift ==
    /\ releaseOnSyn' = 0 /\ downX' = FALSE /\ discard' = FALSE
    /\ IF discard THEN process_EV_KEY("vkey", "up") ELSE process_EV_ABS_up
    /\ UNCHANGED <<lastWasSyn, useTracking, synced>>

(* A touch that begins on a virtual key is that key until it ends. *)
ReportTouch(n) ==
    LET a == pos[n]
    IN /\ lastWasSyn' = TRUE
       /\ synced' = [synced EXCEPT ![n] = FALSE]
       /\ IF ~synced[n] \/ a = "origin" THEN NoEvent /\ UNCHANGED <<downX, discard>>
          ELSE IF ~downX /\ a = "vkey"
          THEN process_EV_KEY("vkey", "down") /\ downX' = TRUE /\ discard' = TRUE
          ELSE IF discard THEN NoEvent /\ UNCHANGED <<downX, discard>>
          ELSE process_EV_ABS(a) /\ downX' = TRUE /\ UNCHANGED discard
       /\ UNCHANGED <<releaseOnSyn, useTracking>>

Report(n) ==
    /\ IF Lifted THEN ReportLift ELSE ReportTouch(n)
    /\ UNCHANGED pos

(* The other events of a touch are kept for the report. *)
Position(n, a) ==
    /\ synced' = [synced EXCEPT ![n] = TRUE] /\ pos' = [pos EXCEPT ![n] = a]
    /\ UNCHANGED <<releaseOnSyn, useTracking>>

EndOfTouch(n, code) ==
    /\ pos' = [pos EXCEPT ![n] = "origin"]
    /\ releaseOnSyn' = IF code = "tracking-1" THEN 2 ELSE 1
    /\ useTracking' = (useTracking \/ code = "tracking-1")
    /\ UNCHANGED synced

Axis(n, e) ==
    /\ IF e.type = "end" THEN EndOfTouch(n, e.code) ELSE Position(n, e.at)
    /\ lastWasSyn' = FALSE /\ UNCHANGED <<downX, discard>>
    /\ NoEvent

vk_modify(n, e) ==
    IF ignored[n] THEN NoEvent /\ UNCHANGED <<synced, pos, shared>>
    ELSE CASE e.type = "key" -> process_EV_KEY(e.code, e.at) /\ UNCHANGED <<synced, pos, shared>>
           [] e.type \in {"abs", "end"} -> Axis(n, e)
           [] e.type = "rel" ->
                /\ process_EV_REL /\ lastWasSyn' = FALSE
                /\ UNCHANGED <<synced, pos, downX, discard, releaseOnSyn, useTracking>>
           [] e.type = "syn" /\ e.code = "report" -> Report(n)
           [] e.type = "syn" /\ e.code = "mt" -> NoEvent /\ UNCHANGED <<synced, pos, shared>>
           [] e.type = "syn" /\ e.code = "dropped" ->
                /\ NoEvent /\ lastWasSyn' = FALSE
                /\ UNCHANGED <<synced, pos, downX, discard, releaseOnSyn, useTracking>>

AllUp == contact = {} /\ pressed = {} /\ \A d \in Inputs : queue[d] = <<>>
Held == touch /= "none" \/ key /= "none" \/ discard \/ kbDown /= {} \/ releaseOnSyn /= 0
Sense(n, e) ==
    IF ignored[n] THEN sensed
    ELSE IF e.type = "abs" THEN TRUE
    ELSE IF e.type = "end" THEN FALSE
    ELSE sensed

(* One event of ev_get and what processInput makes of it. *)
ProcessInput ==
    \E n \in 1..Len(fds) :
       /\ queue[fds[n]] /= <<>>
       /\ vk_modify(n, Head(queue[fds[n]]))
       /\ sensed' = Sense(n, Head(queue[fds[n]]))
       /\ queue' = [queue EXCEPT ![fds[n]] = Tail(@)]
       /\ UNCHANGED <<kernel, fds, ignored>>
       /\ lost' = (lost /\ (Held' \/ ~AllUp'))

(* No event for a while; what is held long enough is repeated. *)
processHoldAndRepeat ==
    /\ \/ touch = "hold" /\ touch' = "repeat" /\ Quiet /\ UNCHANGED key
       \/ touch = "repeat" /\ Quiet /\ UNCHANGED <<touch, key>>
       \/ touch = "none" /\ key = "pressed" /\ key' = "repeat" /\ Quiet /\ UNCHANGED touch
       \/ Quiet /\ UNCHANGED <<touch, key>>
    /\ UNCHANGED <<kernel, fds, queue, ignored, synced, pos, shared, state, at, kbDown, sensed, lost>>

(* Once for a frame. *)
handleDrag ==
    /\ touch /= "none" /\ Quiet
    /\ state' = IF at = "action" THEN "in_action" ELSE "no_action"
    /\ UNCHANGED <<kernel, fds, queue, ignored, synced, pos, shared, touch, key, at, kbDown, sensed, lost>>

-----------------------------------------------------------------------------
InputInit ==
    /\ plugged = Inputs \ Pluggable /\ changed = FALSE
    /\ fds \in Listings
    /\ ignored = [n \in 1..MaxDevices |-> n <= Len(fds) /\ fds[n] \in Unwanted]
    /\ synced = [n \in 1..MaxDevices |-> FALSE]
    /\ pos = [n \in 1..MaxDevices |-> "origin"]
    /\ queue = [d \in Inputs |-> <<>>]
    /\ contact = {} /\ pressed = {}
    /\ downX = FALSE /\ discard = FALSE /\ lastWasSyn = FALSE /\ releaseOnSyn = 0 /\ useTracking = FALSE
    /\ touch = "none" /\ key = "none" /\ state = "no_action" /\ at = "origin" /\ kbDown = {}
    /\ packets = 0 /\ plugs = 0 /\ told = "none" /\ sensed = FALSE /\ lost = FALSE

InputNext ==
    \/ Touch \/ Lift \/ Press \/ Release \/ MoveMouse \/ Shake \/ Plug
    \/ Reload \/ ProcessInput \/ processHoldAndRepeat \/ handleDrag

InputSpec == InputInit /\ [][InputNext]_inputVars

-----------------------------------------------------------------------------
Event == [type : {"abs", "end", "rel", "key", "syn"},
          code : {"none", "tracking-1", "pressure0", "left", "volume", "report", "mt", "dropped"},
          at : Areas \cup {"none", "idle", "down", "up"}]

InputTypeOK ==
    /\ plugged \subseteq Inputs /\ contact \subseteq Screens /\ pressed \subseteq Keys
    /\ fds \in Seq(Inputs) /\ Len(fds) <= MaxDevices
    /\ queue \in [Inputs -> Seq(Event)] /\ \A d \in Inputs : Len(queue[d]) <= QueueSize
    /\ ignored \in [1..MaxDevices -> BOOLEAN] /\ synced \in [1..MaxDevices -> BOOLEAN]
    /\ pos \in [1..MaxDevices -> Areas \cup {"origin"}]
    /\ {changed, downX, discard, lastWasSyn, useTracking, sensed, lost} \subseteq BOOLEAN
    /\ releaseOnSyn \in 0..2
    /\ touch \in {"none", "hold", "repeat"} /\ key \in {"none", "pressed", "repeat"}
    /\ state \in {"in_action", "no_action"} /\ at \in Areas \cup {"origin"}
    /\ kbDown \subseteq {"volume", "vkey"}
    /\ packets \in 0..MaxPackets /\ plugs \in 0..MaxPlugs

(* Once the fingers and keys are up and all events are read nothing is     *)
(* held: no touch or key goes on repeating, no virtual key is down, the    *)
(* next touch is not discarded, and no end of a touch waits for a report   *)
(* that would end the next.  Events that were lost (a device unplugged, a  *)
(* reload, a queue that ran over) may leave something (vk_modify,          *)
(* InputHandler).                                                          *)
NothingStuck == AllUp /\ ~lost => ~Held

(* A left button that goes up is read in this step. *)
LeftUp == \E n \in 1..Len(fds) : /\ queue'[fds[n]] /= queue[fds[n]]
                                 /\ Head(queue[fds[n]]) = Key("left", "up")

(* On a screen that has shown tracking ids an object under the finger is   *)
(* told of a release, on which it acts, only once the finger is up: by no  *)
(* report of another device, no key, no wait and no scan of the devices,   *)
(* whatever of them came between.  The one exception is the left button of *)
(* a mouse, whose touch is the finger's: it releases that, too.  A volume  *)
(* key also ends the touch, but without telling the object (vk_modify,     *)
(* process_EV_ABS, process_EV_KEY).                                        *)
ReleaseIsLift ==
    [][told' = "release" /\ useTracking /\ ~lost => ~sensed \/ LeftUp]_inputVars
=============================================================================
