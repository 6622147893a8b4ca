---------------------------- MODULE HidKeyboard ----------------------------
(***************************************************************************)
(* The touch keyboard of wt32-sc01-plus (main.cpp): the LVGL task puts the *)
(* key of a touched button in a queue, usb_hid_task sends an idle, a press *)
(* and a release report for it to a USB host that comes, sleeps and goes.  *)
(*                                                                         *)
(* TinyUSB and the host are external: a report waits in the endpoint until *)
(* the host polls it; a host that has lost the device holds no key of it.  *)
(* Touches are numbered, and a key is named by the touch that chose it.    *)
(***************************************************************************)
EXTENDS Naturals, Sequences

CONSTANTS
    kUsbHidQueueLength,
    MaxTouches          \* bound: the number of touches

ASSUME HidAssumption == kUsbHidQueueLength \in Nat \ {0} /\ MaxTouches \in Nat

VARIABLES
    s_usb_key_queue,
    touches,        \* bound counter: the number of the last touch
    pc, keycode,    \* usb_hid_task
    trying,         \* it has seen that a host is there
    bus,            \* the host: "unplugged", "suspended" or "mounted"
    endpoint,       \* the report that waits to be polled, if any
    held,           \* the key that the host takes as held down
    typed           \* history: the last key that the host has seen

task == <<pc, keycode, trying>>
host == <<bus, endpoint, held, typed>>
vars == <<s_usb_key_queue, touches, task, host>>

Key == 1..MaxTouches
Idle == 0       \* the report without a key, and no key held

Init ==
    /\ s_usb_key_queue = <<>> /\ touches = 0
    /\ pc = "receive" /\ keycode = Idle /\ trying = FALSE
    /\ bus = "unplugged" /\ endpoint = <<>>
    /\ held = Idle /\ typed = Idle

-----------------------------------------------------------------------------
\* Mutant: at the head of the queue.
QueueAtFront ==
    /\ touches < MaxTouches
    /\ touches' = touches + 1
    /\ s_usb_key_queue' = IF Len(s_usb_key_queue) < kUsbHidQueueLength
                          THEN <<touches'>> \o s_usb_key_queue ELSE s_usb_key_queue
    /\ UNCHANGED <<task, host>>

\* button_event_cb: a key that finds the queue full is dropped.
queue_usb_keypress ==
    /\ touches < MaxTouches
    /\ touches' = touches + 1
    /\ s_usb_key_queue' = IF Len(s_usb_key_queue) < kUsbHidQueueLength
                          THEN Append(s_usb_key_queue, touches') ELSE s_usb_key_queue
    /\ UNCHANGED <<task, host>>

-----------------------------------------------------------------------------
(* usb_hid_task                                                            *)

tud_mounted == bus # "unplugged"
tud_hid_ready == bus = "mounted" /\ endpoint = <<>>

Goto(at) == pc' = at /\ UNCHANGED <<s_usb_key_queue, touches, keycode, bus, held, typed>>

Receive ==
    /\ pc = "receive" /\ s_usb_key_queue # <<>>
    /\ keycode' = Head(s_usb_key_queue)
    /\ s_usb_key_queue' = Tail(s_usb_key_queue)
    /\ pc' = "check"
    /\ UNCHANGED <<touches, trying, host>>

\* Without a host the key is dropped.
CheckMounted ==
    /\ pc = "check"
    /\ Goto(IF tud_mounted THEN "idle" ELSE "receive")
    /\ UNCHANGED <<trying, endpoint>>

Report(stage) == IF stage = "press" THEN keycode ELSE Idle
After(stage) == CASE stage = "idle" -> "press" [] stage = "press" -> "delay" [] stage = "release" -> "receive"

\* Mutant: one attempt.
SendOnce(stage) ==
    \/ /\ pc = stage /\ ~trying
       /\ trying' = tud_mounted
       /\ Goto(IF tud_mounted THEN stage ELSE "receive")
       /\ UNCHANGED endpoint
    \/ /\ pc = stage /\ trying
       /\ trying' = FALSE
       /\ endpoint' = IF tud_hid_ready THEN <<Report(stage)>> ELSE endpoint
       /\ Goto(After(stage))

\* Try again every 2 ms until TinyUSB takes the report; without a host the rest
\* of the sequence is left out.
send_keyboard_report(stage) ==
    \/ /\ pc = stage /\ ~trying
       /\ trying' = tud_mounted
       /\ Goto(IF tud_mounted THEN stage ELSE "receive")
       /\ UNCHANGED endpoint
    \/ /\ pc = stage /\ trying
       /\ trying' = FALSE
       /\ endpoint' = IF tud_hid_ready THEN <<Report(stage)>> ELSE endpoint
       /\ Goto(IF tud_hid_ready THEN After(stage) ELSE stage)

ReleaseDelay ==
    /\ pc = "delay"
    /\ Goto("release")
    /\ UNCHANGED <<trying, endpoint>>

usb_hid_task ==
    \/ Receive \/ CheckMounted \/ ReleaseDelay
    \/ \E stage \in {"idle", "press", "release"} : send_keyboard_report(stage)

-----------------------------------------------------------------------------
(* The host.                                                               *)

Poll ==
    /\ bus = "mounted" /\ endpoint # <<>>
    /\ held' = Head(endpoint)
    /\ typed' = IF held' = Idle THEN typed ELSE held'
    /\ endpoint' = <<>>
    /\ UNCHANGED <<s_usb_key_queue, touches, task, bus>>

\* Enumeration, sleep and wake-up.
Change(from, to) ==
    /\ bus = from
    /\ bus' = to
    /\ UNCHANGED <<s_usb_key_queue, touches, task, endpoint, held, typed>>

Unplug ==
    /\ bus # "unplugged"
    /\ bus' = "unplugged" /\ endpoint' = <<>> /\ held' = Idle
    /\ UNCHANGED <<s_usb_key_queue, touches, task, typed>>

Next ==
    \/ queue_usb_keypress
    \/ usb_hid_task
    \/ Poll \/ Unplug
    \/ Change("unplugged", "mounted") \/ Change("mounted", "suspended") \/ Change("suspended", "mounted")

\* The task is scheduled and a host that is awake polls; nobody has to touch
\* the screen, to plug the cable or to wake the host.
Spec == Init /\ [][Next]_vars /\ WF_vars(usb_hid_task) /\ WF_vars(Poll)

-----------------------------------------------------------------------------
\* The host sees each touch at most once and in their order, and only when it
\* holds no key: two touches of the same button are two presses for it.  Neither
\* a full queue nor a host that goes and comes in the middle of a key, with or
\* without reports in the endpoint, changes that.
PressesApart == [][held' \notin {held, Idle} => held = Idle /\ held' > typed]_vars

\* worklog.md: a press and a release for each key.  A key that is being sent is
\* pressed, and a key that is held is released, unless the host sleeps or goes.
CleanPairs == \A k \in Key :
    /\ (pc = "idle" /\ keycode = k) ~> (held = k \/ bus # "mounted")
    /\ held = k ~> (held # k \/ bus # "mounted")
=============================================================================
