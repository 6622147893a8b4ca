------------------------ MODULE HidKeyboardProofs ------------------------
(***************************************************************************)
(* PressesApart for every queue length and number of touches.              *)
(*                                                                         *)
(* It rests on where a press report can be: it enters the endpoint only    *)
(* when the idle report before it has left it, so that no key is held; it  *)
(* has left the endpoint, polled or lost, before the next key is received. *)
(***************************************************************************)
EXTENDS HidKeyboard, TLAPS

Stages == {"receive", "check", "idle", "press", "delay", "release"}

TypeInv ==
    /\ s_usb_key_queue \in Seq(Key) /\ touches \in 0..MaxTouches
    /\ pc \in Stages /\ keycode \in 0..MaxTouches /\ trying \in BOOLEAN
    /\ bus \in {"unplugged", "suspended", "mounted"}
    /\ endpoint \in {<<>>} \cup {<<r>> : r \in 0..MaxTouches}
    /\ held \in 0..MaxTouches /\ typed \in 0..MaxTouches

\* The keys on their way are in the order of their touches.
InOrder ==
    /\ keycode <= touches
    /\ \A i \in DOMAIN s_usb_key_queue :
          s_usb_key_queue[i] > keycode /\ s_usb_key_queue[i] <= touches
    /\ \A i, j \in DOMAIN s_usb_key_queue : i < j => s_usb_key_queue[i] < s_usb_key_queue[j]

\* The key in the task's hand is newer than what has been typed until its press
\* report is in the endpoint.
Unseen ==
    /\ typed <= keycode
    /\ pc \in {"check", "idle", "press"} => typed < keycode

\* Without a host the endpoint is empty; a press in it is the one of this key,
\* and when it was put there no key was held.
PressPending ==
    /\ bus = "unplugged" => endpoint = <<>>
    /\ (endpoint # <<>> /\ endpoint[1] # Idle) =>
          /\ pc \in {"delay", "release"} /\ endpoint[1] = keycode
          /\ held = Idle /\ typed < keycode

\* Between the idle report and the press the key before it is not held, or the
\* idle report has not been polled.
ReleasedBefore == (pc = "press" /\ endpoint = <<>>) => held = Idle

IInv == TypeInv /\ InOrder /\ Unseen /\ PressPending /\ ReleasedBefore

-----------------------------------------------------------------------------
\* Start-up: nothing is queued, sent or held.
LEMMA IInvInit == Init => IInv
<1> SUFFICES ASSUME Init PROVE IInv
  OBVIOUS
<1>1. s_usb_key_queue \in Seq(Key) /\ DOMAIN s_usb_key_queue = {}
  BY DEF Init
<1>2. TypeInv
  <2>1. 0 \in 0..MaxTouches
    BY HidAssumption
  <2>2. QED
    BY <1>1, <2>1, Zenon DEF Init, TypeInv, Stages, Idle
<1>3. InOrder /\ Unseen /\ PressPending /\ ReleasedBefore
  BY <1>1 DEF Init, InOrder, Unseen, PressPending, ReleasedBefore, Idle
<1>4. QED
  BY <1>2, <1>3 DEF IInv

\* A touch: its number is above all that is on its way.
LEMMA TouchKeeps == IInv /\ queue_usb_keypress => IInv'
<1> SUFFICES ASSUME IInv, queue_usb_keypress PROVE IInv'
  OBVIOUS
<1> USE HidAssumption
<1>1. touches' = touches + 1 /\ touches' \in Key
  BY DEF IInv, TypeInv, queue_usb_keypress, Key
<1>2. TypeInv'
  <2>1. s_usb_key_queue' \in Seq(Key)
    BY <1>1 DEF IInv, TypeInv, queue_usb_keypress
  <2>2. touches' \in 0..MaxTouches
    BY <1>1 DEF Key
  <2>3. QED
    BY <2>1, <2>2 DEF IInv, TypeInv, queue_usb_keypress, task, host
<1>3. InOrder'
  <2>1. CASE s_usb_key_queue' = s_usb_key_queue
    BY <1>1, <2>1 DEF IInv, TypeInv, InOrder, queue_usb_keypress, task, Key
  <2>2. CASE s_usb_key_queue' = Append(s_usb_key_queue, touches')
    BY <1>1, <2>2 DEF IInv, TypeInv, InOrder, queue_usb_keypress, task, Key
  <2>3. QED
    BY <2>1, <2>2 DEF queue_usb_keypress
<1>4. (Unseen /\ PressPending /\ ReleasedBefore)'
  BY DEF IInv, queue_usb_keypress, task, host, Unseen, PressPending, ReleasedBefore
<1>5. QED
  BY <1>2, <1>3, <1>4 DEF IInv

\* The next key: the reports of the key before it have left the endpoint, or
\* only the release is there.
LEMMA ReceiveKeeps == IInv /\ Receive => IInv'
<1> SUFFICES ASSUME IInv, Receive PROVE IInv'
  OBVIOUS
<1> USE HidAssumption
<1>1. /\ Head(s_usb_key_queue) = s_usb_key_queue[1] /\ 1 \in DOMAIN s_usb_key_queue
      /\ s_usb_key_queue[1] \in Key
  BY DEF IInv, TypeInv, Receive
<1>2. /\ Tail(s_usb_key_queue) \in Seq(Key)
      /\ \A i \in DOMAIN Tail(s_usb_key_queue) :
            i + 1 \in DOMAIN s_usb_key_queue /\ Tail(s_usb_key_queue)[i] = s_usb_key_queue[i + 1]
            /\ i \in Nat \ {0}
  BY DEF IInv, TypeInv, Receive
<1>3. TypeInv'
  BY <1>1, <1>2 DEF IInv, TypeInv, Receive, Stages, host, Key
<1>4. keycode < keycode' /\ keycode' <= touches'
  BY <1>1 DEF IInv, InOrder, Receive
<1>5. InOrder'
  <2>1. \A i \in DOMAIN s_usb_key_queue' : s_usb_key_queue'[i] > keycode' /\ s_usb_key_queue'[i] <= touches'
    BY <1>1, <1>2 DEF IInv, InOrder, Receive
  <2>2. \A i, j \in DOMAIN s_usb_key_queue' : i < j => s_usb_key_queue'[i] < s_usb_key_queue'[j]
    BY <1>2 DEF IInv, InOrder, Receive
  <2>3. QED
    BY <1>4, <2>1, <2>2 DEF InOrder
<1>6. (Unseen /\ PressPending /\ ReleasedBefore)'
  BY <1>4 DEF IInv, TypeInv, Receive, host, Unseen, PressPending, ReleasedBefore, Key, Stages
<1>7. QED
  BY <1>3, <1>5, <1>6 DEF IInv

\* One attempt at a report: the press is sent only into an endpoint that the idle
\* report before it has left.
LEMMA ReportKeeps ==
  ASSUME NEW stage \in {"idle", "press", "release"}, IInv, send_keyboard_report(stage)
  PROVE  IInv'
<1>1. UNCHANGED <<s_usb_key_queue, touches, keycode, bus, held, typed>> /\ pc = stage
  BY DEF send_keyboard_report, Goto
<1>2. InOrder'
  BY <1>1 DEF IInv, InOrder
<1>3. CASE ~trying
  <2>1. /\ endpoint' = endpoint /\ trying' \in BOOLEAN
        /\ pc' = pc \/ (pc' = "receive" /\ bus = "unplugged")
    BY <1>1, <1>3 DEF send_keyboard_report, Goto, tud_mounted
  <2>2. TypeInv'
    BY <1>1, <2>1 DEF IInv, TypeInv, Stages
  <2>3. (Unseen /\ PressPending /\ ReleasedBefore)'
    BY <1>1, <2>1 DEF IInv, Unseen, PressPending, ReleasedBefore
  <2>4. QED
    BY <1>2, <2>2, <2>3 DEF IInv
<1>4. CASE trying /\ ~tud_hid_ready
  <2>1. endpoint' = endpoint /\ trying' = FALSE /\ pc' = pc
    BY <1>1, <1>4 DEF send_keyboard_report, Goto
  <2>2. QED
    BY <1>1, <1>2, <2>1 DEF IInv, TypeInv, Unseen, PressPending, ReleasedBefore
<1>5. CASE trying /\ tud_hid_ready
  <2>1. /\ endpoint = <<>> /\ bus = "mounted" /\ trying' = FALSE
        /\ endpoint' = <<Report(stage)>> /\ pc' = After(stage)
    BY <1>1, <1>5 DEF send_keyboard_report, Goto, tud_hid_ready
  <2>2. Report(stage) \in 0..MaxTouches /\ After(stage) \in Stages
    BY HidAssumption DEF Report, After, Stages, Idle, IInv, TypeInv
  <2>3. TypeInv'
    BY <1>1, <2>1, <2>2 DEF IInv, TypeInv
  <2>4. endpoint' # <<>> /\ endpoint'[1] = Report(stage)
    BY <2>1
  <2>5. Unseen'
    BY <1>1, <2>1 DEF IInv, Unseen, After
  <2>6. (PressPending /\ ReleasedBefore)'
    BY <1>1, <2>1, <2>4 DEF IInv, Unseen, PressPending, ReleasedBefore, After, Report
  <2>7. QED
    BY <1>2, <2>3, <2>5, <2>6 DEF IInv
<1>6. QED
  BY <1>3, <1>4, <1>5

\* The host takes a report.
LEMMA PollKeeps == IInv /\ Poll => IInv'
<1> SUFFICES ASSUME IInv, Poll PROVE IInv'
  OBVIOUS
<1>1. /\ UNCHANGED <<s_usb_key_queue, touches, pc, keycode, trying, bus>>
      /\ endpoint' = <<>> /\ held' = endpoint[1] /\ endpoint[1] \in 0..MaxTouches
      /\ typed' = IF held' = Idle THEN typed ELSE held'
  BY DEF Poll, task, IInv, TypeInv
<1>2. TypeInv'
  BY <1>1 DEF IInv, TypeInv
<1>3. InOrder'
  BY <1>1 DEF IInv, InOrder
<1>4. Unseen' /\ PressPending'
  BY <1>1 DEF Poll, IInv, TypeInv, Unseen, PressPending
<1>5. ReleasedBefore'
  BY <1>1 DEF Poll, IInv, PressPending, ReleasedBefore
<1>6. QED
  BY <1>2, <1>3, <1>4, <1>5 DEF IInv

\* Each step of the keyboard and of the host keeps the invariant.
LEMMA IInvStep == IInv /\ [Next]_vars => IInv'
<1> SUFFICES ASSUME IInv, [Next]_vars PROVE IInv'
  OBVIOUS
<1>1. CASE CheckMounted
  BY <1>1 DEF CheckMounted, Goto, IInv, TypeInv, Stages, InOrder, Unseen, PressPending, ReleasedBefore
<1>2. CASE ReleaseDelay
  BY <1>2 DEF ReleaseDelay, Goto, IInv, TypeInv, Stages, InOrder, Unseen, PressPending, ReleasedBefore
<1>3. CASE Unplug
  BY <1>3, HidAssumption DEF Unplug, task, Idle, IInv, TypeInv, InOrder, Unseen, PressPending, ReleasedBefore
<1>4. ASSUME NEW from \in {"unplugged", "mounted", "suspended"}, NEW to \in {"mounted", "suspended"},
             Change(from, to)
      PROVE  IInv'
  BY <1>4 DEF Change, task, IInv, TypeInv, InOrder, Unseen, PressPending, ReleasedBefore
<1>5. CASE UNCHANGED vars
  BY <1>5 DEF vars, task, host, IInv, TypeInv, InOrder, Unseen, PressPending, ReleasedBefore
<1>6. QED
  BY <1>1, <1>2, <1>3, <1>4, <1>5, TouchKeeps, ReceiveKeeps, ReportKeeps, PollKeeps
     DEF Next, usb_hid_task

-----------------------------------------------------------------------------
\* usb_hid_task and the host keep the invariant for ever.
THEOREM PressPendingHolds == Spec => []IInv
  BY IInvInit, IInvStep, PTL DEF Spec

\* A press reaches the host only when it holds no key and has not seen that touch
\* or a later one, for every queue length and number of touches, and wherever the
\* cable is pulled or the host sleeps.
THEOREM TouchesApart == Spec => PressesApart
<1>1. IInv /\ [Next]_vars => [held' \notin {held, Idle} => held = Idle /\ held' > typed]_vars
  <2> SUFFICES ASSUME IInv, [Next]_vars, held' \notin {held, Idle} PROVE held = Idle /\ held' > typed
    OBVIOUS
  <2>1. Poll
    BY DEF Next, usb_hid_task, queue_usb_keypress, Receive, CheckMounted, ReleaseDelay,
           send_keyboard_report, Goto, Unplug, Change, host, vars
  <2>2. held' = endpoint[1] /\ endpoint # <<>>
    BY <2>1 DEF Poll
  <2>3. QED
    BY <2>2 DEF IInv, TypeInv, PressPending
<1>2. QED
  BY <1>1, PressPendingHolds, PTL DEF Spec, PressesApart
=============================================================================
