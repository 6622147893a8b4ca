---------------------------- MODULE WifiStation ----------------------------
(***************************************************************************)
(* The station that smars-test, cam-test, http-test and mqtt-test share:   *)
(* wifi_event_handler of main/main.c on the default event loop, and the    *)
(* WiFi driver and DHCP client that post to it (external, modelled from    *)
(* the calls and events main.c uses).                                      *)
(*                                                                         *)
(* The loop is one task: it takes the oldest event and runs the handlers   *)
(* registered for it one after the other, main's first because it is       *)
(* registered for the whole base.  A handler that blocks blocks the loop.  *)
(* Registering a handler waits for the dispatch in progress to end.        *)
(***************************************************************************)
EXTENDS Naturals, Sequences, FiniteSets, SequencesExt

CONSTANTS
    Sidecars,       \* the sidecar tasks of the application with handlers of their own
    AppEvents,      \* the events they post themselves
    QueueLen,       \* length of the event queue: a full queue blocks the driver
    MaxLosses,      \* bound: how often the link is lost or fails to come up
    MaxChanges,     \* bound: how often DHCP changes the address of a live link
    ConnectFails,   \* the access point may refuse or be out of reach
    LateSidecars    \* DHCP may be faster than the sidecars' registration

ASSUME StationAssumption ==
    /\ QueueLen \in Nat \ {0} /\ MaxLosses \in Nat /\ MaxChanges \in Nat
    /\ ConnectFails \in BOOLEAN /\ LateSidecars \in BOOLEAN

VARIABLES
    link,           \* the driver's view of the station
    queue,          \* the default event loop's queue
    current,        \* the event being dispatched
    chain,          \* its handlers that have not returned yet
    registered,     \* registered[e]: the sidecars' handlers for e, oldest first
    losses, changes \* bound counters of the environment

station == <<link, queue, current, chain, registered, losses, changes>>

Links == {"started", "scanning", "idle", "connecting", "associated", "ip"}
Events == {"STA_START", "SCAN_DONE", "DISCONNECTED", "GOT_IP"} \cup AppEvents
SidecarEvents == {"GOT_IP", "DISCONNECTED"} \cup AppEvents

\* app_main has registered wifi_event_handler, created the sidecar tasks and
\* called esp_wifi_start(), which posts STA_START.
StationInit ==
    /\ link = "started"
    /\ queue = <<"STA_START">>
    /\ current = "none"
    /\ chain = <<>>
    /\ registered = [e \in SidecarEvents |-> <<>>]
    /\ losses = 0
    /\ changes = 0

-----------------------------------------------------------------------------
(* The default event loop.                                                 *)

\* Mutant: an event is queued although there is no room for it.
PostUnbounded(e) == queue' = Append(queue, e)

Post(e) == Len(queue) < QueueLen /\ queue' = Append(queue, e)

\* wifi_event_handler is registered for the events of WIFI_EVENT.
Handlers(e) == (IF e \in {"GOT_IP"} \cup AppEvents THEN <<>> ELSE <<"main">>)
               \o (IF e \in SidecarEvents THEN registered[e] ELSE <<>>)

\* Take the oldest event; one that nobody handles is dropped.
Dispatch ==
    /\ current = "none"
    /\ queue # <<>>
    /\ queue' = Tail(queue)
    /\ chain' = Handlers(Head(queue))
    /\ current' = IF chain' = <<>> THEN "none" ELSE Head(queue)
    /\ UNCHANGED <<link, registered, losses, changes>>

Running(h, e) == chain # <<>> /\ Head(chain) = h /\ current = e

\* The running handler returns.
Return ==
    /\ chain' = Tail(chain)
    /\ current' = IF Len(chain) = 1 THEN "none" ELSE current

Register(h, e) ==
    /\ current = "none"
    /\ registered' = [registered EXCEPT ![e] = Append(@, h)]
    /\ UNCHANGED <<link, queue, current, chain, losses, changes>>

\* Each of the sidecars hs has all its handlers.
HaveRegistered(hs) == \A e \in SidecarEvents : hs \subseteq ToSet(registered[e])

-----------------------------------------------------------------------------
(* wifi_event_handler                                                      *)

esp_wifi_connect == link' = IF link = "idle" THEN "connecting" ELSE link

\* STA_START: esp_wifi_scan_start(NULL, true) returns when the scan is over.
MainScanStart ==
    /\ Running("main", "STA_START")
    /\ link = "started"
    /\ link' = "scanning"
    /\ UNCHANGED <<queue, current, chain, registered, losses, changes>>

MainScanReturn ==
    /\ Running("main", "STA_START")
    /\ link \notin {"started", "scanning"}
    /\ Return
    /\ UNCHANGED <<link, queue, registered, losses, changes>>

MainConnect(e) ==
    /\ Running("main", e)
    /\ esp_wifi_connect
    /\ Return
    /\ UNCHANGED <<queue, registered, losses, changes>>

\* Mutant: the handler reports the disconnect and leaves it at that.
MainEventsNoReconnect ==
    \/ MainScanStart
    \/ MainScanReturn
    \/ MainConnect("SCAN_DONE")
    \/ /\ Running("main", "DISCONNECTED")
       /\ Return
       /\ UNCHANGED <<link, queue, registered, losses, changes>>

wifi_event_handler ==
    \/ MainScanStart
    \/ MainScanReturn
    \/ MainConnect("SCAN_DONE")
    \/ MainConnect("DISCONNECTED")

-----------------------------------------------------------------------------
(* The WiFi driver and the DHCP client.                                    *)

Up(from, to) ==
    /\ link = from
    /\ link' = to
    /\ UNCHANGED <<current, chain, registered, losses, changes>>

ScanDone == Up("scanning", "idle") /\ Post("SCAN_DONE")
Associate == Up("connecting", "associated") /\ UNCHANGED queue
GotIp(ready) ==
    /\ LateSidecars \/ ready
    /\ Up("associated", "ip")
    /\ Post("GOT_IP")

\* A link that is lost, or that does not come up, is reported and left idle.
Lose ==
    /\ losses < MaxLosses
    /\ link = "ip" \/ (ConnectFails /\ link \in {"connecting", "associated"})
    /\ link' = "idle"
    /\ Post("DISCONNECTED")
    /\ losses' = losses + 1
    /\ UNCHANGED <<current, chain, registered, changes>>

\* GOT_IP is posted again when the address of the interface changes.
ChangeAddress ==
    /\ changes < MaxChanges
    /\ link = "ip"
    /\ Post("GOT_IP")
    /\ changes' = changes + 1
    /\ UNCHANGED <<link, current, chain, registered, losses>>

Driver(ready) == ScanDone \/ Associate \/ GotIp(ready) \/ Lose \/ ChangeAddress

StationType ==
    /\ link \in Links
    /\ queue \in Seq(Events) /\ Len(queue) <= QueueLen
    /\ current \in Events \cup {"none"}
    /\ chain \in Seq(Sidecars \cup {"main"})
    /\ (current = "none") = (chain = <<>>)
    /\ registered \in [SidecarEvents -> Seq(Sidecars)]
    /\ losses \in 0..MaxLosses /\ changes \in 0..MaxChanges
=============================================================================
