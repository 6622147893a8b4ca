------------------------------ MODULE MqttNode ------------------------------
(***************************************************************************)
(* mqtt-test: the station of main.c with three sidecars.  mqtt_task        *)
(* (mqtt.c) registers the handlers that start and stop the MQTT client and *)
(* publish; the timer of heartbeat.c and the task of button.c post events  *)
(* of their own to the same default event loop without waiting for room,   *)
(* and abort when there is none (ESP_ERROR_CHECK): the node starts again.  *)
(*                                                                         *)
(* The MQTT client (external) is a task of its own: mqtt_event_handler     *)
(* runs in it, concurrently with the handlers in the event loop.           *)
(***************************************************************************)
EXTENDS WifiStation, SequencesExt

CONSTANTS
    ButtonLen,      \* length of gpio_evt_queue
    MaxAborts       \* bound: how often the node aborts

ASSUME MqttAssumption ==
    /\ Sidecars = {"mqtt"} /\ AppEvents = {"HEARTBEAT", "RELEASED", "PRESSED"}
    /\ ButtonLen \in Nat \ {0} /\ MaxAborts \in Nat

VARIABLES
    mqtt,           \* how many handlers mqtt_task has registered
    client,         \* the MQTT client: its task and its connection
    stopping,       \* its task has been asked to end
    mqtt_active,    \* mqtt.c
    timer,          \* heartbeat.c: the periodic timer runs
    pin, irq,       \* level of the button's pin; an edge that is not served yet
    gpio_evt_queue, \* button.c: levels for button_task
    held,           \* what button_task has received and not posted, "setup" before that
    reported,       \* history: the last level published, "nobody" when the last button event was not
    stale,          \* history: the newest level found no room
    aborts          \* bound counter

broker == <<mqtt, client, stopping, mqtt_active>>
button == <<pin, irq, gpio_evt_queue, held, reported, stale>>
vars == <<station, broker, timer, button, aborts>>

Levels == {"RELEASED", "PRESSED"}

Init ==
    /\ StationInit
    /\ mqtt = 0 /\ client = "stopped" /\ stopping = FALSE /\ mqtt_active = FALSE
    /\ timer = FALSE
    /\ pin = "RELEASED" /\ irq = FALSE
    /\ gpio_evt_queue = <<>> /\ held = "setup"
    /\ reported = "nobody" /\ stale = FALSE
    /\ aborts = 0

\* ESP_ERROR_CHECK fails: the chip restarts.
Abort ==
    /\ aborts < MaxAborts
    /\ link' = "started" /\ queue' = <<"STA_START">> /\ current' = "none" /\ chain' = <<>>
    /\ registered' = [e \in SidecarEvents |-> <<>>]
    /\ mqtt' = 0 /\ client' = "stopped" /\ stopping' = FALSE /\ mqtt_active' = FALSE
    /\ timer' = FALSE
    /\ irq' = FALSE /\ gpio_evt_queue' = <<>> /\ held' = "setup"
    /\ reported' = "nobody" /\ stale' = FALSE
    /\ aborts' = aborts + 1
    /\ UNCHANGED <<losses, changes, pin>>

\* Mutant: an event that finds no room is dropped.
PostOrDrop(e) ==
    /\ queue' = IF Len(queue) < QueueLen THEN Append(queue, e) ELSE queue
    /\ UNCHANGED <<link, current, chain, registered, losses, changes, broker, timer, aborts>>

\* esp_event_post(..., 0) in the normal case.
PostAtOnce(e) ==
    /\ Post(e)
    /\ UNCHANGED <<link, current, chain, registered, losses, changes, broker, timer, aborts>>

-----------------------------------------------------------------------------
(* mqtt.c                                                                  *)

\* The order of registration in mqtt_task: disconnect_handler comes twice,
\* system_event_handler is for all events of SYSTEM_EVENTS.
MqttRegister ==
    /\ mqtt' = mqtt + 1
    /\ \/ mqtt = 0 /\ Register("mqtt", "GOT_IP")
       \/ mqtt \in {1, 2} /\ Register("mqtt", "DISCONNECTED")
       \/ /\ mqtt = 3 /\ current = "none"
          /\ registered' = [e \in SidecarEvents |->
                               IF e \in AppEvents THEN <<"mqtt">> ELSE registered[e]]
          /\ UNCHANGED <<link, queue, current, chain, losses, changes>>
    /\ UNCHANGED <<client, stopping, mqtt_active, timer, button, aborts>>

HandlerReturns ==
    /\ Return
    /\ UNCHANGED <<link, queue, registered, losses, changes, mqtt, mqtt_active, timer, aborts>>

\* connect_handler: a client that has been started is not started again.
MqttConnect ==
    /\ Running("mqtt", "GOT_IP")
    /\ client' = IF client = "stopped" THEN "connecting" ELSE client
    /\ HandlerReturns
    /\ UNCHANGED <<stopping, button>>

\* Mutant: the client is left alone.
MqttDisconnectNoStop ==
    /\ Running("mqtt", "DISCONNECTED")
    /\ HandlerReturns
    /\ UNCHANGED <<client, stopping, button>>

\* disconnect_handler: esp_mqtt_client_stop waits, in the event loop task, until
\* the client's task has ended; it fails at once when there is none.
MqttDisconnect ==
    /\ Running("mqtt", "DISCONNECTED")
    /\ \/ /\ client # "stopped" /\ ~stopping
          /\ stopping' = TRUE
          /\ UNCHANGED <<station, mqtt, mqtt_active, timer, aborts>>
       \/ client = "stopped" /\ HandlerReturns /\ UNCHANGED stopping
    /\ UNCHANGED <<client, button>>

\* system_event_handler publishes, by a client that is connected or was when
\* it was last heard of, or drops the event.
MqttSystemEvent ==
    /\ \E e \in AppEvents : Running("mqtt", e)
    /\ reported' = CASE current \notin Levels -> reported
                     [] current \in Levels /\ mqtt_active -> current
                     [] OTHER -> "nobody"
    /\ HandlerReturns
    /\ UNCHANGED <<client, stopping, pin, irq, gpio_evt_queue, held, stale>>

PublishHeartbeat ==
    Running("mqtt", "HEARTBEAT") /\ mqtt_active /\ client = "connected" /\ MqttSystemEvent

-----------------------------------------------------------------------------
(* The MQTT client's task.  "up" and "down" are the connection's changes   *)
(* that mqtt_event_handler has not been told of yet.                       *)

ClientStep(from, to) ==
    /\ client = from
    /\ client' = to
    /\ UNCHANGED <<station, mqtt, timer, button, aborts>>

\* Mutant: the connection is only logged.
ConnectedOnlyLogged ==
    /\ \/ ClientStep("up", "connected") /\ UNCHANGED mqtt_active
       \/ ClientStep("down", "connecting") /\ mqtt_active' = FALSE
    /\ UNCHANGED stopping

\* MQTT_EVENT_CONNECTED, MQTT_EVENT_DISCONNECTED.
mqtt_event_handler ==
    /\ \/ ClientStep("up", "connected") /\ mqtt_active' = TRUE
       \/ ClientStep("down", "connecting") /\ mqtt_active' = FALSE
    /\ UNCHANGED stopping

\* The broker answers while there is a link; without one the connection breaks.
ClientConnects ==
    /\ link = "ip" /\ ~stopping
    /\ ClientStep("connecting", "up")
    /\ UNCHANGED <<mqtt_active, stopping>>

ClientBreaks ==
    /\ link # "ip" /\ ~stopping
    /\ ClientStep("connected", "down")
    /\ UNCHANGED <<mqtt_active, stopping>>

\* The task ends between two events; the library may report the end of the
\* connection or not.
ClientEnds ==
    /\ stopping
    /\ ClientStep("connecting", "stopped") \/ ClientStep("connected", "stopped")
    /\ mqtt_active' \in {mqtt_active, FALSE}
    /\ stopping' = FALSE

MqttClient == mqtt_event_handler \/ ClientConnects \/ ClientBreaks \/ ClientEnds

-----------------------------------------------------------------------------
(* heartbeat.c                                                             *)

heartbeat_task ==
    /\ ~timer
    /\ timer' = TRUE
    /\ UNCHANGED <<station, broker, button, aborts>>

heartbeat_callback ==
    /\ timer
    /\ \/ PostAtOnce("HEARTBEAT") /\ UNCHANGED button
       \/ Len(queue) = QueueLen /\ Abort

-----------------------------------------------------------------------------
(* button.c                                                                *)

\* Edges cause an interrupt once button_task has set it up.
Edge ==
    /\ pin' \in Levels \ {pin}
    /\ irq' = (held # "setup")
    /\ UNCHANGED <<station, broker, timer, gpio_evt_queue, held, reported, stale, aborts>>

\* The level is read in the interrupt; one that finds no room is dropped.
gpio_isr_handler ==
    /\ irq /\ irq' = FALSE
    /\ stale' = (Len(gpio_evt_queue) >= ButtonLen)
    /\ gpio_evt_queue' = IF stale' THEN gpio_evt_queue ELSE Append(gpio_evt_queue, pin)
    /\ UNCHANGED <<station, broker, timer, pin, held, reported, aborts>>

ButtonSetup ==
    /\ held = "setup" /\ held' = "none"
    /\ UNCHANGED <<station, broker, timer, pin, irq, gpio_evt_queue, reported, stale, aborts>>

ButtonReceive ==
    /\ held = "none" /\ gpio_evt_queue # <<>>
    /\ held' = Head(gpio_evt_queue)
    /\ gpio_evt_queue' = Tail(gpio_evt_queue)
    /\ UNCHANGED <<station, broker, timer, pin, irq, reported, stale, aborts>>

ButtonPost ==
    /\ held \in Levels
    /\ \/ PostAtOnce(held) /\ held' = "none" /\ UNCHANGED <<pin, irq, gpio_evt_queue, reported, stale>>
       \/ Len(queue) = QueueLen /\ Abort

button_task == ButtonSetup \/ ButtonReceive \/ ButtonPost

-----------------------------------------------------------------------------
app == <<broker, timer, button, aborts>>

\* A button event that comes before the last registration is handled by nobody.
MqttDispatch ==
    /\ Dispatch
    /\ reported' = IF Head(queue) \in Levels /\ chain' = <<>> THEN "nobody" ELSE reported
    /\ UNCHANGED <<broker, timer, pin, irq, gpio_evt_queue, held, stale, aborts>>

EventLoop ==
    \/ MqttDispatch
    \/ wifi_event_handler /\ UNCHANGED app
    \/ MqttConnect \/ MqttDisconnect \/ MqttSystemEvent

Sidecar == MqttRegister \/ heartbeat_task \/ button_task

AllRegistered == HaveRegistered(Sidecars)

Environment == (Driver(AllRegistered) /\ UNCHANGED app) \/ Edge

Next == EventLoop \/ Sidecar \/ heartbeat_callback \/ gpio_isr_handler \/ MqttClient \/ Environment

Spec == Init /\ [][Next]_vars

\* The event loop, the client, the timer and the tasks of mqtt.c and heartbeat.c
\* go on; a full queue and a loop that is always about to dispatch hold up the
\* others only for a while.  Nothing is asked of the driver and of the button.
Fairness ==
    /\ WF_vars(EventLoop) /\ WF_vars(MqttClient) /\ WF_vars(heartbeat_task)
    /\ SF_vars(MqttRegister) /\ SF_vars(heartbeat_callback)

FairSpec == Spec /\ Fairness

-----------------------------------------------------------------------------
\* When the event loop has nothing left to do, the client is running if and
\* only if the station has an address: the second registration of
\* disconnect_handler, an address that changes and a restart make no difference.
ClientFollowsLink ==
    (current = "none" /\ queue = <<>> /\ AllRegistered) => (client # "stopped" <=> link = "ip")

\* The last level published is never an old one: when no level is on its way
\* through the interrupt, button_task and the event loop, it is that of the
\* button, or the newest button event was handled by nobody or not published, or
\* the newest level found gpio_evt_queue full; the next one that gets through
\* makes up for it.
LevelCatchesUp ==
    \/ irq \/ gpio_evt_queue # <<>> \/ held # "none" \/ stale
    \/ current \in Levels \/ \E l \in Levels : l \in ToSet(queue)
    \/ reported \in {"nobody", pin}

\* Once the link stays up, heartbeats are published for ever, also after a
\* restart.
KeepsPublishing == <>[](link = "ip") => []<><<PublishHeartbeat>>_vars
=============================================================================
