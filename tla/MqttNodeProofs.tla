--------------------------- MODULE MqttNodeProofs ---------------------------
(***************************************************************************)
(* mqtt-test: the client follows the link and the last level published is  *)
(* not an old one, for every length of the queues and any number of        *)
(* losses, changes of the address and restarts.                            *)
(***************************************************************************)
EXTENDS MqttNode, DataLemmas, SequencesExt

-----------------------------------------------------------------------------
(* The invariant.                                                          *)

\* The state of the node.
Types ==
    /\ link \in Links /\ queue \in Seq(Events) /\ current \in Events \cup {"none"}
    /\ chain \in Seq({"main", "mqtt"}) /\ (current = "none" <=> ToSet(chain) = {})
    /\ registered \in [SidecarEvents -> Seq({"mqtt"})]
    /\ client \in {"stopped", "connecting", "up", "connected", "down"}
    /\ pin \in Levels /\ gpio_evt_queue \in Seq(Levels)
    /\ held \in Levels \cup {"setup", "none"} /\ reported \in Levels \cup {"nobody"}
    /\ stopping \in BOOLEAN /\ irq \in BOOLEAN /\ stale \in BOOLEAN

\* A handler of mqtt.c for e is still to run.
Pending(e) == "mqtt" \in ToSet(chain) /\ current = e

\* The last change of the link that has been taken from the queue: the client
\* runs after one handler and not after the other one.
Latest == IF Pending("GOT_IP") THEN "GOT_IP"
          ELSE IF Pending("DISCONNECTED") \/ client = "stopped" THEN "DISCONNECTED"
          ELSE "GOT_IP"

\* No address comes before mqtt_task is ready.
Started ==
    ("GOT_IP" \in ToSet(queue) \/ current = "GOT_IP" \/ link = "ip" \/ client # "stopped") => AllRegistered

\* The client is only asked to end by a disconnect_handler that waits for it.
StopsInTime == stopping => client # "stopped" /\ Pending("DISCONNECTED")

\* The events taken and those that wait end with the one that tells the state
\* of the link.
Order == link = "ip" <=> ~Followed(Latest, queue, "GOT_IP", "DISCONNECTED")

LinkInv == Types /\ Started /\ StopsInTime /\ Order

\* The level that the button does not have.
Other == IF pin = "PRESSED" THEN "RELEASED" ELSE "PRESSED"

\* The level that is being handled, or has been.
Handled == IF current \in Levels THEN current ELSE reported

\* Until button_task has set up the interrupt there are no levels.
Setup ==
    held = "setup" => /\ reported = "nobody" /\ current \notin Levels /\ ToSet(queue) \cap Levels = {}
                      /\ ToSet(gpio_evt_queue) = {} /\ ~irq /\ ~stale

\* The newest level on its way, or the one handled when there is none, is that
\* of the button: it is in gpio_evt_queue, in the hand of button_task or in the
\* queue of the event loop, in this order.
Newest ==
    \/ irq \/ stale
    \/ IF ToSet(gpio_evt_queue) = {} /\ held \notin Levels
       THEN Followed(Handled, queue, Other, pin)
       ELSE Followed(held, gpio_evt_queue, Other, pin)

ButtonInv == Types /\ Setup /\ Newest

-----------------------------------------------------------------------------
(* Lemmas.                                                                 *)

\* The names of events and sidecars.
LEMMA Names ==
  /\ SidecarEvents = {"GOT_IP", "DISCONNECTED", "HEARTBEAT", "RELEASED", "PRESSED"}
  /\ Events = {"STA_START", "SCAN_DONE", "DISCONNECTED", "GOT_IP", "HEARTBEAT", "RELEASED", "PRESSED"}
  /\ AppEvents = {"HEARTBEAT", "RELEASED", "PRESSED"} /\ Sidecars = {"mqtt"}
  /\ Levels = {"RELEASED", "PRESSED"}
  BY MqttAssumption DEF SidecarEvents, Events, Levels

\* The event that waits after a start of the node says nothing.
LEMMA FreshStream ==
  ASSUME NEW v, NEW a, NEW b, v # a, a # "STA_START"
  PROVE  Followed(v, <<"STA_START">>, a, b)
<1> DEFINE q == <<"STA_START">>
<1>1. Len(q) = 1 /\ q[1] = "STA_START"
  OBVIOUS
<1> HIDE DEF q
<1>2. \A i \in 0..Len(q) : i = 0 \/ i = 1
  BY <1>1
<1>3. \A i \in 0..Len(q) : Stream(v, q)[i] # a
  BY <1>1, <1>2 DEF Stream
<1>4. Followed(v, q, a, b)
  BY <1>3 DEF Followed
<1>5. QED
  BY <1>4 DEF q

\* The handlers that an event has.
LEMMA HandlersFacts ==
  ASSUME Types, NEW e \in Events
  PROVE  /\ Handlers(e) \in Seq({"main", "mqtt"})
         /\ "mqtt" \in ToSet(Handlers(e)) <=> e \in SidecarEvents /\ "mqtt" \in ToSet(registered[e])
<1> DEFINE first == IF e \in {"GOT_IP"} \cup AppEvents THEN <<>> ELSE <<"main">>
           rest == IF e \in SidecarEvents THEN registered[e] ELSE <<>>
<1>1. Handlers(e) = first \o rest
  BY DEF Handlers
<1>2. <<>> \in Seq({"main", "mqtt"}) /\ ToSet(<<>>) = {}
  BY DEF ToSet
<1>3. <<"main">> \in Seq({"main", "mqtt"}) /\ ToSet(<<"main">>) = {"main"}
  BY OneFacts
<1>4. first \in Seq({"main", "mqtt"}) /\ "mqtt" \notin ToSet(first)
  BY <1>2, <1>3
<1>5. /\ rest \in Seq({"main", "mqtt"})
      /\ "mqtt" \in ToSet(rest) <=> e \in SidecarEvents /\ "mqtt" \in ToSet(registered[e])
  <2>1. CASE e \in SidecarEvents
    <3>1. registered[e] \in Seq({"mqtt"}) /\ rest = registered[e]
      BY <2>1 DEF Types
    <3>2. registered[e] \in Seq({"main", "mqtt"})
      BY <3>1
    <3>3. QED
      BY <2>1, <3>1, <3>2
  <2>2. CASE e \notin SidecarEvents
    BY <1>2, <2>2
  <2>3. QED
    BY <2>1, <2>2
<1> HIDE DEF first, rest
<1>6. first \o rest \in Seq({"main", "mqtt"}) /\ ToSet(first \o rest) = ToSet(first) \cup ToSet(rest)
  BY <1>4, <1>5, ConcatFacts
<1>7. QED
  BY <1>1, <1>4, <1>5, <1>6

\* The handler that returns leaves the chain.
LEMMA ReturnFacts ==
  ASSUME Types, NEW h0, NEW e, Running(h0, e), Return
  PROVE  /\ chain' \in Seq({"main", "mqtt"}) /\ current' \in {current, "none"}
         /\ current' = "none" <=> ToSet(chain') = {}
         /\ h0 \in ToSet(chain) /\ current = e /\ e # "none" /\ e \in Events
         /\ ToSet(chain') \subseteq ToSet(chain) /\ ToSet(chain) \subseteq ToSet(chain') \cup {h0}
<1>1. /\ chain \in Seq({"main", "mqtt"}) /\ chain # <<>> /\ Head(chain) = h0
      /\ current = e /\ current \in Events \cup {"none"} /\ (current = "none" <=> ToSet(chain) = {})
      /\ chain' = Tail(chain) /\ current' = IF Len(chain) = 1 THEN "none" ELSE current
  BY DEF Types, Running, Return
<1>2. ToSet(chain) # {}
  BY <1>1, NotEmpty
<1>3. /\ Tail(chain) \in Seq({"main", "mqtt"}) /\ Head(chain) \in ToSet(chain)
      /\ ToSet(chain) = ToSet(Tail(chain)) \cup {Head(chain)}
      /\ Len(Tail(chain)) = Len(chain) - 1 /\ Len(chain) > 0
  BY <1>1, <1>2, TailFacts
<1>4. Len(chain') = 0 <=> ToSet(chain') = {}
  BY <1>1, <1>3, NoLength
<1>5. Len(chain) \in Nat
  BY <1>1
<1>6. current' = IF ToSet(chain') = {} THEN "none" ELSE current
  BY <1>1, <1>3, <1>4, <1>5
<1>7. QED
  BY <1>1, <1>2, <1>3, <1>6

\* The loop takes an event.
LEMMA DispatchFacts ==
  ASSUME Types, Dispatch
  PROVE  LET e == Head(queue)
         IN /\ e \in Events /\ e \in ToSet(queue) /\ ToSet(queue) = ToSet(queue') \cup {e}
            /\ ToSet(queue) # {} /\ queue' = Tail(queue) /\ queue' \in Seq(Events)
            /\ current = "none" /\ ToSet(chain) = {} /\ chain' \in Seq({"main", "mqtt"})
            /\ current' = IF ToSet(chain') = {} THEN "none" ELSE e
            /\ (chain' = <<>> <=> ToSet(chain') = {})
            /\ "mqtt" \in ToSet(chain') <=> e \in SidecarEvents /\ "mqtt" \in ToSet(registered[e])
            /\ link' = link /\ registered' = registered
<1> DEFINE e == Head(queue)
<1>1. /\ current = "none" /\ queue # <<>> /\ queue' = Tail(queue) /\ chain' = Handlers(e)
      /\ current' = IF chain' = <<>> THEN "none" ELSE e
      /\ link' = link /\ registered' = registered
  BY DEF Dispatch
<1>2. queue \in Seq(Events) /\ (current = "none" <=> ToSet(chain) = {})
  BY DEF Types
<1>3. ToSet(queue) # {}
  BY <1>1, <1>2, NotEmpty
<1>4. /\ Tail(queue) \in Seq(Events) /\ Head(queue) \in ToSet(queue)
      /\ ToSet(queue) = ToSet(Tail(queue)) \cup {Head(queue)}
  BY <1>2, <1>3, TailFacts
<1>5. e \in Events
  BY <1>2, <1>4 DEF ToSet
<1> HIDE DEF e
<1>6. /\ chain' \in Seq({"main", "mqtt"})
      /\ "mqtt" \in ToSet(chain') <=> e \in SidecarEvents /\ "mqtt" \in ToSet(registered[e])
  BY <1>1, <1>5, HandlersFacts
<1>7. chain' = <<>> <=> ToSet(chain') = {}
  BY <1>6, NotEmpty
<1>8. QED
  BY <1>1, <1>2, <1>3, <1>4, <1>5, <1>6, <1>7 DEF e

\* mqtt_task registers one more handler.
LEMMA RegisterFacts ==
  ASSUME Types, MqttRegister
  PROVE  /\ registered' \in [SidecarEvents -> Seq({"mqtt"})]
         /\ \A x \in SidecarEvents : ToSet(registered[x]) \subseteq ToSet(registered'[x])
         /\ UNCHANGED <<link, queue, current, chain, client, stopping, button>>
<1>1. registered \in [SidecarEvents -> Seq({"mqtt"})]
  BY DEF Types
<1>2. /\ UNCHANGED <<link, queue, current, chain, client, stopping, button>>
      /\ \/ \E e \in {"GOT_IP", "DISCONNECTED"} : Register("mqtt", e)
         \/ registered' = [e \in SidecarEvents |-> IF e \in AppEvents THEN <<"mqtt">> ELSE registered[e]]
  BY DEF MqttRegister, Register
<1>3. ASSUME NEW e \in SidecarEvents, registered' = [registered EXCEPT ![e] = Append(@, "mqtt")]
      PROVE  /\ registered' \in [SidecarEvents -> Seq({"mqtt"})]
             /\ \A x \in SidecarEvents : ToSet(registered[x]) \subseteq ToSet(registered'[x])
  <2> DEFINE r == Append(registered[e], "mqtt")
  <2>1. r \in Seq({"mqtt"}) /\ ToSet(r) = ToSet(registered[e]) \cup {"mqtt"}
    BY <1>1, AppendFacts
  <2>2. registered'[e] = r /\ \A x \in SidecarEvents : x # e => registered'[x] = registered[x]
    BY <1>1, <1>3
  <2>3. registered' \in [SidecarEvents -> Seq({"mqtt"})]
    BY <1>1, <1>3, <2>1
  <2> HIDE DEF r
  <2>4. QED
    BY <2>1, <2>2, <2>3
<1>4. ASSUME registered' = [e \in SidecarEvents |-> IF e \in AppEvents THEN <<"mqtt">> ELSE registered[e]]
      PROVE  /\ registered' \in [SidecarEvents -> Seq({"mqtt"})]
             /\ \A x \in SidecarEvents : ToSet(registered[x]) \subseteq ToSet(registered'[x])
  <2>1. <<"mqtt">> \in Seq({"mqtt"}) /\ ToSet(<<"mqtt">>) = {"mqtt"}
    BY OneFacts
  <2>2. \A x \in SidecarEvents : registered'[x] = <<"mqtt">> \/ registered'[x] = registered[x]
    BY <1>4
  <2>3. ASSUME NEW x \in SidecarEvents
        PROVE  registered'[x] \in Seq({"mqtt"}) /\ ToSet(registered[x]) \subseteq ToSet(registered'[x])
    <3>1. ToSet(registered[x]) \subseteq {"mqtt"}
      BY <1>1 DEF ToSet
    <3>2. QED
      BY <1>1, <2>1, <2>2, <3>1
  <2>4. QED
    BY <1>4, <2>3
<1>5. ASSUME NEW e \in {"GOT_IP", "DISCONNECTED"}, Register("mqtt", e)
      PROVE  /\ registered' \in [SidecarEvents -> Seq({"mqtt"})]
             /\ \A x \in SidecarEvents : ToSet(registered[x]) \subseteq ToSet(registered'[x])
  BY <1>3, <1>5, Names DEF Register
<1>6. QED
  BY <1>2, <1>4, <1>5

\* A restart: the event that tells of it waits, and no handler is registered.
LEMMA AbortFacts ==
  ASSUME Types, Abort
  PROVE  /\ link' = "started" /\ queue' = <<"STA_START">> /\ queue' \in Seq(Events)
         /\ ToSet(queue') = {"STA_START"} /\ current' = "none"
         /\ chain' \in Seq({"main", "mqtt"}) /\ ToSet(chain') = {}
         /\ registered' \in [SidecarEvents -> Seq({"mqtt"})]
         /\ client' = "stopped" /\ ~stopping' /\ stopping' \in BOOLEAN
         /\ ~irq' /\ irq' \in BOOLEAN /\ ~stale' /\ stale' \in BOOLEAN /\ pin' = pin
         /\ gpio_evt_queue' \in Seq(Levels) /\ ToSet(gpio_evt_queue') = {}
         /\ held' = "setup" /\ reported' = "nobody"
<1>1. <<>> \in Seq({"main", "mqtt"}) /\ <<>> \in Seq(Levels) /\ <<>> \in Seq({"mqtt"}) /\ ToSet(<<>>) = {}
  BY DEF ToSet
<1>2. <<"STA_START">> \in Seq(Events) /\ ToSet(<<"STA_START">>) = {"STA_START"}
  BY OneFacts, Names
<1>3. QED
  BY <1>1, <1>2 DEF Abort

\* The driver posts at most one event: GOT_IP exactly when the station has an
\* address then.
LEMMA DriverFacts ==
  ASSUME Types, Driver(AllRegistered)
  PROVE  /\ link' \in Links /\ UNCHANGED <<current, chain, registered>>
         /\ \/ queue' = queue /\ link # "ip" /\ link' # "ip"
            \/ \E x \in {"SCAN_DONE", "DISCONNECTED", "GOT_IP"} :
                  /\ queue' = Append(queue, x)
                  /\ x = "GOT_IP" => link' = "ip" /\ (link # "ip" => LateSidecars \/ AllRegistered)
                  /\ x = "DISCONNECTED" => link' # "ip"
                  /\ x = "SCAN_DONE" => link # "ip" /\ link' # "ip"
<1>1. CASE ScanDone
  BY <1>1 DEF ScanDone, Up, Post, Links
<1>2. CASE Associate
  BY <1>2 DEF Associate, Up, Links
<1>3. CASE GotIp(AllRegistered)
  BY <1>3 DEF GotIp, Up, Post, Links
<1>4. CASE Lose
  BY <1>4 DEF Lose, Post, Links
<1>5. CASE ChangeAddress
  BY <1>5 DEF ChangeAddress, Post, Types
<1>6. QED
  BY <1>1, <1>2, <1>3, <1>4, <1>5 DEF Driver

\* What main.c does, and what it leaves alone.
LEMMA MainFacts ==
  ASSUME Types, wifi_event_handler
  PROVE  /\ link' \in Links /\ (link' = "ip" <=> link = "ip") /\ UNCHANGED <<queue, registered>>
         /\ \/ UNCHANGED <<chain, current>>
            \/ Return /\ \E e \in {"STA_START", "SCAN_DONE", "DISCONNECTED"} : Running("main", e)
  BY DEF wifi_event_handler, MainScanStart, MainScanReturn, MainConnect, esp_wifi_connect, Types, Links

-----------------------------------------------------------------------------
(* Types.                                                                  *)

\* At the start.
LEMMA InitTypes == Init => Types /\ ToSet(queue) = {"STA_START"} /\ ToSet(chain) = {} /\ ToSet(gpio_evt_queue) = {}
<1> SUFFICES ASSUME Init PROVE Types /\ ToSet(queue) = {"STA_START"} /\ ToSet(chain) = {} /\ ToSet(gpio_evt_queue) = {}
  OBVIOUS
<1>1. <<>> \in Seq({"main", "mqtt"}) /\ <<>> \in Seq(Levels) /\ <<>> \in Seq({"mqtt"}) /\ ToSet(<<>>) = {}
  BY DEF ToSet
<1>2. <<"STA_START">> \in Seq(Events) /\ ToSet(<<"STA_START">>) = {"STA_START"}
  BY OneFacts, Names
<1>3. /\ queue = <<"STA_START">> /\ chain = <<>> /\ gpio_evt_queue = <<>>
      /\ registered = [e \in SidecarEvents |-> <<>>]
  BY DEF Init, StationInit
<1>4. /\ link = "started" /\ current = "none" /\ client = "stopped" /\ pin = "RELEASED"
      /\ held = "setup" /\ reported = "nobody"
      /\ stopping \in BOOLEAN /\ irq \in BOOLEAN /\ stale \in BOOLEAN
  BY DEF Init, StationInit
<1>5. queue \in Seq(Events) /\ ToSet(queue) = {"STA_START"}
  BY <1>2, <1>3
<1>6. /\ chain \in Seq({"main", "mqtt"}) /\ ToSet(chain) = {}
      /\ gpio_evt_queue \in Seq(Levels) /\ ToSet(gpio_evt_queue) = {}
      /\ registered \in [SidecarEvents -> Seq({"mqtt"})]
  BY <1>1, <1>3
<1> HIDE DEF Init
<1>7. QED
  BY <1>4, <1>5, <1>6 DEF Types, Links, Levels

\* The tasks and the interrupt of the button keep the types.
LEMMA ButtonTypes ==
  ASSUME Types, gpio_isr_handler \/ ButtonReceive
  PROVE  Types'
<1>1. /\ gpio_evt_queue \in Seq(Levels) /\ pin \in Levels /\ held \in Levels \cup {"setup", "none"}
  BY DEF Types
<1>2. /\ UNCHANGED <<link, queue, current, chain, registered, client, stopping, pin, reported>>
      /\ irq' \in BOOLEAN
  BY DEF gpio_isr_handler, ButtonReceive, station, broker, Types
<1>3. stale' \in BOOLEAN
  <2>1. CASE gpio_isr_handler
    <3>1. (Len(gpio_evt_queue) >= ButtonLen) \in BOOLEAN
      BY <1>1, MqttAssumption
    <3>2. QED
      BY Zenon, <2>1, <3>1 DEF gpio_isr_handler
  <2>2. CASE ButtonReceive
    BY <2>2 DEF ButtonReceive, Types
  <2>3. QED
    BY <2>1, <2>2
<1>4. gpio_evt_queue' \in Seq(Levels) /\ held' \in Levels \cup {"setup", "none"}
  <2>1. CASE gpio_isr_handler
    <3>1. Append(gpio_evt_queue, pin) \in Seq(Levels)
      BY <1>1
    <3>2. QED
      BY <1>1, <2>1, <3>1 DEF gpio_isr_handler
  <2>2. CASE ButtonReceive
    <3>1. ToSet(gpio_evt_queue) # {}
      BY <1>1, <2>2, NotEmpty DEF ButtonReceive
    <3>2. Tail(gpio_evt_queue) \in Seq(Levels) /\ Head(gpio_evt_queue) \in ToSet(gpio_evt_queue)
      BY <1>1, <3>1, TailFacts
    <3>3. Head(gpio_evt_queue) \in Levels
      BY <1>1, <3>2 DEF ToSet
    <3>4. QED
      BY <2>2, <3>2, <3>3 DEF ButtonReceive
  <2>3. QED
    BY <2>1, <2>2
<1>5. QED
  BY <1>3, <1>2, <1>4 DEF Types

\* A handler that returns keeps them.
LEMMA ReturnTypes ==
  ASSUME Types, NEW h0, NEW e, Running(h0, e), Return,
         link' \in Links, UNCHANGED <<queue, registered, stopping, pin, gpio_evt_queue, held, irq, stale>>,
         client' \in {"stopped", "connecting", "up", "connected", "down"},
         reported' \in Levels \cup {"nobody"}
  PROVE  Types'
<1>1. /\ chain' \in Seq({"main", "mqtt"}) /\ current' \in {current, "none"}
      /\ current' = "none" <=> ToSet(chain') = {}
  BY ReturnFacts
<1>2. QED
  BY <1>1 DEF Types

\* So does an event that is posted.
LEMMA PostTypes ==
  ASSUME Types, NEW x \in Events, queue' = Append(queue, x), link' \in Links,
         UNCHANGED <<current, chain, registered, client, stopping, pin, irq, gpio_evt_queue, reported, stale>>,
         held' \in {held, "none"}
  PROVE  Types'
<1>1. queue' \in Seq(Events)
  BY DEF Types
<1>2. QED
  BY <1>1 DEF Types

\* Every step keeps the types.
LEMMA TypesStep ==
  ASSUME Types, [Next]_vars
  PROVE  Types'
<1>1. CASE UNCHANGED vars
  BY <1>1 DEF vars, station, broker, button, Types
<1>2. CASE MqttDispatch
  <2>1. /\ chain' \in Seq({"main", "mqtt"}) /\ queue' \in Seq(Events) /\ Head(queue) \in Events
        /\ current' = IF ToSet(chain') = {} THEN "none" ELSE Head(queue)
        /\ link' = link /\ registered' = registered
    BY <1>2, DispatchFacts DEF MqttDispatch
  <2>2. reported' \in {"nobody", reported} /\ UNCHANGED <<client, stopping, pin, irq, gpio_evt_queue, held, stale>>
    BY <1>2 DEF MqttDispatch, broker
  <2>3. Head(queue) # "none"
    BY <2>1, Names
  <2>4. QED
    BY <2>1, <2>2, <2>3 DEF Types
<1>3. CASE wifi_event_handler /\ UNCHANGED app
  <2>1. UNCHANGED <<client, stopping, pin, irq, gpio_evt_queue, held, reported, stale>>
    BY <1>3 DEF app, broker, button
  <2>2. CASE UNCHANGED <<chain, current>>
    BY <1>3, <2>1, <2>2, MainFacts DEF Types
  <2>3. CASE Return /\ \E e \in {"STA_START", "SCAN_DONE", "DISCONNECTED"} : Running("main", e)
    BY <1>3, <2>1, <2>3, MainFacts, ReturnTypes DEF Types
  <2>4. QED
    BY <1>3, <2>2, <2>3, MainFacts
<1>4. CASE MqttConnect \/ MqttSystemEvent
  <2>1. PICK e : Running("mqtt", e)
    BY <1>4 DEF MqttConnect, MqttSystemEvent
  <2>2. /\ Return /\ UNCHANGED <<link, queue, registered, stopping, pin, gpio_evt_queue, held, irq, stale>>
        /\ client' \in {client, "connecting"} /\ reported' \in Levels \cup {"nobody", reported}
    BY <1>4 DEF MqttConnect, MqttSystemEvent, HandlerReturns, button
  <2>3. QED
    BY <2>1, <2>2, ReturnTypes DEF Types
<1>5. CASE MqttDisconnect
  <2>1. CASE Return
    BY <1>5, <2>1, ReturnTypes DEF MqttDisconnect, HandlerReturns, button, station, Types
  <2>2. CASE stopping' = TRUE /\ UNCHANGED station
    BY <1>5, <2>2 DEF MqttDisconnect, button, station, Types
  <2>3. QED
    BY <1>5, <2>1, <2>2 DEF MqttDisconnect, HandlerReturns
<1>6. CASE Sidecar \/ heartbeat_callback \/ gpio_isr_handler
  <2>1. CASE MqttRegister
    <3>1. /\ registered' \in [SidecarEvents -> Seq({"mqtt"})]
          /\ UNCHANGED <<link, queue, current, chain, client, stopping, button>>
      BY <2>1, RegisterFacts
    <3>2. QED
      BY <3>1 DEF Types, button
  <2>2. CASE heartbeat_task \/ ButtonSetup
    BY <2>2 DEF heartbeat_task, ButtonSetup, station, broker, button, Types
  <2>3. CASE gpio_isr_handler \/ ButtonReceive
    BY <2>3, ButtonTypes
  <2>4. CASE Abort
    BY <2>4, AbortFacts DEF Types, Links
  <2>5. CASE heartbeat_callback /\ PostAtOnce("HEARTBEAT")
    <3>1. "HEARTBEAT" \in Events
      BY Names
    <3>2. UNCHANGED <<link, current, chain, registered, client, stopping, button>> /\ queue' = Append(queue, "HEARTBEAT")
      BY <2>5 DEF heartbeat_callback, PostAtOnce, Post, broker, Abort
    <3>3. UNCHANGED <<pin, irq, gpio_evt_queue, held, reported, stale>>
      BY <3>2 DEF button
    <3>4. link' \in Links
      BY <3>2 DEF Types
    <3>5. QED
      BY <3>1, <3>2, <3>3, <3>4, PostTypes
  <2>6. CASE ButtonPost /\ PostAtOnce(held)
    <3>1. held \in Events
      BY <2>6, Names DEF ButtonPost
    <3>2. /\ UNCHANGED <<link, current, chain, registered, client, stopping>> /\ queue' = Append(queue, held)
          /\ UNCHANGED <<pin, irq, gpio_evt_queue, reported, stale>> /\ held' = "none"
      BY <2>6 DEF ButtonPost, PostAtOnce, Post, broker, Abort
    <3>3. link' \in Links
      BY <3>2 DEF Types
    <3>4. QED
      BY <3>1, <3>2, <3>3, PostTypes
  <2>7. QED
    BY <1>6, <2>1, <2>2, <2>3, <2>4, <2>5, <2>6 DEF Sidecar, button_task, heartbeat_callback, ButtonPost
<1>7. CASE MqttClient
  BY <1>7 DEF MqttClient, mqtt_event_handler, ClientConnects, ClientBreaks, ClientEnds, ClientStep,
              station, button, Types
<1>8. CASE Driver(AllRegistered) /\ UNCHANGED app
  <2>1. UNCHANGED <<client, stopping, pin, irq, gpio_evt_queue, held, reported, stale>>
    BY <1>8 DEF app, broker, button
  <2>2. CASE queue' = queue
    BY <1>8, <2>1, <2>2, DriverFacts DEF Types
  <2>3. ASSUME NEW x \in {"SCAN_DONE", "DISCONNECTED", "GOT_IP"}, queue' = Append(queue, x)
        PROVE  Types'
    BY <1>8, <2>1, <2>3, DriverFacts, PostTypes, Names
  <2>4. QED
    BY <1>8, <2>2, <2>3, DriverFacts
<1>9. CASE Edge
  BY <1>9 DEF Edge, station, broker, Types
<1>10. QED
  BY <1>1, <1>2, <1>3, <1>4, <1>5, <1>6, <1>7, <1>8, <1>9 DEF Next, EventLoop, Environment

-----------------------------------------------------------------------------
(* The button.                                                             *)

\* The two levels.
LEMMA TwoLevels ==
  ASSUME Types
  PROVE  /\ Other \in Levels /\ Other # pin /\ pin \in Levels /\ Levels = {Other, pin}
         /\ Other \notin {"STA_START", "nobody", "none", "setup"}
  BY Names DEF Types, Other

\* A step that leaves the levels on their way alone, and the last one or forgets
\* it.
LEMMA LevelsKept ==
  ASSUME Types, Setup, Newest, Handled' \in {Handled, "nobody"}, current' \in Levels => current \in Levels,
         UNCHANGED <<queue, pin, irq, gpio_evt_queue, held, stale>>,
         reported' \in {reported, "nobody"} \/ current \in Levels
  PROVE  Setup' /\ Newest'
<1>1. Other' = Other
  BY DEF Other
<1>2. Setup'
  BY DEF Setup
<1> DEFINE v == Handled
           a == Other
<1>3. a # pin /\ "nobody" # a
  BY TwoLevels
<1>4. queue \in Seq(Events)
  BY DEF Types
<1> HIDE DEF v, a
<1>5. Followed(v, queue, a, pin) => Followed("nobody", queue, a, pin)
  BY <1>3, <1>4, StreamForget
<1>6. \/ irq \/ stale
      \/ IF ToSet(gpio_evt_queue) = {} /\ held \notin Levels
         THEN Followed(v, queue, a, pin) ELSE Followed(held, gpio_evt_queue, a, pin)
  BY DEF Newest, v, a
<1>7. v' \in {v, "nobody"}
  BY DEF v
<1>8. Followed(v, queue, a, pin) => Followed(v', queue, a, pin)
  BY <1>5, <1>7
<1>9. \/ irq' \/ stale'
      \/ IF ToSet(gpio_evt_queue') = {} /\ held' \notin Levels
         THEN Followed(v', queue', a, pin') ELSE Followed(held', gpio_evt_queue', a, pin')
  BY <1>6, <1>8
<1>10. Newest'
  BY <1>1, <1>9 DEF Newest, v, a
<1>11. QED
  BY <1>2, <1>10

\* The event that is handled goes on counting, unless it is not published.
LEMMA HandlerLevels ==
  ASSUME Types, Setup, Newest, NEW h0, NEW e, Running(h0, e), Return,
         UNCHANGED <<queue, pin, irq, gpio_evt_queue, held, stale>>,
         reported' \in IF current \in Levels THEN {current, "nobody"} ELSE {reported}
  PROVE  Setup' /\ Newest'
<1>1. current' \in {current, "none"}
  BY ReturnFacts
<1>2. "none" \notin Levels
  BY Names
<1>3. Handled' \in {Handled, "nobody"}
  BY <1>1, <1>2 DEF Handled
<1>4. reported' \in {reported, "nobody"} \/ current \in Levels
  OBVIOUS
<1>5. QED
  BY <1>1, <1>2, <1>3, <1>4, LevelsKept

\* Other events in the queue do not count.
LEMMA PostLevels ==
  ASSUME Types, Setup, Newest, NEW x \in Events \ Levels, queue' = Append(queue, x),
         UNCHANGED <<current, pin, irq, gpio_evt_queue, held, reported, stale>>
  PROVE  Setup' /\ Newest'
<1>1. queue \in Seq(Events) /\ x \in Events /\ x \notin Levels
  BY DEF Types
<1>2. ToSet(queue') = ToSet(queue) \cup {x}
  BY <1>1, AppendFacts
<1>3. Setup'
  BY <1>1, <1>2 DEF Setup
<1>4. Other' = Other /\ Handled' = Handled
  BY DEF Other, Handled
<1> DEFINE v == Handled
           a == Other
<1>5. a # pin /\ x \notin {a, pin}
  BY <1>1, TwoLevels
<1> HIDE DEF v, a
<1>6. Followed(v, queue', a, pin) <=> Followed(v, queue, a, pin)
  BY <1>1, <1>5, StreamAppend
<1>7. Newest'
  <2>1. \/ irq \/ stale
        \/ IF ToSet(gpio_evt_queue) = {} /\ held \notin Levels
           THEN Followed(v, queue, a, pin) ELSE Followed(held, gpio_evt_queue, a, pin)
    BY DEF Newest, v, a
  <2>2. \/ irq' \/ stale'
        \/ IF ToSet(gpio_evt_queue') = {} /\ held' \notin Levels
           THEN Followed(v, queue', a, pin') ELSE Followed(held', gpio_evt_queue', a, pin')
    BY <1>6, <2>1
  <2>3. QED
    BY <1>4, <2>2 DEF Newest, v, a
<1>8. QED
  BY <1>3, <1>7

\* The event that is taken stays the last one; one that nobody handles is
\* forgotten.
LEMMA DispatchLevels ==
  ASSUME Types, Setup, Newest, MqttDispatch
  PROVE  Setup' /\ Newest'
<1> DEFINE e == Head(queue)
<1>1. /\ e \in Events /\ e \in ToSet(queue) /\ ToSet(queue) = ToSet(queue') \cup {e}
      /\ ToSet(queue) # {} /\ queue' = Tail(queue) /\ current = "none"
      /\ current' = IF ToSet(chain') = {} THEN "none" ELSE e
      /\ (chain' = <<>> <=> ToSet(chain') = {})
  BY DispatchFacts DEF MqttDispatch
<1>2. /\ UNCHANGED <<pin, irq, gpio_evt_queue, held, stale>>
      /\ reported' = IF e \in Levels /\ ToSet(chain') = {} THEN "nobody" ELSE reported
  BY <1>1 DEF MqttDispatch
<1>3. queue \in Seq(Events) /\ reported \in Levels \cup {"nobody"}
  BY DEF Types
<1> HIDE DEF e
<1>4. Setup'
  BY <1>1, <1>2, Names DEF Setup
<1>5. Handled = reported
  BY <1>1, Names DEF Handled
<1>6. Handled' = IF e \in Levels THEN IF ToSet(chain') = {} THEN "nobody" ELSE e ELSE reported
  BY <1>1, <1>2, Names DEF Handled
<1> DEFINE a == Other
<1>7. a' = a /\ a # pin /\ Levels = {a, pin} /\ a \notin {"nobody", "none"}
  BY <1>2, TwoLevels DEF Other
<1> HIDE DEF a
<1>8. /\ e \in {a, pin} => (Followed(e, queue', a, pin) <=> Followed(reported, queue, a, pin))
      /\ e \notin {a, pin} => (Followed(reported, queue', a, pin) <=> Followed(reported, queue, a, pin))
  BY <1>1, <1>3, <1>7, StreamTake DEF e
<1>9. Followed(e, queue', a, pin) => Followed("nobody", queue', a, pin)
  <2>1. queue' \in Seq(Events)
    BY DispatchFacts DEF MqttDispatch
  <2> DEFINE r == queue'
  <2> HIDE DEF r
  <2>2. r \in Seq(Events) => (Followed(e, r, a, pin) => Followed("nobody", r, a, pin))
    BY <1>7, StreamForget
  <2>3. QED
    BY <2>1, <2>2 DEF r
<1> DEFINE v == Handled
<1>10. Followed(v, queue, a, pin) => Followed(v', queue', a, pin)
  BY <1>5, <1>6, <1>7, <1>8, <1>9
<1> HIDE DEF v
<1>11. Newest'
  <2>1. \/ irq \/ stale
        \/ IF ToSet(gpio_evt_queue) = {} /\ held \notin Levels
           THEN Followed(v, queue, a, pin) ELSE Followed(held, gpio_evt_queue, a, pin)
    BY DEF Newest, v, a
  <2>2. \/ irq' \/ stale'
        \/ IF ToSet(gpio_evt_queue') = {} /\ held' \notin Levels
           THEN Followed(v', queue', a, pin') ELSE Followed(held', gpio_evt_queue', a, pin')
    BY <1>2, <1>10, <2>1
  <2>3. QED
    BY <1>7, <2>2 DEF Newest, v, a
<1>12. QED
  BY <1>4, <1>11

\* A restart begins without levels.
LEMMA AbortLevels ==
  ASSUME Types, Abort
  PROVE  Setup' /\ Newest'
<1>1. /\ queue' = <<"STA_START">> /\ ToSet(queue') = {"STA_START"} /\ current' = "none"
      /\ ~irq' /\ ~stale' /\ pin' = pin /\ ToSet(gpio_evt_queue') = {} /\ held' = "setup" /\ reported' = "nobody"
  BY AbortFacts
<1>2. "none" \notin Levels /\ "STA_START" \notin Levels /\ "setup" \notin Levels
  BY Names
<1>3. Setup'
  BY <1>1, <1>2 DEF Setup
<1>4. Other' = Other /\ Handled' = "nobody" /\ Other \notin {"STA_START", "nobody"}
  BY <1>1, <1>2, TwoLevels DEF Other, Handled
<1> DEFINE a == Other
<1> HIDE DEF a
<1>5. a \notin {"STA_START", "nobody"} => Followed("nobody", <<"STA_START">>, a, pin)
  BY FreshStream
<1>6. Newest'
  BY <1>1, <1>2, <1>4, <1>5 DEF Newest, a
<1>7. QED
  BY <1>3, <1>6

\* An edge asks for an interrupt, or comes before there are levels.
LEMMA EdgeLevels ==
  ASSUME Types, Types', Setup, Newest, Edge
  PROVE  Setup' /\ Newest'
<1>1. /\ UNCHANGED <<queue, current, gpio_evt_queue, held, reported, stale>> /\ irq' = (held # "setup")
  BY DEF Edge, station
<1>2. Setup'
  BY <1>1 DEF Setup
<1>3. CASE held # "setup"
  <2>1. irq' = TRUE
    BY Zenon, <1>1, <1>3
  <2>2. QED
    BY <1>2, <2>1 DEF Newest
<1>4. CASE held = "setup"
  <2>1. /\ reported = "nobody" /\ current \notin Levels /\ ToSet(queue) \cap Levels = {}
        /\ ToSet(gpio_evt_queue) = {} /\ "setup" \notin Levels
    BY <1>4, Names DEF Setup
  <2>2. Handled' = "nobody"
    BY <1>1, <2>1 DEF Handled
  <2> DEFINE a == Other'
  <2>3. a \in Levels /\ a # "nobody" /\ queue \in Seq(Events)
    BY Names DEF Other, Types
  <2> HIDE DEF a
  <2>4. \A b : Followed("nobody", queue, a, b)
    BY <2>1, <2>3, StreamWithout
  <2>5. QED
    BY <1>1, <1>2, <1>4, <2>1, <2>2, <2>4 DEF Newest, a
<1>5. QED
  BY <1>2, <1>3, <1>4

\* The interrupt reads the level, and drops it only when there is no room.
LEMMA IsrLevels ==
  ASSUME Types, Setup, Newest, gpio_isr_handler
  PROVE  Setup' /\ Newest'
<1>1. /\ UNCHANGED <<queue, current, pin, held, reported>> /\ irq
      /\ ~stale' => gpio_evt_queue' = Append(gpio_evt_queue, pin)
  BY DEF gpio_isr_handler, station
<1>2. Setup'
  BY <1>1 DEF Setup
<1>3. CASE stale'
  BY <1>2, <1>3 DEF Newest
<1>4. CASE ~stale'
  <2> DEFINE a == Other
  <2>1. a' = a /\ a # pin /\ pin \in Levels
    BY <1>1, TwoLevels DEF Other
  <2> HIDE DEF a
  <2>2. gpio_evt_queue \in Seq(Levels)
    BY DEF Types
  <2>3. Followed(held, Append(gpio_evt_queue, pin), a, pin)
    BY <2>1, <2>2, StreamAppend
  <2>4. pin \in ToSet(Append(gpio_evt_queue, pin))
    BY <2>1, <2>2, AppendFacts
  <2>5. ToSet(gpio_evt_queue') # {} /\ Followed(held', gpio_evt_queue', a', pin')
    BY <1>1, <1>4, <2>1, <2>3, <2>4
  <2>6. QED
    BY <1>2, <2>5 DEF Newest, a
<1>5. QED
  BY <1>3, <1>4

\* button_task takes the oldest level.
LEMMA ReceiveLevels ==
  ASSUME Types, Setup, Newest, ButtonReceive
  PROVE  Setup' /\ Newest'
<1>1. /\ UNCHANGED <<queue, current, pin, irq, reported, stale>> /\ held = "none"
      /\ gpio_evt_queue # <<>> /\ held' = Head(gpio_evt_queue) /\ gpio_evt_queue' = Tail(gpio_evt_queue)
  BY DEF ButtonReceive, station
<1>2. gpio_evt_queue \in Seq(Levels)
  BY DEF Types
<1>3. ToSet(gpio_evt_queue) # {}
  BY <1>1, <1>2, NotEmpty
<1>4. held' \in Levels
  <2>1. Head(gpio_evt_queue) \in ToSet(gpio_evt_queue)
    BY <1>2, <1>3, TailFacts
  <2>2. QED
    BY <1>1, <1>2, <2>1 DEF ToSet
<1>5. Setup'
  BY <1>4, Names DEF Setup
<1> DEFINE a == Other
<1>6. a' = a /\ a # pin /\ Levels = {a, pin}
  BY <1>1, TwoLevels DEF Other
<1> HIDE DEF a
<1>7. Head(gpio_evt_queue) \in {a, pin} =>
         (Followed(Head(gpio_evt_queue), Tail(gpio_evt_queue), a, pin) <=> Followed("none", gpio_evt_queue, a, pin))
  BY <1>2, <1>3, <1>6, StreamTake
<1>8. Followed("none", gpio_evt_queue, a, pin) => Followed(held', gpio_evt_queue', a', pin')
  BY <1>1, <1>4, <1>6, <1>7
<1>9. QED
  BY <1>1, <1>3, <1>4, <1>5, <1>8 DEF Newest, a

\* button_task hands on the level it holds.
LEMMA HandOnLevels ==
  ASSUME Types, Setup, Newest, ButtonPost, PostAtOnce(held)
  PROVE  Setup' /\ Newest'
<1>1. /\ UNCHANGED <<current, pin, irq, gpio_evt_queue, reported, stale>> /\ held \in Levels /\ held' = "none"
      /\ queue' = Append(queue, held)
  BY DEF ButtonPost, PostAtOnce, Post, Abort
<1>2. queue \in Seq(Events) /\ gpio_evt_queue \in Seq(Levels) /\ held \in Events
  BY <1>1, Names DEF Types
<1>3. "none" \notin Levels
  BY Names
<1>4. Setup'
  BY <1>1 DEF Setup
<1> DEFINE a == Other
           v == Handled
<1>5. a' = a /\ v' = v /\ a # pin /\ Levels = {a, pin} /\ a # "none"
  BY <1>1, TwoLevels DEF Other, Handled
<1> HIDE DEF a, v
<1>6. \/ irq \/ stale \/ Followed(held, gpio_evt_queue, a, pin)
  BY <1>1 DEF Newest, a
<1>7. CASE ToSet(gpio_evt_queue) = {}
  <2>1. Followed(held, gpio_evt_queue, a, pin) <=> held # a
    BY <1>2, <1>7, StreamOfNone
  <2>2. held = pin => Followed(v, Append(queue, held), a, pin)
    BY <1>2, <1>5, StreamAppend
  <2>3. \/ irq' \/ stale' \/ Followed(v', queue', a', pin')
    BY <1>1, <1>5, <1>6, <2>1, <2>2
  <2>4. QED
    BY <1>1, <1>3, <1>4, <1>7, <2>3 DEF Newest, a, v
<1>8. CASE ToSet(gpio_evt_queue) # {}
  <2>1. Followed(held, gpio_evt_queue, a, pin) => Followed("none", gpio_evt_queue, a, pin)
    BY <1>2, <1>5, StreamForget
  <2>2. \/ irq' \/ stale' \/ Followed(held', gpio_evt_queue', a', pin')
    BY <1>1, <1>5, <1>6, <2>1
  <2>3. QED
    BY <1>1, <1>4, <1>8, <2>2 DEF Newest, a
<1>9. QED
  BY <1>7, <1>8

\* At the start.
LEMMA InitLevels == Init => ButtonInv
<1> SUFFICES ASSUME Init PROVE ButtonInv
  OBVIOUS
<1>1. Types /\ ToSet(queue) = {"STA_START"} /\ ToSet(gpio_evt_queue) = {}
  BY InitTypes
<1>2. /\ queue = <<"STA_START">> /\ current = "none" /\ ~irq /\ ~stale /\ held = "setup" /\ reported = "nobody"
  BY DEF Init, StationInit
<1>3. "none" \notin Levels /\ "STA_START" \notin Levels /\ "setup" \notin Levels
  BY Names
<1>4. Setup
  BY <1>1, <1>2, <1>3 DEF Setup
<1>5. Handled = "nobody" /\ Other \notin {"STA_START", "nobody"}
  BY <1>1, <1>2, <1>3, TwoLevels DEF Handled
<1>6. Followed("nobody", <<"STA_START">>, Other, pin)
  BY <1>5, FreshStream
<1>7. Newest
  BY <1>1, <1>2, <1>3, <1>5, <1>6 DEF Newest
<1>8. QED
  BY <1>1, <1>4, <1>7 DEF ButtonInv

\* Every step keeps the newest level.
LEMMA LevelsStep ==
  ASSUME ButtonInv, [Next]_vars
  PROVE  ButtonInv'
<1>0. Types /\ Setup /\ Newest /\ Types'
  BY TypesStep DEF ButtonInv
<1>1. CASE UNCHANGED <<queue, current, pin, irq, gpio_evt_queue, held, reported, stale>>
  <2>1. Handled' = Handled
    BY <1>1 DEF Handled
  <2>2. QED
    BY <1>0, <1>1, <2>1, LevelsKept DEF ButtonInv
<1>2. CASE MqttDispatch
  BY <1>0, <1>2, DispatchLevels DEF ButtonInv
<1>3. CASE wifi_event_handler /\ UNCHANGED app
  <2>1. UNCHANGED <<queue, pin, irq, gpio_evt_queue, held, reported, stale>>
    BY <1>0, <1>3, MainFacts DEF app, button
  <2>2. CASE UNCHANGED current
    BY <1>1, <2>1, <2>2
  <2>3. ASSUME NEW e \in {"STA_START", "SCAN_DONE", "DISCONNECTED"}, Running("main", e), Return
        PROVE  ButtonInv'
    <3>1. current \notin Levels
      BY <2>3, Names DEF Running
    <3>2. QED
      BY <1>0, <2>1, <2>3, <3>1, HandlerLevels DEF ButtonInv
  <2>4. QED
    BY <1>0, <1>3, <2>2, <2>3, MainFacts
<1>4. CASE MqttConnect \/ MqttDisconnect
  <2>1. UNCHANGED <<queue, pin, irq, gpio_evt_queue, held, reported, stale>>
    BY <1>4 DEF MqttConnect, MqttDisconnect, HandlerReturns, station, button
  <2>2. CASE UNCHANGED current
    BY <1>1, <2>1, <2>2
  <2>3. ASSUME NEW e \in {"GOT_IP", "DISCONNECTED"}, Running("mqtt", e), Return
        PROVE  ButtonInv'
    <3>1. current \notin Levels
      BY <2>3, Names DEF Running
    <3>2. QED
      BY <1>0, <2>1, <2>3, <3>1, HandlerLevels DEF ButtonInv
  <2>4. QED
    BY <1>4, <2>2, <2>3 DEF MqttConnect, MqttDisconnect, HandlerReturns, station
<1>5. CASE MqttSystemEvent
  <2>1. PICK e : Running("mqtt", e)
    BY <1>5 DEF MqttSystemEvent
  <2>2. /\ Return /\ UNCHANGED <<queue, pin, irq, gpio_evt_queue, held, stale>>
        /\ reported' \in IF current \in Levels THEN {current, "nobody"} ELSE {reported}
    BY <1>5 DEF MqttSystemEvent, HandlerReturns
  <2>3. QED
    BY <1>0, <2>1, <2>2, HandlerLevels DEF ButtonInv
<1>6. CASE Abort
  BY <1>0, <1>6, AbortLevels DEF ButtonInv
<1>7. CASE gpio_isr_handler
  BY <1>0, <1>7, IsrLevels DEF ButtonInv
<1>8. CASE ButtonReceive
  BY <1>0, <1>8, ReceiveLevels DEF ButtonInv
<1>9. CASE ButtonPost /\ PostAtOnce(held)
  BY <1>0, <1>9, HandOnLevels DEF ButtonInv
<1>10. CASE ButtonSetup
  <2>1. UNCHANGED <<queue, current, pin, irq, gpio_evt_queue, reported, stale>> /\ held = "setup" /\ held' = "none"
    BY <1>10 DEF ButtonSetup, station
  <2>2. ToSet(gpio_evt_queue) = {} /\ "setup" \notin Levels /\ "none" \notin Levels
    BY <1>0, <2>1, Names DEF Setup
  <2>3. Handled' = Handled /\ Other' = Other
    BY <2>1 DEF Handled, Other
  <2>4. Newest'
    BY <1>0, <2>1, <2>2, <2>3 DEF Newest
  <2>5. Setup'
    BY <2>1 DEF Setup
  <2>6. QED
    BY <1>0, <2>4, <2>5 DEF ButtonInv
<1>11. CASE heartbeat_callback
  <2>1. CASE PostAtOnce("HEARTBEAT") /\ UNCHANGED button
    <3>1. "HEARTBEAT" \in Events \ Levels
      BY Names
    <3>2. queue' = Append(queue, "HEARTBEAT") /\ UNCHANGED <<current, pin, irq, gpio_evt_queue, held, reported, stale>>
      BY <2>1 DEF PostAtOnce, Post, button
    <3>3. QED
      BY <1>0, <3>1, <3>2, PostLevels DEF ButtonInv
  <2>2. QED
    BY <1>6, <1>11, <2>1 DEF heartbeat_callback
<1>12. CASE Driver(AllRegistered) /\ UNCHANGED app
  <2>1. UNCHANGED <<current, pin, irq, gpio_evt_queue, held, reported, stale>>
    BY <1>0, <1>12, DriverFacts DEF app, button
  <2>2. CASE queue' = queue
    BY <1>1, <2>1, <2>2
  <2>3. ASSUME NEW x \in {"SCAN_DONE", "DISCONNECTED", "GOT_IP"}, queue' = Append(queue, x)
        PROVE  ButtonInv'
    <3>1. x \in Events \ Levels
      BY Names
    <3>2. QED
      BY <1>0, <2>1, <2>3, <3>1, PostLevels DEF ButtonInv
  <2>4. QED
    BY <1>0, <1>12, <2>2, <2>3, DriverFacts
<1>13. CASE Edge
  BY <1>0, <1>13, EdgeLevels DEF ButtonInv
<1>14. CASE UNCHANGED vars \/ heartbeat_task \/ MqttRegister \/ MqttClient
  <2>1. CASE MqttRegister
    <3>1. UNCHANGED <<queue, current, button>>
      BY <1>0, <2>1, RegisterFacts
    <3>2. QED
      BY <1>1, <3>1 DEF button
  <2>2. CASE UNCHANGED vars \/ heartbeat_task \/ MqttClient
    BY <1>1, <2>2 DEF vars, heartbeat_task, MqttClient, mqtt_event_handler, ClientConnects, ClientBreaks,
                      ClientEnds, ClientStep, station, button
  <2>3. QED
    BY <1>14, <2>1, <2>2
<1>15. QED
  BY <1>2, <1>3, <1>4, <1>5, <1>6, <1>7, <1>8, <1>9, <1>10, <1>11, <1>12, <1>13, <1>14
     DEF Next, EventLoop, Environment, Sidecar, button_task, ButtonPost

-----------------------------------------------------------------------------
(* The link.                                                               *)

\* Registrations that were complete stay so.
LEMMA StartedKept ==
  ASSUME Started, \A x \in SidecarEvents : ToSet(registered[x]) \subseteq ToSet(registered'[x]),
         ("GOT_IP" \in ToSet(queue') \/ current' = "GOT_IP" \/ link' = "ip" \/ client' # "stopped") =>
         ("GOT_IP" \in ToSet(queue) \/ current = "GOT_IP" \/ link = "ip" \/ client # "stopped")
  PROVE  Started'
  BY DEF Started, AllRegistered, HaveRegistered

\* A step that neither takes nor brings an event.
LEMMA OrderKept ==
  ASSUME Order, queue' = queue, link' = "ip" <=> link = "ip", Latest' = Latest
  PROVE  Order'
<1> DEFINE v == Latest
<1>1. link = "ip" <=> ~Followed(v, queue, "GOT_IP", "DISCONNECTED")
  BY DEF Order
<1> HIDE DEF v
<1>2. v' = v
  BY DEF v
<1>3. link' = "ip" <=> ~Followed(v', queue', "GOT_IP", "DISCONNECTED")
  BY <1>1, <1>2
<1>4. QED
  BY <1>3 DEF Order, v

\* A step outside the event loop that neither starts nor stops the client.
LEMMA LinkKept ==
  ASSUME LinkInv, Types', UNCHANGED <<queue, current, chain>>, link' = "ip" <=> link = "ip",
         client' # "stopped" <=> client # "stopped", stopping' = stopping,
         \A x \in SidecarEvents : ToSet(registered[x]) \subseteq ToSet(registered'[x])
  PROVE  LinkInv'
<1>1. \A x : Pending(x)' <=> Pending(x)
  BY DEF Pending
<1>2. Started'
  BY StartedKept DEF LinkInv
<1>3. StopsInTime'
  BY <1>1 DEF LinkInv, StopsInTime
<1>4. (Pending("GOT_IP")' <=> Pending("GOT_IP")) /\ (Pending("DISCONNECTED")' <=> Pending("DISCONNECTED"))
  BY <1>1
<1>5. Latest' = Latest
  BY <1>4 DEF Latest
<1>6. QED
  BY <1>2, <1>3, <1>5, OrderKept DEF LinkInv

\* The client is asked to end, or has ended, while the handler waits for it.
LEMMA StopStep ==
  ASSUME LinkInv, Types', UNCHANGED <<queue, current, chain, link, registered>>, Pending("DISCONNECTED"),
         client' # "stopped" => client # "stopped", stopping' => client' # "stopped"
  PROVE  LinkInv'
<1>1. Pending("DISCONNECTED")' /\ ~Pending("GOT_IP") /\ ~Pending("GOT_IP")'
  BY DEF Pending
<1>2. Latest = "DISCONNECTED" /\ Latest' = "DISCONNECTED"
  BY <1>1 DEF Latest
<1>3. Started'
  BY StartedKept DEF LinkInv
<1>4. QED
  BY <1>1, <1>2, <1>3, OrderKept DEF LinkInv, StopsInTime

\* A handler returns: what it has done of the client stands for the event.
LEMMA HandlerStep ==
  ASSUME LinkInv, Types', NEW h0, NEW e, Running(h0, e), Return,
         UNCHANGED <<queue, registered, stopping>>, link' = "ip" <=> link = "ip",
         \/ h0 # "mqtt" /\ client' = client
         \/ e \notin {"GOT_IP", "DISCONNECTED"} /\ client' = client
         \/ h0 = "mqtt" /\ e = "GOT_IP" /\ client' # "stopped"
         \/ h0 = "mqtt" /\ e = "DISCONNECTED" /\ client = "stopped" /\ client' = "stopped"
  PROVE  LinkInv'
<1>1. /\ current' \in {current, "none"} /\ (current' = "none" <=> ToSet(chain') = {})
      /\ h0 \in ToSet(chain) /\ current = e /\ e # "none" /\ e \in Events
      /\ ToSet(chain') \subseteq ToSet(chain) /\ ToSet(chain) \subseteq ToSet(chain') \cup {h0}
  BY ReturnFacts DEF LinkInv
<1>2. Started'
  BY <1>1, StartedKept DEF LinkInv
<1>3. CASE h0 # "mqtt" /\ client' = client
  <2>1. "mqtt" \in ToSet(chain') <=> "mqtt" \in ToSet(chain)
    BY <1>1, <1>3
  <2>2. "mqtt" \in ToSet(chain) => current' = current
    BY <1>1, <2>1
  <2>3. \A x : Pending(x)' <=> Pending(x)
    BY <2>1, <2>2 DEF Pending
  <2>4. (Pending("GOT_IP")' <=> Pending("GOT_IP")) /\ (Pending("DISCONNECTED")' <=> Pending("DISCONNECTED"))
    BY <2>3
  <2>5. Latest' = Latest
    BY <1>3, <2>4 DEF Latest
  <2>6. StopsInTime'
    BY <1>3, <2>4 DEF LinkInv, StopsInTime
  <2>7. QED
    BY <1>2, <2>5, <2>6, OrderKept DEF LinkInv
<1>4. CASE h0 = "mqtt" /\ e \notin {"GOT_IP", "DISCONNECTED"} /\ client' = client
  <2>1. /\ ~Pending("GOT_IP") /\ ~Pending("DISCONNECTED")
        /\ ~Pending("GOT_IP")' /\ ~Pending("DISCONNECTED")'
    BY <1>1, <1>4 DEF Pending
  <2>2. Latest' = Latest
    BY <1>4, <2>1 DEF Latest
  <2>3. StopsInTime'
    BY <2>1 DEF LinkInv, StopsInTime
  <2>4. QED
    BY <1>2, <2>2, <2>3, OrderKept DEF LinkInv
<1>5. CASE h0 = "mqtt" /\ e = "GOT_IP" /\ client' # "stopped"
  <2>1. Pending("GOT_IP") /\ ~Pending("DISCONNECTED") /\ ~Pending("DISCONNECTED")'
    BY <1>1, <1>5 DEF Pending
  <2>2. Latest = "GOT_IP" /\ Latest' = "GOT_IP"
    BY <1>5, <2>1 DEF Latest
  <2>3. StopsInTime'
    BY <2>1 DEF LinkInv, StopsInTime
  <2>4. QED
    BY <1>2, <2>2, <2>3, OrderKept DEF LinkInv
<1>6. CASE h0 = "mqtt" /\ e = "DISCONNECTED" /\ client = "stopped" /\ client' = "stopped"
  <2>1. Pending("DISCONNECTED") /\ ~Pending("GOT_IP") /\ ~Pending("GOT_IP")'
    BY <1>1, <1>6 DEF Pending
  <2>2. Latest = "DISCONNECTED" /\ Latest' = "DISCONNECTED"
    BY <1>6, <2>1 DEF Latest
  <2>3. StopsInTime'
    BY <1>6 DEF LinkInv, StopsInTime
  <2>4. QED
    BY <1>2, <2>2, <2>3, OrderKept DEF LinkInv
<1>7. QED
  BY <1>3, <1>4, <1>5, <1>6

\* An event is posted: when it is one of the link, it tells the state of it.
LEMMA PostStep ==
  ASSUME LinkInv, Types', NEW x \in Events, queue' = Append(queue, x),
         UNCHANGED <<current, chain, registered, client, stopping>>,
         x = "GOT_IP" => link' = "ip" /\ AllRegistered,
         x = "DISCONNECTED" => link' # "ip",
         x \notin {"GOT_IP", "DISCONNECTED"} => (link' = "ip" <=> link = "ip")
  PROVE  LinkInv'
<1>1. queue \in Seq(Events) /\ Started
  BY DEF LinkInv, Types
<1>2. ToSet(queue') = ToSet(queue) \cup {x}
  BY <1>1, AppendFacts
<1>3. Started'
  <2>1. CASE x = "GOT_IP"
    BY <2>1 DEF Started, AllRegistered, HaveRegistered
  <2>2. CASE x # "GOT_IP"
    BY <1>1, <1>2, <2>2, StartedKept
  <2>3. QED
    BY <2>1, <2>2
<1>4. (Pending("GOT_IP")' <=> Pending("GOT_IP")) /\ (Pending("DISCONNECTED")' <=> Pending("DISCONNECTED"))
  BY DEF Pending
<1>5. StopsInTime'
  BY <1>4 DEF LinkInv, StopsInTime
<1> DEFINE v == Latest
<1>6. v' = v
  BY <1>4 DEF Latest
<1>7. link = "ip" <=> ~Followed(v, queue, "GOT_IP", "DISCONNECTED")
  BY DEF LinkInv, Order
<1> HIDE DEF v
<1>8. /\ x = "GOT_IP" => ~Followed(v, queue', "GOT_IP", "DISCONNECTED")
      /\ x = "DISCONNECTED" => Followed(v, queue', "GOT_IP", "DISCONNECTED")
      /\ x \notin {"GOT_IP", "DISCONNECTED"} =>
            (Followed(v, queue', "GOT_IP", "DISCONNECTED") <=> Followed(v, queue, "GOT_IP", "DISCONNECTED"))
  BY <1>1, StreamAppend
<1>9. link' = "ip" <=> ~Followed(v', queue', "GOT_IP", "DISCONNECTED")
  BY <1>6, <1>7, <1>8
<1>10. QED
  BY <1>3, <1>5, <1>9 DEF LinkInv, Order, v

\* The loop takes an event; when mqtt.c has no handler for it yet, the client
\* has not been started.
LEMMA DispatchStep ==
  ASSUME LinkInv, Types', MqttDispatch
  PROVE  LinkInv'
<1> DEFINE e == Head(queue)
<1>1. /\ e \in Events /\ e \in ToSet(queue) /\ ToSet(queue) = ToSet(queue') \cup {e}
      /\ ToSet(queue) # {} /\ queue' = Tail(queue) /\ current = "none" /\ ToSet(chain) = {}
      /\ current' = IF ToSet(chain') = {} THEN "none" ELSE e
      /\ "mqtt" \in ToSet(chain') <=> e \in SidecarEvents /\ "mqtt" \in ToSet(registered[e])
      /\ link' = link /\ registered' = registered
  BY DispatchFacts DEF MqttDispatch, LinkInv
<1>2. client' = client /\ stopping' = stopping
  BY DEF MqttDispatch, broker
<1>3. queue \in Seq(Events) /\ Started
  BY DEF LinkInv, Types
<1> HIDE DEF e
<1>4. Started'
  BY <1>1, <1>2, <1>3, StartedKept
<1>5. ~Pending("GOT_IP") /\ ~Pending("DISCONNECTED")
  BY <1>1 DEF Pending
<1>6. ~stopping /\ StopsInTime'
  BY <1>2, <1>5 DEF LinkInv, StopsInTime
<1> DEFINE v == Latest
<1>7. v = IF client = "stopped" THEN "DISCONNECTED" ELSE "GOT_IP"
  BY <1>5 DEF Latest
<1>8. link = "ip" <=> ~Followed(v, queue, "GOT_IP", "DISCONNECTED")
  BY DEF LinkInv, Order
<1>9. e \in {"GOT_IP", "DISCONNECTED"} => v' = e
  <2>1. ASSUME e \in {"GOT_IP", "DISCONNECTED"}, "mqtt" \in ToSet(registered[e]) PROVE v' = e
    <3>1. "mqtt" \in ToSet(chain') /\ current' = e
      BY <1>1, <2>1, Names
    <3>2. \A x : Pending(x)' <=> x = e
      BY <3>1 DEF Pending
    <3>3. (Pending("GOT_IP")' <=> e = "GOT_IP") /\ (Pending("DISCONNECTED")' <=> e = "DISCONNECTED")
      BY <3>2
    <3>4. QED
      BY <2>1, <3>3 DEF Latest
  <2>2. ASSUME e \in {"GOT_IP", "DISCONNECTED"}, "mqtt" \notin ToSet(registered[e]) PROVE v' = e
    <3>1. ~AllRegistered
      BY <2>2, Names DEF AllRegistered, HaveRegistered
    <3>2. e = "DISCONNECTED" /\ client' = "stopped"
      BY <1>1, <1>2, <1>3, <2>2, <3>1 DEF Started
    <3>3. ~Pending("GOT_IP")'
      BY <1>1, <2>2 DEF Pending
    <3>4. QED
      BY <3>2, <3>3 DEF Latest
  <2>3. QED
    BY <2>1, <2>2
<1>10. e \notin {"GOT_IP", "DISCONNECTED"} => v' = v
  <2>1. e \notin {"GOT_IP", "DISCONNECTED"} => ~Pending("GOT_IP")' /\ ~Pending("DISCONNECTED")'
    BY <1>1 DEF Pending
  <2>2. QED
    BY <1>2, <1>7, <2>1 DEF Latest
<1> HIDE DEF v
<1>11. /\ e \in {"GOT_IP", "DISCONNECTED"} =>
             (Followed(e, queue', "GOT_IP", "DISCONNECTED") <=> Followed(v, queue, "GOT_IP", "DISCONNECTED"))
       /\ e \notin {"GOT_IP", "DISCONNECTED"} =>
             (Followed(v, queue', "GOT_IP", "DISCONNECTED") <=> Followed(v, queue, "GOT_IP", "DISCONNECTED"))
  BY <1>1, <1>3, StreamTake DEF e
<1>12. link' = "ip" <=> ~Followed(v', queue', "GOT_IP", "DISCONNECTED")
  BY <1>1, <1>8, <1>9, <1>10, <1>11
<1>13. QED
  BY <1>4, <1>6, <1>12 DEF LinkInv, Order, v

\* A node that starts has no link and no client.
LEMMA FreshLink ==
  ASSUME link = "started", queue = <<"STA_START">>, ToSet(queue) = {"STA_START"}, current = "none",
         client = "stopped", ~stopping
  PROVE  Started /\ StopsInTime /\ Order
<1>1. ~Pending("GOT_IP")
  BY DEF Pending
<1>2. Latest = "DISCONNECTED"
  BY <1>1 DEF Latest
<1>3. Followed("DISCONNECTED", <<"STA_START">>, "GOT_IP", "DISCONNECTED")
  BY FreshStream
<1>4. QED
  BY <1>2, <1>3 DEF Started, StopsInTime, Order

\* So does one that starts again.
LEMMA AbortStep ==
  ASSUME LinkInv, Types', Abort
  PROVE  LinkInv'
<1>1. /\ link' = "started" /\ queue' = <<"STA_START">> /\ ToSet(queue') = {"STA_START"} /\ current' = "none"
      /\ client' = "stopped" /\ ~stopping'
  BY AbortFacts DEF LinkInv
<1>2. ~Pending("GOT_IP")'
  BY <1>1 DEF Pending
<1>3. Latest' = "DISCONNECTED"
  BY <1>1, <1>2 DEF Latest
<1>4. Followed("DISCONNECTED", <<"STA_START">>, "GOT_IP", "DISCONNECTED")
  BY FreshStream
<1>5. Started' /\ StopsInTime' /\ Order'
  BY <1>1, <1>3, <1>4 DEF Started, StopsInTime, Order
<1>6. QED
  BY <1>5 DEF LinkInv

\* Every step keeps the order.
LEMMA LinkStep ==
  ASSUME ~LateSidecars, LinkInv, [Next]_vars
  PROVE  LinkInv'
<1>0. Types /\ Types'
  BY TypesStep DEF LinkInv
<1>1. CASE MqttDispatch
  BY <1>0, <1>1, DispatchStep
<1>2. CASE wifi_event_handler /\ UNCHANGED app
  <2>1. UNCHANGED <<client, stopping, queue, registered>> /\ (link' = "ip" <=> link = "ip")
    BY <1>0, <1>2, MainFacts DEF app, broker
  <2>2. CASE UNCHANGED <<chain, current>>
    BY <1>0, <2>1, <2>2, LinkKept
  <2>3. ASSUME NEW e \in {"STA_START", "SCAN_DONE", "DISCONNECTED"}, Running("main", e), Return
        PROVE  LinkInv'
    BY <1>0, <2>1, <2>3, HandlerStep
  <2>4. QED
    BY <1>0, <1>2, <2>2, <2>3, MainFacts
<1>3. CASE MqttConnect
  <2>1. /\ Running("mqtt", "GOT_IP") /\ Return /\ UNCHANGED <<queue, registered, stopping, link>>
        /\ client' # "stopped"
    BY <1>3 DEF MqttConnect, HandlerReturns
  <2>2. QED
    BY <1>0, <2>1, HandlerStep
<1>4. CASE MqttDisconnect
  <2>1. CASE Return /\ client = "stopped" /\ UNCHANGED <<queue, registered, stopping, link, client>>
    <3>1. Running("mqtt", "DISCONNECTED")
      BY <1>4 DEF MqttDisconnect
    <3>2. QED
      BY <1>0, <2>1, <3>1, HandlerStep
  <2>2. CASE UNCHANGED station /\ client # "stopped" /\ client' = client
    <3>1. Running("mqtt", "DISCONNECTED") /\ chain \in Seq({"main", "mqtt"}) /\ (current = "none" <=> ToSet(chain) = {})
      BY <1>0, <1>4 DEF MqttDisconnect, Types
    <3>2. ToSet(chain) # {}
      BY <3>1 DEF Running
    <3>3. Head(chain) \in ToSet(chain)
      BY <3>1, <3>2, TailFacts
    <3>4. Pending("DISCONNECTED")
      BY <3>1, <3>3 DEF Running, Pending
    <3>5. UNCHANGED <<queue, current, chain, link, registered>>
      BY <2>2 DEF station
    <3>6. QED
      BY <1>0, <2>2, <3>4, <3>5, StopStep
  <2>3. QED
    BY <1>4, <2>1, <2>2 DEF MqttDisconnect, HandlerReturns
<1>5. CASE MqttSystemEvent
  <2>1. PICK e \in AppEvents : Running("mqtt", e)
    BY <1>5 DEF MqttSystemEvent
  <2>2. Return /\ UNCHANGED <<queue, registered, stopping, link, client>>
    BY <1>5 DEF MqttSystemEvent, HandlerReturns
  <2>3. e \notin {"GOT_IP", "DISCONNECTED"}
    BY Names
  <2>4. QED
    BY <1>0, <2>1, <2>2, <2>3, HandlerStep
<1>6. CASE ClientEnds
  <2>1. Pending("DISCONNECTED")
    BY <1>6 DEF ClientEnds, LinkInv, StopsInTime
  <2>2. UNCHANGED <<queue, current, chain, link, registered>> /\ client' = "stopped" /\ ~stopping'
    BY <1>6 DEF ClientEnds, ClientStep, station
  <2>3. QED
    BY <1>0, <2>1, <2>2, StopStep
<1>7. CASE Abort
  BY <1>0, <1>7, AbortStep
<1>8. CASE \E x \in AppEvents : PostAtOnce(x)
  <2>1. PICK x \in AppEvents : PostAtOnce(x)
    BY <1>8
  <2>2. queue' = Append(queue, x) /\ UNCHANGED <<link, current, chain, registered, client, stopping>>
    BY <2>1 DEF PostAtOnce, Post, broker
  <2>3. x \in Events /\ x \notin {"GOT_IP", "DISCONNECTED"}
    BY Names
  <2>4. QED
    BY <1>0, <2>2, <2>3, PostStep
<1>9. CASE Driver(AllRegistered) /\ UNCHANGED app
  <2>1. UNCHANGED <<current, chain, registered, client, stopping>>
    BY <1>0, <1>9, DriverFacts DEF app, broker
  <2>2. CASE queue' = queue /\ link # "ip" /\ link' # "ip"
    BY <1>0, <2>1, <2>2, LinkKept
  <2>3. ASSUME NEW x \in {"SCAN_DONE", "DISCONNECTED", "GOT_IP"}, queue' = Append(queue, x),
               x = "GOT_IP" => link' = "ip" /\ (link # "ip" => LateSidecars \/ AllRegistered),
               x = "DISCONNECTED" => link' # "ip", x = "SCAN_DONE" => link # "ip" /\ link' # "ip"
        PROVE  LinkInv'
    <3>1. x = "GOT_IP" => AllRegistered
      BY <2>3 DEF LinkInv, Started
    <3>2. x \in Events
      BY Names
    <3>3. QED
      BY <1>0, <2>1, <2>3, <3>1, <3>2, PostStep
  <2>4. QED
    BY <1>0, <1>9, <2>2, <2>3, DriverFacts
<1>10. CASE MqttRegister
  BY <1>0, <1>10, RegisterFacts, LinkKept
<1>11. CASE \/ UNCHANGED vars \/ heartbeat_task \/ ButtonSetup \/ ButtonReceive \/ gpio_isr_handler \/ Edge
            \/ mqtt_event_handler \/ ClientConnects \/ ClientBreaks
  <2>1. /\ UNCHANGED <<queue, current, chain, link, registered, stopping>>
        /\ client' # "stopped" <=> client # "stopped"
    BY <1>11 DEF vars, heartbeat_task, ButtonSetup, ButtonReceive, gpio_isr_handler, Edge,
                 mqtt_event_handler, ClientConnects, ClientBreaks, ClientStep, station, broker
  <2>2. QED
    BY <1>0, <2>1, LinkKept
<1>12. "HEARTBEAT" \in AppEvents /\ Levels \subseteq AppEvents
  BY Names
<1>13. QED
  BY <1>1, <1>2, <1>3, <1>4, <1>5, <1>6, <1>7, <1>8, <1>9, <1>10, <1>11, <1>12
     DEF Next, EventLoop, Environment, Sidecar, MqttClient, button_task, ButtonPost, heartbeat_callback

-----------------------------------------------------------------------------
(* Theorems.                                                               *)

\* The invariant of the button always holds.
THEOREM LevelsInvariance == Spec => []ButtonInv
<1>1. Init => ButtonInv
  BY InitLevels
<1>2. ButtonInv /\ [Next]_vars => ButtonInv'
  BY LevelsStep
<1>3. QED
  BY <1>1, <1>2, PTL DEF Spec

\* However the edges, the interrupts, the two queues, the client and the restarts
\* interleave: when no level is on its way, the last one published is that of
\* the button, or the newest was dropped in the interrupt or by the handler, which
\* found the client inactive.
THEOREM ButtonCatchesUp == Spec => []LevelCatchesUp
<1>1. ButtonInv => LevelCatchesUp
  <2> SUFFICES ASSUME ButtonInv, ~irq, ~stale, gpio_evt_queue = <<>>, held = "none", current \notin Levels,
                      \A l \in Levels : l \notin ToSet(queue)
               PROVE  reported \in {"nobody", pin}
    BY DEF LevelCatchesUp
  <2>1. Types /\ Newest /\ reported \in Levels \cup {"nobody"} /\ queue \in Seq(Events)
    BY DEF ButtonInv, Types
  <2>2. ToSet(gpio_evt_queue) = {} /\ held \notin Levels
    BY Names DEF ToSet
  <2>3. Followed(reported, queue, Other, pin)
    BY <2>1, <2>2 DEF Newest, Handled
  <2>4. Levels = {Other, pin} /\ Other # pin
    BY <2>1, TwoLevels
  <2> DEFINE a == Other
  <2> HIDE DEF a
  <2>5. pin \notin ToSet(queue)
    BY <2>4
  <2>6. reported # a
    <3>1. Len(queue) \in Nat
      BY <2>1
    <3>2. ASSUME reported = a PROVE \E m \in 1..Len(queue) : queue[m] = pin
      <4>1. 0 \in 0..Len(queue) /\ Stream(reported, queue)[0] = a
        BY <3>1, <3>2 DEF Stream
      <4>2. PICK m \in 0+1..Len(queue) : Stream(reported, queue)[m] = pin
        BY <2>3, <4>1 DEF Followed, a
      <4>3. m \in 1..Len(queue)
        BY <3>1
      <4>4. QED
        BY <3>1, <4>2, <4>3 DEF Stream
    <3>3. QED
      BY <2>1, <2>5, <3>2 DEF ToSet
  <2>7. QED
    BY <2>1, <2>4, <2>6 DEF a
<1>2. QED
  BY <1>1, LevelsInvariance, PTL

\* The invariant of the link always holds when mqtt_task registers before the
\* first address comes.
THEOREM LinkInvariance ==
  ASSUME ~LateSidecars
  PROVE  Spec => []LinkInv
<1>1. Init => LinkInv
  <2> SUFFICES ASSUME Init PROVE LinkInv
    OBVIOUS
  <2>1. Types /\ ToSet(queue) = {"STA_START"}
    BY InitTypes
  <2>2. link = "started" /\ queue = <<"STA_START">> /\ current = "none" /\ client = "stopped" /\ ~stopping
    BY DEF Init, StationInit
  <2>3. QED
    BY <2>1, <2>2, FreshLink DEF LinkInv
<1>2. LinkInv /\ [Next]_vars => LinkInv'
  BY LinkStep
<1>3. QED
  BY <1>1, <1>2, PTL DEF Spec

\* When the event loop has nothing left to do, the client runs if and only if
\* the station has an address: however often the link was lost, got another
\* address or the node restarted, and though disconnect_handler runs twice.
THEOREM ClientSettles ==
  ASSUME ~LateSidecars
  PROVE  Spec => []ClientFollowsLink
<1>1. LinkInv => ClientFollowsLink
  <2> SUFFICES ASSUME LinkInv, current = "none", queue = <<>> PROVE client # "stopped" <=> link = "ip"
    BY DEF ClientFollowsLink
  <2>1. queue \in Seq(Events) /\ ToSet(queue) = {} /\ Order
    BY NotEmpty DEF LinkInv, Types
  <2>2. ~Pending("GOT_IP") /\ ~Pending("DISCONNECTED")
    BY DEF Pending
  <2>3. Latest = IF client = "stopped" THEN "DISCONNECTED" ELSE "GOT_IP"
    BY <2>2 DEF Latest
  <2>4. Followed(Latest, queue, "GOT_IP", "DISCONNECTED") <=> Latest # "GOT_IP"
    BY <2>1, StreamOfNone
  <2>5. QED
    BY <2>1, <2>3, <2>4 DEF Order
<1>2. QED
  BY <1>1, LinkInvariance, PTL
=============================================================================
