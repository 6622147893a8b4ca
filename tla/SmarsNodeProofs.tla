-------------------------- MODULE SmarsNodeProofs --------------------------
(***************************************************************************)
(* The semaphore of udp_client.c, the server handle of http.c and the link *)
(* of the driver agree, for every length of the event queue and any number *)
(* of losses, failures and changes of the address, when the sidecars have  *)
(* registered before the first address comes.                              *)
(***************************************************************************)
EXTENDS SmarsNode, DataLemmas, SequencesExt

-----------------------------------------------------------------------------
(* The invariant.                                                          *)

\* What the sidecar h has made of the events it has handled: it believes the
\* station has an address.
IsUp(h) == IF h = "udp" THEN udp_up ELSE http_up

\* Its handler for e is still to run.
Pending(h, e) == h \in ToSet(chain) /\ current = e

\* The last event that has been taken for it.
Latest(h) == IF Pending(h, "GOT_IP") THEN "GOT_IP"
             ELSE IF Pending(h, "DISCONNECTED") THEN "DISCONNECTED"
             ELSE IF IsUp(h) THEN "GOT_IP" ELSE "DISCONNECTED"

\* The state of the station and of the sidecars.
Types ==
    /\ link \in Links /\ queue \in Seq(Events) /\ current \in Events \cup {"none"}
    /\ chain \in Seq(Sidecars \cup {"main"}) /\ (current = "none" <=> ToSet(chain) = {})
    /\ registered \in [SidecarEvents -> Seq(Sidecars)] /\ changes \in Nat
    /\ http \in 0..2 /\ server \in BOOLEAN /\ httpd \in BOOLEAN
    /\ http_up \in BOOLEAN /\ forgot \in BOOLEAN
    /\ sem_conn \in {0, 1} /\ udp_up \in BOOLEAN
    /\ udp \in {"start", "registering", "gone", "socket", "take", "sending", "sent",
                "failed", "delay", "close", "dead"}

\* No handler is called twice for an event.
Once == NoDup(chain) /\ \A e \in SidecarEvents : NoDup(registered[e])

\* What a sidecar has not registered yet.
Registration ==
    /\ http = 0 => "http" \notin ToSet(registered["GOT_IP"])
    /\ http \in {0, 1} => "http" \notin ToSet(registered["DISCONNECTED"])
    /\ udp \in {"start", "gone"} => "udp" \notin ToSet(registered["GOT_IP"]) /\ "udp" \notin ToSet(chain)
    /\ udp \in {"start", "registering", "gone"} => "udp" \notin ToSet(registered["DISCONNECTED"])

\* No address comes before the sidecars are ready.
Started ==
    ("GOT_IP" \in ToSet(queue) \/ current = "GOT_IP" \/ link = "ip" \/ udp_up \/ http_up) => AllRegistered

\* The events that a sidecar has handled and will handle end with the one that
\* tells the state of the link; up to the first change of the address, GOT_IP
\* and DISCONNECTED take turns.
Order(h) ==
    /\ link = "ip" <=> ~Followed(Latest(h), queue, "GOT_IP", "DISCONNECTED")
    /\ changes = 0 => Separated(Latest(h), queue, "GOT_IP", "DISCONNECTED")
    /\ changes = 0 /\ Pending(h, "GOT_IP") => ~IsUp(h)

\* What the last handlers of http.c have left behind: a server, unless it did
\* not start, or none, unless it did not stop or nobody had its handle.
WebInv ==
    /\ http_up => httpd \/ "httpd_start" \in failed
    /\ httpd /\ ~forgot /\ "httpd_stop" \notin failed => http_up
    /\ forgot => httpd /\ ~server

NodeInv ==
    /\ Types /\ Once /\ Registration /\ Started
    /\ \A h \in Alive : Order(h)
    /\ TokenConserved /\ HandleKnowsServer /\ WebInv

-----------------------------------------------------------------------------
(* Lemmas.                                                                 *)

\* The names of events and sidecars.
LEMMA Names ==
  /\ SidecarEvents = {"GOT_IP", "DISCONNECTED"} /\ Sidecars \subseteq {"http", "udp"}
  /\ Events = {"STA_START", "SCAN_DONE", "DISCONNECTED", "GOT_IP"}
  /\ AppEvents = {} /\ Alive \subseteq Sidecars /\ ("http" \in Sidecars => "http" \in Alive)
  BY SidecarsAssumption DEF SidecarEvents, Events, Alive

\* The handlers that an event has.
LEMMA HandlersFacts ==
  ASSUME Types, Once, NEW e \in Events
  PROVE  /\ Handlers(e) \in Seq(Sidecars \cup {"main"}) /\ NoDup(Handlers(e))
         /\ ToSet(Handlers(e)) = (IF e = "GOT_IP" THEN {} ELSE {"main"})
                                 \cup (IF e \in SidecarEvents THEN ToSet(registered[e]) ELSE {})
<1> DEFINE S == Sidecars \cup {"main"}
           first == IF e = "GOT_IP" THEN <<>> ELSE <<"main">>
           rest == IF e \in SidecarEvents THEN registered[e] ELSE <<>>
<1>1. Handlers(e) = first \o rest
  BY Names DEF Handlers
<1>2. first \in Seq(S) /\ NoDup(first) /\ ToSet(first) = IF e = "GOT_IP" THEN {} ELSE {"main"}
  <2>1. <<"main">> \in Seq(S) /\ NoDup(<<"main">>) /\ ToSet(<<"main">>) = {"main"}
    BY OneFacts
  <2>2. <<>> \in Seq(S) /\ NoDup(<<>>) /\ ToSet(<<>>) = {}
    BY DEF NoDup, ToSet
  <2>3. QED
    BY <2>1, <2>2
<1>3. /\ rest \in Seq(S) /\ NoDup(rest) /\ ToSet(rest) \subseteq Sidecars
      /\ ToSet(rest) = IF e \in SidecarEvents THEN ToSet(registered[e]) ELSE {}
  <2>1. CASE e \in SidecarEvents
    <3>1. registered[e] \in Seq(Sidecars) /\ NoDup(registered[e]) /\ rest = registered[e]
      BY <2>1 DEF Types, Once
    <3>2. registered[e] \in Seq(S)
      BY <3>1
    <3>3. ToSet(registered[e]) \subseteq Sidecars
      BY <3>1 DEF ToSet
    <3>4. QED
      BY <2>1, <3>1, <3>2, <3>3
  <2>2. CASE e \notin SidecarEvents
    <3>1. <<>> \in Seq(S) /\ NoDup(<<>>) /\ ToSet(<<>>) = {}
      BY DEF NoDup, ToSet
    <3>2. QED
      BY <2>2, <3>1
  <2>3. QED
    BY <2>1, <2>2
<1>4. ToSet(first) \cap ToSet(rest) = {}
  BY <1>2, <1>3, Names
<1> HIDE DEF first, rest
<1>5. /\ first \o rest \in Seq(S) /\ ToSet(first \o rest) = ToSet(first) \cup ToSet(rest)
      /\ NoDup(first) /\ NoDup(rest) /\ ToSet(first) \cap ToSet(rest) = {} => NoDup(first \o rest)
  BY <1>2, <1>3, ConcatFacts
<1>6. QED
  BY <1>1, <1>2, <1>3, <1>4, <1>5

\* The handler that returns leaves the chain, and for no other one anything
\* changes.
LEMMA ReturnFacts ==
  ASSUME Types, Once, NEW h0, NEW e, Running(h0, e), Return
  PROVE  /\ chain' \in Seq(Sidecars \cup {"main"}) /\ NoDup(chain') /\ ToSet(chain') \subseteq ToSet(chain)
         /\ current' \in Events \cup {"none"} /\ (current' = "none" <=> ToSet(chain') = {})
         /\ current' = "GOT_IP" => current = "GOT_IP"
         /\ Pending(h0, e) /\ current = e /\ e # "none"
         /\ \A x : ~Pending(h0, x)'
         /\ \A h, x : h # h0 /\ x # "none" => (Pending(h, x)' <=> Pending(h, x))
<1>1. /\ chain \in Seq(Sidecars \cup {"main"}) /\ NoDup(chain) /\ chain # <<>> /\ Head(chain) = h0
      /\ current = e /\ current \in Events \cup {"none"} /\ (current = "none" <=> ToSet(chain) = {})
      /\ chain' = Tail(chain) /\ current' = IF Len(chain) = 1 THEN "none" ELSE current
  BY DEF Types, Once, Running, Return
<1>2. ToSet(chain) # {}
  BY <1>1, NotEmpty
<1>3. /\ Tail(chain) \in Seq(Sidecars \cup {"main"}) /\ Head(chain) \in ToSet(chain)
      /\ ToSet(chain) = ToSet(Tail(chain)) \cup {Head(chain)}
      /\ NoDup(chain) => NoDup(Tail(chain)) /\ Head(chain) \notin ToSet(Tail(chain))
      /\ Len(Tail(chain)) = Len(chain) - 1 /\ Len(chain) > 0
  BY <1>1, <1>2, TailFacts
<1>4. Len(chain') = 0 <=> ToSet(chain') = {}
  BY <1>1, <1>3, NoLength
<1>5. Len(chain) \in Nat
  BY <1>1
<1>6. current' = IF ToSet(chain') = {} THEN "none" ELSE current
  BY <1>1, <1>3, <1>4, <1>5
<1>7. QED
  BY <1>1, <1>2, <1>3, <1>6 DEF Pending

\* A step that changes neither what is to come nor what has come for h.
LEMMA OrderKept ==
  ASSUME NEW h, Order(h), queue' = queue, changes' = changes, link' = "ip" <=> link = "ip",
         Latest(h)' = Latest(h), changes = 0 /\ Pending(h, "GOT_IP")' => ~IsUp(h)'
  PROVE  Order(h)'
<1> DEFINE v == Latest(h)
           p == Pending(h, "GOT_IP")
           u == IsUp(h)
<1>1. /\ link = "ip" => ~Followed(v, queue, "GOT_IP", "DISCONNECTED")
      /\ link # "ip" => Followed(v, queue, "GOT_IP", "DISCONNECTED")
      /\ changes = 0 => Separated(v, queue, "GOT_IP", "DISCONNECTED")
  BY DEF Order
<1>2. v' = v /\ (changes = 0 /\ p' => ~u')
  OBVIOUS
<1> HIDE DEF v, p, u
<1>3. /\ link' = "ip" => ~Followed(v', queue', "GOT_IP", "DISCONNECTED")
      /\ link' # "ip" => Followed(v', queue', "GOT_IP", "DISCONNECTED")
      /\ changes' = 0 => Separated(v', queue', "GOT_IP", "DISCONNECTED")
      /\ changes' = 0 /\ p' => ~u'
  BY <1>1, <1>2
<1>4. QED
  BY <1>3 DEF Order, v, p, u

\* A handler that is not a sidecar's own leaves what has come for it alone.
LEMMA OthersReturn ==
  ASSUME Types, Once, NEW h, Order(h), NEW h0, NEW e, Running(h0, e), Return, h # h0,
         queue' = queue, changes' = changes, link' = "ip" <=> link = "ip", IsUp(h)' = IsUp(h)
  PROVE  Order(h)'
<1>1. \A x : x # "none" => (Pending(h, x)' <=> Pending(h, x))
  BY ReturnFacts
<1>2. /\ Pending(h, "GOT_IP")' <=> Pending(h, "GOT_IP")
      /\ Pending(h, "DISCONNECTED")' <=> Pending(h, "DISCONNECTED")
  BY <1>1
<1>3. changes = 0 /\ Pending(h, "GOT_IP") => ~IsUp(h)
  BY DEF Order
<1>4. Latest(h)' = Latest(h)
  BY <1>2 DEF Latest
<1>5. QED
  BY <1>2, <1>3, <1>4, OrderKept

\* A step outside the event loop changes what has come for no one.
LEMMA NobodyReturns ==
  ASSUME NEW h, Order(h), chain' = chain, current' = current, queue' = queue, changes' = changes,
         link' = "ip" <=> link = "ip", IsUp(h)' = IsUp(h)
  PROVE  Order(h)'
<1>1. /\ Pending(h, "GOT_IP")' <=> Pending(h, "GOT_IP")
      /\ Pending(h, "DISCONNECTED")' <=> Pending(h, "DISCONNECTED")
  BY DEF Pending
<1>2. changes = 0 /\ Pending(h, "GOT_IP") => ~IsUp(h)
  BY DEF Order
<1>3. Latest(h)' = Latest(h)
  BY <1>1 DEF Latest
<1>4. QED
  BY <1>1, <1>2, <1>3, OrderKept

\* The parts of the invariant that are about the semaphore and the handle.
LEMMA SidecarsKept ==
  ASSUME TokenConserved, HandleKnowsServer, WebInv, changes' = changes,
         sem_conn' = sem_conn, udp' = udp, udp_up' = udp_up, UNCHANGED web
  PROVE  TokenConserved' /\ HandleKnowsServer' /\ WebInv'
  BY DEF TokenConserved, Tokens, UdpHolds, HandleKnowsServer, WebInv, web

\* Registrations that were complete stay so.
LEMMA StartedKept ==
  ASSUME Started, registered' = registered, Alive' = Alive,
         ("GOT_IP" \in ToSet(queue') \/ current' = "GOT_IP" \/ link' = "ip" \/ udp_up' \/ http_up') =>
         ("GOT_IP" \in ToSet(queue) \/ current = "GOT_IP" \/ link = "ip" \/ udp_up \/ http_up)
  PROVE  Started'
  BY DEF Started, AllRegistered, HaveRegistered

-----------------------------------------------------------------------------
(* The event loop.                                                         *)

\* Before the first event nothing has come and nothing is remembered.
LEMMA InitHolds == Init => NodeInv
<1> SUFFICES ASSUME Init PROVE NodeInv
  OBVIOUS
<1>0. queue = <<"STA_START">> /\ chain = <<>> /\ registered = [e \in SidecarEvents |-> <<>>]
  BY DEF Init, StationInit
<1>1. /\ link = "started" /\ current = "none" /\ changes = 0 /\ http = 0 /\ ~server /\ ~httpd /\ ~http_up /\ ~forgot
      /\ sem_conn = 0 /\ udp = "start" /\ ~udp_up
      /\ server \in BOOLEAN /\ httpd \in BOOLEAN /\ udp_up \in BOOLEAN
      /\ http_up \in BOOLEAN /\ forgot \in BOOLEAN
  BY DEF Init, StationInit
<1>2. queue \in Seq(Events) /\ ToSet(queue) = {"STA_START"}
  <2>1. "STA_START" \in Events
    BY Names
  <2>2. QED
    BY <1>0, <2>1, OneFacts
<1>3. chain \in Seq(Sidecars \cup {"main"}) /\ ToSet(chain) = {} /\ NoDup(chain)
  BY <1>0 DEF ToSet, NoDup
<1>4. /\ registered \in [SidecarEvents -> Seq(Sidecars)]
      /\ \A e \in SidecarEvents : NoDup(registered[e]) /\ ToSet(registered[e]) = {}
  <2>1. <<>> \in Seq(Sidecars) /\ NoDup(<<>>) /\ ToSet(<<>>) = {}
    BY DEF NoDup, ToSet
  <2>2. QED
    BY <1>0, <2>1
<1>5. Types /\ Once
  BY <1>1, <1>2, <1>3, <1>4 DEF Types, Once, Links
<1>6. Registration /\ Started
  BY <1>1, <1>2, <1>3, <1>4, Names DEF Registration, Started
<1>7. ASSUME NEW h \in Alive PROVE Order(h)
  <2>1. Latest(h) = "DISCONNECTED" /\ ~Pending(h, "GOT_IP")
    BY <1>1, <1>3 DEF Latest, Pending, IsUp
  <2>2. Len(queue) = 1 /\ queue[1] = "STA_START"
    BY <1>0
  <2>3. \A i \in 0..Len(queue) : Stream("DISCONNECTED", queue)[i] # "GOT_IP"
    <3>1. \A i \in 0..Len(queue) : i = 0 \/ i = 1
      BY <2>2
    <3>2. QED
      BY <2>2, <3>1 DEF Stream
  <2>4. /\ Followed("DISCONNECTED", queue, "GOT_IP", "DISCONNECTED")
        /\ Separated("DISCONNECTED", queue, "GOT_IP", "DISCONNECTED")
    BY <2>3 DEF Followed, Separated
  <2>5. QED
    BY <1>1, <2>1, <2>4 DEF Order
<1>8. TokenConserved /\ HandleKnowsServer /\ WebInv
  BY <1>1 DEF TokenConserved, Tokens, UdpHolds, HandleKnowsServer, WebInv
<1>9. QED
  BY <1>5, <1>6, <1>7, <1>8 DEF NodeInv

\* The loop takes an event: for the sidecars that handle it, it is the last one.
LEMMA DispatchStep ==
  ASSUME NodeInv, Dispatch, UNCHANGED <<web, dgram>>
  PROVE  NodeInv'
<1> DEFINE e == Head(queue)
<1>1. /\ current = "none" /\ queue # <<>> /\ queue' = Tail(queue) /\ chain' = Handlers(e)
      /\ current' = IF chain' = <<>> THEN "none" ELSE e
      /\ link' = link /\ registered' = registered /\ changes' = changes
  BY DEF Dispatch
<1>2. /\ UNCHANGED web /\ UNCHANGED <<http, server, httpd, http_up, failed, forgot>>
      /\ sem_conn' = sem_conn /\ udp' = udp /\ udp_up' = udp_up /\ Alive' = Alive
  BY DEF web, dgram, Alive
<1>3. /\ queue \in Seq(Events) /\ (current = "none" <=> ToSet(chain) = {})
      /\ registered \in [SidecarEvents -> Seq(Sidecars)]
  BY DEF NodeInv, Types
<1>4. ToSet(queue) # {}
  BY <1>1, <1>3, NotEmpty
<1>5. /\ Tail(queue) \in Seq(Events) /\ Head(queue) \in ToSet(queue)
      /\ ToSet(queue) = ToSet(Tail(queue)) \cup {Head(queue)}
  BY <1>3, <1>4, TailFacts
<1>6. e \in Events
  BY <1>3, <1>5 DEF ToSet
<1> HIDE DEF e
<1>7. /\ chain' \in Seq(Sidecars \cup {"main"}) /\ NoDup(chain')
      /\ ToSet(chain') = (IF e = "GOT_IP" THEN {} ELSE {"main"})
                         \cup (IF e \in SidecarEvents THEN ToSet(registered[e]) ELSE {})
  BY <1>1, <1>6, HandlersFacts DEF NodeInv
<1>8. current' = IF ToSet(chain') = {} THEN "none" ELSE e
  BY <1>1, <1>7, NotEmpty
<1>9. Types'
  BY <1>1, <1>2, <1>5, <1>6, <1>7, <1>8, Names DEF NodeInv, Types
<1>10. Once' /\ Registration'
  <2>1. udp \in {"start", "gone"} => "udp" \notin ToSet(chain')
    BY <1>7, Names DEF NodeInv, Registration
  <2>2. QED
    BY <1>1, <1>2, <1>7, <2>1 DEF NodeInv, Once, Registration
<1>11. Started'
  <2>1. "GOT_IP" \in ToSet(queue') \/ current' = "GOT_IP" => "GOT_IP" \in ToSet(queue)
    BY <1>1, <1>5, <1>8 DEF e
  <2>2. QED
    BY <1>1, <1>2, <2>1, StartedKept DEF NodeInv
<1>12. ASSUME NEW h \in Alive PROVE Order(h)'
  <2>1. h \in {"http", "udp"} /\ h # "main"
    BY Names
  <2>2. ~Pending(h, "GOT_IP") /\ ~Pending(h, "DISCONNECTED")
    BY <1>1 DEF Pending
  <2>3. Latest(h) = IF IsUp(h) THEN "GOT_IP" ELSE "DISCONNECTED"
    BY <2>2 DEF Latest
  <2>4. IsUp(h)' = IsUp(h)
    BY <1>2 DEF IsUp
  <2>5. /\ link = "ip" => ~Followed(Latest(h), queue, "GOT_IP", "DISCONNECTED")
        /\ link # "ip" => Followed(Latest(h), queue, "GOT_IP", "DISCONNECTED")
        /\ changes = 0 => Separated(Latest(h), queue, "GOT_IP", "DISCONNECTED")
    BY DEF NodeInv, Order
  <2>6. \A v : /\ e \in {"GOT_IP", "DISCONNECTED"} =>
                     (Followed(e, queue', "GOT_IP", "DISCONNECTED") <=>
                      Followed(v, queue, "GOT_IP", "DISCONNECTED"))
               /\ Separated(v, queue, "GOT_IP", "DISCONNECTED") =>
                     Separated(e, queue', "GOT_IP", "DISCONNECTED") /\ (e = "GOT_IP" => v # "GOT_IP")
               /\ e \notin {"GOT_IP", "DISCONNECTED"} =>
                     (Followed(v, queue', "GOT_IP", "DISCONNECTED") <=>
                      Followed(v, queue, "GOT_IP", "DISCONNECTED"))
               /\ e \notin {"GOT_IP", "DISCONNECTED"} /\ Separated(v, queue, "GOT_IP", "DISCONNECTED") =>
                     Separated(v, queue', "GOT_IP", "DISCONNECTED")
    BY <1>1, <1>3, <1>4, StreamTake DEF e
  <2>7. CASE e \in {"GOT_IP", "DISCONNECTED"}
    <3>1. Latest(h)' = e
      <4>1. CASE h \in ToSet(registered[e])
        <5>1. h \in ToSet(chain') /\ current' = e
          BY <1>7, <1>8, <2>7, <4>1, Names
        <5>2. CASE e = "GOT_IP"
          <6>1. Pending(h, "GOT_IP")'
            BY <5>1, <5>2 DEF Pending
          <6>2. QED
            BY <5>2, <6>1 DEF Latest
        <5>3. CASE e = "DISCONNECTED"
          <6>1. ~Pending(h, "GOT_IP")' /\ Pending(h, "DISCONNECTED")'
            BY <5>1, <5>3 DEF Pending
          <6>2. QED
            BY <5>3, <6>1 DEF Latest
        <5>4. QED
          BY <2>7, <5>2, <5>3
      <4>2. CASE h \notin ToSet(registered[e])
        <5>1. ~AllRegistered
          BY <2>7, <4>2, Names DEF AllRegistered, HaveRegistered
        <5>2. e # "GOT_IP" /\ ~udp_up /\ ~http_up
          BY <1>5, <5>1 DEF NodeInv, Started, e
        <5>3. ~IsUp(h)
          BY <5>2 DEF IsUp
        <5>4. h \notin ToSet(chain')
          BY <1>7, <2>1, <2>7, <4>2
        <5>5. ~Pending(h, "GOT_IP")'
          BY <5>4 DEF Pending
        <5>6. QED
          BY <2>4, <2>7, <5>2, <5>3, <5>5 DEF Latest
      <4>3. QED
        BY <4>1, <4>2
    <3>2. /\ link' = "ip" => ~Followed(e, queue', "GOT_IP", "DISCONNECTED")
          /\ link' # "ip" => Followed(e, queue', "GOT_IP", "DISCONNECTED")
          /\ changes' = 0 => Separated(e, queue', "GOT_IP", "DISCONNECTED")
      BY <1>1, <2>5, <2>6, <2>7
    <3>3. changes' = 0 /\ Pending(h, "GOT_IP")' => ~IsUp(h)'
      <4>1. Pending(h, "GOT_IP")' => e = "GOT_IP"
        BY <1>8 DEF Pending
      <4>2. changes = 0 /\ e = "GOT_IP" => Latest(h) # "GOT_IP"
        BY <2>5, <2>6
      <4>3. QED
        BY <1>1, <2>3, <2>4, <4>1, <4>2
    <3>4. QED
      BY <3>1, <3>2, <3>3 DEF Order
  <2>8. CASE e \notin {"GOT_IP", "DISCONNECTED"}
    <3>1. h \notin ToSet(chain')
      BY <1>7, <2>1, <2>8, Names
    <3>2. ~Pending(h, "GOT_IP")' /\ ~Pending(h, "DISCONNECTED")'
      BY <3>1 DEF Pending
    <3>3. Latest(h)' = Latest(h)
      BY <2>3, <2>4, <3>2 DEF Latest
    <3>4. /\ link' = "ip" => ~Followed(Latest(h), queue', "GOT_IP", "DISCONNECTED")
          /\ link' # "ip" => Followed(Latest(h), queue', "GOT_IP", "DISCONNECTED")
          /\ changes' = 0 => Separated(Latest(h), queue', "GOT_IP", "DISCONNECTED")
      BY <1>1, <2>5, <2>6, <2>8
    <3>5. QED
      BY <3>2, <3>3, <3>4 DEF Order
  <2>9. QED
    BY <2>7, <2>8
<1>13. TokenConserved' /\ HandleKnowsServer' /\ WebInv'
  BY <1>1, <1>2, SidecarsKept DEF NodeInv
<1>14. QED
  BY <1>2, <1>9, <1>10, <1>11, <1>12, <1>13 DEF NodeInv

\* What main.c does in its handler keeps the sidecars' view: the link that it
\* brings up has no address yet.
LEMMA MainStep ==
  ASSUME NodeInv, wifi_event_handler, UNCHANGED <<web, dgram>>
  PROVE  NodeInv'
<1>1. /\ queue' = queue /\ registered' = registered /\ changes' = changes
      /\ link' \in Links /\ (link' = "ip" <=> link = "ip")
      /\ \/ chain' = chain /\ current' = current
         \/ Return /\ \E e : Running("main", e)
  BY DEF wifi_event_handler, MainScanStart, MainScanReturn, MainConnect, esp_wifi_connect,
         NodeInv, Types, Links
<1>2. /\ UNCHANGED web /\ UNCHANGED <<http, server, httpd, http_up, failed, forgot>>
      /\ sem_conn' = sem_conn /\ udp' = udp /\ udp_up' = udp_up /\ Alive' = Alive
  BY DEF web, dgram, Alive
<1>3. TokenConserved' /\ HandleKnowsServer' /\ WebInv'
  BY <1>1, <1>2, SidecarsKept DEF NodeInv
<1>4. ToSet(chain') \subseteq ToSet(chain) => Registration'
  BY <1>1, <1>2 DEF NodeInv, Registration
<1>5. CASE chain' = chain /\ current' = current
  <2>1. Types' /\ Once'
    BY <1>1, <1>2, <1>5 DEF NodeInv, Types, Once
  <2>2. Started'
    BY <1>1, <1>2, <1>5, StartedKept DEF NodeInv
  <2>3. ASSUME NEW h \in Alive PROVE Order(h)'
    <3>1. IsUp(h)' = IsUp(h)
      BY <1>2 DEF IsUp
    <3>2. QED
      BY <1>1, <1>5, <3>1, NobodyReturns DEF NodeInv
  <2>4. QED
    BY <1>2, <1>3, <1>4, <1>5, <2>1, <2>2, <2>3 DEF NodeInv
<1>6. ASSUME Return, NEW e, Running("main", e) PROVE NodeInv'
  <2>1. /\ chain' \in Seq(Sidecars \cup {"main"}) /\ NoDup(chain') /\ ToSet(chain') \subseteq ToSet(chain)
        /\ current' \in Events \cup {"none"} /\ (current' = "none" <=> ToSet(chain') = {})
        /\ current' = "GOT_IP" => current = "GOT_IP"
    BY <1>6, ReturnFacts DEF NodeInv
  <2>2. Types' /\ Once'
    BY <1>1, <1>2, <2>1 DEF NodeInv, Types, Once
  <2>3. Started'
    BY <1>1, <1>2, <2>1, StartedKept DEF NodeInv
  <2>4. ASSUME NEW h \in Alive PROVE Order(h)'
    <3>1. IsUp(h)' = IsUp(h) /\ h # "main"
      BY <1>2, Names DEF IsUp
    <3>2. QED
      BY <1>1, <1>6, <3>1, OthersReturn DEF NodeInv
  <2>5. QED
    BY <1>2, <1>3, <1>4, <2>1, <2>2, <2>3, <2>4 DEF NodeInv
<1>7. QED
  BY <1>1, <1>5, <1>6

\* A sidecar's own handler for e leaves e as the last event, and remembers it.
LEMMA OwnReturn ==
  ASSUME Types, Once, NEW h, Order(h), NEW e, e \in {"GOT_IP", "DISCONNECTED"}, Running(h, e), Return,
         queue' = queue, changes' = changes, link' = link, IsUp(h)' <=> e = "GOT_IP"
  PROVE  Order(h)'
<1>1. Pending(h, e) /\ current = e /\ \A x : ~Pending(h, x)'
  BY ReturnFacts
<1>2. ~Pending(h, "GOT_IP")' /\ ~Pending(h, "DISCONNECTED")'
  BY <1>1
<1>3. Latest(h)' = e
  BY <1>2 DEF Latest
<1>4. Latest(h) = e
  <2>1. CASE e = "GOT_IP"
    BY <1>1, <2>1 DEF Latest
  <2>2. CASE e = "DISCONNECTED"
    <3>1. ~Pending(h, "GOT_IP")
      BY <1>1, <2>2 DEF Pending
    <3>2. QED
      BY <1>1, <2>2, <3>1 DEF Latest
  <2>3. QED
    BY <2>1, <2>2
<1>5. QED
  BY <1>2, <1>3, <1>4, OrderKept

\* What a handler of http.c that returns leaves behind.
LEMMA HttpReturnStep ==
  ASSUME NodeInv, NEW e \in {"GOT_IP", "DISCONNECTED"}, Running("http", e), HttpReturns,
         server' \in BOOLEAN, httpd' \in BOOLEAN, forgot' \in BOOLEAN, http_up' = (e = "GOT_IP")
  PROVE  /\ Types' /\ Once' /\ Registration' /\ Started' /\ TokenConserved' /\ (\A h \in Alive : Order(h))'
         /\ changes' = changes /\ (changes = 0 /\ e = "GOT_IP" => ~http_up)
<1>1. /\ Return /\ queue' = queue /\ registered' = registered /\ changes' = changes /\ link' = link
      /\ http' = http /\ sem_conn' = sem_conn /\ udp' = udp /\ udp_up' = udp_up /\ Alive' = Alive
  BY DEF HttpReturns, dgram, Alive
<1>2. /\ chain' \in Seq(Sidecars \cup {"main"}) /\ NoDup(chain') /\ ToSet(chain') \subseteq ToSet(chain)
      /\ current' \in Events \cup {"none"} /\ (current' = "none" <=> ToSet(chain') = {})
      /\ current' = "GOT_IP" => current = "GOT_IP"
      /\ Pending("http", e) /\ current = e
  BY <1>1, ReturnFacts DEF NodeInv
<1>3. "http" \in Alive
  <2>1. "http" \in ToSet(chain) /\ chain \in Seq(Sidecars \cup {"main"})
    BY <1>2 DEF NodeInv, Types, Pending
  <2>2. ToSet(chain) \subseteq Sidecars \cup {"main"}
    BY <2>1 DEF ToSet
  <2>3. QED
    BY <2>1, <2>2, Names
<1>4. changes = 0 /\ e = "GOT_IP" => ~http_up
  <2>1. Order("http")
    BY <1>3 DEF NodeInv
  <2>2. changes = 0 /\ e = "GOT_IP" => ~IsUp("http")
    BY <1>2, <2>1 DEF Order
  <2>3. QED
    BY <2>2 DEF IsUp
<1>5. Types'
  <2>1. http_up' \in BOOLEAN
    OBVIOUS
  <2>2. QED
    BY <1>1, <1>2, <2>1 DEF NodeInv, Types
<1>6. Once' /\ Registration'
  BY <1>1, <1>2 DEF NodeInv, Once, Registration
<1>7. Started'
  BY <1>1, <1>2, StartedKept DEF NodeInv
<1>8. ASSUME NEW h \in Alive PROVE Order(h)'
  <2>1. CASE h = "http"
    <3>1. IsUp("http")' <=> e = "GOT_IP"
      BY DEF IsUp
    <3>2. Order("http")'
      BY <1>1, <1>3, <3>1, OwnReturn DEF NodeInv
    <3>3. QED
      BY <2>1, <3>2
  <2>2. CASE h = "udp"
    <3>1. IsUp("udp")' = IsUp("udp")
      BY <1>1 DEF IsUp
    <3>2. QED
      BY <1>1, <2>2, <3>1, OthersReturn DEF NodeInv
  <2>3. QED
    BY <2>1, <2>2, Names
<1>9. TokenConserved'
  BY <1>1 DEF NodeInv, TokenConserved, Tokens, UdpHolds
<1>10. QED
  BY <1>1, <1>4, <1>5, <1>6, <1>7, <1>8, <1>9

\* connect_handler of http.c: it loses the handle of a server that runs; up to
\* the first change of the address there is one only if it could not be stopped.
LEMMA HttpConnectStep ==
  ASSUME NodeInv, HttpConnect
  PROVE  NodeInv'
<1>1. /\ Running("http", "GOT_IP") /\ HttpReturns /\ http_up' = TRUE /\ forgot' = (forgot \/ httpd)
      /\ \/ server' = ~httpd /\ httpd' = TRUE /\ failed' = failed \ {"httpd_start"}
         \/ failed' = failed \cup {"httpd_start"} /\ server' = FALSE /\ httpd' = httpd
  BY DEF HttpConnect
<1>2. /\ server \in BOOLEAN /\ httpd \in BOOLEAN /\ forgot \in BOOLEAN /\ changes \in Nat
      /\ server => httpd
      /\ httpd /\ ~server => forgot
      /\ forgot => changes > 0 \/ "httpd_stop" \in failed
      /\ httpd /\ ~forgot /\ "httpd_stop" \notin failed => http_up
      /\ forgot => httpd /\ ~server
  BY DEF NodeInv, Types, HandleKnowsServer, WebInv
<1>3. server' \in BOOLEAN /\ httpd' \in BOOLEAN /\ forgot' \in BOOLEAN
  BY <1>1, <1>2
<1>4. /\ Types' /\ Once' /\ Registration' /\ Started' /\ TokenConserved' /\ (\A h \in Alive : Order(h))'
      /\ changes' = changes /\ (changes = 0 => ~http_up)
  BY <1>1, <1>3, HttpReturnStep
<1>5. "httpd_stop" \in failed' <=> "httpd_stop" \in failed
  BY <1>1
<1>6. HandleKnowsServer'
  <2>1. forgot' => changes > 0 \/ "httpd_stop" \in failed
    BY <1>1, <1>2, <1>4
  <2>2. /\ server' => httpd'
        /\ httpd' /\ ~server' => forgot'
    <3>1. CASE server' = ~httpd /\ httpd' = TRUE
      BY <1>1, <3>1, Zenon
    <3>2. CASE server' = FALSE /\ httpd' = httpd
      BY <1>1, <3>2, Zenon
    <3>3. QED
      BY <1>1, <3>1, <3>2
  <2>3. forgot' => changes' > 0 \/ "httpd_stop" \in failed'
    BY <1>4, <1>5, <2>1
  <2>4. QED
    BY <2>2, <2>3 DEF HandleKnowsServer
<1>7. WebInv'
  BY <1>1, <1>2 DEF WebInv
<1>8. QED
  BY <1>4, <1>6, <1>7 DEF NodeInv

\* disconnect_handler of http.c: it stops the server whose handle it has, or
\* keeps the handle.
LEMMA HttpDisconnectStep ==
  ASSUME NodeInv, HttpDisconnect
  PROVE  NodeInv'
<1>1. /\ Running("http", "DISCONNECTED") /\ HttpReturns /\ http_up' = FALSE /\ forgot' = forgot
      /\ \/ ~server /\ server' = server /\ httpd' = httpd /\ failed' = failed
         \/ server /\ server' = FALSE /\ httpd' = FALSE /\ failed' = failed \ {"httpd_stop"}
         \/ server /\ server' = server /\ httpd' = httpd /\ failed' = failed \cup {"httpd_stop"}
  BY DEF HttpDisconnect
<1>2. /\ server \in BOOLEAN /\ httpd \in BOOLEAN /\ forgot \in BOOLEAN
      /\ server => httpd
      /\ httpd /\ ~server => forgot
      /\ forgot => changes > 0 \/ "httpd_stop" \in failed
      /\ forgot => httpd /\ ~server
  BY DEF NodeInv, Types, HandleKnowsServer, WebInv
<1>3. server' \in BOOLEAN /\ httpd' \in BOOLEAN /\ forgot' \in BOOLEAN
  BY <1>1, <1>2
<1>4. /\ Types' /\ Once' /\ Registration' /\ Started' /\ TokenConserved' /\ (\A h \in Alive : Order(h))'
      /\ changes' = changes
  BY <1>1, <1>3, HttpReturnStep
<1>5. HandleKnowsServer'
  BY <1>1, <1>2, <1>4 DEF HandleKnowsServer
<1>6. WebInv'
  BY <1>1, <1>2 DEF WebInv
<1>7. QED
  BY <1>4, <1>5, <1>6 DEF NodeInv

\* The handlers of udp_client.c: the semaphore is given when it is out, and
\* taken when it is there.
LEMMA UdpHandlerStep ==
  ASSUME NodeInv, UdpConnect \/ UdpDisconnect
  PROVE  NodeInv'
<1>0. PICK e \in {"GOT_IP", "DISCONNECTED"} :
         /\ Running("udp", e) /\ Return
         /\ IF e = "GOT_IP" THEN sem_conn' = 1 /\ udp_up' = TRUE
            ELSE sem_conn = 1 /\ sem_conn' = 0 /\ udp_up' = FALSE
  BY DEF UdpConnect, UdpDisconnect
<1>1. /\ queue' = queue /\ registered' = registered /\ changes' = changes /\ link' = link
      /\ UNCHANGED web /\ UNCHANGED <<http, server, httpd, http_up, failed, forgot>>
      /\ udp' = udp /\ Alive' = Alive
  BY DEF UdpConnect, UdpDisconnect, web, Alive
<1>2. /\ chain' \in Seq(Sidecars \cup {"main"}) /\ NoDup(chain') /\ ToSet(chain') \subseteq ToSet(chain)
      /\ current' \in Events \cup {"none"} /\ (current' = "none" <=> ToSet(chain') = {})
      /\ current' = "GOT_IP" => current = "GOT_IP"
      /\ Pending("udp", e) /\ current = e
  BY <1>0, ReturnFacts DEF NodeInv
<1>3. "udp" \in Alive /\ udp # "gone"
  <2>1. "udp" \in ToSet(chain) /\ chain \in Seq(Sidecars \cup {"main"})
    BY <1>2 DEF NodeInv, Types, Pending
  <2>2. ToSet(chain) \subseteq Sidecars \cup {"main"}
    BY <2>1 DEF ToSet
  <2>3. udp # "gone"
    BY <2>1 DEF NodeInv, Registration
  <2>4. QED
    BY <2>1, <2>2, <2>3, Names DEF Alive
<1>4. changes = 0 /\ e = "GOT_IP" => ~udp_up
  <2>1. Order("udp")
    BY <1>3 DEF NodeInv
  <2>2. changes = 0 /\ e = "GOT_IP" => ~IsUp("udp")
    BY <1>2, <2>1 DEF Order
  <2>3. QED
    BY <2>2 DEF IsUp
<1>5. Types'
  BY <1>0, <1>1, <1>2 DEF NodeInv, Types
<1>6. Once' /\ Registration'
  BY <1>1, <1>2 DEF NodeInv, Once, Registration
<1>7. Started'
  BY <1>0, <1>1, <1>2, StartedKept DEF NodeInv
<1>8. ASSUME NEW h \in Alive PROVE Order(h)'
  <2>1. CASE h = "udp"
    <3>1. IsUp("udp")' <=> e = "GOT_IP"
      BY <1>0 DEF IsUp
    <3>2. Order("udp")'
      BY <1>0, <1>1, <1>3, <3>1, OwnReturn DEF NodeInv
    <3>3. QED
      BY <2>1, <3>2
  <2>2. CASE h = "http"
    <3>1. IsUp("http")' = IsUp("http")
      BY <1>1 DEF IsUp
    <3>2. QED
      BY <1>0, <1>1, <2>2, <3>1, OthersReturn DEF NodeInv
  <2>3. QED
    BY <2>1, <2>2, Names
<1>9. TokenConserved'
  <2>1. Tokens = sem_conn + (IF UdpHolds THEN 1 ELSE 0) /\ Tokens' = sem_conn' + (IF UdpHolds THEN 1 ELSE 0)
    BY <1>1 DEF Tokens, UdpHolds
  <2>2. sem_conn \in {0, 1} /\ udp_up \in BOOLEAN
    BY DEF NodeInv, Types
  <2>3. CASE e = "GOT_IP"
    BY <1>0, <1>1, <1>4, <2>1, <2>2, <2>3 DEF NodeInv, TokenConserved
  <2>4. CASE e = "DISCONNECTED"
    BY <1>0, <1>1, <2>1, <2>2, <2>4 DEF NodeInv, TokenConserved
  <2>5. QED
    BY <2>3, <2>4
<1>10. HandleKnowsServer' /\ WebInv'
  BY <1>1 DEF NodeInv, HandleKnowsServer, WebInv
<1>11. QED
  BY <1>1, <1>5, <1>6, <1>7, <1>8, <1>9, <1>10 DEF NodeInv

-----------------------------------------------------------------------------
(* The sidecars' tasks and the driver.                                     *)

\* A sidecar registers a handler that is not there yet.
LEMMA RegisterStep ==
  ASSUME NodeInv, NEW h0 \in Sidecars, NEW e \in SidecarEvents, Register(h0, e),
         h0 \notin ToSet(registered[e])
  PROVE  /\ registered' \in [SidecarEvents -> Seq(Sidecars)]
         /\ \A x \in SidecarEvents : NoDup(registered'[x])
         /\ \A x \in SidecarEvents : ToSet(registered[x]) \subseteq ToSet(registered'[x])
         /\ ToSet(registered'[e]) = ToSet(registered[e]) \cup {h0}
         /\ \A x \in SidecarEvents : x # e => registered'[x] = registered[x]
<1>1. /\ registered' = [registered EXCEPT ![e] = Append(@, h0)]
      /\ registered \in [SidecarEvents -> Seq(Sidecars)]
      /\ \A x \in SidecarEvents : NoDup(registered[x])
  BY DEF Register, NodeInv, Types, Once
<1> DEFINE r == Append(registered[e], h0)
<1>2. /\ r \in Seq(Sidecars) /\ ToSet(r) = ToSet(registered[e]) \cup {h0}
      /\ NoDup(registered[e]) /\ h0 \notin ToSet(registered[e]) => NoDup(r)
  BY <1>1, AppendFacts
<1>3. registered'[e] = r /\ \A x \in SidecarEvents : x # e => registered'[x] = registered[x]
  BY <1>1
<1>4. registered' \in [SidecarEvents -> Seq(Sidecars)]
  BY <1>1, <1>2
<1> HIDE DEF r
<1>5. QED
  BY <1>1, <1>2, <1>3, <1>4

\* What registering leaves alone.
LEMMA RegistrationKeeps ==
  ASSUME NodeInv, NEW h0 \in Sidecars, NEW e \in SidecarEvents, Register(h0, e),
         h0 \notin ToSet(registered[e]),
         UNCHANGED <<server, httpd, http_up, failed, forgot, sem_conn, udp_up>>, http' \in 0..2,
         udp' = udp \/ (udp' \in {"registering", "socket"} /\ udp \in {"start", "registering"})
  PROVE  /\ Types' /\ Once' /\ Started' /\ (\A h \in Alive : Order(h))' /\ TokenConserved'
         /\ HandleKnowsServer' /\ WebInv' /\ chain' = chain
<1>1. /\ link' = link /\ queue' = queue /\ current' = current /\ chain' = chain /\ changes' = changes
      /\ server' = server /\ httpd' = httpd /\ http_up' = http_up /\ failed' = failed
      /\ forgot' = forgot /\ sem_conn' = sem_conn /\ udp_up' = udp_up
  BY DEF Register
<1>2. /\ registered' \in [SidecarEvents -> Seq(Sidecars)]
      /\ \A x \in SidecarEvents : NoDup(registered'[x])
      /\ \A x \in SidecarEvents : ToSet(registered[x]) \subseteq ToSet(registered'[x])
  BY RegisterStep
<1>3. Alive' = Alive
  BY DEF Alive
<1>4. Types'
  BY <1>1, <1>2 DEF NodeInv, Types
<1>5. Once'
  BY <1>1, <1>2 DEF NodeInv, Once
<1>6. Started'
  <2>1. AllRegistered => AllRegistered'
    BY <1>2, <1>3 DEF AllRegistered, HaveRegistered
  <2>2. QED
    BY <1>1, <2>1 DEF NodeInv, Started
<1>7. ASSUME NEW h \in Alive PROVE Order(h)'
  <2>1. IsUp(h)' = IsUp(h)
    BY <1>1 DEF IsUp
  <2>2. QED
    BY <1>1, <2>1, NobodyReturns DEF NodeInv
<1>8. TokenConserved'
  <2>1. Tokens' = Tokens
    BY <1>1 DEF Tokens, UdpHolds
  <2>2. QED
    BY <1>1, <2>1 DEF NodeInv, TokenConserved
<1>9. HandleKnowsServer' /\ WebInv'
  BY <1>1 DEF NodeInv, HandleKnowsServer, WebInv
<1>10. QED
  BY <1>1, <1>3, <1>4, <1>5, <1>6, <1>7, <1>8, <1>9

\* http_task registers its handlers one after the other.
LEMMA HttpRegisterStep ==
  ASSUME NodeInv, HttpRegister
  PROVE  NodeInv'
<1>1. /\ "http" \in Sidecars /\ http' = http + 1 /\ udp' = udp
      /\ UNCHANGED <<server, httpd, http_up, failed, forgot, sem_conn, udp_up>>
      /\ \/ http = 0 /\ Register("http", "GOT_IP")
         \/ http = 1 /\ Register("http", "DISCONNECTED")
  BY DEF HttpRegister, dgram
<1>2. PICK e \in SidecarEvents : Register("http", e) /\ http = (IF e = "GOT_IP" THEN 0 ELSE 1)
  BY <1>1, Names
<1>3. "http" \notin ToSet(registered[e])
  BY <1>2, Names DEF NodeInv, Registration
<1>4. http' \in 0..2 /\ http' = (IF e = "GOT_IP" THEN 1 ELSE 2)
  BY <1>1, <1>2
<1>5. /\ Types' /\ Once' /\ Started' /\ (\A h \in Alive : Order(h))' /\ TokenConserved'
      /\ HandleKnowsServer' /\ WebInv' /\ chain' = chain
  BY <1>1, <1>2, <1>3, <1>4, RegistrationKeeps
<1>6. /\ ToSet(registered'[e]) = ToSet(registered[e]) \cup {"http"}
      /\ \A x \in SidecarEvents : x # e => registered'[x] = registered[x]
  BY <1>1, <1>2, <1>3, RegisterStep
<1>7. Registration'
  <2>1. CASE e = "GOT_IP"
    BY <1>1, <1>2, <1>4, <1>5, <1>6, <2>1, Names DEF NodeInv, Registration
  <2>2. CASE e = "DISCONNECTED"
    BY <1>1, <1>2, <1>4, <1>5, <1>6, <2>2, Names DEF NodeInv, Registration
  <2>3. QED
    BY <2>1, <2>2, Names
<1>8. QED
  BY <1>5, <1>7 DEF NodeInv

\* So does udp_task.
LEMMA UdpRegisterStep ==
  ASSUME NodeInv, UdpRegister, udp' # "gone"
  PROVE  NodeInv'
<1>1. /\ "udp" \in Sidecars /\ http' = http
      /\ UNCHANGED <<server, httpd, http_up, failed, forgot, sem_conn, udp_up>>
      /\ \/ udp = "start" /\ udp' = "registering" /\ Register("udp", "GOT_IP")
         \/ udp = "registering" /\ udp' = "socket" /\ Register("udp", "DISCONNECTED")
  BY DEF UdpRegister, web
<1>2. PICK e \in SidecarEvents :
         /\ Register("udp", e)
         /\ IF e = "GOT_IP" THEN udp = "start" /\ udp' = "registering"
            ELSE udp = "registering" /\ udp' = "socket"
  BY <1>1, Names
<1>3. "udp" \notin ToSet(registered[e])
  BY <1>2, Names DEF NodeInv, Registration
<1>4. http' \in 0..2
  BY <1>1 DEF NodeInv, Types
<1>5. /\ Types' /\ Once' /\ Started' /\ (\A h \in Alive : Order(h))' /\ TokenConserved'
      /\ HandleKnowsServer' /\ WebInv' /\ chain' = chain
  BY <1>1, <1>2, <1>3, <1>4, RegistrationKeeps
<1>6. /\ ToSet(registered'[e]) = ToSet(registered[e]) \cup {"udp"}
      /\ \A x \in SidecarEvents : x # e => registered'[x] = registered[x]
  BY <1>1, <1>2, <1>3, RegisterStep
<1>7. Registration'
  <2>1. CASE e = "GOT_IP"
    BY <1>1, <1>2, <1>5, <1>6, <2>1, Names DEF NodeInv, Registration
  <2>2. CASE e = "DISCONNECTED"
    BY <1>1, <1>2, <1>5, <1>6, <2>2, Names DEF NodeInv, Registration
  <2>3. QED
    BY <2>1, <2>2, Names
<1>8. QED
  BY <1>5, <1>7 DEF NodeInv

\* Without a semaphore it ends and takes no part.
LEMMA UdpGoneStep ==
  ASSUME NodeInv, UdpRegister, udp' = "gone"
  PROVE  NodeInv'
<1>1. /\ link' = link /\ queue' = queue /\ current' = current /\ chain' = chain
      /\ registered' = registered /\ changes' = changes
      /\ UNCHANGED <<http, server, httpd, http_up, failed, forgot>>
      /\ sem_conn' = sem_conn /\ udp_up' = udp_up /\ udp = "start"
  BY DEF UdpRegister, web, station
<1>2. Alive' \subseteq Alive
  BY DEF Alive
<1>3. Types' /\ Once'
  BY <1>1 DEF NodeInv, Types, Once
<1>4. Registration'
  BY <1>1 DEF NodeInv, Registration
<1>5. Started'
  <2>1. AllRegistered => AllRegistered'
    BY <1>1, <1>2 DEF AllRegistered, HaveRegistered
  <2>2. QED
    BY <1>1, <2>1 DEF NodeInv, Started
<1>6. ASSUME NEW h \in Alive PROVE Order(h)'
  <2>1. IsUp(h)' = IsUp(h)
    BY <1>1 DEF IsUp
  <2>2. QED
    BY <1>1, <2>1, NobodyReturns DEF NodeInv
<1>7. TokenConserved'
  <2>1. Tokens' = Tokens
    BY <1>1 DEF Tokens, UdpHolds
  <2>2. QED
    BY <1>1, <2>1 DEF NodeInv, TokenConserved
<1>8. HandleKnowsServer' /\ WebInv'
  BY <1>1 DEF NodeInv, HandleKnowsServer, WebInv
<1>9. QED
  BY <1>2, <1>3, <1>4, <1>5, <1>6, <1>7, <1>8 DEF NodeInv

\* udp_task takes the semaphore, sends and gives it back.
LEMMA UdpTaskStep ==
  ASSUME NodeInv, UdpSocket \/ UdpTake \/ UdpSend \/ UdpGive \/ UdpNext
  PROVE  NodeInv'
<1>1. /\ link' = link /\ queue' = queue /\ current' = current /\ chain' = chain
      /\ registered' = registered /\ changes' = changes /\ udp_up' = udp_up
      /\ UNCHANGED <<http, server, httpd, http_up, failed, forgot>>
  BY DEF UdpSocket, UdpTake, UdpSend, UdpGive, UdpNext, UdpGoto, station, web
<1>2. /\ udp' \in {"socket", "take", "sending", "sent", "failed", "delay", "close", "dead"}
      /\ udp \notin {"start", "registering", "gone"} /\ sem_conn' \in {0, 1}
  BY DEF UdpSocket, UdpTake, UdpSend, UdpGive, UdpNext, UdpGoto, NodeInv, Types
<1>3. \/ sem_conn' = sem_conn /\ (UdpHolds' <=> UdpHolds)
      \/ sem_conn = 1 /\ sem_conn' = 0 /\ ~UdpHolds /\ UdpHolds'
      \/ sem_conn' = 1 /\ UdpHolds /\ ~UdpHolds'
  BY DEF UdpSocket, UdpTake, UdpSend, UdpGive, UdpNext, UdpGoto, UdpHolds
<1>4. Alive' = Alive
  BY <1>2 DEF Alive
<1>5. Types' /\ Once'
  BY <1>1, <1>2 DEF NodeInv, Types, Once
<1>6. Registration'
  BY <1>1, <1>2 DEF NodeInv, Registration
<1>7. Started'
  BY <1>1, <1>4, StartedKept DEF NodeInv
<1>8. ASSUME NEW h \in Alive PROVE Order(h)'
  <2>1. IsUp(h)' = IsUp(h)
    BY <1>1 DEF IsUp
  <2>2. QED
    BY <1>1, <2>1, NobodyReturns DEF NodeInv
<1>9. TokenConserved'
  <2> DEFINE held == IF UdpHolds THEN 1 ELSE 0
  <2>1. Tokens = sem_conn + held /\ Tokens' = sem_conn' + held'
    BY DEF Tokens
  <2>2. \/ sem_conn' = sem_conn /\ held' = held
        \/ sem_conn = 1 /\ sem_conn' = 0 /\ held = 0 /\ held' = 1
        \/ sem_conn' = 1 /\ held = 1 /\ held' = 0
    BY <1>3
  <2>3. sem_conn \in {0, 1} /\ sem_conn' \in {0, 1} /\ held \in {0, 1} /\ held' \in {0, 1}
    BY <1>2 DEF NodeInv, Types
  <2> HIDE DEF held
  <2>4. Tokens' = Tokens \/ (Tokens' = 1 /\ Tokens = 2)
    <3>1. CASE sem_conn' = sem_conn /\ held' = held
      BY <2>1, <3>1
    <3>2. CASE sem_conn = 1 /\ sem_conn' = 0 /\ held = 0 /\ held' = 1
      <4>1. Tokens = 1 /\ Tokens' = 1
        BY <2>1, <3>2
      <4>2. QED
        BY <4>1
    <3>3. CASE sem_conn' = 1 /\ held = 1 /\ held' = 0
      <4>1. Tokens' = 1
        BY <2>1, <3>3
      <4>2. Tokens = 1 \/ Tokens = 2
        BY <2>1, <2>3, <3>3
      <4>3. QED
        BY <4>1, <4>2
    <3>4. QED
      BY <2>2, <3>1, <3>2, <3>3
  <2>5. QED
    BY <1>1, <2>4 DEF NodeInv, TokenConserved
<1>10. HandleKnowsServer' /\ WebInv'
  BY <1>1 DEF NodeInv, HandleKnowsServer, WebInv
<1>11. QED
  BY <1>4, <1>5, <1>6, <1>7, <1>8, <1>9, <1>10 DEF NodeInv

\* The driver posts GOT_IP when the link comes up and DISCONNECTED when it goes
\* down.
LEMMA DriverStep ==
  ASSUME ~LateSidecars, NodeInv, Driver(AllRegistered), UNCHANGED <<web, dgram>>
  PROVE  NodeInv'
<1>1. /\ current' = current /\ chain' = chain /\ registered' = registered
      /\ UNCHANGED web /\ UNCHANGED <<http, server, httpd, http_up, failed, forgot>>
      /\ sem_conn' = sem_conn /\ udp' = udp /\ udp_up' = udp_up /\ Alive' = Alive
  BY DEF Driver, ScanDone, Associate, GotIp, Lose, ChangeAddress, Up, web, dgram, Alive
<1>2. queue \in Seq(Events) /\ changes \in Nat
  BY DEF NodeInv, Types
<1>3. PICK x \in Events \cup {"none"} :
         /\ queue' = IF x = "none" THEN queue ELSE Append(queue, x)
         /\ link' \in Links
         /\ x = "GOT_IP" => link' = "ip" /\ AllRegistered /\ changes' \in {changes, changes + 1}
                            /\ (changes' = changes => link # "ip")
         /\ x = "DISCONNECTED" => link' # "ip" /\ changes' = changes
         /\ x \notin {"GOT_IP", "DISCONNECTED"} => link # "ip" /\ link' # "ip" /\ changes' = changes
  <2>1. CASE ScanDone
    <3>1. "SCAN_DONE" \in Events /\ queue' = Append(queue, "SCAN_DONE") /\ link = "scanning" /\ link' = "idle"
          /\ changes' = changes
      BY <2>1, Names DEF ScanDone, Up, Post
    <3>2. QED
      BY <3>1 DEF Links
  <2>2. CASE Associate
    <3>1. queue' = queue /\ link = "connecting" /\ link' = "associated" /\ changes' = changes
      BY <2>2 DEF Associate, Up
    <3>2. QED
      BY <3>1 DEF Links
  <2>3. CASE GotIp(AllRegistered)
    <3>1. "GOT_IP" \in Events /\ queue' = Append(queue, "GOT_IP") /\ link = "associated" /\ link' = "ip"
          /\ changes' = changes /\ AllRegistered
      BY <2>3, Names DEF GotIp, Up, Post
    <3>2. QED
      BY <3>1 DEF Links
  <2>4. CASE Lose
    <3>1. "DISCONNECTED" \in Events /\ queue' = Append(queue, "DISCONNECTED") /\ link' = "idle"
          /\ changes' = changes
      BY <2>4, Names DEF Lose, Post
    <3>2. QED
      BY <3>1 DEF Links
  <2>5. CASE ChangeAddress
    <3>1. "GOT_IP" \in Events /\ queue' = Append(queue, "GOT_IP") /\ link = "ip" /\ link' = "ip"
          /\ changes' = changes + 1
      BY <2>5, Names DEF ChangeAddress, Post
    <3>2. AllRegistered
      BY <3>1 DEF NodeInv, Started
    <3>3. changes + 1 # changes
      BY <1>2
    <3>4. QED
      BY <3>1, <3>2, <3>3 DEF Links
  <2>6. QED
    BY <2>1, <2>2, <2>3, <2>4, <2>5 DEF Driver
<1>4. changes' \in Nat /\ (changes' = 0 => changes = 0 /\ changes' = changes)
  BY <1>2, <1>3
<1>5. /\ x # "none" => queue' \in Seq(Events) /\ ToSet(queue') = ToSet(queue) \cup {x}
      /\ x = "none" => queue' = queue
  BY <1>2, <1>3, AppendFacts
<1>6. Types' /\ Once'
  BY <1>1, <1>2, <1>3, <1>4, <1>5 DEF NodeInv, Types, Once
<1>7. Registration'
  BY <1>1 DEF NodeInv, Registration
<1>8. Started'
  <2>1. CASE x = "GOT_IP"
    <3>1. AllRegistered'
      BY <1>1, <1>3, <2>1 DEF AllRegistered, HaveRegistered
    <3>2. QED
      BY <3>1 DEF Started
  <2>2. CASE x # "GOT_IP"
    <3>1. "GOT_IP" \in ToSet(queue') => "GOT_IP" \in ToSet(queue)
      BY <1>5, <2>2
    <3>2. link' # "ip"
      BY <1>3, <2>2
    <3>3. QED
      BY <1>1, <3>1, <3>2, StartedKept DEF NodeInv
  <2>3. QED
    BY <2>1, <2>2
<1>9. ASSUME NEW h \in Alive PROVE Order(h)'
  <2> DEFINE v == Latest(h)
  <2>1. IsUp(h)' = IsUp(h) /\ (Pending(h, "GOT_IP")' <=> Pending(h, "GOT_IP"))
        /\ (Pending(h, "DISCONNECTED")' <=> Pending(h, "DISCONNECTED"))
    BY <1>1 DEF IsUp, Pending
  <2>2. v' = v
    BY <2>1 DEF Latest
  <2>3. /\ link = "ip" => ~Followed(v, queue, "GOT_IP", "DISCONNECTED")
        /\ link # "ip" => Followed(v, queue, "GOT_IP", "DISCONNECTED")
        /\ changes = 0 => Separated(v, queue, "GOT_IP", "DISCONNECTED")
        /\ changes = 0 /\ Pending(h, "GOT_IP") => ~IsUp(h)
    BY DEF NodeInv, Order
  <2> HIDE DEF v
  <2>4. CASE x # "none"
    <3>1. /\ x = "GOT_IP" => ~Followed(v, queue', "GOT_IP", "DISCONNECTED")
          /\ x = "DISCONNECTED" => Followed(v, queue', "GOT_IP", "DISCONNECTED")
          /\ x \notin {"GOT_IP", "DISCONNECTED"} =>
                (Followed(v, queue', "GOT_IP", "DISCONNECTED") <=> Followed(v, queue, "GOT_IP", "DISCONNECTED"))
          /\ Separated(v, queue, "GOT_IP", "DISCONNECTED")
             /\ (x = "GOT_IP" => Followed(v, queue, "GOT_IP", "DISCONNECTED")) =>
                Separated(v, queue', "GOT_IP", "DISCONNECTED")
      BY <1>2, <1>3, <2>4, StreamAppend
    <3>2. /\ link' = "ip" => ~Followed(v, queue', "GOT_IP", "DISCONNECTED")
          /\ link' # "ip" => Followed(v, queue', "GOT_IP", "DISCONNECTED")
          /\ changes' = 0 => Separated(v, queue', "GOT_IP", "DISCONNECTED")
      BY <1>3, <1>4, <2>3, <3>1
    <3>3. QED
      BY <1>4, <2>1, <2>2, <2>3, <3>2 DEF Order, v
  <2>5. CASE x = "none"
    <3>1. queue' = queue /\ link' # "ip" /\ link # "ip" /\ changes' = changes
      BY <1>3, <2>5
    <3>2. QED
      BY <1>1, <2>1, <3>1, NobodyReturns DEF NodeInv
  <2>6. QED
    BY <2>4, <2>5
<1>10. TokenConserved' /\ HandleKnowsServer' /\ WebInv'
  <2>1. Tokens' = Tokens
    BY <1>1 DEF Tokens, UdpHolds
  <2>2. TokenConserved' /\ HandleKnowsServer'
    BY <1>1, <1>2, <1>3, <1>4, <2>1 DEF NodeInv, TokenConserved, HandleKnowsServer
  <2>3. WebInv'
    BY <1>1 DEF NodeInv, WebInv
  <2>4. QED
    BY <2>2, <2>3
<1>11. QED
  BY <1>1, <1>6, <1>7, <1>8, <1>9, <1>10 DEF NodeInv

-----------------------------------------------------------------------------
(* Theorems.                                                               *)

\* Every step keeps the invariant.
LEMMA StepHolds ==
  ASSUME ~LateSidecars, NodeInv, [Next]_vars
  PROVE  NodeInv'
<1>1. CASE UNCHANGED vars
  <2>1. /\ UNCHANGED <<link, queue, current, chain, registered, changes>>
        /\ UNCHANGED <<http, server, httpd, http_up, failed, forgot, sem_conn, udp, udp_up>>
    BY <1>1 DEF vars, station, web, dgram
  <2>2. QED
    BY <2>1 DEF NodeInv, Types, Once, Registration, Started, AllRegistered, HaveRegistered, Alive, Order,
                Latest, Pending, IsUp, TokenConserved, Tokens, UdpHolds, HandleKnowsServer, WebInv
<1>2. CASE EventLoop
  BY <1>2, DispatchStep, MainStep, HttpConnectStep, HttpDisconnectStep, UdpHandlerStep DEF EventLoop
<1>3. CASE udp_task
  BY <1>3, UdpRegisterStep, UdpGoneStep, UdpTaskStep DEF udp_task
<1>4. CASE HttpRegister
  BY <1>4, HttpRegisterStep
<1>5. CASE Environment
  BY <1>5, DriverStep DEF Environment
<1>6. QED
  BY <1>1, <1>2, <1>3, <1>4, <1>5 DEF Next

\* The invariant always holds.
THEOREM Invariance ==
  ASSUME ~LateSidecars
  PROVE  Spec => []NodeInv
<1>1. Init => NodeInv
  BY InitHolds
<1>2. NodeInv /\ [Next]_vars => NodeInv'
  BY StepHolds
<1>3. QED
  BY <1>1, <1>2, PTL DEF Spec

\* The semaphore of udp_client.c is one token that is there while the UDP side
\* believes the station is up, also when sendto fails; changes of the address
\* add no more than one to it, and none is added before the first of them.
THEOREM SemaphoreIsOneToken ==
  ASSUME ~LateSidecars
  PROVE  Spec => []TokenConserved
<1>1. NodeInv => TokenConserved
  BY DEF NodeInv
<1>2. QED
  BY <1>1, Invariance, PTL

\* The handle of http.c is that of a running server, whatever fails; a server
\* loses its handle only to a GOT_IP that comes while it runs, after a change of
\* the address or an httpd_stop that failed.
THEOREM HandleIsServer ==
  ASSUME ~LateSidecars
  PROVE  Spec => []HandleKnowsServer
<1>1. NodeInv => HandleKnowsServer
  BY DEF NodeInv
<1>2. QED
  BY <1>1, Invariance, PTL

\* When the event loop has nothing left to do, the semaphore is there if and only
\* if the link is up, but for the token that changes of the address may add; the
\* server runs if the last httpd_start did not fail, and is stopped if it could
\* be and http.c had its handle: however often the link was lost or failed to
\* come up.
THEOREM SidecarsSettle ==
  ASSUME ~LateSidecars
  PROVE  Spec => []Settled
<1>1. NodeInv => Settled
  <2> DEFINE due == IF link = "ip" THEN 1 ELSE 0
  <2> SUFFICES ASSUME NodeInv, current = "none", queue = <<>> PROVE
        /\ "udp" \in Alive => Tokens \in {due, due + 1} /\ (changes = 0 => Tokens = due)
        /\ "http" \in Alive => /\ link = "ip" => httpd \/ "httpd_start" \in failed
                               /\ httpd /\ ~forgot /\ "httpd_stop" \notin failed => link = "ip"
    BY DEF Settled
  <2>1. queue \in Seq(Events) /\ ToSet(queue) = {}
    BY NotEmpty DEF NodeInv, Types
  <2>2. ASSUME NEW h \in Alive PROVE link = "ip" <=> IsUp(h)
    <3>1. ~Pending(h, "GOT_IP") /\ ~Pending(h, "DISCONNECTED")
      BY DEF Pending
    <3>2. Latest(h) = IF IsUp(h) THEN "GOT_IP" ELSE "DISCONNECTED"
      BY <3>1 DEF Latest
    <3>3. Followed(Latest(h), queue, "GOT_IP", "DISCONNECTED") <=> Latest(h) # "GOT_IP"
      BY <2>1, StreamOfNone
    <3>4. QED
      BY <3>2, <3>3 DEF NodeInv, Order
  <2>3. ASSUME "udp" \in Alive PROVE Tokens \in {due, due + 1} /\ (changes = 0 => Tokens = due)
    <3>1. link = "ip" <=> udp_up
      BY <2>2, <2>3 DEF IsUp
    <3>2. due = IF udp_up THEN 1 ELSE 0
      BY <3>1
    <3>3. QED
      BY <3>2 DEF NodeInv, TokenConserved
  <2>4. ASSUME "http" \in Alive PROVE link = "ip" <=> http_up
    BY <2>2, <2>4 DEF IsUp
  <2>5. QED
    BY <2>3, <2>4 DEF NodeInv, WebInv
<1>2. QED
  BY <1>1, Invariance, PTL
=============================================================================
