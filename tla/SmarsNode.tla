----------------------------- MODULE SmarsNode -----------------------------
(***************************************************************************)
(* smars-test: the station of main.c with its two network sidecars,        *)
(* http_task (http.c) and udp_task (udp_client.c).  With Sidecars =        *)
(* {"http"} it is cam-test, whose main.c and http.c do the same.           *)
(*                                                                         *)
(* http.c keeps the handle of the one HTTP server; udp_client.c keeps a    *)
(* binary semaphore that is available while the station has an address:    *)
(* GOT_IP gives it, STA_DISCONNECTED takes it (waiting for ever, inside    *)
(* the event loop task), and udp_task holds it while it sends.             *)
(***************************************************************************)
EXTENDS WifiStation

CONSTANT Failing        \* the calls of the sidecars that may fail

ASSUME SidecarsAssumption ==
    /\ Sidecars \subseteq {"http", "udp"} /\ AppEvents = {}
    /\ Failing \subseteq {"httpd_start", "httpd_stop", "xSemaphoreCreateBinary", "socket", "sendto"}

VARIABLES
    http,           \* how far http_task has registered: 0, 1, 2 handlers
    server,         \* http.c: the handle server is not NULL
    httpd,          \* a server task is listening on the port
    http_up,        \* history: the last handler of http.c that returned was GOT_IP's
    failed,         \* history: the calls of http.c that failed when last made, other
                    \* than for a port that is taken
    forgot,         \* history: GOT_IP was handled while a server ran
    sem_conn,       \* udp_client.c: count of the binary semaphore
    udp,            \* where udp_task is
    udp_up          \* history: the last handler of udp_client.c that returned was GOT_IP's

web  == <<http, server, httpd, http_up, failed, forgot>>
dgram == <<sem_conn, udp, udp_up>>
vars == <<station, web, dgram>>

Init ==
    /\ StationInit
    /\ http = 0
    /\ server = FALSE
    /\ httpd = FALSE
    /\ http_up = FALSE
    /\ failed = {}
    /\ forgot = FALSE
    /\ sem_conn = 0
    /\ udp = "start"
    /\ udp_up = FALSE

-----------------------------------------------------------------------------
(* http.c                                                                  *)

\* http_task registers its two handlers and then only sleeps.
HttpRegister ==
    /\ "http" \in Sidecars
    /\ \/ http = 0 /\ Register("http", "GOT_IP")
       \/ http = 1 /\ Register("http", "DISCONNECTED")
    /\ http' = http + 1
    /\ UNCHANGED <<server, httpd, http_up, failed, forgot, dgram>>

HttpReturns ==
    /\ Return
    /\ UNCHANGED <<link, queue, registered, losses, changes, http, dgram>>

\* httpd_start() binds the port: a second server does not come up.  When it
\* fails, for this reason or another, its NULL overwrites the handle.
HttpConnect ==
    /\ Running("http", "GOT_IP")
    /\ \/ server' = ~httpd /\ httpd' = TRUE /\ failed' = failed \ {"httpd_start"}
       \/ /\ "httpd_start" \in Failing /\ failed' = failed \cup {"httpd_start"}
          /\ server' = FALSE /\ UNCHANGED httpd
    /\ http_up' = TRUE
    /\ forgot' = (forgot \/ httpd)
    /\ HttpReturns

\* Mutant: the handle is forgotten although the server has not stopped.
HttpDisconnectForgets ==
    /\ Running("http", "DISCONNECTED")
    /\ \/ ~server /\ UNCHANGED <<httpd, failed>>
       \/ server /\ httpd' = FALSE /\ failed' = failed \ {"httpd_stop"}
       \/ /\ server /\ "httpd_stop" \in Failing /\ failed' = failed \cup {"httpd_stop"}
          /\ UNCHANGED httpd
    /\ server' = FALSE
    /\ http_up' = FALSE
    /\ HttpReturns
    /\ UNCHANGED forgot

\* Mutant: nothing is stopped.
HttpDisconnectNoStop ==
    /\ Running("http", "DISCONNECTED")
    /\ server' = FALSE
    /\ http_up' = FALSE
    /\ HttpReturns
    /\ UNCHANGED <<httpd, failed, forgot>>

\* Without a handle nothing is stopped; a server that does not stop keeps its.
HttpDisconnect ==
    /\ Running("http", "DISCONNECTED")
    /\ \/ ~server /\ UNCHANGED <<server, httpd, failed>>
       \/ /\ server /\ server' = FALSE /\ httpd' = FALSE
          /\ failed' = failed \ {"httpd_stop"}
       \/ /\ server /\ "httpd_stop" \in Failing /\ failed' = failed \cup {"httpd_stop"}
          /\ UNCHANGED <<server, httpd>>
    /\ http_up' = FALSE
    /\ HttpReturns
    /\ UNCHANGED forgot

-----------------------------------------------------------------------------
(* udp_client.c                                                            *)

\* xSemaphoreGive on a semaphore that is available changes nothing.
UdpConnect ==
    /\ Running("udp", "GOT_IP")
    /\ sem_conn' = 1
    /\ udp_up' = TRUE
    /\ Return
    /\ UNCHANGED <<link, queue, registered, losses, changes, web, udp>>

\* Mutant: the handler takes the semaphore if it is there and does not wait
\* for the task that holds it.
UdpDisconnectNoWait ==
    /\ Running("udp", "DISCONNECTED")
    /\ sem_conn' = 0
    /\ udp_up' = FALSE
    /\ Return
    /\ UNCHANGED <<link, queue, registered, losses, changes, web, udp>>

\* xSemaphoreTake(sem_conn, portMAX_DELAY) in the event loop task.
UdpDisconnect ==
    /\ Running("udp", "DISCONNECTED")
    /\ sem_conn = 1
    /\ sem_conn' = 0
    /\ udp_up' = FALSE
    /\ Return
    /\ UNCHANGED <<link, queue, registered, losses, changes, web, udp>>

\* The semaphore is created before the handlers that use it are registered;
\* without one the task ends and there are none.
UdpRegister ==
    /\ "udp" \in Sidecars
    /\ \/ udp = "start" /\ udp' = "registering" /\ Register("udp", "GOT_IP")
       \/ /\ udp = "start" /\ udp' = "gone" /\ "xSemaphoreCreateBinary" \in Failing
          /\ UNCHANGED station
       \/ udp = "registering" /\ udp' = "socket" /\ Register("udp", "DISCONNECTED")
    /\ UNCHANGED <<web, sem_conn, udp_up>>

UdpGoto(from, to) ==
    /\ udp = from
    /\ udp' = to
    /\ UNCHANGED <<station, web, udp_up>>

UdpSocket ==
    /\ \/ UdpGoto("socket", "take")
       \/ "socket" \in Failing /\ UdpGoto("socket", "dead")
    /\ UNCHANGED sem_conn

UdpTake ==
    /\ UdpGoto("take", "sending")
    /\ sem_conn = 1
    /\ sem_conn' = 0

\* sendto() may fail at any time, or only when there is no link.
UdpSend ==
    /\ \/ UdpGoto("sending", "sent")
       \/ (link # "ip" \/ "sendto" \in Failing) /\ UdpGoto("sending", "failed")
    /\ UNCHANGED sem_conn

\* Mutant: the error path leaves the loop without giving the semaphore back.
UdpGiveOnlyIfSent ==
    \/ UdpGoto("sent", "delay") /\ sem_conn' = 1
    \/ UdpGoto("failed", "close") /\ UNCHANGED sem_conn

\* Both paths give the semaphore back: then the delay, or a new socket.
UdpGive ==
    /\ UdpGoto("sent", "delay") \/ UdpGoto("failed", "close")
    /\ sem_conn' = 1

UdpNext ==
    /\ UdpGoto("delay", "take") \/ UdpGoto("close", "socket")
    /\ UNCHANGED sem_conn

udp_task == UdpRegister \/ UdpSocket \/ UdpTake \/ UdpSend \/ UdpGive \/ UdpNext

-----------------------------------------------------------------------------
EventLoop ==
    \/ (Dispatch \/ wifi_event_handler) /\ UNCHANGED <<web, dgram>>
    \/ HttpConnect
    \/ HttpDisconnect
    \/ UdpConnect
    \/ UdpDisconnect

\* The sidecars that have handlers to register.
Alive == IF udp = "gone" THEN Sidecars \ {"udp"} ELSE Sidecars

AllRegistered == HaveRegistered(Alive)

Environment == Driver(AllRegistered) /\ UNCHANGED <<web, dgram>>

Next == EventLoop \/ HttpRegister \/ udp_task \/ Environment

Spec == Init /\ [][Next]_vars

\* The tasks are scheduled and the driver goes on with what it was asked to
\* do; nothing makes the link fail.  The event loop's priority (20 against 0)
\* gives it the semaphore when it waits for it, hence the strong fairness.
Fairness ==
    /\ WF_vars(EventLoop)
    /\ SF_vars(UdpDisconnect)
    /\ WF_vars(HttpRegister)
    /\ WF_vars(udp_task)
    /\ WF_vars((ScanDone \/ Associate \/ GotIp(AllRegistered)) /\ UNCHANGED <<web, dgram>>)

FairSpec == Spec /\ Fairness

-----------------------------------------------------------------------------
\* Types of the station's and the sidecars' state.
TypeOK ==
    /\ StationType
    /\ http \in 0..2 /\ server \in BOOLEAN /\ httpd \in BOOLEAN
    /\ http_up \in BOOLEAN /\ forgot \in BOOLEAN
    /\ failed \subseteq {"httpd_start", "httpd_stop"}
    /\ sem_conn \in {0, 1} /\ udp_up \in BOOLEAN
    /\ udp \in {"start", "registering", "gone", "socket", "take", "sending", "sent",
                "failed", "delay", "close", "dead"}

UdpHolds == udp \in {"sending", "sent", "failed"}

\* The semaphore's tokens: the one that is available and the one that udp_task
\* holds.
Tokens == sem_conn + (IF UdpHolds THEN 1 ELSE 0)

\* The semaphore is one token: there while the UDP side believes the station is
\* up, gone when disconnect_handler has returned, so that no datagram is sent
\* and no give of udp_task makes it available before the next GOT_IP.  A GOT_IP
\* for a change of the address that comes while udp_task holds the token makes
\* another one; however many come, there is never more than one too many.
TokenConserved ==
    LET due == IF udp_up THEN 1 ELSE 0
    IN  Tokens \in {due, due + 1} /\ (changes = 0 => Tokens = due)

\* The handle http.c keeps is that of a running server, also after failures of
\* httpd_start and httpd_stop and changes of the address: it never stops a server
\* that has gone.  A server loses its handle in one way only, to a GOT_IP that is
\* handled while it runs; that takes a change of the address, or an httpd_stop
\* that has failed.
HandleKnowsServer ==
    /\ server => httpd
    /\ httpd /\ ~server => forgot
    /\ forgot => changes > 0 \/ "httpd_stop" \in failed

\* When every handler is registered before the first address and the event
\* loop has nothing left to do, the sidecars agree with the driver.  The UDP
\* side has its token, or the one too many, while there is an address; the
\* server runs while there is one unless the last httpd_start failed, and only
\* then unless the last httpd_stop failed or its handle is lost.
Settled ==
    (current = "none" /\ queue = <<>>) =>
        /\ "udp" \in Alive => LET due == IF link = "ip" THEN 1 ELSE 0
                              IN  Tokens \in {due, due + 1} /\ (changes = 0 => Tokens = due)
        /\ "http" \in Alive =>
              /\ link = "ip" => httpd \/ "httpd_start" \in failed
              /\ (httpd /\ ~forgot /\ "httpd_stop" \notin failed) => link = "ip"

\* main.c:63 "Trying to reconnect...": a station that has lost its link, or
\* failed to bring it up, asks the driver to connect again.
Reconnects == (link = "idle") ~> (link = "connecting")

\* Once the link stays up and sendto() does not fail any more, datagrams are
\* sent for ever, unless udp_task has deleted itself because it had no semaphore
\* or no socket.
KeepsSending ==
    <>[](link = "ip" /\ udp # "failed") => ([]<>(udp = "sent") \/ <>(udp \in {"gone", "dead"}))
=============================================================================
