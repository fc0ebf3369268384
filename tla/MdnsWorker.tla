----------------------------- MODULE MdnsWorker -----------------------------
(***************************************************************************)
(* The two threads of the mDNS advertisement of the Windows build          *)
(* (platform_mdns_start, platform_mdns_register_service,                   *)
(* platform_mdns_stop and mdns_thread in src/src/platform_windows.c): the  *)
(* one that starts and stops it, and the worker that announces the service *)
(* and listens.  They share the session m, which the one frees and the     *)
(* other reads.  What an announcement is made of, and what the worker      *)
(* finds in a datagram, is in MdnsService.                                 *)
(***************************************************************************)
EXTENDS Naturals, Sequences

CONSTANTS
    Devices,            \* device names: the host's and the service's
    Txts,               \* the TXT records a service may be registered with
    Announcement(_),    \* what is sent for a session: [bytes, of]
    Datagrams           \* what may arrive: [bytes, queries, asks], where the queries
                        \* in it make the worker announce `asks` times

VARIABLES
    main,       \* "idle", "started", "fields", "running", "up", "told", "waited", "closed"
    m,          \* the session: [device, txt], or NoSession
    alive,      \* the session's memory: "none", "live", "freed"
    sock,       \* the socket is open
    mrunning,    \* m->running
    thread,     \* m->thread: "none", "null" (not created), "some"
    worker,     \* "none", "first", "test", "select", "count", "announce", "ended"
    loops,      \* loop_counter
    inbox,      \* the datagram that waits in the socket, if any
    heard,      \* history: the queries of the datagram listened to last
    answers,    \* history: the announcements it led to
    sent        \* the last announcement: its bytes, and whose it was

mainVars == <<main, m, alive, sock, mrunning, thread>>
vars == <<mainVars, worker, loops, inbox, heard, answers, sent>>

NoSession == [device |-> <<>>, txt |-> <<>>]
NoPacket == [bytes |-> <<>>, of |-> NoSession]

Init ==
    /\ main = "idle" /\ m = NoSession /\ alive = "none" /\ sock = FALSE /\ mrunning = FALSE
    /\ thread = "none" /\ worker = "none" /\ loops = 0 /\ inbox = <<>> /\ heard = <<>>
    /\ answers = 0 /\ sent = NoPacket

-----------------------------------------------------------------------------
(* The main thread.                                                        *)

\* calloc and the socket, or nothing.
platform_mdns_start ==
    /\ main = "idle"
    /\ \E d \in Devices :
         \/ main' = "started" /\ m' = [device |-> d, txt |-> <<>>] /\ alive' = "live" /\ sock' = TRUE
         \/ main' = "idle" /\ m' = NoSession /\ alive' = "none" /\ sock' = FALSE
    /\ mrunning' = FALSE /\ thread' = "none" /\ inbox' = <<>>
    /\ UNCHANGED <<worker, loops, heard, answers, sent>>

\* platform_mdns_register_service: the fields, then running, then the thread.
RegisterFields ==
    /\ main = "started"
    /\ main' = "fields"
    /\ \E txt \in Txts : m' = [m EXCEPT !.txt = txt]
    /\ UNCHANGED <<alive, sock, mrunning, thread, worker, loops, inbox, heard, answers, sent>>

RegisterRunning ==
    /\ main = "fields"
    /\ main' = "running" /\ mrunning' = TRUE
    /\ UNCHANGED <<m, alive, sock, thread, worker, loops, inbox, heard, answers, sent>>

\* The result of CreateThread is not looked at.
RegisterThread ==
    /\ main = "running"
    /\ main' = "up"
    /\ \/ thread' = "some" /\ worker' = "first"
       \/ thread' = "null" /\ UNCHANGED worker
    /\ loops' = 0
    /\ UNCHANGED <<m, alive, sock, mrunning, inbox, heard, answers, sent>>

\* platform_mdns_stop.
StopTells ==
    /\ main \in {"started", "up"}
    /\ main' = "told" /\ mrunning' = FALSE
    /\ UNCHANGED <<m, alive, sock, thread, worker, loops, inbox, heard, answers, sent>>

\* Mutant: the wait gives up.
WaitGivesUp == main = "told" /\ main' = "waited" /\ thread' = "none"

\* WaitForSingleObject(m->thread, INFINITE), if there is a thread.
WaitForWorker ==
    /\ main = "told"
    /\ thread = "some" => worker = "ended"
    /\ main' = "waited" /\ thread' = "none"

StopWaits ==
    /\ WaitForWorker
    /\ UNCHANGED <<m, alive, sock, mrunning, worker, loops, inbox, heard, answers, sent>>

StopCloses ==
    /\ main = "waited"
    /\ main' = "closed" /\ sock' = FALSE /\ inbox' = <<>>
    /\ UNCHANGED <<m, alive, mrunning, thread, worker, loops, heard, answers, sent>>

StopFrees ==
    /\ main = "closed"
    /\ main' = "idle" /\ alive' = "freed" /\ m' = NoSession
    /\ UNCHANGED <<sock, mrunning, thread, worker, loops, inbox, heard, answers, sent>>

-----------------------------------------------------------------------------
(* The worker, mdns_thread.                                                *)

FirstAnnouncement ==
    /\ worker = "first"
    /\ worker' = "test" /\ sent' = Announcement(m)
    /\ UNCHANGED <<mainVars, loops, inbox, heard, answers>>

\* Mutant: the loop does not look at running.
TestNothing == worker = "test" /\ worker' = "select"

\* while (m->running)
TestRunning ==
    /\ worker = "test"
    /\ worker' = IF mrunning THEN "select" ELSE "ended"

WorkerTests ==
    /\ TestRunning
    /\ UNCHANGED <<mainVars, loops, inbox, heard, answers, sent>>

\* select gives up after a second.
SelectTimesOut ==
    /\ worker = "select" /\ inbox = <<>>
    /\ worker' = "count"
    /\ UNCHANGED <<mainVars, loops, inbox, heard, answers, sent>>

\* Mutant: a datagram ends the round.
ListenAgain == worker' = "test"

AfterListen == worker' = "count"

\* A datagram is there.
SelectListens ==
    /\ worker = "select" /\ inbox # <<>>
    /\ heard' = inbox[1].queries
    /\ answers' = inbox[1].asks
    /\ sent' = IF inbox[1].asks = 0 THEN sent ELSE Announcement(m)
    /\ AfterListen /\ inbox' = <<>>
    /\ UNCHANGED <<mainVars, loops>>

\* Every third round announces.
WorkerCounts ==
    /\ worker = "count"
    /\ loops' = (loops + 1) % 3
    /\ worker' = IF loops + 1 = 3 THEN "announce" ELSE "test"
    /\ UNCHANGED <<mainVars, inbox, heard, answers, sent>>

WorkerAnnounces ==
    /\ worker = "announce"
    /\ worker' = "test" /\ sent' = Announcement(m)
    /\ UNCHANGED <<mainVars, loops, inbox, heard, answers>>

Worker ==
    \/ FirstAnnouncement \/ WorkerTests \/ SelectTimesOut \/ SelectListens
    \/ WorkerCounts \/ WorkerAnnounces

-----------------------------------------------------------------------------
(* The network: datagrams for the socket's own port, which is not 5353     *)
(* (the socket is bound to port 0), so that it hears no query that is      *)
(* multicast.                                                              *)

\* What another host announces reaches the callback as a question does.
DatagramArrives ==
    /\ sock /\ inbox = <<>>
    /\ \E d \in Datagrams : inbox' = <<d>>
    /\ UNCHANGED <<mainVars, worker, loops, heard, answers, sent>>

Main ==
    \/ platform_mdns_start \/ RegisterFields \/ RegisterRunning \/ RegisterThread
    \/ StopTells \/ StopWaits \/ StopCloses \/ StopFrees

Next == Main \/ Worker \/ DatagramArrives

(* Both threads run on; a stop, once begun, goes on.  Nobody has to stop.  *)
Fairness ==
    /\ WF_vars(Worker)
    /\ WF_vars(StopWaits) /\ WF_vars(StopCloses) /\ WF_vars(StopFrees)

Spec == Init /\ [][Next]_vars /\ Fairness

-----------------------------------------------------------------------------

(* The worker reads the session and its socket only as long as they are    *)
(* there: what is freed has no reader left.                                *)
NoUseAfterFree == worker \notin {"none", "ended"} => alive = "live" /\ sock

(* platform_mdns_stop comes to its end: the worker sees running, whatever  *)
(* arrives, and the wait for it, which has no timeout, is over.            *)
StopReturns == main = "told" ~> main = "idle"

(* A service that stays registered is announced again and again, however   *)
(* many datagrams come in between (if its thread could be created).        *)
GoesOnAnnouncing == <>[](main = "up" /\ thread = "some") => []<>(worker = "announce")

=============================================================================
