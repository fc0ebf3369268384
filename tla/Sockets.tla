------------------------------- MODULE Sockets -------------------------------
(***************************************************************************)
(* The sockets of the platform layer, over the sockets of the system, in   *)
(* the three builds: the TCP connection of a client, and the HTTP server   *)
(* of the bell, which serves one client at a time.                         *)
(*                                                                         *)
(* Bytes are numbered in the order in which their sender gives them.  The  *)
(* system takes and gives pieces of any length, and either end may close   *)
(* or fail between two of them.                                            *)
(***************************************************************************)
EXTENDS Naturals, Sequences, FiniteSets, FiniteSetsExt, SequencesExt

CONSTANTS
    Platforms,   \* a subset of {"posix", "windows", "esp32"}
    MaxAddrs,    \* bound: addresses of a host
    MaxCount,    \* bound: bytes of one call
    MaxBytes,    \* bound: bytes of a connection, each way
    Clients      \* bound: clients that come to the bell

SocketsAssumption ==
    /\ Platforms \subseteq {"posix", "windows", "esp32"}
    /\ MaxAddrs \in Nat \ {0} /\ MaxCount \in Nat \ {0}
    /\ MaxBytes \in Nat /\ Clients \in Nat

VARIABLES platform,  \* the build
          bell,      \* the socket is one the bell has accepted
          hosts,     \* what the addresses of the host do: "accepts" or "refuses"
          at,        \* the address that is tried
          sockPc,    \* "idle", "connect", "listen", "accept", "up", "read", "write"
          open,      \* the system's sockets in use: "listen", "conn"
          timed,     \* receives and sends have a timeout
          waiting,   \* clients in the queue of the listening socket
          came,      \* clients so far
          arrived,   \* bytes of the peer that have arrived
          taken,     \* ... and been received
          want,      \* n of the call in progress
          buf,       \* bytes received into it; of a write, as many as were sent
          given,     \* bytes the caller has given to calls of write
          stream,    \* the bytes the system has sent
          closed,    \* no more bytes come from the peer
          ret,       \* the result of the last call
          got,       \* history: what the reads that succeeded gave
          put,       \* history: what the writes said they wrote
          broken     \* history: a read or a write has failed on this connection

conn == <<arrived, taken, want, buf, given, stream, closed, got, put, broken>>
sockVars == <<platform, bell, hosts, at, sockPc, open, timed, waiting, came, ret, conn>>

Failed == "invalid"     \* PLATFORM_SOCKET_INVALID, NULL or -1
Done == "ok"

HostLists == UNION {[1..k -> {"accepts", "refuses"}] : k \in 1..MaxAddrs}

NoConn ==
    /\ arrived = 0 /\ taken = 0 /\ want = 0 /\ buf = <<>> /\ given = 0 /\ stream = <<>>
    /\ closed = FALSE /\ got = <<>> /\ put = <<>> /\ broken = FALSE

SockInit ==
    /\ platform \in Platforms /\ hosts \in HostLists
    /\ bell = FALSE /\ at = 0 /\ sockPc = "idle" /\ open = {} /\ timed = FALSE
    /\ waiting = 0 /\ came = 0 /\ ret = Done /\ NoConn

NewConn ==
    /\ arrived' = 0 /\ taken' = 0 /\ want' = 0 /\ buf' = <<>> /\ given' = 0 /\ stream' = <<>>
    /\ closed' = FALSE /\ got' = <<>> /\ put' = <<>> /\ broken' = FALSE

-----------------------------------------------------------------------------
(* platform_tcp_connect.                                                   *)

\* Windows and ESP32 have the socket and its timeouts before they look the
\* host up; POSIX takes a socket for each address.
ConnectStarts ==
    /\ sockPc = "idle"
    /\ sockPc' = "connect" /\ bell' = FALSE /\ at' = 1
    /\ open' = IF platform = "posix" THEN {} ELSE {"conn"}
    /\ timed' = (platform # "posix")
    /\ NewConn
    /\ UNCHANGED <<platform, hosts, waiting, came, ret>>

Connected ==
    /\ sockPc' = "up" /\ ret' = Done /\ open' = {"conn"}

ConnectFails ==
    /\ sockPc' = "idle" /\ ret' = Failed /\ open' = {}

\* Mutant: only the first address is tried.
FirstOnly ==
    IF hosts[at] = "accepts" THEN Connected /\ UNCHANGED at
    ELSE ConnectFails /\ UNCHANGED at

\* POSIX closes the socket of an address that refuses and goes on with the next.
EachAddress ==
    IF hosts[at] = "accepts" THEN Connected /\ UNCHANGED at
    ELSE IF at < Len(hosts) THEN at' = at + 1 /\ UNCHANGED <<sockPc, ret, open>>
    ELSE ConnectFails /\ UNCHANGED at

\* Windows: the first result of getaddrinfo.
FirstResult ==
    IF hosts[1] = "accepts" THEN Connected /\ UNCHANGED at
    ELSE ConnectFails /\ UNCHANGED at

\* ESP32: h_addr of gethostbyname.
FirstHostEntry ==
    IF hosts[1] = "accepts" THEN Connected /\ UNCHANGED at
    ELSE ConnectFails /\ UNCHANGED at

platform_tcp_connect ==
    /\ sockPc = "connect"
    /\ CASE platform = "posix" -> EachAddress
         [] platform = "windows" -> FirstResult
         [] platform = "esp32" -> FirstHostEntry
    /\ UNCHANGED <<platform, bell, hosts, timed, waiting, came, conn>>

\* The name is not known.
LookupFails ==
    /\ sockPc = "connect" /\ at = 1
    /\ ConnectFails /\ at' = 0
    /\ UNCHANGED <<platform, bell, hosts, timed, waiting, came, conn>>

platform_tcp_set_timeout ==
    /\ sockPc = "up" /\ ~bell /\ ~timed
    /\ timed' = TRUE
    /\ UNCHANGED <<platform, bell, hosts, at, sockPc, open, waiting, came, ret, conn>>

\* The socket goes, and with it all that had not been read.
platform_tcp_close ==
    /\ sockPc = "up"
    /\ sockPc' = (IF bell THEN "listen" ELSE "idle")
    /\ open' = open \ {"conn"}
    /\ timed' = FALSE /\ bell' = FALSE /\ at' = 0
    /\ NewConn
    /\ UNCHANGED <<platform, hosts, waiting, came, ret>>

-----------------------------------------------------------------------------
(* The system: what comes from the peer, what it takes, what it gives.     *)

Arrive ==
    /\ "conn" \in open /\ sockPc # "connect" /\ ~closed /\ arrived < MaxBytes
    /\ arrived' = arrived + 1
    /\ UNCHANGED <<platform, bell, hosts, at, sockPc, open, timed, waiting, came, ret,
                   taken, want, buf, given, stream, closed, got, put, broken>>

PeerEnds ==
    /\ "conn" \in open /\ sockPc # "connect" /\ ~closed
    /\ closed' = TRUE
    /\ UNCHANGED <<platform, bell, hosts, at, sockPc, open, timed, waiting, came, ret,
                   arrived, taken, want, buf, given, stream, got, put, broken>>

\* recv gives k of the bytes that have arrived, and has room for `room`.
Receive(k, room) ==
    /\ k <= room /\ taken + k <= arrived
    /\ taken' = taken + k

\* Mutant: send is given the beginning of the buffer each time.
SendFromStart(k) == stream' = stream \o [i \in 1..k |-> given + i]

\* send(buf + off, n - off) takes k bytes.
Send(k) == stream' = stream \o [i \in 1..k |-> given + Len(buf) + i]

Returns(result) == sockPc' = "up" /\ ret' = result /\ want' = 0 /\ buf' = <<>>

-----------------------------------------------------------------------------
(* platform_tcp_read and platform_tcp_write: loops until n bytes have gone. *)

Call(op, n) ==
    /\ sockPc = "up" /\ sockPc' = op /\ want' = n /\ buf' = <<>>
    /\ UNCHANGED <<platform, bell, hosts, at, open, timed, waiting, came, ret,
                   arrived, taken, given, stream, closed, got, put, broken>>

ReadStarts(n) == ~bell /\ Call("read", n)

WriteStarts(n) == given + n <= MaxBytes /\ Call("write", n)

platform_tcp_read(k) ==
    /\ sockPc = "read" /\ Receive(k, want - Len(buf))
    /\ LET all == buf \o [i \in 1..k |-> taken + i] IN
         IF Len(all) < want THEN buf' = all /\ UNCHANGED <<sockPc, ret, want, got>>
         ELSE Returns(Done) /\ got' = got \o all
    /\ UNCHANGED <<platform, bell, hosts, at, open, timed, waiting, came,
                   arrived, given, stream, closed, put, broken>>

\* The end of what the peer sends, or an error.
ReadBreaks ==
    /\ sockPc = "read" /\ closed /\ taken = arrived
    /\ Returns(Failed) /\ broken' = TRUE
    /\ UNCHANGED <<platform, bell, hosts, at, open, timed, waiting, came,
                   arrived, taken, given, stream, closed, got, put>>

\* Mutant: a receive or send that times out is tried again.
WaitsAgain == sockPc \in {"read", "write"} /\ timed /\ UNCHANGED sockVars

\* A receive or a send has lasted too long: r or w is negative.
WaitEnds ==
    /\ sockPc \in {"read", "write"} /\ timed
    /\ sockPc = "read" => taken = arrived
    /\ Returns(Failed) /\ broken' = TRUE
    /\ given' = (IF sockPc = "write" THEN given + want ELSE given)
    /\ UNCHANGED <<platform, bell, hosts, at, open, timed, waiting, came,
                   arrived, taken, stream, closed, got, put>>

\* platform_tcp_write, and platform_http_server_write on POSIX, go on to the
\* end; the other two of the bell send once.
Loops == ~bell \/ platform = "posix"

platform_tcp_write(k) ==
    /\ sockPc = "write" /\ k <= want - Len(buf)
    /\ Send(k)
    /\ IF Loops /\ Len(buf) + k < want
       THEN buf' = buf \o [i \in 1..k |-> 0] /\ UNCHANGED <<sockPc, ret, want, given, put>>
       ELSE /\ Returns(Done) /\ given' = given + want
            /\ put' = put \o [i \in 1..Len(buf) + k |-> given + i]
    /\ UNCHANGED <<platform, bell, hosts, at, open, timed, waiting, came,
                   arrived, taken, closed, got, broken>>

WriteFails ==
    /\ sockPc = "write" /\ closed
    /\ Returns(Failed) /\ broken' = TRUE /\ given' = given + want
    /\ UNCHANGED <<platform, bell, hosts, at, open, timed, waiting, came,
                   arrived, taken, stream, closed, got, put>>

-----------------------------------------------------------------------------
(* The HTTP server of the bell.                                            *)

\* Any of socket, bind and listen may fail: what was open is closed.
platform_http_server_start ==
    /\ sockPc = "idle"
    /\ \/ sockPc' = "listen" /\ open' = {"listen"} /\ ret' = Done
       \/ sockPc' = "idle" /\ open' = {} /\ ret' = Failed
    /\ waiting' = 0
    /\ UNCHANGED <<platform, bell, hosts, at, timed, came, conn>>

\* listen(fd, n)
Backlog == IF platform = "posix" THEN 5 ELSE 1

ClientComes ==
    /\ "listen" \in open /\ came < Clients /\ waiting < Backlog
    /\ came' = came + 1 /\ waiting' = waiting + 1
    /\ UNCHANGED <<platform, bell, hosts, at, sockPc, open, timed, ret, conn>>

AcceptStarts ==
    /\ sockPc = "listen"
    /\ sockPc' = "accept"
    /\ UNCHANGED <<platform, bell, hosts, at, open, timed, waiting, came, ret, conn>>

\* A client that waits is taken, or it had gone again; timeout_ms without one
\* ends the wait.  The socket of a client has no timeout.
platform_http_server_accept ==
    /\ sockPc = "accept"
    /\ \/ /\ waiting > 0 /\ sockPc' = "up" /\ open' = {"listen", "conn"} /\ bell' = TRUE
          /\ ret' = Done /\ waiting' = waiting - 1 /\ NewConn
       \/ /\ sockPc' = "listen" /\ ret' = Failed /\ waiting' = Max({waiting, 1}) - 1
          /\ UNCHANGED <<open, bell, conn>>
    /\ UNCHANGED <<platform, hosts, at, timed, came>>

\* max_len - 1 on POSIX
Room(n) == IF platform = "posix" THEN n - 1 ELSE n

\* One recv: what has arrived, as far as there is room; 0 at the end and for no room.
platform_http_server_read(n, k) ==
    /\ sockPc = "up" /\ bell /\ Receive(k, Room(n))
    /\ k = 0 => (closed /\ taken = arrived) \/ Room(n) = 0
    /\ got' = got \o [i \in 1..k |-> taken + i]
    /\ UNCHANGED <<platform, bell, hosts, at, sockPc, open, timed, waiting, came, ret,
                   arrived, want, buf, given, stream, closed, put, broken>>

platform_http_server_stop ==
    /\ sockPc = "listen"
    /\ sockPc' = "idle" /\ open' = {} /\ waiting' = 0
    /\ UNCHANGED <<platform, bell, hosts, at, timed, came, ret, conn>>

-----------------------------------------------------------------------------
Counts == 1..MaxCount

Step ==
    \/ \E k \in Counts : platform_tcp_read(k) \/ platform_tcp_write(k)
    \/ ReadBreaks \/ WriteFails

SockNext ==
    \/ ConnectStarts \/ platform_tcp_connect \/ LookupFails
    \/ platform_tcp_set_timeout \/ platform_tcp_close
    \/ Arrive \/ PeerEnds
    \/ \E n \in Counts : ReadStarts(n) \/ WriteStarts(n)
    \/ Step \/ WaitEnds
    \/ platform_http_server_start \/ ClientComes \/ AcceptStarts
    \/ platform_http_server_accept \/ platform_http_server_stop
    \/ \E n \in Counts, k \in 0..MaxCount : platform_http_server_read(n, k)

(* The system finishes a connection, and ends what has a timeout; nothing  *)
(* is asked of the peer.                                                   *)
SockFairness ==
    /\ WF_sockVars(platform_tcp_connect)
    /\ WF_sockVars(Step)
    /\ WF_sockVars(WaitEnds)

SockSpec == SockInit /\ [][SockNext]_sockVars /\ SockFairness

-----------------------------------------------------------------------------

\* The addresses a build tries.
Tried == IF platform = "posix" THEN DOMAIN hosts ELSE {1}

(* platform_tcp_connect fails, the name known, only when no address it     *)
(* tries accepts, and whatever it tried first, one socket is open when it  *)
(* succeeds and none when it fails, nor when the bell has been stopped.    *)
ConnectsWhereItCan ==
    /\ sockPc = "idle" => open = {}
    /\ sockPc = "idle" /\ ret = Failed /\ at > 0 => \A i \in Tried : hosts[i] = "refuses"
    /\ sockPc \in {"up", "read", "write"} =>
        IF bell THEN open = {"conn", "listen"}
        ELSE open = {"conn"} /\ at \in Tried /\ hosts[at] = "accepts"

(* As long as no call on a connection has failed, the reads gave the bytes *)
(* of the peer in order with none left out, and the bytes the writes said  *)
(* they wrote are those that were sent, whatever the pieces.  (After a     *)
(* read that failed half way its bytes are gone: the connection is of no   *)
(* use any more.)                                                          *)
InStep ==
    sockPc = "up" /\ ~broken =>
        /\ got = [i \in 1..taken |-> i]
        /\ stream = put
        /\ ~bell \/ platform = "posix" => put = [i \in 1..given |-> i]

(* With platform_tcp_set_timeout called, or on the builds that set one     *)
(* themselves, no call waits for ever, however slowly the peer gives its   *)
(* bytes.                                                                  *)
CallsEnd == sockPc \in {"read", "write"} /\ timed ~> sockPc \notin {"read", "write"}

=============================================================================
