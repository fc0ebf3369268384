------------------------------- MODULE Https --------------------------------
(***************************************************************************)
(* One HTTPS exchange, as each of the four clients of the code has it:     *)
(* platform_https_get over OpenSSL ("posix"), over mbedTLS ("windows") and *)
(* over esp_http_client with mbedTLS to fall back on ("esp32"), and the    *)
(* login5 request with its own TLS code ("login5").                        *)
(*                                                                         *)
(* The server's answer is HeadLen bytes of status line and headers, the    *)
(* first StatusLen of which hold the status, and a body.  TLS gives it in  *)
(* pieces of any length; the server may close, and the connection break,   *)
(* after any of them.  Requests fit their buffers (req_len is added up     *)
(* from what snprintf would have written).                                 *)
(***************************************************************************)
EXTENDS Naturals, Sequences, FiniteSets, FiniteSetsExt, SequencesExt

CONSTANTS
    Builds,     \* a subset of {"posix", "windows", "esp32", "login5"}
    Bodies,     \* bodies of answers: sequences over Chars
    HeadLen,    \* bytes before the body
    StatusLen,  \* 12 in the code
    BufMax,     \* build -> bytes of an answer that are kept: sizeof(buf) - 1
    OutMax,     \* *access_token_out_len: the body login5 has room for
    TokenMax    \* max_len of spotify_login5_extract_token

\* "B", "Q", another capital letter, another character of a token, any other.
Chars == {"B", "Q", "C", "a", "|"}

ASSUME HttpsAssumption ==
    /\ Builds \subseteq {"posix", "windows", "esp32", "login5"}
    /\ \A b \in Bodies : b \in Seq(Chars)
    /\ StatusLen \in Nat \ {0} /\ HeadLen \in Nat /\ HeadLen > StatusLen
    /\ BufMax \in [Builds -> Nat] /\ \A b \in Builds : BufMax[b] >= HeadLen
    /\ OutMax \in Nat /\ TokenMax \in Nat \ {0}

VARIABLES build,    \* the client
          pc,       \* "idle", "connect", "handshake", "write", "read", "client", "done"
          held,     \* what it has open: "sock", "tls" (contexts), "client"
          body,     \* the body of the server's answer
          asked,    \* the server has the whole request
          ticket,   \* a session ticket of TLS 1.3 is still to be read
          total,    \* bytes of the answer in buf
          found,    \* login5: payload_offset is set
          resp,     \* what the call gives: [status, body], or the two for none
          end       \* where the exchange ended: at a pc, or by "close" or "full"

vars == <<build, pc, held, body, asked, ticket, total, found, resp, end>>

NoBody == <<"none">>            \* body is NULL
Garbage == <<"garbage">>        \* body is allocated and never written
NoAnswer == [status |-> 0, body |-> NoBody]

Answer == HeadLen + Len(body)

Init ==
    /\ build \in Builds
    /\ body \in Bodies
    /\ ticket \in BOOLEAN
    /\ pc = "idle" /\ held = {} /\ asked = FALSE /\ total = 0 /\ found = FALSE
    /\ resp = NoAnswer /\ end = "none"

MbedTls == build # "posix"

\* The socket is opened first; login5 sets its contexts up before it.
Start ==
    /\ pc = "idle"
    /\ IF build = "login5" THEN held' = {"tls"} ELSE held' = {"sock"}
    /\ pc' = "connect"
    /\ UNCHANGED <<build, body, asked, ticket, total, found, resp, end>>

\* esp_http_client takes the request, unless it has no memory for a handle.
EspClientInit ==
    /\ pc = "idle" /\ build = "esp32"
    /\ held' = {"client"}
    /\ pc' = "client"
    /\ UNCHANGED <<build, body, asked, ticket, total, found, resp, end>>

\* Mutant: the error path of the handshake forgets the socket, as OpenSSL's would.
FailKeepsSocket(at) ==
    held' = (IF build = "login5" THEN held ELSE IF at = "handshake" THEN held \ {"tls"} ELSE {})

\* What is still open when a call fails before it reads: platform_tls_connect
\* and platform_https_get close, login5 returns.
FailReleases(at) ==
    held' = (IF build = "login5" THEN held ELSE {})

\* A step fails before anything is read: no address, no connection, a failed
\* handshake or write, or (platform sockets only) ten seconds of silence.
Fails ==
    /\ pc \in {"connect", "handshake", "write"}
    /\ FailReleases(pc)
    /\ pc' = "done" /\ end' = pc
    /\ UNCHANGED <<build, body, asked, ticket, total, found, resp>>

Connects ==
    /\ pc = "connect"
    /\ held' = {"sock", "tls"}
    /\ pc' = "handshake"
    /\ UNCHANGED <<build, body, asked, ticket, total, found, resp, end>>

Handshakes ==
    /\ pc = "handshake"
    /\ pc' = "write"
    /\ UNCHANGED <<build, held, body, asked, ticket, total, found, resp, end>>

Writes ==
    /\ pc = "write"
    /\ pc' = "read"
    /\ asked' = TRUE
    /\ UNCHANGED <<build, held, body, ticket, total, found, resp, end>>

\* Part of the request is written: a failure, but login5 looks only for one.
WritesPart ==
    /\ pc = "write"
    /\ IF build = "login5" THEN pc' = "read" /\ UNCHANGED <<held, end>>
       ELSE pc' = "done" /\ end' = "write" /\ held' = {}
    /\ UNCHANGED <<build, body, asked, ticket, total, found, resp>>

\* i < total_recv - 4: login5 finds the end of the headers only if a byte of
\* the body is behind it.
HeadFound(n) == n > HeadLen

\* A piece of the answer.  login5 is taken to get its first four bytes at once:
\* total_recv - 4 is unsigned, and the search would run out of the buffer.
ReadPiece(n) ==
    /\ pc = "read" /\ asked
    /\ ~(MbedTls /\ ticket)
    /\ total + n <= Min({Answer, BufMax[build]})
    /\ total' = total + n
    /\ found' = (found \/ (build = "login5" /\ HeadFound(total + n)))
    /\ UNCHANGED <<build, pc, held, body, asked, ticket, resp, end>>

\* login5 reads on after a session ticket (-0x7B00); OpenSSL never shows one.
PassesTicket ==
    /\ pc = "read" /\ asked /\ ticket /\ build \in {"posix", "login5"}
    /\ ticket' = FALSE
    /\ UNCHANGED <<build, pc, held, body, asked, total, found, resp, end>>

\* The body that stands in buf behind the headers.
Received == SubSeq(body, 1, total - HeadLen)

\* Status from the first bytes, the body from the end of the headers to the end of buf.
parse_http_response ==
    CASE total < StatusLen -> NoAnswer
      [] total >= StatusLen /\ total < HeadLen -> [status |-> 200, body |-> NoBody]
      [] OTHER -> [status |-> 200, body |-> Received]

\* Login5 gives the body alone, if there is one and there is room for it.
Login5Result ==
    IF found /\ total - HeadLen <= OutMax THEN [status |-> 200, body |-> Received] ELSE NoAnswer

Finish(how) ==
    /\ pc' = "done" /\ end' = how /\ held' = {}
    /\ resp' = IF build = "login5" THEN Login5Result ELSE parse_http_response
    /\ UNCHANGED <<build, body, asked, ticket, total, found>>

\* buf is full: platform_https_get stops, login5 reads no bytes and takes it for the end.
BufferFull == pc = "read" /\ total = BufMax[build] /\ Finish("full")

\* The server has closed, at the end of the answer or before.
PeerCloses == pc = "read" /\ Finish("close")

\* An error ends the reading as the end of the answer does.
ReadFails == pc = "read" /\ Finish("read")

\* platform_tls_read takes the ticket of mbedTLS for an error.
TicketEnds ==
    /\ pc = "read" /\ asked /\ ticket /\ build \in {"windows", "esp32"}
    /\ Finish("ticket")

\* Mutant: a receive that times out is tried again.
TimesOutAgain == pc = "read" /\ build # "login5" /\ UNCHANGED vars

\* The sockets of the platform give up after ten seconds, login5's never.
TimesOut == pc = "read" /\ build # "login5" /\ Finish("read")

Silence == pc \in {"connect", "handshake", "write"} /\ build # "login5" /\ Fails

\* esp_http_client_perform has read the body; none of it is copied.
EspPerforms(ok) ==
    /\ pc = "client"
    /\ held' = {}
    /\ resp' = CASE ~ok -> NoAnswer
                 [] ok /\ body = <<>> -> [status |-> 200, body |-> NoBody]
                 [] OTHER -> [status |-> 200, body |-> Garbage]
    /\ pc' = "done" /\ end' = "client"
    /\ UNCHANGED <<build, body, asked, ticket, total, found>>

Next ==
    \/ Start \/ EspClientInit
    \/ Fails \/ Connects \/ Handshakes \/ Writes \/ WritesPart
    \/ \E n \in 1..Answer : ReadPiece(n)
    \/ PassesTicket \/ TicketEnds \/ BufferFull \/ PeerCloses \/ ReadFails \/ TimesOut
    \/ \E ok \in BOOLEAN : EspPerforms(ok)

(* What does not need the server: the client's own steps, and the timeouts *)
(* of its socket (and of esp_http_client).                                 *)
Fairness ==
    /\ WF_vars(Start \/ EspClientInit)
    /\ WF_vars(Silence)
    /\ WF_vars(TimesOut)
    /\ WF_vars(EspPerforms(FALSE))

Spec == Init /\ [][Next]_vars /\ Fairness

-----------------------------------------------------------------------------
(* spotify_login5_extract_token: the first BQ and capital in the body, but *)
(* its last five bytes, and what follows it of characters of a token.      *)

IsToken(c) == c # "|"

\* Mutant: the capital after BQ is not asked for.
TokenAtBQ(p, i) == p[i] = "B" /\ p[i + 1] = "Q"

TokenAt(p, i) == p[i] = "B" /\ p[i + 1] = "Q" /\ p[i + 2] \in {"B", "Q", "C"}

\* A payload of less than five bytes (payload_len - 5 is unsigned) is not read here.
spotify_login5_extract_token(p) ==
    LET starts == {i \in 1..(Len(p) - 5) : TokenAt(p, i)}
        i == Min(starts)
        ends == {k \in i..Len(p) : ~IsToken(p[k])} \cup {Len(p) + 1, i + TokenMax - 1}
    IN  IF Len(p) < 5 \/ starts = {} THEN NoBody ELSE SubSeq(p, i, Min(ends) - 1)

-----------------------------------------------------------------------------

(* A call that has returned has nothing open: no socket, no context, no    *)
(* client.  Only login5 returns from a failed connection, handshake or     *)
(* write with everything it had opened until then.                         *)
ReleasedOnReturn ==
    pc = "done" =>
        held = IF build = "login5" /\ end \in {"connect", "handshake", "write"}
               THEN (IF end = "connect" THEN {"tls"} ELSE {"tls", "sock"}) ELSE {}

\* login5 wants a body, and has OutMax bytes for it.
Fits == build = "login5" => body # <<>> /\ Len(body) <= OutMax

\* The token cut out of p is the one it holds: the text from the first BQ and
\* capital to the next field, unless it outgrows its buffer.
CutsOutToken(p) ==
    \A i, k \in 1..Len(p) :
        LET text == SubSeq(p, i, k)
            whole == /\ i < k /\ k - i < TokenMax - 1 /\ i <= Len(p) - 5
                     /\ \A c \in ToSet(text) : IsToken(c)
                     /\ k < Len(p) => ~IsToken(p[k + 1])
            first == \A j \in 1..(i - 1) : ~(SubSeq(p, j, j + 1) = <<"B", "Q">>
                                             /\ p[j + 2] \in {"B", "Q", "C"})
        IN  whole /\ first /\ Len(text) >= 3 /\ SubSeq(text, 1, 2) = <<"B", "Q">>
            /\ text[3] \in {"B", "Q", "C"} =>
                spotify_login5_extract_token(p) = text

TokenRead ==
    build = "login5" /\ resp.body # NoBody /\ Len(resp.body) >= 5 => CutsOutToken(resp.body)

(* What a call gives is the beginning of the server's body, all of it if   *)
(* it fits and nothing broke; only esp_http_client's answers come without  *)
(* their body, and mbedTLS's are empty where a ticket came first.  And the *)
(* token that login5 hands on is the one the server wrote.                 *)
AnswerRead ==
    pc = "done" =>
        /\ resp.body \notin {NoBody, Garbage} => IsPrefix(resp.body, body)
        /\ resp.body = Garbage => build = "esp32"
        /\ end = "close" /\ total = Answer /\ Fits => resp = [status |-> 200, body |-> body]
        /\ end = "ticket" => resp = NoAnswer
        /\ TokenRead

(* platform_https_get returns, however silent the server is.  (login5 sets *)
(* no timeout: it waits as long as the server does.)                       *)
GetReturns == (pc = "connect" \/ pc = "client") /\ build # "login5" ~> pc = "done"

=============================================================================
