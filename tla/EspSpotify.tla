----------------------------- MODULE EspSpotify -----------------------------
(***************************************************************************)
(* The public handle (src/src/esp_spotify.c): what it owns, in which order *)
(* its calls can be made, and what each leaves behind when a step of it    *)
(* fails.                                                                  *)
(*                                                                         *)
(* Pairing and login are taken at their results: what zeroconf_poll and    *)
(* zeroconf_get_credentials return is modelled in Zeroconf, what           *)
(* mercury_login5 does in Mercury, the token request in SpClient.          *)
(* zeroconf and mercury sessions are numbered as they are allocated.       *)
(***************************************************************************)
EXTENDS Integers, FiniteSets

CONSTANTS
  Users,       \* Spotify users
  Names,       \* user names a program may put into the configuration
  NoUser,      \* no user name, or no credentials
  MaxHandles,  \* bound: handles one after another
  MaxStarts,   \* esp_spotify_start calls on one handle
  MaxLogins,   \* esp_spotify_login calls on one handle
  Timeout      \* timeout_seconds of esp_spotify_pair

ASSUME EspSpotifyAssumption ==
  /\ NoUser \notin Users /\ Names \subseteq Users
  /\ MaxHandles \in Nat /\ MaxStarts \in Nat /\ MaxLogins \in Nat
  /\ Timeout \in Nat \ {0}

VARIABLES
  handle,     \* the handle is allocated
  username,   \* h->config.username
  auth,       \* whose credentials h->zeroconf_auth_data holds
  zeroconf,   \* h->zeroconf, 0 for NULL
  mercury,    \* h->mercury, 0 for NULL
  token,      \* the login h->client_token came from, 0 for none
  hstate,     \* h->state
  running,    \* zeroconf sessions that are running
  captured,   \* zeroconf session -> whose credentials it captured
  connected,  \* mercury sessions with `connected` set
  sockets,    \* mercury sessions that hold a socket
  bells,      \* zeroconf sessions that hold a listening socket
  zalive,     \* zeroconf sessions that are allocated
  malive,     \* mercury sessions that are allocated
  pairing,    \* esp_spotify_pair is in its loop
  waited,     \* its loop counter
  returned,   \* <<call, result>> of the last call that returned
  login,      \* history: <<user name, credentials, result>> of the last login5
  dropped,    \* history: zeroconf and mercury sessions replaced by a later one
  handles, starts, loginCalls  \* calls made, on this handle the last two

owned == <<handle, username, auth, zeroconf, mercury, token, hstate>>
zsessions == <<running, captured, bells, zalive>>
msessions == <<connected, sockets, malive>>
loop == <<pairing, waited>>
counts == <<handles, starts, loginCalls>>
espVars == <<owned, zsessions, msessions, loop, returned, login, dropped, counts>>

Sessions == 1 .. MaxHandles * (MaxStarts + MaxLogins)
ZNext == (handles - 1) * MaxStarts + starts + 1
MNext == (handles - 1) * MaxLogins + loginCalls + 1

\* What a zeroconf session has captured: nothing, credentials of a user, or
\* fields that do not decrypt ("bad"), for good.
Captures == Users \cup {"none", "bad"}

NoLogin == <<NoUser, NoUser, 1>>

EspInit ==
  /\ handle = FALSE /\ username = NoUser /\ auth = NoUser
  /\ zeroconf = 0 /\ mercury = 0 /\ token = 0 /\ hstate = "IDLE"
  /\ running = {} /\ captured = [z \in Sessions |-> "none"]
  /\ bells = {} /\ zalive = {}
  /\ connected = {} /\ sockets = {} /\ malive = {}
  /\ pairing = FALSE /\ waited = 0 /\ returned = <<"none", 0>> /\ login = NoLogin
  /\ dropped = [z |-> {}, m |-> {}]
  /\ handles = 0 /\ starts = 0 /\ loginCalls = 0

Idle == handle /\ ~pairing

-----------------------------------------------------------------------------
esp_spotify_init ==
  /\ ~handle /\ handles < MaxHandles
  /\ handle' = TRUE
  /\ username' \in Names \cup {NoUser}
  /\ auth' = NoUser /\ zeroconf' = 0 /\ mercury' = 0 /\ token' = 0
  /\ hstate' = "IDLE"
  /\ returned' = <<"init", 0>> /\ login' = NoLogin
  /\ handles' = handles + 1 /\ starts' = 0 /\ loginCalls' = 0
  /\ UNCHANGED <<zsessions, msessions, loop, dropped>>

\* A new zeroconf session replaces the last one, which is neither stopped nor
\* freed.  zeroconf_start fails when the port is taken, or for a reason of the
\* system's; nobody looks at its result.
esp_spotify_start ==
  /\ Idle /\ starts < MaxStarts
  /\ starts' = starts + 1
  /\ zeroconf' = ZNext
  /\ dropped' = [dropped EXCEPT !.z = @ \cup {zeroconf}]
  /\ zalive' = zalive \cup {ZNext}
  /\ \/ /\ bells = {}
        /\ bells' = {ZNext} /\ running' = running \cup {ZNext}
     \/ UNCHANGED <<bells, running>>
  /\ hstate' = "CONNECTED"
  /\ returned' = <<"start", 0>>
  /\ UNCHANGED <<handle, username, auth, mercury, token, captured, msessions,
                 loop, login, handles, loginCalls>>

-----------------------------------------------------------------------------
(* esp_spotify_pair.                                                       *)

PairReturns(code) == returned' = <<"pair", code>> /\ pairing' = FALSE

esp_spotify_pair ==
  /\ Idle
  /\ IF zeroconf = 0
     THEN PairReturns(-1) /\ UNCHANGED waited
     ELSE pairing' = TRUE /\ waited' = 0 /\ UNCHANGED returned
  /\ UNCHANGED <<owned, zsessions, msessions, login, dropped, counts>>

\* Nothing captured, or nothing that decrypts: a second more has gone by.
PairWaits ==
  /\ waited' = waited + 1
  /\ IF waited + 1 < Timeout THEN UNCHANGED <<pairing, returned>> ELSE PairReturns(-2)
  /\ UNCHANGED <<username, auth>>

\* The credentials of user u: the name is taken only if there is none yet.
PairTakes(u) ==
  /\ auth' = u
  /\ username' = IF username = NoUser THEN u ELSE username
  /\ PairReturns(0)
  /\ UNCHANGED waited

\* One zeroconf_poll, and zeroconf_get_credentials if it returned 1.
PairTurn ==
  /\ pairing
  /\ \/ /\ zeroconf \notin running
        /\ PairReturns(-1)
        /\ UNCHANGED <<username, auth, captured, waited>>
     \/ /\ zeroconf \in running
        /\ \E c \in IF captured[zeroconf] = "none" THEN Captures ELSE {captured[zeroconf]} :
             /\ captured' = [captured EXCEPT ![zeroconf] = c]
             /\ IF c \in Users THEN PairTakes(c) ELSE PairWaits
  /\ UNCHANGED <<handle, zeroconf, mercury, token, hstate, running, bells, zalive,
                 msessions, login, dropped, counts>>

-----------------------------------------------------------------------------
(* esp_spotify_login.                                                      *)

\* Mutant: the mercury session of the last login is used again.
SessionKept == IF mercury = 0 THEN MNext ELSE mercury

\* A new mercury session replaces the last one, which is neither closed nor
\* freed.
SessionForLogin == MNext

\* What mercury_login5 leaves behind: refused before the socket was there, failed
\* with it open, or logged in; then the token is asked for, in vain perhaps.
Login5(m) ==
  \E r \in {"refused", "failed", "ok"} :
    /\ login' = <<username, auth, IF r = "ok" THEN 0 ELSE -1>>
    /\ returned' = <<"login", IF r = "ok" THEN 0 ELSE -1>>
    /\ sockets' = IF r = "refused" THEN sockets ELSE sockets \cup {m}
    /\ connected' = IF r = "ok" THEN connected \cup {m} ELSE connected
    /\ IF r = "ok" THEN token' \in {token, m} ELSE UNCHANGED token

esp_spotify_login ==
  /\ Idle /\ loginCalls < MaxLogins
  /\ loginCalls' = loginCalls + 1
  /\ mercury' = SessionForLogin
  /\ dropped' = [dropped EXCEPT !.m = @ \cup {mercury}]
  /\ malive' = malive \cup {SessionForLogin}
  /\ IF auth = NoUser \/ username = NoUser
     THEN returned' = <<"login", -3>> /\ UNCHANGED <<login, sockets, connected, token>>
     ELSE Login5(SessionForLogin)
  /\ UNCHANGED <<handle, username, auth, zeroconf, hstate, zsessions, loop, handles, starts>>

-----------------------------------------------------------------------------
(* esp_spotify_stop and esp_spotify_destroy.                               *)

\* Mutants: the connection is left, or the zeroconf session is.
StopWithoutMercury ==
  /\ running' = running \ {zeroconf} /\ bells' = bells \ {zeroconf}
  /\ UNCHANGED <<connected, sockets>>

\* zeroconf_stop and mercury_disconnect of the sessions the handle knows.
StopSessions ==
  /\ running' = running \ {zeroconf} /\ bells' = bells \ {zeroconf}
  /\ connected' = connected \ {mercury} /\ sockets' = sockets \ {mercury}

esp_spotify_stop ==
  /\ Idle
  /\ hstate' = "IDLE"
  /\ StopSessions
  /\ returned' = <<"stop", 0>>
  /\ UNCHANGED <<handle, username, auth, zeroconf, mercury, token, captured, zalive,
                 malive, loop, login, dropped, counts>>

\* Mutant: the zeroconf session is stopped but not freed.
FreeMercury == malive' = malive \ {mercury} /\ UNCHANGED zalive

FreeSessions == malive' = malive \ {mercury} /\ zalive' = zalive \ {zeroconf}

\* Without a handle there is nothing to do.
esp_spotify_destroy ==
  \/ /\ Idle
     /\ StopSessions
     /\ FreeSessions
     /\ handle' = FALSE /\ zeroconf' = 0 /\ mercury' = 0
     /\ hstate' = "IDLE"
     /\ returned' = <<"destroy", 0>>
     /\ UNCHANGED <<username, auth, token, captured, loop, login, dropped, counts>>
  \/ ~handle /\ UNCHANGED espVars

-----------------------------------------------------------------------------
EspNext ==
  \/ esp_spotify_init \/ esp_spotify_start
  \/ esp_spotify_pair \/ PairTurn
  \/ esp_spotify_login \/ esp_spotify_stop \/ esp_spotify_destroy

EspSpec == EspInit /\ [][EspNext]_espVars

-----------------------------------------------------------------------------
(* Properties.                                                             *)

\* esp_spotify_is_connected tells the truth about the last esp_spotify_login: a
\* failed login, a stop or a new handle is never hidden by an earlier success.
ConnectedMeansLastLogin ==
  (handle /\ mercury \in connected) => login[3] = 0

\* A handle leaves nothing behind but the sessions its own second esp_spotify_start
\* or esp_spotify_login replaced, whichever of its calls failed.
NothingElseLeft ==
  ~handle => /\ bells \cup zalive \subseteq dropped.z
             /\ sockets \cup malive \subseteq dropped.m

\* Stopping closes the port and the connection but for such sessions', so that
\* the next esp_spotify_start can have the port.
StopReleases ==
  [][esp_spotify_stop => /\ bells' \cup running' \subseteq dropped.z
                         /\ sockets' \subseteq dropped.m]_espVars

=============================================================================
