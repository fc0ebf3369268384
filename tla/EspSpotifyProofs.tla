-------------------------- MODULE EspSpotifyProofs --------------------------
(***************************************************************************)
(* The public handle, for any users and any number of handles and calls on *)
(* each: what it owns, and what an earlier login can make it say.          *)
(***************************************************************************)
EXTENDS EspSpotify, TLAPS

\* The last numbers given to a zeroconf and to a mercury session.
ZLast == (handles - 1) * MaxStarts + starts
MLast == (handles - 1) * MaxLogins + loginCalls

\* The calls on a handle stay within their bounds, so that the numbers of two
\* handles' sessions differ.
CountsRight ==
  /\ handles \in Nat /\ starts \in Nat /\ loginCalls \in Nat
  /\ starts <= MaxStarts /\ loginCalls <= MaxLogins
  /\ handle \in BOOLEAN /\ handle => handles > 0
  /\ handles = 0 => starts = 0 /\ loginCalls = 0

\* What is open has a number already given, and 0 is not one.
Numbered ==
  /\ \A z \in bells \cup running \cup zalive : z \in Nat /\ z > 0
  /\ \A m \in connected \cup sockets \cup malive : m \in Nat /\ m > 0
  /\ \A m \in connected : m <= MLast

\* Whatever is open is the handle's own or was replaced by a later session.
OwnedOrDropped ==
  /\ bells \cup running \cup zalive \subseteq dropped.z \cup {zeroconf}
  /\ connected \cup sockets \cup malive \subseteq dropped.m \cup {mercury}
  /\ dropped = [z |-> dropped.z, m |-> dropped.m]
  /\ ~handle => zeroconf = 0 /\ mercury = 0

HandleInv == CountsRight /\ Numbered /\ OwnedOrDropped /\ ConnectedMeansLastLogin

-----------------------------------------------------------------------------

LEMMA Products ==
  ASSUME NEW n \in Nat, NEW b \in Nat
  PROVE  n * b \in Nat /\ (n + 1) * b = n * b + b
OBVIOUS

\* The number a login gives to its session is above all numbers given so far.
LEMMA NextMercury ==
  ASSUME CountsRight, handle
  PROVE  /\ MNext \in Nat /\ MNext > 0 /\ MNext = MLast + 1
         /\ ZNext \in Nat /\ ZNext > 0
<1>. DEFINE n == handles - 1
<1>1. n \in Nat /\ loginCalls \in Nat /\ starts \in Nat
  BY DEF CountsRight
<1>2. MaxLogins \in Nat /\ MaxStarts \in Nat
  BY EspSpotifyAssumption
<1>3. n * MaxLogins \in Nat /\ n * MaxStarts \in Nat
  BY <1>1, <1>2, Products
<1>. HIDE DEF n
<1>4. /\ MNext = n * MaxLogins + loginCalls + 1 /\ MLast = n * MaxLogins + loginCalls
      /\ ZNext = n * MaxStarts + starts + 1
  BY DEF MNext, MLast, ZNext, n
<1>. QED BY <1>1, <1>3, <1>4

\* A new handle numbers on from where the calls of the last could have come.
LEMMA NewHandleNumbersOn ==
  ASSUME CountsRight, handles' = handles + 1, loginCalls' = 0
  PROVE  MLast <= MLast'
<1>1. handles \in Nat /\ loginCalls \in Nat /\ loginCalls <= MaxLogins /\ MaxLogins \in Nat
  BY EspSpotifyAssumption DEF CountsRight
<1>2. CASE handles = 0
  <2>1. loginCalls = 0
    BY <1>2 DEF CountsRight
  <2>2. MLast = (0 - 1) * MaxLogins + 0 /\ MLast' = (1 - 1) * MaxLogins + 0
    BY <1>2, <2>1 DEF MLast
  <2>. QED BY <1>1, <2>2
<1>3. CASE handles # 0
  <2>. DEFINE n == handles - 1
  <2>1. n \in Nat /\ handles = n + 1
    BY <1>1, <1>3
  <2>2. n * MaxLogins \in Nat /\ (n + 1) * MaxLogins = n * MaxLogins + MaxLogins
    BY <1>1, <2>1, Products
  <2>. HIDE DEF n
  <2>3. MLast = n * MaxLogins + loginCalls
    BY <2>1 DEF MLast, n
  <2>4. MLast' = (n + 1) * MaxLogins
    <3>1. handles' - 1 = n + 1
      BY <1>1, <2>1
    <3>2. (n + 1) * MaxLogins + 0 = (n + 1) * MaxLogins
      BY <1>1, <2>1, <2>2
    <3>. QED BY <3>1, <3>2 DEF MLast
  <2>. QED BY <1>1, <2>2, <2>3, <2>4
<1>. QED BY <1>2, <1>3

-----------------------------------------------------------------------------

LEMMA HandleInvInit == EspInit => HandleInv
<1>. SUFFICES ASSUME EspInit
              PROVE  HandleInv
  OBVIOUS
<1>. USE DEF EspInit
<1>1. CountsRight
  BY EspSpotifyAssumption DEF CountsRight
<1>2. Numbered
  BY DEF Numbered
<1>3. OwnedOrDropped
  BY DEF OwnedOrDropped
<1>4. ConnectedMeansLastLogin
  BY DEF ConnectedMeansLastLogin
<1>. QED BY <1>1, <1>2, <1>3, <1>4 DEF HandleInv

LEMMA InitKeeps ==
  ASSUME HandleInv, esp_spotify_init
  PROVE  HandleInv'
<1>1. /\ ~handle /\ handle' = TRUE /\ zeroconf' = 0 /\ mercury' = 0
      /\ handles' = handles + 1 /\ starts' = 0 /\ loginCalls' = 0
      /\ UNCHANGED <<zsessions, msessions, dropped>>
  BY DEF esp_spotify_init
<1>2. UNCHANGED <<bells, running, zalive, connected, sockets, malive>>
  BY <1>1 DEF zsessions, msessions
<1>3. CountsRight'
  BY <1>1, EspSpotifyAssumption DEF HandleInv, CountsRight
<1>4. Numbered'
  <2>1. MLast <= MLast'
    BY <1>1, NewHandleNumbersOn DEF HandleInv
  <2>2. MLast \in Int /\ MLast' \in Int
    BY <1>3, EspSpotifyAssumption DEF HandleInv, CountsRight, MLast
  <2>3. \A m \in connected : m <= MLast'
    BY <2>1, <2>2 DEF HandleInv, Numbered
  <2>. QED BY <1>2, <2>3 DEF HandleInv, Numbered
<1>5. OwnedOrDropped'
  BY <1>1, <1>2 DEF HandleInv, OwnedOrDropped
<1>6. ConnectedMeansLastLogin'
  <2>1. 0 \notin connected'
    BY <1>2 DEF HandleInv, Numbered
  <2>. QED BY <1>1, <2>1 DEF ConnectedMeansLastLogin
<1>. QED BY <1>3, <1>4, <1>5, <1>6 DEF HandleInv

LEMMA StartKeeps ==
  ASSUME HandleInv, esp_spotify_start
  PROVE  HandleInv'
<1>1. /\ handle /\ starts < MaxStarts /\ starts' = starts + 1 /\ zeroconf' = ZNext
      /\ dropped' = [dropped EXCEPT !.z = @ \cup {zeroconf}]
      /\ zalive' = zalive \cup {ZNext}
      /\ \/ bells' = {ZNext} /\ running' = running \cup {ZNext}
         \/ UNCHANGED <<bells, running>>
      /\ UNCHANGED <<handle, mercury, connected, sockets, malive, login, handles, loginCalls>>
  BY DEF esp_spotify_start, Idle, msessions
<1>2. ZNext \in Nat /\ ZNext > 0
  BY <1>1, NextMercury DEF HandleInv
<1>3. CountsRight'
  BY <1>1, EspSpotifyAssumption DEF HandleInv, CountsRight
<1>4. Numbered'
  <2>1. \A z \in bells' \cup running' \cup zalive' : z \in Nat /\ z > 0
    BY <1>1, <1>2 DEF HandleInv, Numbered
  <2>2. MLast' = MLast
    BY <1>1 DEF MLast
  <2>. QED BY <1>1, <2>1, <2>2 DEF HandleInv, Numbered
<1>5. OwnedOrDropped'
  <2>1. dropped'.z = dropped.z \cup {zeroconf} /\ dropped'.m = dropped.m
        /\ dropped' = [z |-> dropped'.z, m |-> dropped'.m]
    BY <1>1 DEF HandleInv, OwnedOrDropped
  <2>2. bells' \cup running' \cup zalive' \subseteq dropped'.z \cup {zeroconf'}
    BY <1>1, <2>1 DEF HandleInv, OwnedOrDropped
  <2>. QED BY <1>1, <2>1, <2>2 DEF HandleInv, OwnedOrDropped
<1>6. ConnectedMeansLastLogin'
  BY <1>1 DEF HandleInv, ConnectedMeansLastLogin
<1>. QED BY <1>3, <1>4, <1>5, <1>6 DEF HandleInv

LEMMA LoginKeeps ==
  ASSUME HandleInv, esp_spotify_login
  PROVE  HandleInv'
<1>1. /\ handle /\ loginCalls < MaxLogins /\ loginCalls' = loginCalls + 1 /\ mercury' = MNext
      /\ dropped' = [dropped EXCEPT !.m = @ \cup {mercury}]
      /\ malive' = malive \cup {MNext}
      /\ UNCHANGED <<handle, zeroconf, bells, running, zalive, handles, starts>>
  BY DEF esp_spotify_login, Idle, SessionForLogin, zsessions
<1>2. MNext \in Nat /\ MNext > 0 /\ MNext = MLast + 1 /\ MLast \in Int
  <2>1. MLast \in Int
    BY EspSpotifyAssumption DEF HandleInv, CountsRight, MLast
  <2>. QED BY <1>1, <2>1, NextMercury DEF HandleInv
<1>3. /\ sockets' \in {sockets, sockets \cup {MNext}}
      /\ \/ connected' = connected
         \/ connected' = connected \cup {MNext} /\ login' = <<username, auth, 0>>
  BY DEF esp_spotify_login, Login5, SessionForLogin
<1>4. CountsRight'
  BY <1>1, EspSpotifyAssumption DEF HandleInv, CountsRight
<1>5. Numbered'
  <2>1. MLast' = MNext
    <3>1. MLast' = (handles - 1) * MaxLogins + (loginCalls + 1)
      BY <1>1 DEF MLast
    <3>2. (handles - 1) * MaxLogins \in Int /\ loginCalls \in Int
      BY EspSpotifyAssumption DEF HandleInv, CountsRight
    <3>. QED BY <3>1, <3>2 DEF MNext
  <2>2. \A m \in connected' : m <= MLast'
    BY <1>2, <1>3, <2>1 DEF HandleInv, Numbered
  <2>3. \A m \in connected' \cup sockets' \cup malive' : m \in Nat /\ m > 0
    BY <1>1, <1>2, <1>3 DEF HandleInv, Numbered
  <2>. QED BY <1>1, <2>2, <2>3 DEF HandleInv, Numbered
<1>6. OwnedOrDropped'
  <2>1. dropped'.m = dropped.m \cup {mercury} /\ dropped'.z = dropped.z
        /\ dropped' = [z |-> dropped'.z, m |-> dropped'.m]
    BY <1>1 DEF HandleInv, OwnedOrDropped
  <2>2. connected' \cup sockets' \cup malive' \subseteq dropped'.m \cup {mercury'}
    BY <1>1, <1>3, <2>1 DEF HandleInv, OwnedOrDropped
  <2>. QED BY <1>1, <2>1, <2>2 DEF HandleInv, OwnedOrDropped
\* An earlier session's number is not that of this login.
<1>7. ConnectedMeansLastLogin'
  <2>1. MNext \notin connected
    BY <1>2 DEF HandleInv, Numbered
  <2>. QED BY <1>1, <1>3, <2>1 DEF ConnectedMeansLastLogin
<1>. QED BY <1>4, <1>5, <1>6, <1>7 DEF HandleInv

\* esp_spotify_stop, and esp_spotify_destroy, which does the same first.
LEMMA StopKeeps ==
  ASSUME HandleInv, StopSessions, UNCHANGED <<dropped, login, counts>>,
         handle' \in {handle, FALSE},
         \/ /\ UNCHANGED <<zeroconf, mercury, zalive, malive>> /\ handle' = handle
         \/ /\ handle /\ handle' = FALSE /\ zeroconf' = 0 /\ mercury' = 0 /\ FreeSessions
  PROVE  HandleInv'
<1>1. /\ running' = running \ {zeroconf} /\ bells' = bells \ {zeroconf}
      /\ connected' = connected \ {mercury} /\ sockets' = sockets \ {mercury}
      /\ UNCHANGED <<handles, starts, loginCalls>>
  BY DEF StopSessions, counts
<1>2. \/ UNCHANGED <<zeroconf, mercury, zalive, malive>> /\ handle' = handle
      \/ /\ handle' = FALSE /\ zeroconf' = 0 /\ mercury' = 0
         /\ malive' = malive \ {mercury} /\ zalive' = zalive \ {zeroconf}
  BY DEF FreeSessions
<1>3. CountsRight'
  BY <1>1 DEF HandleInv, CountsRight
<1>4. Numbered'
  <2>1. MLast' = MLast
    BY <1>1 DEF MLast
  <2>2. /\ \A z \in bells' \cup running' \cup zalive' : z \in Nat /\ z > 0
        /\ \A m \in connected' \cup sockets' \cup malive' : m \in Nat /\ m > 0
    BY <1>1, <1>2 DEF HandleInv, Numbered
  <2>. QED BY <1>1, <2>1, <2>2 DEF HandleInv, Numbered
<1>5. OwnedOrDropped'
  <2>1. CASE UNCHANGED <<zeroconf, mercury, zalive, malive>> /\ handle' = handle
    BY <1>1, <2>1 DEF HandleInv, OwnedOrDropped
  <2>2. CASE /\ handle' = FALSE /\ zeroconf' = 0 /\ mercury' = 0
             /\ malive' = malive \ {mercury} /\ zalive' = zalive \ {zeroconf}
    BY <1>1, <2>2 DEF HandleInv, OwnedOrDropped
  <2>. QED BY <1>2, <2>1, <2>2
<1>6. ConnectedMeansLastLogin'
  BY <1>1, <1>2 DEF HandleInv, ConnectedMeansLastLogin
<1>. QED BY <1>3, <1>4, <1>5, <1>6 DEF HandleInv

\* The calls that open and close nothing.
LEMMA SameSessions ==
  ASSUME HandleInv,
         UNCHANGED <<handle, zeroconf, mercury, running, bells, zalive, msessions, login,
                     dropped, counts>>
  PROVE  HandleInv'
BY DEF HandleInv, CountsRight, Numbered, OwnedOrDropped, ConnectedMeansLastLogin, MLast,
       msessions, counts

LEMMA HandleInvNext == HandleInv /\ [EspNext]_espVars => HandleInv'
<1>. SUFFICES ASSUME HandleInv, [EspNext]_espVars
              PROVE  HandleInv'
  OBVIOUS
<1>1. CASE esp_spotify_init
  BY <1>1, InitKeeps
<1>2. CASE esp_spotify_start
  BY <1>2, StartKeeps
<1>3. CASE esp_spotify_pair \/ PairTurn \/ UNCHANGED espVars
  BY <1>3, SameSessions DEF esp_spotify_pair, PairTurn, espVars, owned, zsessions
<1>4. CASE esp_spotify_login
  BY <1>4, LoginKeeps
<1>5. CASE esp_spotify_stop
  BY <1>5, StopKeeps DEF esp_spotify_stop
<1>6. CASE esp_spotify_destroy
  BY <1>3, <1>6, StopKeeps DEF esp_spotify_destroy, Idle
<1>. QED BY <1>1, <1>2, <1>3, <1>4, <1>5, <1>6 DEF EspNext

LEMMA HandleInvariance == EspSpec => []HandleInv
BY HandleInvInit, HandleInvNext, PTL DEF EspSpec

-----------------------------------------------------------------------------

(* esp_spotify_is_connected never says of an earlier login's session what  *)
(* the last one was refused.                                               *)
THEOREM NoEarlierLogin == EspSpec => []ConnectedMeansLastLogin
<1>1. HandleInv => ConnectedMeansLastLogin
  BY DEF HandleInv
<1>. QED BY <1>1, HandleInvariance, PTL

(* esp_spotify_destroy leaves nothing open but sessions that were replaced *)
(* before.                                                                 *)
THEOREM DestroyFreesItsOwn == EspSpec => []NothingElseLeft
<1>1. HandleInv => NothingElseLeft
  <2>. SUFFICES ASSUME HandleInv, ~handle
                PROVE  /\ bells \cup zalive \subseteq dropped.z
                       /\ sockets \cup malive \subseteq dropped.m
    BY DEF NothingElseLeft
  <2>1. zeroconf = 0 /\ mercury = 0
    BY DEF HandleInv, OwnedOrDropped
  <2>2. 0 \notin bells \cup zalive /\ 0 \notin sockets \cup malive
    BY DEF HandleInv, Numbered
  <2>. QED BY <2>1, <2>2 DEF HandleInv, OwnedOrDropped
<1>. QED BY <1>1, HandleInvariance, PTL

(* esp_spotify_stop closes the port and the connection, but for those of   *)
(* sessions that were replaced before.                                     *)
THEOREM StopClosesItsOwn == EspSpec => StopReleases
<1>1. HandleInv /\ [EspNext]_espVars
        => [esp_spotify_stop => /\ bells' \cup running' \subseteq dropped.z
                                /\ sockets' \subseteq dropped.m]_espVars
  <2>. SUFFICES ASSUME HandleInv, esp_spotify_stop
                PROVE  bells' \cup running' \subseteq dropped.z /\ sockets' \subseteq dropped.m
    OBVIOUS
  <2>. QED BY DEF HandleInv, OwnedOrDropped, esp_spotify_stop, StopSessions
<1>. QED BY <1>1, HandleInvariance, PTL DEF EspSpec, StopReleases

=============================================================================
