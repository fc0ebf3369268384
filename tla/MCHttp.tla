------------------------------- MODULE MCHttp -------------------------------
(***************************************************************************)
(* One instance of what the HTTP requests are made of: the HTTPS exchange, *)
(* the sockets, the metadata lookups, the audio chunks, and a message on   *)
(* its way through nanopb, which encodes what login5 posts.  They share no *)
(* state, and a behaviour runs one of them; the variables of the others    *)
(* stay as they are, "off" or at the start.                                *)
(***************************************************************************)
EXTENDS Https, Sockets, Audio, Track, MCNanopb

VARIABLE part                               \* which of the five runs

ASSUME PartsAssumption == TrackAssumption /\ AudioAssumption /\ SocketsAssumption

MCBodies ==
    {<<>>, <<"a">>, <<"|", "B", "Q", "C", "a", "B", "|", "a", "|">>,
     <<"B", "Q", "a", "|", "B", "Q", "B", "|", "a", "|", "|", "|">>,
     <<"|", "B", "Q", "C", "a", "a", "a", "a", "a", "|", "|">>,
     <<"|", "|", "B", "Q", "Q", "C", "a">>}

MCBufMax == [b \in Builds |-> CASE b = "windows" -> 18 [] b = "login5" -> 15 [] OTHER -> 10]

HttpsOff ==
    /\ build = "off" /\ pc = "off" /\ held = "off" /\ body = "off" /\ asked = "off"
    /\ ticket = "off" /\ total = "off" /\ found = "off" /\ resp = "off" /\ end = "off"

TrackOff == TrackInit

AudioOff == AudioInit

SocketsOff ==
    /\ platform = "off" /\ bell = "off" /\ hosts = "off" /\ at = "off" /\ sockPc = "off"
    /\ open = "off" /\ timed = "off" /\ waiting = "off" /\ came = "off" /\ arrived = "off"
    /\ taken = "off" /\ want = "off" /\ buf = "off" /\ given = "off" /\ stream = "off"
    /\ closed = "off" /\ ret = "off" /\ got = "off" /\ put = "off" /\ broken = "off"

NanopbOff ==
    desc = "off" /\ sent = <<>> /\ room = 0 /\ wire = <<>> /\ stage = "off" /\ decoded = NullArg


HttpInit ==
    \/ part = "https" /\ Init /\ TrackOff /\ AudioOff /\ SocketsOff /\ NanopbOff
    \/ part = "track" /\ TrackInit /\ HttpsOff /\ AudioOff /\ SocketsOff /\ NanopbOff
    \/ part = "audio" /\ AudioInit /\ HttpsOff /\ TrackOff /\ SocketsOff /\ NanopbOff
    \/ part = "sockets" /\ SockInit /\ HttpsOff /\ TrackOff /\ AudioOff /\ NanopbOff
    \/ part = "message" /\ PbInit /\ HttpsOff /\ TrackOff /\ AudioOff /\ SocketsOff

HttpNext ==
    \/ part = "https" /\ Next /\ UNCHANGED <<part, trackVars, audioVars, sockVars, pbVars>>
    \/ part = "track" /\ TrackNext /\ UNCHANGED <<part, vars, audioVars, sockVars, pbVars>>
    \/ part = "audio" /\ AudioNext /\ UNCHANGED <<part, vars, trackVars, sockVars, pbVars>>
    \/ part = "sockets" /\ SockNext /\ UNCHANGED <<part, vars, trackVars, audioVars, pbVars>>
    \/ part = "message" /\ PbNext /\ UNCHANGED <<part, vars, trackVars, audioVars, sockVars>>

HttpSpec ==
    /\ HttpInit /\ [][HttpNext]_<<part, vars, trackVars, audioVars, sockVars, pbVars>>
    /\ WF_vars(part = "https" /\ (Start \/ EspClientInit))
    /\ WF_vars(part = "https" /\ Silence)
    /\ WF_vars(part = "https" /\ TimesOut)
    /\ WF_vars(part = "https" /\ EspPerforms(FALSE))
    /\ WF_sockVars(part = "sockets" /\ platform_tcp_connect)
    /\ WF_sockVars(part = "sockets" /\ Step)
    /\ WF_sockVars(part = "sockets" /\ WaitEnds)

=============================================================================
