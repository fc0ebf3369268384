----------------------------- MODULE MdnsService -----------------------------
(***************************************************************************)
(* What the mDNS worker of the Windows build says and hears                *)
(* (src/src/platform_windows.c): the announcement of a session and the     *)
(* queries it is answered to, in the packets of Mdns.  AnnouncementOf and  *)
(* Arriving are the values of the worker's constants.                      *)
(***************************************************************************)
EXTENDS Mdns, MdnsWorker, FiniteSets

CONSTANTS
    Type,       \* labels of the service type, with "local" behind
    Port,       \* of the bell
    Address,    \* of the host
    Queries,    \* what others ask: sequences of [type, name]
    Services    \* labels of the name for all services, of mdns_services_query

ASSUME MdnsServiceAssumption ==
    /\ Port \in 0..65535 /\ Len(Type) > 0 /\ Address \in Seq(0..255) /\ Len(Address) = 4

Local == Type[Len(Type)]

-----------------------------------------------------------------------------
(* The announcement.                                                       *)

Instance(s) == s.device \o Type
Host(s) == Append(s.device, Local)

create_ptr_record(s) == [type |-> PTR, name |-> Type, rclass |-> 0, ttl |-> 0, data |-> Instance(s)]

create_srv_record(s) ==
    [type |-> SRV, name |-> Instance(s), rclass |-> 0, ttl |-> 0,
     data |-> [priority |-> 0, weight |-> 0, port |-> Port, name |-> Host(s)]]

create_a_record(s) == [type |-> A, name |-> Host(s), rclass |-> 0, ttl |-> 0, data |-> Address]

\* All of key=value is the key, the value is empty.
create_txt_record(s, kv) ==
    [type |-> TXT, name |-> Instance(s), rclass |-> 0, ttl |-> 0,
     data |-> [key |-> TxtString(kv), value |-> <<>>]]

\* Nothing is sent of an announcement that does not fit the buffer.
send_announcement(s) ==
    LET Packet(p) == IF p.ok THEN [bytes |-> p.buf, of |-> s] ELSE NoPacket
    IN  Packet(mdns_announce_multicast(create_ptr_record(s), <<>>,
                   <<create_srv_record(s), create_a_record(s)>>
                   \o [i \in DOMAIN s.txt |-> create_txt_record(s, s.txt[i])]))

\* strncmp over the length of the name in the packet: the beginning of the
\* service's will do.
mdns_query_callback(b, c) ==
    /\ c.rtype \in {PTR, ANY}
    /\ IsPrefix(mdns_string_extract(b, c.name).labels, Type)

\* The announcement of every session, in a set that TLC makes once.
Announcements == {<<s, send_announcement(s)>> : s \in [device : Devices, txt : Txts]}
AnnouncementOf(s) == (CHOOSE a \in Announcements : a[1] = s)[2]

\* How many of the calls for a packet make the worker announce.
Asks(b, calls) == Cardinality({i \in DOMAIN calls : mdns_query_callback(b, calls[i])})

\* What others send, [bytes, queries, asks]: queries, and announcements of their
\* own.  Each of the questions and records goes to the callback.
Datagram(b, queries) ==
    [bytes |-> b, queries |-> queries,
     asks |-> Asks(b, mdns_socket_listen(b, mdns_services_query(Services)))]

Arriving ==
    {Datagram(mdns_multiquery_send(q, 0, FALSE).buf, q) : q \in Queries}
    \cup {Datagram(send_announcement([device |-> d, txt |-> <<>>]).bytes, <<>>) : d \in Devices}

\* A name as DNS has it: its labels are of 1 to 63 bytes.
IsName(labels) ==
    /\ Len(labels) <= MaxSubstrings
    /\ \A k \in DOMAIN labels : Len(labels[k]) \in 1..63

\* One query: its type is of two bytes.
IsQuery(query) == query.type < 65536 /\ IsName(query.name)

\* Queries that are well formed, and fit the buffer they are made in.
IsSent(q) ==
    /\ q \in Seq([type : Nat, name : Seq(Seq(Nat))])
    /\ \A i \in DOMAIN q : IsQuery(q[i])
    /\ mdns_multiquery_send(q, 0, FALSE).ok

ASSUME QueriesAssumption ==
    Datagrams = Arriving /\ Capacity <= InvalidPos /\ \A q \in Queries : IsSent(q)

-----------------------------------------------------------------------------

(* Another host that reads the announcement with the same library finds in *)
(* it the service's instance, the host and the port of the instance, the   *)
(* host's address and a TXT record of as many strings as were registered,  *)
(* with their keys, to be kept for a minute, although the names share      *)
(* their ends and the TXT strings one record.  (What it finds of their     *)
(* values is TxtReadBack's.)                                               *)
AnnounceReadBack ==
    sent # NoPacket =>
        \A calls \in {mdns_query_recv(sent.bytes, 0)} :
        LET b == sent.bytes
            s == sent.of
            Is(c, entry, type, rclass, labels) ==
                /\ c.entry = entry /\ c.rtype = type /\ c.rclass = rclass /\ c.ttl = 60
                /\ mdns_string_extract(b, c.name).labels = labels
        IN  /\ Len(calls) = IF s.txt = <<>> THEN 3 ELSE 4
            /\ Is(calls[1], Answer, PTR, CLASS_IN, Type)
            /\ mdns_record_parse_ptr(b, calls[1]) = Instance(s)
            /\ Is(calls[2], Additional, SRV, CLASS_IN + FLUSH, Instance(s))
            /\ LET srv == mdns_record_parse_srv(b, calls[2]) IN
                 srv.port = Port /\ srv.name = Host(s)
            /\ Is(calls[3], Additional, A, CLASS_IN + FLUSH, Host(s))
            /\ mdns_record_parse_a(b, calls[3]) = Address
            /\ s.txt # <<>> =>
                 /\ Is(calls[4], Additional, TXT, CLASS_IN + FLUSH, Instance(s))
                 /\ LET strings == mdns_record_parse_txt(b, calls[4]) IN
                      /\ Len(strings) = Len(s.txt)
                      /\ \A i \in DOMAIN strings : strings[i].key = s.txt[i].key

(* Of several questions of class IN in a datagram the worker answers those *)
(* for the service, and those for the beginning of its name, whatever else *)
(* was asked before them: no question hides another.  (A question of       *)
(* another class ends mdns_socket_listen and hides the rest.)              *)
QueriesAnswered ==
    heard # <<>> =>
        answers = Cardinality({i \in DOMAIN heard : /\ heard[i].type \in {PTR, ANY}
                                                   /\ IsPrefix(heard[i].name, Type)})

-----------------------------------------------------------------------------
(* What the repository says and the code does not keep: refuted.           *)

(* README.md: "mDNS advertises `_spotify-connect._tcp` with `Stack=SP`,    *)
(* `CPath=/spotify_info`, `VERSION=1.0`."  A host that reads the           *)
(* announcement then finds the values that were registered.                *)
TxtReadBack ==
    sent # NoPacket /\ sent.of.txt # <<>> =>
        \A calls \in {mdns_query_recv(sent.bytes, 0)} :
            mdns_record_parse_txt(sent.bytes, calls[4]) = sent.of.txt

=============================================================================
