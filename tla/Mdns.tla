-------------------------------- MODULE Mdns --------------------------------
(***************************************************************************)
(* The packets of multicast DNS, as thirdparty/mdns.h writes and reads     *)
(* them: names compressed by references to what stands before them in the  *)
(* packet, records, announcements, queries.                                *)
(*                                                                         *)
(* A packet is a sequence of bytes; offsets count from 0.  A name is the   *)
(* sequence of its labels, which the code keeps as text with dots between  *)
(* them, a label a sequence of bytes.  Text buffers are taken to be large  *)
(* enough.                                                                 *)
(***************************************************************************)
EXTENDS Naturals, Sequences, SequencesExt

CONSTANTS
    Capacity,       \* bytes of the buffer a packet is made in
    TableSize,      \* entries of mdns_string_table_t: 16
    MaxRefs,        \* references followed for one label: 16
    MaxSubstrings   \* MDNS_MAX_SUBSTRINGS: 64

ASSUME MdnsAssumption ==
    /\ Capacity \in Nat /\ TableSize \in Nat \ {0}
    /\ MaxRefs \in Nat /\ MaxSubstrings \in Nat

\* Record types, classes and flags.
A == 1
PTR == 12
TXT == 16
SRV == 33
ANY == 255
CLASS_IN == 1
FLUSH == 32768          \* MDNS_CACHE_FLUSH, MDNS_UNICAST_RESPONSE
Question == 0           \* mdns_entry_type
Answer == 1
Authority == 2
Additional == 3

htons(n) == <<n \div 256, n % 256>>
htonl(n) == htons(n \div 65536) \o htons(n % 65536)
ntohs(b, o) == b[o + 1] * 256 + b[o + 2]
ntohl(b, o) == ntohs(b, o) * 65536 + ntohs(b, o + 2)

\* n turns of a loop.  (A turn leaves alone a state in which the loop is over.)
Turns(Turn(_), first, n) ==
    LET turn[k \in 0..n] == IF k = 0 THEN first ELSE Turn(turn[k - 1])
    IN  turn[n]

\* A loop that adds the elements of rs to p.
AddEach(Add(_, _), p, rs) ==
    Turns(LAMBDA t : [p |-> Add(t.p, Head(t.rest)), rest |-> Tail(t.rest)],
          [p |-> p, rest |-> rs], Len(rs)).p

-----------------------------------------------------------------------------
(* Names in a packet.                                                      *)

mdns_is_string_ref(v) == v >= 192

InvalidPos == 65536     \* MDNS_INVALID_POS: no offset of a packet

NoString == [at |-> InvalidPos, length |-> 0, ref |-> FALSE]

RefAt(b, o) == o < Len(b) /\ mdns_is_string_ref(b[o + 1])

\* Where the reference at offset o leads, if there is one.
Followed(b, o) ==
    CASE ~RefAt(b, o) -> o
      [] RefAt(b, o) /\ Len(b) < o + 2 -> Len(b)
      [] OTHER -> ntohs(b, o) % 16384

\* Where the references that start at offset o end; the end of the packet if they
\* lead out of it, or there are too many.
FollowRefs(b, o) ==
    LET end == IF RefAt(b, o) THEN Turns(LAMBDA p : Followed(b, p), o, MaxRefs) ELSE o
    IN  IF end >= Len(b) \/ RefAt(b, end) THEN Len(b) ELSE end

\* The label at offset o, its length 0 at the end of a name.
mdns_get_next_substring(b, o) ==
    LET LabelAt(p) ==
            CASE o >= Len(b) \/ p >= Len(b) -> NoString
              [] b[o + 1] = 0 -> [at |-> o, length |-> 0, ref |-> FALSE]
              [] Len(b) < p + 1 + b[p + 1] -> NoString
              [] OTHER -> [at |-> p + 1, length |-> b[p + 1], ref |-> p # o]
    IN  LabelAt(FollowRefs(b, o))

Label(b, s) == SubSeq(b, s.at + 1, s.at + s.length)

NoName == [ok |-> FALSE, labels |-> <<>>, end |-> 0]

\* A turn of a loop over the labels of a name: the label at cur, and what has come
\* of those before it; `left` is where the first reference was left.
NameTurn(b, t) ==
    LET Extracted(s, left) ==
            CASE s.at = InvalidPos -> [t EXCEPT !.over = TRUE]
              [] s.at # InvalidPos /\ s.length = 0 ->
                    [t EXCEPT !.over = TRUE,
                              !.name = [ok |-> TRUE, labels |-> t.labels,
                                        end |-> IF left = 0 THEN s.at + 1 ELSE left]]
              [] OTHER -> [t EXCEPT !.cur = s.at + s.length, !.left = left,
                                    !.labels = Append(@, Label(b, s))]
        At(s) == Extracted(s, IF s.ref /\ t.left = 0 THEN t.cur + 2 ELSE t.left)
    IN  IF t.over THEN t ELSE At(mdns_get_next_substring(b, t.cur))

FirstTurn(o) == [cur |-> o, left |-> 0, labels |-> <<>>, over |-> FALSE, name |-> NoName]

\* The name at offset o, and the offset behind it.
mdns_string_extract(b, o) ==
    Turns(LAMBDA t : NameTurn(b, t), FirstTurn(o), MaxSubstrings + 1).name

SkipTurn(b, t) ==
    LET Skipped(s) ==
            CASE s.at = InvalidPos -> [t EXCEPT !.over = TRUE]
              [] s.at # InvalidPos /\ (s.ref \/ s.length = 0) ->
                    [t EXCEPT !.over = TRUE,
                              !.name = [ok |-> TRUE, labels |-> <<>>,
                                        end |-> IF s.ref THEN t.cur + 2 ELSE s.at + 1]]
              [] OTHER -> [t EXCEPT !.cur = s.at + s.length]
    IN  IF t.over THEN t ELSE Skipped(mdns_get_next_substring(b, t.cur))

\* The offset behind the name at o: no further than its first reference.
mdns_string_skip(b, o) ==
    Turns(LAMBDA t : SkipTurn(b, t), FirstTurn(o), MaxSubstrings + 1).name

Lower(c) == IF c \in 65..90 THEN c + 32 ELSE c
Lowered(labels) == [i \in DOMAIN labels |-> [j \in DOMAIN labels[i] |-> Lower(labels[i][j])]]

\* Two names, each in its packet, with capitals as small letters.
mdns_string_equal(b, o, c, q) ==
    LET Equal(lhs, rhs) ==
            IF lhs.ok /\ rhs.ok /\ Lowered(lhs.labels) = Lowered(rhs.labels) THEN lhs ELSE NoName
    IN  Equal(mdns_string_extract(b, o), mdns_string_extract(c, q))

-----------------------------------------------------------------------------
(* Names written into a packet.  A packet in the making is its bytes and   *)
(* the table of the labels in it; ok is FALSE for NULL.                    *)

NoTable == [offset |-> <<>>, next |-> 0, size |-> 0]
EmptyTable == [offset |-> <<>>, next |-> 0, size |-> TableSize]

Start(bytes, tab) == [buf |-> bytes, tab |-> tab, ok |-> TRUE]
Null == [buf |-> <<>>, tab |-> NoTable, ok |-> FALSE]

\* The name at offset o begins with the first n of these labels.
BeginsWith(b, o, labels, n) ==
    LET Compared(t, s) ==
            [at |-> s.at + s.length, rest |-> Tail(t.rest),
             is |-> t.is /\ s.length # 0 /\ Label(b, s) = Head(t.rest)]
        Turn(t) == Compared(t, mdns_get_next_substring(b, t.at))
    IN  Turns(Turn, [at |-> o, rest |-> labels, is |-> TRUE], n).is

\* Mutant: the first label is enough.
MatchesFirst(b, o, labels) == BeginsWith(b, o, labels, 1)

\* Where the labels end is the end of the search, whether the name goes on or not.
\* (Behind a label of the name that is being made there is nothing yet; the code
\* reads what the buffer held.)
Matches(b, o, labels) == BeginsWith(b, o, labels, Len(labels))

\* The first entry of the table that matches, or InvalidPos.
mdns_string_table_find(p, labels) ==
    LET found == {i \in DOMAIN p.tab.offset : Matches(p.buf, p.tab.offset[i], labels)}
    IN  IF found = {} THEN InvalidPos ELSE p.tab.offset[Min(found)]

\* A full table is written over from its beginning.
mdns_string_table_add(tab, o) ==
    IF tab.size = 0 THEN tab
    ELSE [offset |-> IF Len(tab.offset) < tab.size THEN Append(tab.offset, o)
                     ELSE [tab.offset EXCEPT ![tab.next + 1] = o],
          next |-> (tab.next + 1) % tab.size, size |-> tab.size]

mdns_string_make_ref(p, o) ==
    IF Capacity - Len(p.buf) < 2 THEN Null
    ELSE [p EXCEPT !.buf = @ \o htons(49152 + o)]

\* A turn of the loop over the labels of a name that is made, those that are left
\* in t.rest: a reference if they stand in the packet already, or the next of them.
MakeTurn(t) ==
    LET label == Head(t.rest)
        Made(ref) ==
            CASE ref # InvalidPos ->
                    [t EXCEPT !.over = TRUE, !.p = mdns_string_make_ref(@, ref)]
              [] ref = InvalidPos /\ Capacity - Len(t.p.buf) <= Len(label) + 1 ->
                    [t EXCEPT !.over = TRUE, !.p = Null]
              [] OTHER -> [t EXCEPT !.rest = Tail(@),
                                    !.p.buf = Append(@, Len(label)) \o label,
                                    !.p.tab = mdns_string_table_add(@, Len(t.p.buf))]
    IN  IF t.over THEN t ELSE Made(mdns_string_table_find(t.p, t.rest))

\* The labels one by one, and the end of the name.
mdns_string_make(p, labels) ==
    LET Ended(t) ==
            CASE t.over -> t.p
              [] ~t.over /\ Len(t.p.buf) >= Capacity -> Null
              [] OTHER -> [t.p EXCEPT !.buf = Append(@, 0)]
    IN  Ended(Turns(MakeTurn, [p |-> p, rest |-> labels, over |-> ~p.ok], Len(labels)))

-----------------------------------------------------------------------------
(* Records: [type, name, rclass, ttl, data].  The data of a PTR record is  *)
(* a name, of an SRV record [priority, weight, port, name], of an A record *)
(* four bytes, of a TXT record [key, value].                               *)

Filled(p, lengthAt) ==
    LET n == Len(p.buf) - lengthAt - 2 IN
    IF ~p.ok THEN Null
    ELSE [p EXCEPT !.buf[lengthAt + 1] = n \div 256, !.buf[lengthAt + 2] = n % 256]

Put(p, bytes) ==
    IF ~p.ok \/ Capacity - Len(p.buf) < Len(bytes) THEN Null
    ELSE [p EXCEPT !.buf = @ \o bytes]

\* The length of the data is filled in later.
mdns_answer_add_record_header(p, r) ==
    Put(mdns_string_make(p, r.name), htons(r.type) \o htons(r.rclass) \o htonl(r.ttl) \o <<0, 0>>)

SrvNumbers(d) == htons(d.priority) \o htons(d.weight) \o htons(d.port)

\* All but the TXT records, which become one record of their own later.
mdns_answer_add_record(p, r) ==
    LET Data(h) ==
            CASE r.type = PTR -> mdns_string_make(h, r.data)
              [] r.type = SRV ->
                    IF Capacity - Len(h.buf) <= 6 THEN Null
                    ELSE mdns_string_make(Put(h, SrvNumbers(r.data)), r.data.name)
              [] OTHER -> Put(h, r.data)
        Behind(h) == IF h.ok THEN Filled(Data(h), Len(h.buf) - 2) ELSE Null
    IN  IF ~p.ok \/ r.type = TXT THEN p ELSE Behind(mdns_answer_add_record_header(p, r))

\* A record without a class gets this one, without a TTL or for a TTL of 0 the
\* TTL; a PTR record is never flushed.
mdns_record_update_rclass_ttl(r, rclass, ttl) ==
    LET c == IF r.rclass = 0 THEN rclass ELSE r.rclass
        class == c % 2
        flush == IF r.type # PTR /\ c >= FLUSH THEN FLUSH ELSE 0
    IN  [r EXCEPT !.rclass = class + flush, !.ttl = IF r.ttl = 0 \/ ttl = 0 THEN ttl ELSE r.ttl]

Equals == 61            \* '='

\* key=value, an equals sign whether there is a value or not.
TxtString(d) == d.key \o <<Equals>> \o d.value

AddTxtString(p, d) ==
    LET n == Len(TxtString(d)) IN
    IF ~p.ok \/ Capacity - Len(p.buf) <= n \/ n > 16383 THEN Null
    ELSE [p EXCEPT !.buf = Append(@, n % 256) \o TxtString(d)]

IsTxt(r) == r.type = TXT

\* One record of the TXT records, under the name of the first.
mdns_answer_add_txt_record(p, records, rclass, ttl) ==
    LET txt == SelectSeq(records, IsTxt)
        first == mdns_record_update_rclass_ttl(txt[1], rclass, ttl)
        Behind(h) ==
            Filled(AddEach(LAMBDA q, r : AddTxtString(q, r.data), h, txt), Len(h.buf) - 2)
    IN  IF ~p.ok \/ txt = <<>> THEN p ELSE Behind(mdns_answer_add_record_header(p, first))

mdns_answer_get_record_count(records) ==
    LET txt == SelectSeq(records, IsTxt) IN
    Len(records) - Len(txt) + (IF txt = <<>> THEN 0 ELSE 1)

\* The records, then their TXT records.
AddRecords(p, records, rclass, ttl) ==
    mdns_answer_add_txt_record(
        AddEach(LAMBDA q, r : mdns_answer_add_record(
                    q, mdns_record_update_rclass_ttl(r, rclass, ttl)), p, records),
        records, rclass, ttl)

\* The packet with one answer, or NULL: query id 0, flags 0x8400, the four counts.
mdns_answer_multicast_rclass_ttl(answer, authority, additional, rclass, ttl) ==
    LET header == htons(0) \o htons(33792) \o htons(0) \o htons(1)
                  \o htons(mdns_answer_get_record_count(authority))
                  \o htons(mdns_answer_get_record_count(additional))
        first == mdns_answer_add_record(
                     Start(header, EmptyTable), mdns_record_update_rclass_ttl(answer, rclass, ttl))
    IN  IF Capacity < 48 THEN Null
        ELSE AddRecords(AddRecords(first, authority, rclass, ttl), additional, rclass, ttl)

mdns_announce_multicast(answer, authority, additional) ==
    mdns_answer_multicast_rclass_ttl(answer, authority, additional, CLASS_IN + FLUSH, 60)

-----------------------------------------------------------------------------
(* Queries: [type, name].  The names are not compressed.                   *)

AddQuestion(p, q, rclass) ==
    Put(mdns_string_make(p, q.name), htons(q.type) \o htons(rclass))

\* The querier's port is 5353 or not: if not it wants a unicast answer.
mdns_multiquery_send(queries, id, on5353) ==
    AddEach(LAMBDA p, q : AddQuestion(p, q, IF on5353 THEN CLASS_IN ELSE CLASS_IN + FLUSH),
            Start(htons(id) \o htons(0) \o htons(Len(queries))
                  \o htons(0) \o htons(0) \o htons(0), NoTable),
            queries)

\* The query for all kinds of services: _services._dns-sd._udp.local, PTR.
mdns_services_query(services) ==
    mdns_multiquery_send(<<[type |-> PTR, name |-> services]>>, 0, FALSE).buf

-----------------------------------------------------------------------------
(* Packets read.  A call of the callback is a record [entry, rtype,        *)
(* rclass, ttl, name (its offset), at and length of the data].             *)

\* What a loop over records or questions has come to at offset `end`.
Reading(o, calls) == [end |-> o, calls |-> calls, over |-> FALSE]

RecordTurn(b, entry, t) ==
    LET Call(f, length) ==
            [entry |-> entry, rtype |-> ntohs(b, f), rclass |-> ntohs(b, f + 2),
             ttl |-> ntohl(b, f + 4), name |-> t.end, at |-> f + 10, length |-> length]
        With(f, length) ==
            Reading(f + 10 + length,
                    IF f + 10 + length <= Len(b) THEN Append(t.calls, Call(f, length)) ELSE t.calls)
        Fields(f) ==
            IF f + 10 > Len(b) THEN [t EXCEPT !.end = f, !.over = TRUE] ELSE With(f, ntohs(b, f + 8))
        Named(name) == Fields(IF name.ok THEN name.end ELSE t.end)
    IN  IF t.over THEN t ELSE Named(mdns_string_skip(b, t.end))

\* n records from offset o on: the callbacks, and the offset behind them.  (The
\* records of a packet are read while their data is in it.)
mdns_records_parse(b, o, n, entry) ==
    Turns(LAMBDA t : RecordTurn(b, entry, t), Reading(o, <<>>), n)

\* A section behind those before it; what follows a section cut short is not
\* looked at.
ParseSection(b, before, entry) ==
    LET n == ntohs(b, 4 + 2 * entry)
        Joined(s) ==
            [calls |-> before.calls \o s.calls, end |-> s.end, whole |-> Len(s.calls) = n]
    IN  IF ~before.whole THEN before ELSE Joined(mdns_records_parse(b, before.end, n, entry))

\* Answers, authority, additional records.
ParseSections(b, o) ==
    LET first == ParseSection(b, [calls |-> <<>>, end |-> o, whole |-> TRUE], Answer)
    IN  ParseSection(b, ParseSection(b, first, Authority), Additional).calls

\* Mutant: the bit that asks for a unicast answer is left in the class.
ClassAsIs(c) == c

class_without_flushbit(c) == c % FLUSH

\* A question of another class ends them; the one for all services is left out of
\* a packet with flags.
QuestionTurn(b, services, t) ==
    LET Call(end) ==
            [entry |-> Question, rtype |-> ntohs(b, end), rclass |-> ntohs(b, end + 2), ttl |-> 0,
             name |-> t.end, at |-> t.end, length |-> end - t.end]
        Named(name, same) ==
            CASE ~name.ok -> [t EXCEPT !.over = TRUE]
              [] name.ok /\ class_without_flushbit(ntohs(b, name.end + 2)) \notin {CLASS_IN, ANY} ->
                    [t EXCEPT !.end = name.end + 4, !.over = TRUE]
              [] OTHER -> Reading(name.end + 4, IF same /\ ntohs(b, 2) # 0 THEN t.calls
                                                ELSE Append(t.calls, Call(name.end)))
        Compared(same) == Named(IF same.ok THEN same ELSE mdns_string_skip(b, t.end), same.ok)
    IN  IF t.over THEN t ELSE Compared(mdns_string_equal(b, t.end, services, 12))

\* n questions from offset o on.
QuestionsFrom(b, o, n, services) ==
    Turns(LAMBDA t : QuestionTurn(b, services, t), Reading(o, <<>>), n)

\* The calls of the callback for a packet that arrived.
mdns_socket_listen(b, services) ==
    LET Behind(q) == q.calls \o ParseSections(b, q.end)
    IN  Behind(QuestionsFrom(b, 12, ntohs(b, 4), services))

SkipQuestions(b, o, n) == Turns(LAMBDA p : mdns_string_skip(b, p).end + 4, o, n)

\* The calls for a reply to the query `id`, 0 for any (in well-formed packets).
mdns_query_recv(b, id) ==
    IF id > 0 /\ ntohs(b, 0) # id THEN <<>>
    ELSE ParseSections(b, SkipQuestions(b, 12, ntohs(b, 4)))

-----------------------------------------------------------------------------
(* The data of a record.                                                   *)

Fits(b, c, least) == Len(b) >= c.at + c.length /\ c.length >= least

mdns_record_parse_ptr(b, c) ==
    IF Fits(b, c, 2) THEN mdns_string_extract(b, c.at).labels ELSE <<>>

NoSrv == [priority |-> 0, weight |-> 0, port |-> 0, name |-> <<>>]

mdns_record_parse_srv(b, c) ==
    IF ~Fits(b, c, 8) THEN NoSrv
    ELSE [priority |-> ntohs(b, c.at), weight |-> ntohs(b, c.at + 2), port |-> ntohs(b, c.at + 4),
          name |-> mdns_string_extract(b, c.at + 6).labels]

NoAddress == <<0, 0, 0, 0>>

mdns_record_parse_a(b, c) ==
    IF Fits(b, c, 4) /\ c.length = 4 THEN SubSeq(b, c.at + 1, c.at + 4) ELSE NoAddress

\* A string of a TXT record: up to its first equals sign the key; a string
\* without a key, or with a character in it that is not printed, is left out.
TxtOf(text) ==
    LET stops == {i \in DOMAIN text : text[i] \notin 32..126 \/ text[i] = Equals}
        stop == CHOOSE i \in stops : \A j \in stops : i <= j
    IN  CASE text = <<>> -> <<>>
          [] text # <<>> /\ stops = {} -> <<[key |-> text, value |-> <<>>]>>
          [] OTHER -> IF stop = 1 \/ text[stop] # Equals THEN <<>>
                      ELSE <<[key |-> SubSeq(text, 1, stop - 1),
                              value |-> SubSeq(text, stop + 1, Len(text))]>>

TxtTurn(b, end, t) ==
    LET Behind(o) ==
            [at |-> o, strings |-> t.strings \o TxtOf(SubSeq(b, t.at + 2, o))]
    IN  IF t.at >= end \/ b[t.at + 1] >= end - t.at THEN t
        ELSE Behind(t.at + 1 + b[t.at + 1])

mdns_record_parse_txt(b, c) ==
    LET end == IF Len(b) < c.at + c.length THEN Len(b) ELSE c.at + c.length
    IN  Turns(LAMBDA t : TxtTurn(b, end, t), [at |-> c.at, strings |-> <<>>], c.length).strings

=============================================================================
