# Verification of the ESPConnect2 library

ESPConnect2 is a C library that makes a device (ESP32, Linux, Windows) a Spotify
Connect receiver: it is paired by a phone over HTTP, logs in at a Spotify access
point over an encrypted TCP connection, asks that connection for tokens and audio
keys, and downloads and decrypts tracks. This directory holds TLA+ models of its
control, TLC configurations, and proofs. Line numbers refer to the sources under
`src/src/` of the repository.

## The system

| Component | Source | State it keeps | Operations |
|---|---|---|---|
| Public handle | `esp_spotify.c` | configuration, one zeroconf and one mercury session, captured credentials, token, state | `init`, `start`, `pair`, `login`, `get_audio_key`, ..., `stop`, `destroy` |
| ZeroConf pairing | `zeroconf.c` | key pair, captured fields, `running`, `creds_captured`, the bell (HTTP server) | `zeroconf_init/start/poll/get_credentials/stop/destroy`, `bell_handle_request` |
| Mercury session | `mercury.c` | socket, `connected`, two ciphers, two nonces, welcome data | `mercury_init/login5/send/recv/disconnect/destroy` |
| Requests over Mercury | `spclient.c` 31-133, 379-430 | none: loop counters | `spclient_get_client_token`, `spclient_get_audio_key` |
| HTTPS requests | `spclient.c`, rest | none | track metadata, CDN URL, download |
| Audio decryption | `decrypt.c` | none | `decrypt_audio` |
| Shannon cipher | `platform_*.c` | registers, buffered bytes of a partial word | `key`, `nonce`, `encrypt`, `decrypt`, `finish` |
| Platform sockets, HTTP server | `platform_*.c` | file descriptors | `platform_tcp_*`, `platform_http_server_*` |
| TLS and HTTPS | `platform_*.c` | socket, TLS contexts, response buffer | `platform_tls_connect/read/write/close`, `platform_https_get`, `platform_https_post` |
| mDNS | worker thread of `platform_windows.c` over `thirdparty/mdns.h` (header library); a process on POSIX, a library on ESP32 | session, `running`, socket, thread | `platform_mdns_start/register_service/stop`, `mdns_thread` |
| HTTP login5 client | `spotify_login5*.c` | none; the library does not call it | one request, token extraction |
| Protobuf | writer and reader of `mercury.c` 68-180 and 187-330; nanopb with the descriptors of `spotify/login5` | none | encode, decode |

How they interact. The handle calls everything else, synchronously and from one
thread. `esp_spotify_pair` polls the zeroconf session, which serves one HTTP
connection per poll and is announced by mDNS; `esp_spotify_login` replaces the mercury session, logs it in
and asks for the client token; key requests send and receive frames on the mercury
session. The Windows mDNS worker is the one second thread: it
shares a session, a flag and a socket with the thread that stops it. Everything else
runs in one thread, and what makes it hard is the **other side**. The access point and the
phones run between any two blocking calls; a read may time out in the middle of a
frame and lose what it had read, a write may fail half-way, an HTTP request may be
cut anywhere, and hardly a return code is looked at.

What makes each part correct:

* *Mercury*: no nonce is used twice under a key; sender and receiver agree on the
  nonce of the next frame and on where it begins; `connected` means a login the
  access point granted; no socket is lost; every call ends.
* *Requests*: each answer ends exactly one request, the one it answers; every
  call ends.
* *Pairing*: the credentials handed out are those of one user; a POST that came
  through ends in credentials.
* *Cipher*: what is sent is what the reference cipher makes of the frame; what is
  received comes back, also after a frame that was cut.
* *Handle*: `is_connected` means the last login succeeded; nothing survives `stop`
  and `destroy`.
* *Lookups*: the files of a track are read in order, none with another's format.
* *Download and decryption*: the buffer holds the bytes that were asked for, and
  the beginning of a file is decrypted.
* *Messages*: what is written is read back by the library at the other end, lengths
  are those of what follows, cut messages and full buffers are refused; both ends of
  the handshake make the same keys.
* *Sockets, TLS, HTTPS*: bytes stay in order whatever the pieces; every address is
  tried that may be; a failed step leaves nothing open; calls end.
* *mDNS*: the worker never reads what is freed; a stop returns; the names, the address
  and the keys of an announcement read back; no question hides another.

## Modules

| Module | What it is |
|---|---|
| `Mercury` | the mercury session, the byte stream, and the access point |
| `FrameChannel` | abstract specification: a FIFO channel that can be lost |
| `MercuryChannel` | the refinement mapping from `Mercury` to `FrameChannel` |
| `MercuryProofs` | the inductive invariants of `Mercury`, its theorems, and the refinement of `FrameChannel` |
| `SpClient` | token and key requests on top of `FrameChannel` |
| `SpClientProofs` | the inductive invariant of `SpClient` and its theorems |
| `MercuryProto` | the messages of the handshake, byte for byte, and the keys made from them |
| `MercuryAp`, `MCMercuryProto` | the access point that reads these messages with nanopb; its inputs |
| `WireProofs` | the theorems about `Shannon`, `MercuryProto` and `PbIterator` |
| `PbStream`, `PbDescriptor`, `PbMessage` | nanopb: streams and varints; packed descriptors and the iterator; encoder and decoder |
| `PbIterator` | the iterator on its way over a message, from field to field or to a tag |
| `Nanopb`, `MCNanopb` | a message on its way through nanopb; the login5 messages and one with every kind of field |
| `MCDescriptors` | the descriptors of the instances: of the handshake, of login5, and of messages with every kind of field and every width |
| `MCWire` | `Shannon`, `MercuryProto` and `PbIterator` beside one another, for TLC: one of the three in each behaviour |
| `Https` | one HTTPS exchange of each of the four TLS clients, and the login5 token; what it holds when it returns |
| `Sockets` | TCP connections and the bell's HTTP server in the three builds; addresses and bytes |
| `MCHttp` | `Track`, with `Https`, `Sockets`, `Audio` and a message of `Nanopb` beside it, for TLC: one of the five in each behaviour |
| `Mdns` | packets of multicast DNS, as `mdns.h` writes and reads them |
| `MdnsWorker` | the two threads of the Windows advertisement |
| `MdnsService`, `MCMdns` | what the worker announces and answers, in the packets of `Mdns`; its constants' values |
| `MCLan` | `Zeroconf` and `MdnsService` beside one another, for TLC |
| `MdnsProofs` | the theorems about `MdnsWorker` and `MdnsService` |
| `Track` | track metadata and CDN URL: what the code finds in a JSON document |
| `Audio` | chunks of audio: downloaded into the application's buffer and decrypted there; where they come out plain |
| `HttpProofs` | the theorems about `Https`, `Sockets`, `Audio` and `Track` |
| `Shannon` | the stream cipher: words, partial words, and what enters the registers |
| `Zeroconf`, `ZeroconfProofs` | the zeroconf session, its bell and the phones; whose credentials it hands out |
| `MCZeroconf` | the order of a POST's fields, for TLC |
| `EspSpotify`, `EspSpotifyProofs` | the public handle and the life of the sessions it owns |
| `MCApi` | `EspSpotify` and `SpClient` beside one another, for TLC |
| `CommonLemmas` | least numbers, recursive functions, joined sequences: what the proofs have in common |

### Mercury

One `mercury_session_t` through any number of logins, connections and
`init`/`destroy` cycles, and the access point of its newest connection.

*State.* `sock`, `connected`, `sendNonce`, `recvNonce` are the fields of the
struct. `keyed` is the connection whose keys the two ciphers hold: a failed login
may leave the keys of an earlier connection, or none, behind a new socket. The
stream from the access point is `frames`, each with its byte offset; `rpos` counts
the bytes the client has taken. A frame is 3 header bytes, the body, and 4 bytes
of MAC. A receive takes its bytes at `rpos`, wherever that is. It is `Aligned`, and
only then decrypts to the header that was sent, when it starts at the first byte of
frame `recvNonce + 1` under the connection's keys. Everywhere else the decrypted
header is arbitrary, and so are the command and the length the code acts on.

*Actions.* The client runs from one blocking read to the next. `mercury_login5` is
split there: `ConnectAndHello` up to the wait for the APResponse (499-533),
`LoginHandshake` from there to the LoginRequest (535-670), and `LoginAwait`, one
action per turn of the loop (672-741), which answers PINGs, skips what it does not
know, and ends with APWelcome, failure, a failed receive, or when its `MaxTries`
turns are used up. `mercury_send` and `mercury_recv` are the functions as called
from `spclient.c`. `RecvFail` is every way a receive can fail: no socket, or n
bytes taken and lost before a read timed out (`platform_tcp_read` has no memory of
a partial read). Whether the nonce has moved on depends on whether the header was
complete. `RecvOk` includes the cut to the caller's buffer, after which the
rest of the body is what the next receive reads as a header. The access point
accepts a frame only whole, under the connection's keys and with the nonce it
expects; otherwise it takes no further frame (`rejected`).

*Properties.* `SendNonceFresh`, `ReceiveInSync`, `NoFrameRefused`,
`ConnectedMeansGranted`, `GrantMissedOnlyByBudget`, `NoSocketLeak` (for sessions
that are logged in once, as `esp_spotify_login` does), `LoginReturns`, and
`ImplementsChannel`: until a receive is cut short inside a frame or overrun,
`mercury_recv` hands out the access point's frames in order, each once, with its own
command and length.

### MercuryProto

`build_client_hello`, `build_client_response` and the LoginRequest with the writer of
`mercury.c`, in which tags, lengths and values are varints; `pb_find`,
`pb_skip` and `pb_read_bytes_copy`, the parser; the packets with their prefix and
length words, the HMAC rounds that make challenge and Shannon keys from them, and
what is kept of the APWelcome. The access point is external: in `MercuryAp` it decodes
with nanopb (`PbMessage` and the descriptors of its messages), so that two independent
implementations of the wire format are held against each other.
`RequestsRead`: it reads the fields the client wrote, with every kind of credentials
and with credentials cut at 2043 characters of base64. `KeysAgree`: both ends have
the same keys whenever the client gets that far, with unknown fields at every level
of the APResponse. It takes the access point's copy of the client's key to be `Gc`; that
nanopb reads just that from the hello is part of `RequestsRead`. It excepts further fields
that are not `Harmless`: after the tag of a varint or of a fixed word `pb_skip` goes on
reading at the value, because it passes over no bytes for these types (`mercury.c`
170-179), and whatever is then read as a tag must not be one of bytes or one that is
looked for. The value 16, for instance, reads as the tag of another varint and does no
harm, 82 reads as the tag of a field of bytes and does.

The APWelcome does not come in the clear. `mercury_recv` decrypts header and body in two
calls, and no build then gives back more of the body than its first byte (see Shannon), so
`ReceiveApWelcome` parses that byte and `ArMax` bytes of noise behind it, any member of
`Garbled`, cut to the body's length. What the access point sent is therefore not what is
kept, and `mercury.h` 98-100 is contradicted by the run `frame_read_back`.
`WelcomeInBounds` is what is left to the parser: wherever tags and lengths in the noise
lead it, the name and the credentials that the two getters hand out are pieces of the
bytes received, each within its buffer, and the two do not overlap. `VarintAssumption`
delimits the noise: among nine bytes one ends a varint, since the sum of a position and a
length of ten bytes can wrap round, and the shift of an eleventh byte is undefined in C.

### PbStream, PbDescriptor, PbIterator, PbMessage, Nanopb

nanopb at the width of the C types: a byte is the set of its bits, a word likewise, so
that the masks and shifts of varints, zigzag and descriptors are what they are in
C. A stream carries its verdict, as the functions return `false` once and
every caller after them. `PbDescriptor` packs the fields of a message as `PB_BIND`
does, into one, two, four or eight words, and loads them with
`load_descriptor_values`. `PbIterator` steps the iterator on (`NextField`) or asks it for
a tag (`FindField`), in any order, as the encoder and the decoder do. `PbMessage` is `pb_encode`, with the sizing pass before each
submessage and packed array, and `pb_decode`, with defaults, repeated and oneof
fields, callbacks, unknown fields and the set of required fields still to be seen.
`DescriptorReadBack`: on whatever way the iterator came to a field, it has loaded what
was packed, the submessage is the right one and `required_field_index` is right, and a
search from any field finds exactly the fields there are. `ReadBack`:
a message, or two in one stream, which nanopb merges, gives the struct the reference
definition gives (`Arriving`), next to fields the reader does not know; the two varint
decoders agree. `SizeIsExact`: the sizing pass, the bytes written and the
refusal of a small buffer agree. `CutNoticed`: a cut message is refused unless it ends
between two fields and has all that are required.

### Https

One exchange of each client: OpenSSL (`posix`), mbedTLS (`windows`), esp_http_client
falling back on mbedTLS (`esp32`), and `spotify_login5`. `held` is what is open; the
steps of connect and handshake may fail, the server gives its answer in pieces, may
send a session ticket of TLS 1.3 first, go silent, close or break off. A read ends at
the buffer's size. `ReleasedOnReturn` states what each outcome may still hold: nothing,
except where the code is known to return with it. `AnswerRead` says what a client has
when it returns success. `GetReturns`: each exchange ends but login5's, which sets no
timeout. `spotify_login5_extract_token` is compared with a direct definition
of the first token in the body (`TokenRead`, part of `AnswerRead`).

### Sockets

`platform_tcp_*` and `platform_http_server_*` over sockets of the system that take and
give pieces of any length. Bytes are numbered by their sender. POSIX opens a socket
for each address of a host; the other builds open one and take the first address. The
bell's clients are queued by the system and served one at a time, with reads that
return what is there. `ConnectsWhereItCan`: a connection fails only if every
address the build tries refuses, and then leaves no socket. `InStep`: as long as
no call has failed, reads give what was sent and writes send what they say, in
order. `CallsEnd`: no call lasts for ever on a socket with a timeout.

### Mdns, MdnsWorker, MdnsService

`MdnsWorker` has the two threads, with one action for each access of one to what the
other uses: the main thread fills the session, sets `running`, creates the thread;
stop clears `running`, waits, closes the socket, frees the session. The worker
announces, tests `running`, waits in `select`, listens, counts rounds. `Mdns`
is what it uses of `mdns.h`: names are written with references to earlier
names of the packet found through a table of sixteen, records, announcements and
queries, and both parsers. `MdnsService` composes them: `AnnouncementOf` is the packet of
a session, `Arriving` are other hosts' queries and announcements with the number of
announcements they cause. `AnnounceReadBack` reads the last packet sent with the
library's own parser: names, port, address, and a TXT record with the keys that were
registered. Its values do not read back: the strings are given with their `=`
(`zeroconf.c` 484) and `mdns.h` 1334 writes another behind them (`txt_read_back`). `QueriesAnswered` counts, for the last datagram, answers against
questions, all of class IN; `mdns_socket_listen` stops at one of another class. The worker's own socket is bound to a port of the system's choice, so that
no multicast query arrives; the datagrams are those sent to that port. `NoUseAfterFree`: the
worker reads the session only while it is there. `StopReturns`: a stop that is begun
ends. `GoesOnAnnouncing`: a worker that is not stopped sends the announcement again
and again, whatever arrives.

### SpClient

The loops of `spclient_get_client_token` and `spclient_get_audio_key` on a
connection, written over `FrameChannel`, so that bytes and nonces are gone and the
number of connections, requests and pushed frames can grow. A frame too large
for the call's buffer (256 or 4096 bytes) loses the channel, after which receives
return arbitrary commands. A write that failed has used up its nonce, so that
the access point hears nothing more (`deaf`). Key requests are numbered in the model only:
the code sends all of them with sequence number 1. `EachAnswerEndsOneCall` is an
accounting identity over requests and answers; `AnswerLag` says by how much the
answers can lag behind, which is the exact price of the missing match; both follow
from `KeyInv`, which is inductive. `CallReturns`: each call ends. A login may
fail and leave the channel open, lost or closed; the answer to the token request
may be there and not be readable, as it is on the POSIX build (see Shannon).

### Track

Both calls on the HTTPS answers. JSON is what `strstr` sees: a sequence of `file_id`
and `format` tokens. The files are all the `file_id`s from the start of the array to
the end of the *document*; the format of a file is the next one in the document,
and left out when it does not fit `format[8]`, as none of the Ogg formats does.
`FilesReadBack` says what survives that: no file of the array is left out or out of
place, and if every entry has its `file_id` before its format and nothing follows
the array (`AsExpected`, the comment at `spclient.c` 201-202) the list is exactly the
array, and a file has its own format or, if that is too long, none. That the formats
`spclient.h` 56 names are not read back is the run `formats_read_back`. The text
`"file":[` has no space, so an answer
formatted like that comment is the case without an array. `cdn_url_resolved` shows
that a URL is only found when the answer is *not* compact.

### Audio

The application's buffer, `spclient_download_audio` and `decrypt_audio`, called in any
order with any offset and length. `size_t` counts modulo `SizeMod`, so that
`offset + length - 1` wraps for the length 0 and at the end of the range. A server
answers with the range as far as the file goes, or with the whole file; what arrives
may be cut anywhere, at the latest where the 8192-byte response of
`platform_https_get` is full. The key stream is symbolic: a byte carries the positions
of the key stream that are on it, decryption adds or removes one, and the byte is
plain when none is left. `PlainFromStart`: a chunk that begins the file comes out plain, also
when it came short or the call goes beyond it. `decrypt_audio` takes no offset, and any
other chunk stays encrypted (`chunk_decrypted`).

### Shannon

`platform_shannon_*` as `mercury.c` calls them: a frame is encrypted in one call,
and decrypted in two, 3 bytes of header and then the body. The registers are known
by what went into them since the nonce, the words mixed in and the cycles made;
XOR is symbolic, so that a byte comes back only with the key stream of the same
registers and lane. The MAC stands for the words that went in. A cipher is its
registers, the bytes of a word that is not complete (`mbuf`), and how many are
missing (`room`, the code's `nbuf / 8`). `Encrypted` and `Words` are the reference
definition, which knows the frame as a whole; `Crypt` is the code's three phases:
rest of the buffered word, whole words, trailing bytes. `build` chooses between the
POSIX code (Windows has the same phases) and the ESP32 code, which buffers
plain text when it decrypts but does not mix in the word it completes.

`SentAsReference`: what is written is the reference's cipher text and MAC, for
every length and whatever the cipher was left with. `FirstWordReadBack`: command and
length can be read, also after a receive that was cut in the middle of a word.
Beyond the first word, that is the header and one byte of the body, neither build gives
the frame back (`FrameReadBack`).

### Zeroconf

A session, the bell with its queue of connections, and phones. A field of the
session is known by the POST it came with; whether the blob's MAC fits follows
from which POST brought `blob` and `clientKey` and for which session's key pair it
was made, whether the inner decryption gives the right data follows from whose
`userName` is there. A POST may arrive cut after any number of fields, with the
next field missing, empty or partial; it may be made with an earlier session's
public key; a phone may keep its connection open. `zeroconf_poll` is split where
it blocks: after accepting, the request is read from a socket without a timeout, and a
phone that says nothing holds it there (`poll_ends`). `PostPairs` says that a whole POST
ends in credentials if no phone does so for ever (`Held`).

`CredentialsOfOneUser` depends on the order of the fields in a body, `Order`. The
library looks for `userName`, `blob`, `clientKey` in that order, and the run uses it;
the proof asks only that the name comes first. With an order in which it comes last, a
cut POST leaves a blob and a key behind that a later, differently cut POST can be
combined with.

### EspSpotify

The handle's calls in any order, each with every outcome of the calls it makes.
Sessions are numbered as they are allocated, so that a session the handle
dropped without stopping or freeing it is still there, with its socket or port.
`dropped` names exactly these: the properties say that nothing else is ever left.

## Runs

Bounds are named in the modules' CONSTANTS.

| Run | Bounds and why they are enough |
|---|---|
| `mercury` | 2 connections (a session that is destroyed or logged off and initialised again), 2 turns of the login loop (one spent on a PING or other frame, one to end it), 1 frame pushed by the access point besides the verdict, bodies of 0 and 2 bytes, buffers of 1 and 2: frames that fit and that do not, and every cut of a frame of 7 or 9 bytes. All properties, `ImplementsChannel` and `LoginReturns` among them |
| `wire` | `Shannon`: bodies of 0, 1, 2, 5 and 8 bytes, with the header every phase alone and together, frames that end inside a word and at its end; 2 frames each way, so that one meets what the other left; both builds. `MercuryProto`: keys of 3 bytes, digests of 2, credentials at, below and above their limits (`AuthMax` 12, `NameMax` 3, `CredMax` 4), unknown fields of every wire type at every level of the answers: each way a field can be found, skipped or missed; a welcome that decrypts to nothing, to names and credentials that fit and that do not, in turn and again, and to sizes that lead past the end. `PbIterator`: any way over each message of the handshake and over one whose values just fit each width of descriptor, asked for 19 tags, some of which differ from a field's only above the six bits that are compared first |
| `lan` | `Zeroconf`: 2 sessions, 2 POSTs of 2 users, 1 other request, a queue of 2, cut and stale POSTs. `MdnsService`: packets of 160 bytes, in which the announcement with three TXT strings just fits; devices whose names share an end with the service type or hold a dot; questions for the service, for a beginning of its name, for a name that ends in it, and for others, alone and together. The table of 16, 16 references and 64 strings are the library's |
| `api` | `SpClient`: 2 logins, 3 requests, 2 pushed frames, loops of 2 turns: a request that is given up, its late answer, and a further request that gets it. `EspSpotify`: 2 handles, 2 starts and 2 logins each, a budget of 2 seconds |
| `http` | `Https`: 4 bytes of head, of which 2 hold the status, bodies shorter and longer than what fits the buffers (18 bytes, 15 for login5, 10) and than 11 bytes for the token, tokens at the start, at the end, cut and refused. `Track`: 2 files, 3 formats of which one is too long, 2 entries and file ids after them. `Audio`: files of 2 bytes, a buffer of 2, `size_t` of 3 bits, offsets 0, 1 and 7, lengths 0 to 2: ranges that wrap, that the file ends and that the server ignores. `Sockets`: 2 addresses, 3 bytes each way in calls of 1 and 2, 2 clients. `Nanopb`: the five messages of login5 and one with each scalar type, rule and descriptor width, values at the ends of their ranges, up to 12 fields; buffers of 11 and 64 bytes, one of which refuses most messages; varints of 1 to 11 bytes. |

The parts of `wire`, `lan`, `api` and `http` share no state, and a behaviour runs one of
them: each part's actions, properties and fairness are those of its own module.

The other runs are expected to be violated; each checks a sentence of the
repository against what the code does:

| Run | Sentence | What the code does |
|---|---|---|
| `key_for_requested_track` | `spclient.h:126` "Request AudioKey (AES-128 key) for a track+file via Mercury." | the late answer to a request that timed out is taken for the next |
| `cdn_url_resolved` | `spclient.c:307` "skip "cdnurl":["", `spclient.h:87` "Resolve CDN URL for an audio file." | the text has 11 characters and 10 are skipped: the URL is empty and the result 0 |
| `frame_read_back` | `test_build.c:48-49` "encrypt+decrypt roundtrip", "MAC match"; `mercury.h:98-99` "The reusable token is automatically extracted from APWelcome and stored internally." | decryption mixes cipher text of a partial word into the registers; the test has whole words in one call, `mercury_recv` a header of three bytes and a body |
| `poll_ends` | `zeroconf.h:83` "Blocks for up to timeout_ms waiting for a credential POST." | the connection that was accepted is read without a timeout (`zeroconf.c` 303): a phone that says nothing holds the call |
| `txt_read_back` | `README.md:220` "mDNS advertises `_spotify-connect._tcp` with `Stack=SP`, `CPath=/spotify_info`, `VERSION=1.0`." | `mdns.h` 1334 writes an `=` behind each string, which has one already: the value of VERSION is `1.0=` |
| `formats_read_back` | `spclient.h:56` "OGG_VORBIS_96", "OGG_VORBIS_160", "OGG_VORBIS_320", "AAC_24" etc | `format` has eight characters, and a longer format is left out (`spclient.c` 240) |
| `chunk_decrypted` | `esp_spotify.h:100` "Decrypt Spotify OGG/Vorbis audio chunk (AES-128-CTR)", `README.md:277` "for random access" | each call starts the key stream at the beginning of the file (`decrypt.c` 42), wherever the chunk is from |

Deadlock is checked, except in `wire` and `http`: a login that is over, a message that has
been read and an exchange that has ended are ends, not deadlocks.

## Fairness

* `Mercury!FairSpec`, `SpClient!FairSpec`: a call in progress takes its next step.
  The program is a single thread that runs on, and every read on the Mercury
  connection ends within the timeout set by `platform_tcp_set_timeout`
  (`mercury.c` 505), by success or by failure. Nothing is assumed of the
  access point.
* `Zeroconf!FairCaller`: the caller polls and, when told so, asks for the
  credentials, as the loop of `esp_spotify_pair` does. Nothing is assumed of the phones:
  one may connect and never say anything.
* `Https!Fairness`: the client's own steps, the timeouts of its socket where it sets
  them, and the end of esp_http_client's attempt, which has a timeout of its own.
  Nothing is assumed of the server.
* `Sockets!SockFairness`: the system finishes a connection, takes and gives bytes that
  are there, and ends a call on a socket with a timeout. Nothing is assumed of the peer.
* `MdnsWorker!Fairness`: both threads run on, and a stop, once begun, goes on to its end.
  Nobody has to stop, and datagrams may come at any rate.

## Proofs

`MercuryProofs` proves, for every value of the constants that satisfies
`MercuryAssumption` (any number of connections, turns and frames, any frame
lengths and buffer capacities, with or without a second login on a session):

* `Invariance`: `Spec => []IInv`
* `TypeCorrect`: `Spec => []TypeOK`
* `NonceNeverReused`: `Spec => []SendNonceFresh`
* `ReaderInSync`: `Spec => []ReceiveInSync`
* `FramesAccepted`: `Spec => []NoFrameRefused`
* `GrantMissedByBudget`: `Spec => []GrantMissedOnlyByBudget`
* `ConnectedIsGranted`: `~Relogin => (Spec => []ConnectedMeansGranted)`
* `NoSocketLost`: `~Relogin => (Spec => []NoSocketLeak)`
* `MercuryIsAChannel`: `Spec => ImplementsChannel`

The argument. `SendNonceFresh` alone is not inductive: a step that re-keys the
cipher restarts the nonce, so one has to know that nothing was sent under the new
keys (`KeysUnused`), which in turn needs that the connection waiting for its
APResponse is newer than the keys (`Shape`). `ReceiveInSync` needs that the access
point's frames leave no gap (`Contiguous`) and that the stream of a connection
begins with the APResponse, so that `Edge(0)` is where the client stands when the
keys are set (`Shape`). `IInv` is their conjunction with `TypeOK`; TLC
checked it before it was proved. The proof has one lemma per group of actions; the lemmas about
`RecvOk`, `RecvFail` and `Push` are shared by the actions that contain them.

The second invariant, `VerdictInv`, is about the access point's side. `UpInOrder`: as
long as no write failed, what is on its way is the rest of the handshake and then
whole frames with the nonces from `apNonce` up to `sendNonce`, so that the access point
refuses none. `Verdicts`: an AUTH_OK or AUTH_FAIL in the stream says what the access
point decided; as a waiting login has lost nothing (`Waiting`), the verdict it reads
is one of these. `Waiting` also counts its turns by `recvNonce`, which gives `GaveUp`.
`OneLogin` holds only of sessions that are logged in once: a second login keeps
`connected` and drops the socket, and TLC finds both properties violated with
`Relogin = TRUE`.

`MercuryIsAChannel` is the refinement: each step of `Mercury` is a step of
`FrameChannel` or leaves its variables alone. A receive in step with the stream is
`Take` (`TakeStep`, from `ReceiveInSync`), a fault is `Lose`, the end of the handshake is
`Open` on an empty stream (`NoFrameYet`), and whatever takes keys or socket away is
`Close`.

`SpClientProofs` proves, for every value that satisfies `SpClientAssumption` (any
number of logins, requests, pushed frames and turns of the two loops):

* `KeyInvariance`: `Spec => []KeyInv`
* `RequestsTypeCorrect`: `Spec => []TypeOK`
* `AnswersAccounted`: `Spec => []EachAnswerEndsOneCall`
* `LagBounded`: `Spec => []AnswerLag`

The argument. The answer that ends a key call is the (n+1)th the access point sent,
where n is the number of answers taken so far, by `EachAnswerEndsOneCall` the requests
made before less those given up. `AnswersInOrder` says that the kth answer is for
the kth request or a later one, and the bound on the lag follows. To keep
`AnswersInOrder` when the access point answers, a request on its way has to be newer
than as many requests as there are answers, and requests have to travel in order:
`RequestsInOrder`. The first lemmas are about counting answers in a sequence.

`ZeroconfProofs` proves `OneUser`: if the name comes first in a body (`NameFirst`), then
`Spec => []CredentialsOfOneUser`, for any users, sessions and requests. The
argument. A blob and a key whose MAC fits came from one POST. If both are whole the name
before them was too, and was copied with them, so that the capture ended the reading
at that moment: `WholePost`. That needs each field to be older than every POST that still
waits (`FieldInv`), which holds as the queue keeps the order of the POSTs (`QueueInv`), and
that nothing is read once the credentials are captured (`SessionInv`).

`EspSpotifyProofs` proves `NoEarlierLogin`, `DestroyFreesItsOwn` and `StopClosesItsOwn`:
`ConnectedMeansLastLogin`, `NothingElseLeft` and `StopReleases`, for any number of handles
and calls. Sessions are numbered through all handles, and the proof has to show that a
number is never given twice (`CountsRight`, `Numbered`; `NewHandleNumbersOn` multiplies);
what is open is the handle's own or was replaced (`OwnedOrDropped`).

`HttpProofs` is about the four modules that `http` checks.

* `NothingHeldOnReturn`: `Spec => []ReleasedOnReturn` of `Https`, from `HeldInv`, which
  says for each step of a client what it has open there.
* `OwnAnswerIsRead`: `Spec => []AnswerRead` of `Https`, for answers, buffers and tokens of
  any length. The invariant says of each step how much of the answer is in the buffer
  and that it is a beginning of the answer; when a client returns success, the status
  was in it and the body is the rest. For login5 the place of the token comes from
  `TokenRead`.
* `NoAddressForgotten` (`ConnectsWhereItCan`) and `BytesStayInOrder` (`InStep`) of
  `Sockets`, for any number of addresses, clients and bytes. `OpenInv`: the addresses
  before the one that is tried have refused, and what is open is what the call has got to.
  `StreamInv`: in the middle of a read the buffer goes on where the reads before it
  ended, in the middle of a write the system has what was written before and a beginning
  of this; `UptoGoesOn` and `SpanGoesOn` are the lemmas about joining pieces.
* `RangeAnswered` (`RangeHonoured`) and `OneCallFromStart` (`PlainFromStart`) of
  `Audio`, for files, buffers and a `size_t` of any size. `RangeIsLength` is the
  arithmetic: a range that wraps ends before it begins, and is not answered with a
  part. `DecryptedInv` has the two positions of the key stream that are on a byte after
  one decryption.
* `EveryFileRead` (`FilesReadBack`) of `Track`, for documents of any length. The places
  that the code's search visits are the places of the `file_id`s, in order: that the
  kth search finds the kth of them is shown through the least number for which it
  would not.

`WireProofs` has three parts. About `Shannon` it proves `FramesSentAsReference`
(`SentAsReference`) and `FirstWordsReadBack` (`FirstWordReadBack`), for frames of any
length and both builds. The three phases of `Crypt` meet the reference one word at a
time: the registers after k whole words, in the code and in the reference, are two
recursive functions that agree at 0 and take the same step (`UpTo`).

About `MercuryProto` it proves two theorems. `WelcomeWithinBounds` is
`ProtoSpec => []WelcomeInBounds`, for welcomes, noise, names and credentials of any length
and any sizes of the buffers. `WelcomeInv` is inductive: the session's two fields are empty
until the welcome is read, and then are what `ReadWelcome` makes of the bytes received. The
rest is about the loop. `Ahead` says of each step of the parser (a tag, a varint, a copy, a
field passed over) that it leaves the reader at a place not before the one it began at and
not behind the end. `SoFar` is the loop's invariant: what the session holds are two pieces
of the bytes behind the reader that do not overlap, none longer than its buffer. A turn
that copies a field takes it from where the reader stands, which is after both pieces, so
that the new piece overlaps neither (`TurnSoFar`); `Apart` is what is said of the four
ends. The getters hand out a beginning of one piece, up to the first zero byte, and all of
the other. `ProtoAssumption` asks of the constants that names and credentials, with a tag
and a length before them, stay below `PB_SIZE_MAX`, that all of them, keys, fields and
noise consist of bytes, and that an APResponse and a digest are shorter than `PB_SIZE_MAX`.

`HandshakeKeysAgree` is `ProtoSpec => []KeysAgree`, for server keys of any length with
any further field at each of the four levels of the APResponse. `AnswerInv` is inductive:
the APResponse is one nanopb wrote, what the session took of it is what was received,
and from the moment it is accepted the keys and the answer are those that
`compute_auth_challenge` makes of it. It has to be shown that the four calls of
`pb_find`, one in what the other found, end at the key itself. One call is a run of turns
that pass over the further field, if it is `Harmless`, and one that opens the next level
(`LoopsPass`, `LevelOpens`); the last of them copies what fits the buffer. So the
client fails to find a key only if the packet or the key has the wrong size. The
client's five HMAC rounds are then the access point's stream (`ChallengeIs`), and the
nested lengths of the ClientResponse, which the code works out before it writes, are
those of what it writes (`AnswerIs`).

About `PbIterator` it proves `DescriptorsReadBack`: `IterSpec => []DescriptorReadBack`, for
any messages of any number of fields, in any mix of the four widths, and any tags asked
for. `DescriptorAssumption` is what the code has checked when it compiles: each field passes
the static assertion on its width (`PB_FIELDINFO_ASSERT`), and the tags rise. `IterInv` is
inductive: the iterator is `At` a place of its message, with the offset of the field's words,
the numbers of required fields and of submessages before it and the values of the field.
Three things are shown of it. A field comes back from its words (`LoadIs`): a number that
fits k bits is the number of its lowest k bits (`BitsFit`), and for each width every part
lies where `load_descriptor_values` looks for it and is not covered by another
(`OneWord`, `TwoWords`, `FourWords`, `EightWords`). The words of the fields lie one
after the other (`WordsLaid`), so that the length in a field's first word leads to the next
(`AdvanceIs`), and the nth submessage of a message is the nth entry of `submsg_info`
(`SubmsgIs`). A search is a round of places (`IsRound`), from the next place to the one it
began at, or from the first one if the tag is smaller; it ends within as many turns as there
are fields (`SearchEnds`), and the places it does not come to have tags that are too great.

`MdnsProofs` proves `WorkerNeverReadsFreed`: `Spec => []NoUseAfterFree`, for any
devices, announcements and datagrams. `WorkerInv` ties the place of the main thread to
the worker: one that runs has a handle (`thread = "some"`) and a main thread that has not
got past its wait.

It also proves `EachQueryAnswered`: `Spec => []QueriesAnswered`, for any service type, any
number of questions in a datagram, names of any labels and buffers below 64 KB. Here the
step of the worker says little (`HeardInv`: what was heard is one of `Datagrams`, answered
as often as it asks), and the proof is about the packet. `NameAt`, `QuestionAt` and
`AskedAt` say where in a packet a name, a question and a number of questions stand.
`mdns_multiquery_send` writes them there and leaves what stands before as it is
(`NameMade`, `QuestionMade`, `QueriesMade`); what stands there stays when more is
written behind it (`NameKept`, `QuestionKept`); and `mdns_string_extract`,
`mdns_string_skip` and `mdns_socket_listen` read just that, with as many calls as there
are questions and none for records (`NameRead`, `QuestionRead`, `ListenIs`), whether
a question is for all services or not. `QueriesAssumption` has what is taken of the other
hosts: a name has no more than `MDNS_MAX_SUBSTRINGS` labels of 1 to 63 bytes each, a type is of
two bytes, and the queries of one packet fit the buffer they are made in
(`mdns_multiquery_send` returns no error).

`CommonLemmas` has what the proofs need of numbers and sequences. The library's
induction theorems take an operator as a parameter, which no installed prover can
instantiate; `LeastNatural` says the same of sets, that a non-empty set of naturals has a
least element, and follows from the library's induction for one fixed predicate.
`RecursionExists` and `RecursionUnwinds` give a recursive function its equation,
`SameRecursion` says that two functions which begin alike and take the same step are
equal up to a bound, and `JoinedOf` is `FlattenSeq` read as a recursion.

The encoding of TLA+ in the SMT backend of tlapm 1.4.5 takes `Len(s) = n` to follow from
`DOMAIN s = 1..n` for every value `s`, which is too much for functions on `0..n`. No proof
here rests on it: all of them were also checked with that direction of the axiom taken
out of what Z3 is given.

Only model-checked: liveness under fairness, whose proofs need ENABLED; what messages of
nanopb read back (`ReadBack`, `SizeIsExact`, `CutNoticed`), as the encoder and decoder of
`PbMessage` are recursive operators, for which the prover has no SMT backend;
`RequestsRead`, which is stated through that decoder; and `AnnounceReadBack`, whose
names refer to each other: `NameAt` is about names that stand in one piece, as those of
queries do, and has to be extended to a name that goes on at an earlier place. What these
compute is compared with a reference definition over bounded inputs.

## Abstractions and assumptions

* Data: keys are known by the connection they were agreed on, frames by command
  and length, credentials by user. Cryptography is taken at its word: the right
  key and nonce give back the plain text, a wrong one gives anything.
* Memory allocation does not fail, except where it makes no difference (the
  functions that allocate return an error before they touch anything).
* The access point answers requests in the order they arrive or not at all, and
  refuses everything after a frame it could not verify.
* Requests fit the buffers they are printed into. Certificates are taken to be right.
* Messages of 2^30 bytes and more, and varints of ten bytes and more, whose value can wrap
  round with the position and whose shift is undefined in C from the eleventh byte on
  (`mercury.c` 123-179), are not among the inputs of `MercuryProto`;
  login5 answers of less than 4 bytes (`spotify_login5.c` 223) and payloads of less than
  5 (`spotify_login5_parse.c` 17), where the code reads past what it has, not
  among those of `Https`.
* A phone puts the fields of a POST in the order given by `Order`.

## Observed, without a property

* `mercury.c` 841: a MAC that does not fit is logged and the frame returned.
* `zeroconf.c` 507: captured fields that do not decrypt are never dropped; all that
  follows is the return value 1 for ever, so that `PostPairs` excepts it.
* `mercury.c` 765: `mercury_send` looks at the socket only; after a login that failed
  early it encrypts under the keys of an earlier login or none. `SendNonceFresh` covers
  the nonces, whether a key is there is `keyed` in the model.
* `esp_spotify.c` 84, 100, 110, 166: the result of `zeroconf_start` is ignored; every
  request and every failed decryption uses up a second of the pairing's budget; a paired
  name is taken only when none is there, its credentials always; a token of an
  earlier login stays when the request of a later one fails. The actions of `EspSpotify`
  do the same; nothing in the repository says what should happen instead.
* `platform_windows.c` 636: the three builds make the MAC from the registers in different
  ways. The access point fits one of them; which, the sources do not say.
* `platform_windows.c` 1013: the socket is bound to port 0, and `mdns.h` 190 wants 5353 for
  queries.
* `platform_esp32.c` 210: the service type keeps its `.local`.
* `platform_posix.c` 826: an answer that fills the 8191 bytes is cut there and returned as
  a whole one.
* `platform_esp32.c` 985: this build never copies the body, so every request that
  succeeds comes back empty.
* `spclient.c` 352: 200 is taken like 206, so a server that ignores the range gives the
  start of the file for any chunk.
* `mdns.h` 1027: a question of a class other than IN or ANY hides the questions behind it.
* `mercury.c` 146: `pb_read_bytes_copy` copies what fits and leaves the rest unread.

## Not modelled, and the plan

Not modelled: `thirdparty/mdns.c` and `mdnsd.c`, which no file of the program includes; of
`mdns.h` unicast answers, goodbyes, IPv6, service discovery and its own sockets, which no
build calls; of nanopb pointer fields, extensions, default values, fixed-count
arrays and message-level callbacks, which no descriptor of the repository has; the
arithmetic of hashes, AES, Diffie-Hellman and the Shannon registers; Avahi and the mDNS
of ESP-IDF, which keep no state in this code; the layout of the zeroconf blob and the
text of HTTP responses and requests; tests and examples.

Plan:

1. The recursive operators of `PbMessage` as recursive functions, so that
   `RequestsRead` can be proved; `WireProofs` has the lemmas about tags and varints.
2. `NameAt` for names with references, so that `AnnounceReadBack` can be proved.
3. `EspSpotify` composed with `Zeroconf` and `SpClient` in place of their results.
4. The layout of the blob in `zeroconf.c`, with its length checks.
5. A refinement of `FrameChannel` by the channel as `SpClient` uses it.
