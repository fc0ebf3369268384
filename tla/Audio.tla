-------------------------------- MODULE Audio --------------------------------
(***************************************************************************)
(* Chunks of an audio file: downloaded into the application's buffer       *)
(* (spclient_download_audio, src/src/spclient.c) and decrypted there       *)
(* (src/src/decrypt.c).                                                    *)
(*                                                                         *)
(* The key stream is symbolic: a byte carries the set of key stream        *)
(* positions that are on it, XOR adds one or takes it away, and the byte   *)
(* is plain when none is left.                                             *)
(***************************************************************************)
EXTENDS Integers, FiniteSetsExt, SequencesExt

CONSTANTS
  Files,    \* files, each with its key
  FileLen,  \* bytes of a file
  SizeMod,  \* size_t counts modulo this
  RespMax,  \* bytes of a body that platform_https_get keeps (8191 less headers)
  BufSize,  \* bytes of the application's buffer
  Offsets, Lengths,  \* arguments of the calls
  MaxOps    \* bound: decryptions of one chunk

AudioAssumption ==
  /\ FileLen \in Nat \ {0} /\ RespMax \in Nat \ {0} /\ BufSize \in Nat \ {0}
  /\ SizeMod \in Nat /\ FileLen < SizeMod /\ BufSize < SizeMod
  /\ Offsets \subseteq 0 .. SizeMod - 1 /\ Lengths \subseteq 0 .. SizeMod - 1
  /\ MaxOps \in Nat

VARIABLES
  buffer,  \* the application's buffer
  chunk,   \* history: the last download that succeeded
  ops      \* history: the decryptions since

audioVars == <<buffer, chunk, ops>>

-----------------------------------------------------------------------------
(* Download.                                                               *)

\* A byte of file f, encrypted with the key stream at its own position.
Cipher(f, pos) == [file |-> f, pos |-> pos, ks |-> {<<f, pos>>}]
NoFile == "none"
NoByte == [file |-> NoFile, pos |-> 0, ks |-> {}]
NoChunk == [file |-> NoFile, length |-> 0, offset |-> 0, from |-> 0, status |-> 0, got |-> 0]

\* Mutant: one byte too many.
RangeOneMore(offset, length) ==
  [first |-> offset, last |-> (offset + length) % SizeMod]

\* The Range header.
Range_hdr(offset, length) ==
  [first |-> offset, last |-> (offset + length - 1) % SizeMod]

\* What a server can answer: the range as far as the file goes, or the whole
\* file, the only way when the range ends before it begins.
Answers(r) ==
  LET whole == [status |-> 200, from |-> 0, n |-> FileLen]
      part == [status |-> 206, from |-> r.first, n |-> Min({r.last, FileLen - 1}) - r.first + 1]
  IN IF r.first <= r.last /\ r.first < FileLen THEN {whole, part} ELSE {whole}

\* copy_len
CopyLen(k) == Min({k, BufSize})

\* The answer arrives in full, or cut where the connection or the response
\* buffer of platform_https_get ended; the code does not tell. A call that
\* returns an error changes nothing.
spclient_download_audio ==
  /\ \E url \in Files, offset \in Offsets, length \in Lengths :
       /\ length <= BufSize
       /\ \E a \in Answers(Range_hdr(offset, length)), k \in 0 .. RespMax :
            /\ k <= a.n
            /\ LET n == CopyLen(k) IN
                 /\ buffer' = [i \in 1 .. BufSize |->
                                 IF i <= n THEN Cipher(url, a.from + i - 1) ELSE buffer[i]]
                 /\ chunk' = [file |-> url, length |-> length, offset |-> offset,
                              from |-> a.from, status |-> a.status, got |-> n]
  /\ ops' = <<>>

-----------------------------------------------------------------------------
(* Decryption.                                                             *)

\* Mutant: the counter counts from one.
CounterFromOne(f, i) == <<f, i>>

\* The key stream of one call begins with the IV, whatever the chunk's offset.
Counter(f, i) == <<f, i - 1>>

\* By the key and id of file f, n bytes in place.
decrypt_audio ==
  /\ chunk # NoChunk
  /\ Len(ops) < MaxOps
  /\ \E f \in Files, n \in Lengths :
       /\ 0 < n /\ n <= BufSize
       /\ buffer' = [i \in 1 .. BufSize |->
                       IF i <= n THEN [buffer[i] EXCEPT !.ks = SymDiff(@, {Counter(f, i)})]
                       ELSE buffer[i]]
       /\ ops' = Append(ops, [file |-> f, n |-> n])
  /\ UNCHANGED chunk

-----------------------------------------------------------------------------
AudioInit ==
  /\ buffer = [i \in 1 .. BufSize |-> NoByte]
  /\ chunk = NoChunk /\ ops = <<>>

AudioNext == spclient_download_audio \/ decrypt_audio

AudioSpec == AudioInit /\ [][AudioNext]_audioVars

-----------------------------------------------------------------------------
(* Properties.                                                             *)

\* A server that honours the Range header makes the buffer begin with the bytes
\* from the offset on, and with no more than were asked for, if any were.
RangeHonoured ==
  chunk.status = 206 /\ chunk.length > 0 /\ ops = <<>> =>
    /\ chunk.got <= chunk.length
    /\ \A i \in 1 .. chunk.got : buffer[i] = Cipher(chunk.file, chunk.offset + i - 1)

\* The bytes that are there of a chunk and that one call of decrypt_audio, by the
\* key of the chunk's file, has covered.
Covered ==
  IF Len(ops) = 1 /\ ops[1].file = chunk.file THEN 1 .. Min({ops[1].n, chunk.got}) ELSE {}

\* It makes them plain if the chunk is the beginning of the file, although the
\* chunk may be shorter than asked for and the call longer than the chunk.
PlainFromStart == chunk.from = 0 => \A i \in Covered : buffer[i].ks = {}

-----------------------------------------------------------------------------
(* What the repository says and the code does not keep: refuted.           *)

\* include/esp_spotify.h: esp_spotify_decrypt_audio decrypts a "Spotify OGG/Vorbis
\* audio chunk", of which README.md says that a seek table is "for random access":
\* wherever the chunk begins.
ChunkDecrypted == \A i \in Covered : buffer[i].ks = {}

=============================================================================
