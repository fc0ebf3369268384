-------------------------------- MODULE Track --------------------------------
(***************************************************************************)
(* The HTTPS lookups of src/src/spclient.c: the audio files of a track,    *)
(* and the CDN URL of one of them.                                         *)
(*                                                                         *)
(* JSON is a sequence of tokens, as strstr sees it: an "id" for each       *)
(* file_id, a "fmt" for each format.                                       *)
(***************************************************************************)
EXTENDS Integers, FiniteSetsExt, SequencesExt

CONSTANTS
  FileIds,      \* file ids
  Formats,      \* names of formats
  LongFormats,  \* those that do not fit format[8]
  Missing,      \* none
  MaxEntries    \* bound: files in a track's metadata

TrackAssumption ==
  /\ LongFormats \subseteq Formats /\ Missing \notin Formats \cup FileIds
  /\ MaxEntries \in Nat

VARIABLES
  meta,     \* the files of spclient_track_meta_t
  metaRet,  \* what the last spclient_get_track_metadata returned (1: none)
  doc,      \* history: the document it got
  cdn_url,  \* the URL written: a file's, "empty", or Missing before the first
  urlRet,   \* what the last spclient_resolve_cdn_url returned (1: none)
  urlOf     \* history: the file it was called for

trackVars == <<meta, metaRet, doc, cdn_url, urlRet, urlOf>>

-----------------------------------------------------------------------------
(* Metadata.                                                               *)

Entry == [id : FileIds, fmt : Formats \cup {Missing}]

\* A track: the entries of its file array, and file ids of other arrays that
\* come after it (those before are not looked at).
Docs == [entries : SeqOf(Entry, MaxEntries), after : SeqOf(FileIds, 1)]
NoDoc == [entries |-> <<>>, after |-> <<>>]

Id(v) == [kind |-> "id", v |-> v]
Fmt(v) == [kind |-> "fmt", v |-> v]

EntryTokens(e) == IF e.fmt = Missing THEN <<Id(e.id)>> ELSE <<Id(e.id), Fmt(e.fmt)>>

\* What strstr sees from "file":[ on.
Tokens(d) ==
  FlattenSeq([k \in DOMAIN d.entries |-> EntryTokens(d.entries[k])])
  \o [k \in DOMAIN d.after |-> Id(d.after[k])]

\* The file_ids, each looked for after the one before, from the start of the
\* array to the end of the document: seen[j] are those among the first j tokens.
IdPlaces(toks) ==
  LET seen[j \in 0 .. Len(toks)] ==
        IF j = 0 THEN <<>>
        ELSE IF toks[j].kind = "id" THEN Append(seen[j - 1], j) ELSE seen[j - 1]
  IN seen[Len(toks)]

\* Mutant: the format is looked for from the start of the array.
FirstFormat(toks, i) ==
  LET all == {j \in DOMAIN toks : toks[j].kind = "fmt"}
      fmt == toks[Min(all)].v
  IN IF all = {} \/ fmt \in LongFormats THEN Missing ELSE fmt

\* The next format after a file_id, whichever entry it is in.
FormatAfter(toks, i) ==
  LET later == {j \in i + 1 .. Len(toks) : toks[j].kind = "fmt"}
      fmt == toks[Min(later)].v
  IN IF later = {} \/ fmt \in LongFormats THEN Missing ELSE fmt

\* The files array of meta_out.
FilesOf(toks) ==
  [k \in DOMAIN IdPlaces(toks) |->
     LET i == IdPlaces(toks)[k] IN [id |-> toks[i].v, fmt |-> FormatAfter(toks, i)]]

spclient_get_track_metadata ==
  /\ \/ \E code \in {-2, -3} :  \* no answer, no file array
          metaRet' = code /\ meta' = <<>> /\ doc' = NoDoc
     \/ \E d \in Docs :
          metaRet' = 0 /\ meta' = FilesOf(Tokens(d)) /\ doc' = d
  /\ UNCHANGED <<cdn_url, urlRet, urlOf>>

-----------------------------------------------------------------------------
(* CDN.                                                                    *)

\* What the first text in quotes that begins with http is taken for.
FirstHttp(urls) == IF urls = <<>> THEN Missing ELSE Head(urls)

\* With "cdnurl":[" in the answer, 11 characters, the URL is looked for after
\* 10, where its opening quote ends it.
AfterKey == "empty"

\* The answer to a request for `urlOf`, in compact JSON or not, has the URLs of
\* the file, or none: only a compact answer with a URL has the text searched for.
spclient_resolve_cdn_url ==
  /\ \E k \in DOMAIN meta : urlOf' = meta[k].id
  /\ \/ urlRet' = -2 /\ UNCHANGED cdn_url
     \/ \E urls \in {<<>>, <<urlOf'>>}, compact \in BOOLEAN :
          LET found == IF compact /\ urls # <<>> THEN AfterKey ELSE FirstHttp(urls) IN
          IF found = Missing THEN urlRet' = -3 /\ UNCHANGED cdn_url
          ELSE urlRet' = 0 /\ cdn_url' = found
  /\ UNCHANGED <<meta, metaRet, doc>>

-----------------------------------------------------------------------------
TrackInit ==
  /\ meta = <<>> /\ metaRet = 1 /\ doc = NoDoc
  /\ cdn_url = Missing /\ urlRet = 1 /\ urlOf = Missing

TrackNext == spclient_get_track_metadata \/ spclient_resolve_cdn_url

TrackSpec == TrackInit /\ [][TrackNext]_trackVars

-----------------------------------------------------------------------------
(* Properties.                                                             *)

\* The structure the comment in spclient_get_track_metadata expects.
AsExpected(d) == d.after = <<>> /\ \A k \in DOMAIN d.entries : d.entries[k].fmt # Missing

\* The files of a track are read in order, none is left out, however the
\* formats lie between them; and in a document as expected none has the format
\* of another's entry: it has its own, or none where that does not fit format[8].
FilesReadBack ==
  metaRet = 0 =>
    \A k \in DOMAIN doc.entries :
      LET e == doc.entries[k] IN
      /\ k \in DOMAIN meta /\ meta[k].id = e.id
      /\ AsExpected(doc) =>
           /\ Len(meta) = Len(doc.entries)
           /\ meta[k].fmt \in {e.fmt, Missing}
           /\ e.fmt \notin LongFormats => meta[k].fmt = e.fmt

-----------------------------------------------------------------------------
(* What the repository says and the code does not keep: refuted.           *)

\* include/internal/spclient.h: spclient_resolve_cdn_url resolves the "CDN URL
\* for an audio file", "0 on success".
CdnUrlResolved == urlRet = 0 => cdn_url = urlOf

\* include/internal/spclient.h: spclient_file_t's format is "OGG_VORBIS_96",
\* "OGG_VORBIS_160", "OGG_VORBIS_320", "AAC_24" etc, so the format of a file's entry
\* is the file's.
FormatsReadBack ==
  metaRet = 0 /\ AsExpected(doc) =>
    \A k \in DOMAIN doc.entries : meta[k].fmt = doc.entries[k].fmt

=============================================================================
