---------------------------- MODULE LibraryFiles ---------------------------
(***************************************************************************)
(* What the server hands out of the Library as files: the ZIP archive of   *)
(* everything, the audio of one recording, whole or a byte range, and its  *)
(* captions (server/zip.ts, the export, media and captions routes of       *)
(* server.ts, exportEntries and media of server/library-store.ts).         *)
(*                                                                         *)
(* The archive is written while it is read: the list of recordings is taken*)
(* first, then every recording is read when its turn comes and its audio   *)
(* file is opened when the entries before it are out.  Meanwhile recordings*)
(* are removed.  Bytes are counted, not told apart.  Every behaviour looks *)
(* at one request: requests share only the store, which they do not change.*)
(***************************************************************************)
EXTENDS Integers, Sequences, FiniteSets

CONSTANTS
  Recordings,       (* a set of numbers from 1, in the order of creation    *)
  Sizes,            (* the sizes audio files have                           *)
  EntriesMaximum,   (* entries a ZIP32 archive can count                    *)
  ZipMaximum,       (* the largest offset and size it can note              *)
  MaxByte,          (* bound on the numbers of a requested range            *)
  Moments,          (* milliseconds a described segment starts or ends at   *)
  Durations         (* seconds a described recording lasts                  *)

VARIABLES
  route,            (* the request looked at                                *)
  rows, files,      (* the recordings listed, the audio files on the disk   *)
  size, versions,   (* per recording: bytes of audio, transcripts it has    *)
  removed,          (* removed since the start                              *)
  zip,              (* the export: what is left, what was counted           *)
  out,              (* the pieces of the archive written                    *)
  get,              (* one media request and its answer                     *)
  cues              (* one answer of the captions route                     *)

store == <<rows, files, size, versions, removed>>
vars == <<route, store, zip, out, get, cues>>

None == -1
NoRange == [kind |-> "none", first |-> None, last |-> None]

Init ==
  /\ route \in {"export", "media", "captions"}
  /\ rows = Recordings /\ files \in {Recordings} \cup {Recordings \ {r} : r \in Recordings}
  /\ size \in [Recordings -> Sizes] /\ versions \in [Recordings -> 1 .. 2]
  /\ removed = {}
  /\ zip = [phase |-> "idle", left |-> {}, entries |-> <<>>, audio |-> None, central |-> <<>>,
            offset |-> 0, at |-> 0, data |-> 0, start |-> 0, headers |-> 0]
  /\ out = <<>>
  /\ get = [phase |-> "idle", of |-> 0, range |-> NoRange, code |-> 0, bytes |-> <<>>]
  /\ cues = <<>>

---------------------------------------------------------------------------
(* The store under the readers.                                            *)

RemoveRow(r) ==
  /\ r \in rows /\ rows' = rows \ {r} /\ removed' = removed \cup {r}
  /\ UNCHANGED <<route, files, size, versions, zip, out, get, cues>>

RemoveFile(r) ==
  /\ r \in files \ rows /\ files' = files \ {r}
  /\ UNCHANGED <<route, rows, size, versions, removed, zip, out, get, cues>>

---------------------------------------------------------------------------
(* writeZip.  A piece is what one write puts out, with the entry it is of, *)
(* its length and the numbers noted in it.  An entry is the README, named  *)
(* <<0, 0>>, or of a recording r: <<r, 0>> its audio, and counting up its  *)
(* transcript, its metadata and its history.  A name counts NameBytes.     *)

NameBytes == 8
README == <<0, 0>>
AudioName(r) == <<r, 0>>
TextNames(r) == {<<r, i>> : i \in 1 .. versions[r] + 2}

Piece(kind, name, bytes, noted) ==
  [kind |-> kind, name |-> name, bytes |-> bytes, noted |-> noted]
Local(name) == Piece("local", name, 30 + NameBytes, <<>>)
Data(name, bytes) == Piece("data", name, bytes, <<>>)
Descriptor(name, bytes) == Piece("descriptor", name, 16, <<bytes>>)
Central(e) == Piece("central", e.name, 46 + NameBytes, <<e.offset, e.size>>)
Footer(entries, bytes, offset) == Piece("footer", README, 22, <<entries, bytes, offset>>)

(* The archive fails, and with it the download.                            *)
Destroyed == zip' = [zip EXCEPT !.phase = "destroyed"] /\ UNCHANGED out

MayAdd == Len(zip.central) < EntriesMaximum /\ zip.offset <= ZipMaximum

(* A writer that noted the offset after the local header would be:         *)
EntryOffsetLate(header) == zip.offset + header.bytes
EntryOffset(header) == zip.offset

Noted(name, at, bytes) == [name |-> name, offset |-> at, size |-> bytes]

(* An entry whose source is in memory; TextBytes long.                     *)
TextBytes == 4

WriteEntry ==
  /\ zip.phase = "write" /\ zip.entries # <<>>
  /\ LET name == Head(zip.entries)
         header == Local(name)
         data == Data(name, TextBytes)
         descriptor == Descriptor(name, TextBytes)
     IN IF MayAdd
        THEN /\ out' = Append(Append(Append(out, header), data), descriptor)
             /\ zip' = [zip EXCEPT !.entries = Tail(@),
                  !.offset = @ + header.bytes + data.bytes + descriptor.bytes,
                  !.central = Append(@, Noted(name, EntryOffset(header), TextBytes))]
        ELSE Destroyed
  /\ UNCHANGED <<route, store, get, cues>>

ExportStarts ==
  /\ route = "export" /\ zip.phase = "idle"
  /\ zip' = [zip EXCEPT !.phase = "write", !.entries = <<README>>]
  /\ UNCHANGED <<route, store, out, get, cues>>

(* exportEntries: which recordings there are, once, the oldest first.      *)
ListRecordings ==
  /\ zip.phase = "write" /\ zip.entries = <<>> /\ zip.audio = None
  /\ Len(zip.central) = 1
  /\ zip' = [zip EXCEPT !.phase = "next", !.left = rows]
  /\ UNCHANGED <<route, store, out, get, cues>>

Oldest == CHOOSE r \in zip.left : \A s \in zip.left : r <= s

(* open: the row and its transcripts in one go; then media, which looks for*)
(* the file.                                                               *)
OpenRecording ==
  /\ zip.phase = "next" /\ zip.left # {}
  /\ zip' = IF Oldest \in rows
            THEN [zip EXCEPT !.phase = "media",
                    !.entries = [i \in 1 .. versions[Oldest] + 2 |-> <<Oldest, i>>]]
            ELSE [zip EXCEPT !.left = @ \ {Oldest}]
  /\ UNCHANGED <<route, store, out, get, cues>>

HasMedia(r) == r \in rows /\ r \in files

FindMedia ==
  /\ zip.phase = "media"
  /\ zip' = [zip EXCEPT !.phase = "write", !.left = @ \ {Oldest},
                        !.audio = IF HasMedia(Oldest) THEN Oldest ELSE None]
  /\ UNCHANGED <<route, store, out, get, cues>>

(* The next recording, when the entries of this one are out.               *)
NextRecording ==
  /\ zip.phase = "write" /\ zip.entries = <<>> /\ zip.audio = None
  /\ Len(zip.central) > 1 /\ zip' = [zip EXCEPT !.phase = "next"]
  /\ UNCHANGED <<route, store, out, get, cues>>

(* createReadStream opens the file after the header is out.                *)
WriteAudioHeader ==
  /\ zip.phase = "write" /\ zip.entries = <<>> /\ zip.audio # None
  /\ LET header == Local(AudioName(zip.audio))
     IN IF MayAdd
        THEN /\ out' = Append(out, header)
             /\ zip' = [zip EXCEPT !.phase = "open", !.data = 0, !.at = EntryOffset(header),
                                   !.offset = @ + header.bytes]
        ELSE Destroyed
  /\ UNCHANGED <<route, store, get, cues>>

OpenAudio ==
  /\ zip.phase = "open"
  /\ IF zip.audio \in files
     THEN zip' = [zip EXCEPT !.phase = "read"] /\ UNCHANGED out
     ELSE Destroyed
  /\ UNCHANGED <<route, store, get, cues>>

(* An open file is read to its end, removed or not.                        *)
ReadAudio ==
  /\ zip.phase = "read" /\ zip.data < size[zip.audio]
  /\ IF zip.data + 1 <= ZipMaximum
     THEN /\ out' = Append(out, Data(AudioName(zip.audio), 1))
          /\ zip' = [zip EXCEPT !.data = @ + 1, !.offset = @ + 1]
     ELSE Destroyed
  /\ UNCHANGED <<route, store, get, cues>>

AudioEnds ==
  /\ zip.phase = "read" /\ zip.data = size[zip.audio]
  /\ LET descriptor == Descriptor(AudioName(zip.audio), zip.data)
     IN /\ out' = Append(out, descriptor)
        /\ zip' = [zip EXCEPT !.phase = "write", !.audio = None,
             !.offset = @ + descriptor.bytes,
             !.central = Append(@, Noted(AudioName(zip.audio), zip.at, zip.data))]
  /\ UNCHANGED <<route, store, get, cues>>

(* The central directory, header by header, and the footer, whose fields   *)
(* must hold its numbers.                                                  *)
EntriesEnd ==
  /\ zip.phase = "next" /\ zip.left = {}
  /\ zip' = [zip EXCEPT !.phase = "central", !.start = zip.offset]
  /\ UNCHANGED <<route, store, out, get, cues>>

WriteCentral ==
  /\ zip.phase = "central" /\ zip.headers < Len(zip.central)
  /\ LET header == Central(zip.central[zip.headers + 1])
     IN /\ out' = Append(out, header)
        /\ zip' = [zip EXCEPT !.headers = @ + 1, !.offset = @ + header.bytes]
  /\ UNCHANGED <<route, store, get, cues>>

WriteFooter ==
  /\ zip.phase = "central" /\ zip.headers = Len(zip.central)
  /\ IF zip.start <= ZipMaximum /\ zip.offset - zip.start <= ZipMaximum
     THEN /\ out' = Append(out, Footer(zip.headers, zip.offset - zip.start, zip.start))
          /\ zip' = [zip EXCEPT !.phase = "ended"]
     ELSE Destroyed
  /\ UNCHANGED <<route, store, get, cues>>

Export ==
  \/ ExportStarts \/ WriteEntry \/ ListRecordings \/ OpenRecording \/ FindMedia
  \/ NextRecording \/ WriteAudioHeader \/ OpenAudio \/ ReadAudio \/ AudioEnds
  \/ EntriesEnd \/ WriteCentral \/ WriteFooter

---------------------------------------------------------------------------
(* GET /bff/library/:id/media.                                             *)

Invalid == <<>>
Least(a, b) == IF a <= b THEN a ELSE b

FirstByte(range, n) == IF range.first # None THEN range.first ELSE n - Least(range.last, n)
LastByte(range, n) == IF range.last # None THEN range.last ELSE n - 1

(* A range that was not cut off at the end of the file would be:           *)
Uncut(last, n) == last
CutOff(last, n) == Least(last, n - 1)

(* The first and last byte of a range of n bytes, Invalid, or all.  A range*)
(* without a first byte takes its number for the last byte as well.        *)
parseRange(range, n) ==
  IF range.kind = "none" THEN <<0, n - 1>>
  ELSE IF \/ range.kind = "malformed"
          \/ range.first = None /\ range.last = None
          \/ LastByte(range, n) < FirstByte(range, n)
          \/ FirstByte(range, n) >= n
  THEN Invalid
  ELSE <<FirstByte(range, n), CutOff(LastByte(range, n), n)>>

Ranges ==
  [kind : {"none", "malformed"}, first : {None}, last : {None}] \cup
  [kind : {"bytes"}, first : {None} \cup 0 .. MaxByte, last : {None} \cup 0 .. MaxByte]

MediaRequested ==
  /\ route = "media" /\ get.phase = "idle"
  /\ \E r \in Recordings, range \in Ranges :
       LET bytes == parseRange(range, size[r])
       IN get' = IF ~HasMedia(r) THEN [get EXCEPT !.phase = "done", !.of = r, !.code = 404]
                 ELSE IF bytes = Invalid
                 THEN [get EXCEPT !.phase = "done", !.of = r, !.range = range, !.code = 416]
                 ELSE [phase |-> "open", of |-> r, range |-> range, bytes |-> bytes,
                       code |-> IF range.kind = "none" THEN 200 ELSE 206]
  /\ UNCHANGED <<route, store, zip, out, cues>>

(* The answer's head is out when the file is opened.                       *)
MediaStreams ==
  /\ get.phase = "open"
  /\ get' = [get EXCEPT !.phase = IF get.of \in files THEN "done" ELSE "broken"]
  /\ UNCHANGED <<route, store, zip, out, cues>>

---------------------------------------------------------------------------
(* GET /bff/library/:id/captions.vtt.                                      *)

vttTimestamp(ms) ==
  <<ms \div 3600000, (ms % 3600000) \div 60000, (ms % 60000) \div 1000, ms % 1000>>

Most(a, b) == IF a >= b THEN a ELSE b

captionsVtt(segments, duration) ==
  IF segments # <<>>
  THEN [i \in DOMAIN segments |->
          <<vttTimestamp(segments[i][1]), vttTimestamp(Most(segments[i][2], segments[i][1] + 1))>>]
  ELSE <<<<vttTimestamp(0), vttTimestamp(Most(duration * 1000, 1))>>>>

(* What a client describes a recording with: a segment is its start, its   *)
(* end and whether its other fields are allowed ones.                      *)
Segments == ({-1} \cup Moments) \X ({-1} \cup Moments) \X BOOLEAN
Descriptions ==
  [segments : {<<>>} \cup {<<s>> : s \in Segments}, duration : {-1} \cup Durations,
   fields : BOOLEAN]

SegmentAllowed(s) == s[3] /\ s[1] >= 0 /\ s[2] >= s[1]

parseTranscriptSegments(segments) == \A i \in DOMAIN segments : SegmentAllowed(segments[i])

parseLibraryRecording(d) == d.fields /\ d.duration >= 0 /\ parseTranscriptSegments(d.segments)

(* A recording is described, saved, and its captions are asked for.        *)
CaptionsAsked ==
  /\ route = "captions" /\ cues = <<>>
  /\ \E d \in Descriptions :
       cues' = <<d, IF parseLibraryRecording(d) THEN captionsVtt(d.segments, d.duration)
                                                ELSE <<>>>>
  /\ UNCHANGED <<route, store, zip, out, get>>

---------------------------------------------------------------------------
Next ==
  \/ \E r \in Recordings : RemoveRow(r) \/ RemoveFile(r)
  \/ Export \/ MediaRequested \/ MediaStreams \/ CaptionsAsked

Spec == Init /\ [][Next]_vars

---------------------------------------------------------------------------
(* How many bytes the first n of a sequence of lengths are.                *)
Total(lengths, n) ==
  LET sum[i \in 0 .. n] == IF i = 0 THEN 0 ELSE sum[i - 1] + lengths[i]
  IN sum[n]

(* Where the i-th piece begins; how many bytes of an entry's data are out. *)
Offset(i) == Total([j \in DOMAIN out |-> out[j].bytes], i - 1)
DataBytes(name) ==
  Total([i \in DOMAIN out |->
           IF out[i].kind = "data" /\ out[i].name = name THEN out[i].bytes ELSE 0], Len(out))

(* A finished archive can be read: its footer, the last thing in it, counts*)
(* the entries and tells where the central directory is; that is all of its*)
(* headers and nothing else, and finds every entry at its local header and *)
(* tells the size of what follows.                                         *)
ArchiveReadable ==
  LET Of(kind) == {i \in DOMAIN out : out[i].kind = kind}
      footer == out[Len(out)].noted
  IN zip.phase = "ended" =>
       /\ Of("footer") = {Len(out)}
       /\ footer[1] = Cardinality(Of("local")) /\ footer[1] = Cardinality(Of("central"))
       /\ footer[2] + footer[3] = Offset(Len(out))
       /\ \A i \in 1 .. Len(out) - 1 : Offset(i) >= footer[3] <=> i \in Of("central")
       /\ \A i \in Of("local") : \E k \in Of("central") :
            /\ out[k].name = out[i].name
            /\ out[k].noted = <<Offset(i), DataBytes(out[i].name)>>

(* A finished archive holds every recording that was never removed, with   *)
(* its texts and, if the file is there, its audio; nothing else breaks it  *)
(* than a removal or the limits of the format.                             *)
ArchiveComplete ==
  LET Names == {zip.central[k].name : k \in DOMAIN zip.central}
  IN /\ zip.phase = "ended" =>
          \A r \in Recordings \ removed :
            TextNames(r) \subseteq Names /\ (r \in files => AudioName(r) \in Names)
     /\ zip.phase = "destroyed" => removed # {} \/ ~MayAdd

(* A range of the last bytes, "bytes=-N", is not answered as it is meant:  *)
(* it begins where the last N bytes do and ends with byte N, so that it is *)
(* them only when N is the whole file but for one byte, or more; and it is *)
(* refused when they are less than half of the file.                       *)
SuffixAnswered ==
  get.range.kind = "bytes" /\ get.range.first = None /\ get.range.last # None =>
    /\ get.code = 206 =>
         /\ get.bytes[1] = size[get.of] - Least(get.range.last, size[get.of])
         /\ get.bytes[2] < size[get.of]
         /\ get.bytes[2] = size[get.of] - 1 <=> get.range.last >= size[get.of] - 1
    /\ get.code = 416 => 2 * get.range.last < size[get.of] \/ size[get.of] = 0

(* The answer for a range with a first byte is the bytes asked for, within *)
(* the file; such a range is refused only when it is empty or behind the   *)
(* file, and the answer breaks off only when the recording is removed.  Of *)
(* a range without a first byte SuffixAnswered says how the code answers.  *)
RangeAnswered ==
  /\ SuffixAnswered
  /\ get.code = 206 /\ get.range.first # None =>
       /\ get.bytes[1] = get.range.first /\ get.bytes[2] < size[get.of]
       /\ get.range.last = None => get.bytes[2] = size[get.of] - 1
       /\ get.range.last # None => get.bytes[2] = Least(get.range.last, size[get.of] - 1)
  /\ get.code = 416 /\ get.range.kind = "bytes" /\ get.range.first # None =>
       \/ get.range.first >= size[get.of]
       \/ get.range.last # None /\ get.range.last < get.range.first
  /\ get.phase = "broken" => get.of \in removed

(* A caption of an accepted recording lasts, and its times read back as    *)
(* the segment's.                                                          *)
Milliseconds(t) == 3600000 * t[1] + 60000 * t[2] + 1000 * t[3] + t[4]
CaptionTrue(cue) ==
  0 <= Milliseconds(cue[1]) /\ Milliseconds(cue[1]) < Milliseconds(cue[2])
CaptionOf(cue, s) ==
  /\ Milliseconds(cue[1]) = s[1]
  /\ Milliseconds(cue[2]) = s[2] \/ (s[1] = s[2] /\ Milliseconds(cue[2]) = s[2] + 1)

CaptionsTrue ==
  cues # <<>> =>
    \A i \in DOMAIN cues[2] :
      CaptionTrue(cues[2][i])
      /\ (cues[1].segments # <<>> => CaptionOf(cues[2][i], cues[1].segments[i]))

(* What is handed out of one recording is what was asked for, ranges of    *)
(* its last bytes excepted.                                                *)
MediaTrue == RangeAnswered /\ CaptionsTrue

(* The archive of everything is one: readable, and complete.               *)
ArchiveWhole == ArchiveReadable /\ ArchiveComplete
=============================================================================
