------------------------------- MODULE MCParts -----------------------------
(***************************************************************************)
(* The small parts that share no state, for TLC: the delivery of a         *)
(* transcript into a page, the files the Library hands out, the settings   *)
(* route, the rate limit, the extension's commands, the translation of     *)
(* pasted text, and the core's session machine and proxy client.  A        *)
(* behaviour is one of them; the others stay idle, which checks each by    *)
(* itself and not their product.                                           *)
(***************************************************************************)
EXTENDS PageDelivery

CONSTANTS
  RecordingsListed, Sizes, EntriesMaximum, ZipMaximum, MaxByte, Moments, Durations,
  MaxPatches,
  Addresses, Limit, Window, MaxWindows, MaxTime,
  Ticks, MaxClock, MaxCommands, MaxChoices,
  LanguagesPicked, PartLimit, MaxMoves,
  MaxSessions,
  Calls, MaxTokens

ASSUME PartsAssumption ==
  /\ MaxSessions \in Nat /\ Ticks \in Nat
  /\ {Limit, Window, MaxWindows} \subseteq Nat \ {0}
  /\ RecordingsListed \subseteq Nat \ {0} /\ Sizes \subseteq Nat
  /\ EntriesMaximum \in Nat /\ ZipMaximum \in Nat /\ MaxByte \in Nat
  /\ Moments \cup Durations \subseteq Nat
  /\ PartLimit \in Nat \ {0} /\ {"uk", "en"} \subseteq LanguagesPicked

VARIABLES
  topic,
  route, rows, files, size, versions, removed, zip, out, get, cues,
  row, sent, first, patches,
  now, windows, admitted, dropped,
  clock, busy, commandPress, commandPressTimer, asked, stored, saves, panel, pressed,
  started, commands, choices,
  pair, saved, queue, reads, translations, result, changes,
  activeSessionId, latestSessionId, sequence, state, progress, audio, text, background,
  delivered,
  tokens, issued, refreshTask, spent, call, read, held, attempts, logout, overtaken

W(n, ends) == [length |-> n, ends |-> ends]
Texts ==
  {<<W(1, TRUE), W(1, TRUE), W(3, FALSE)>>, <<W(1, FALSE), W(1, TRUE), W(1, FALSE)>>,
   <<W(3, FALSE), W(1, TRUE), W(4, FALSE)>>, <<W(6, FALSE), W(1, FALSE)>>, <<W(4, FALSE)>>}

Files == INSTANCE LibraryFiles WITH Recordings <- RecordingsListed
Settings == INSTANCE SettingsRoutes
Rate == INSTANCE RateLimit
Commands == INSTANCE DictationCommands WITH
  Window <- Ticks, MaxTime <- MaxClock, now <- clock, phase <- busy
Paste == INSTANCE PastedTranslation WITH
  Languages <- LanguagesPicked, Limit <- PartLimit, row <- saved, choices <- changes
Machine == INSTANCE SessionMachine WITH stage <- progress
Client == INSTANCE ProxyClient

files_ == <<route, rows, files, size, versions, removed, zip, out, get, cues>>
settings_ == <<row, sent, first, patches>>
rate_ == <<now, windows, admitted, dropped>>
commands_ ==
  <<clock, busy, commandPress, commandPressTimer, asked, stored, saves, panel, pressed, started,
    commands, choices>>
paste_ == <<pair, saved, queue, reads, translations, result, changes>>
machine_ ==
  <<activeSessionId, latestSessionId, sequence, state, progress, audio, text, background,
    delivered>>
client_ ==
  <<tokens, issued, refreshTask, spent, call, read, held, attempts, logout, overtaken>>

FilesIdle ==
  route = 0 /\ rows = 0 /\ files = 0 /\ size = 0 /\ versions = 0 /\ removed = 0 /\ zip = 0
  /\ out = 0 /\ get = 0 /\ cues = 0
SettingsIdle == row = 0 /\ sent = 0 /\ first = 0 /\ patches = 0
RateIdle == now = 0 /\ windows = 0 /\ admitted = 0 /\ dropped = 0
CommandsIdle ==
  clock = 0 /\ busy = 0 /\ commandPress = 0 /\ commandPressTimer = 0 /\ asked = 0 /\ stored = 0
  /\ saves = 0 /\ panel = 0 /\ pressed = 0 /\ started = 0 /\ commands = 0 /\ choices = 0
PasteIdle ==
  pair = 0 /\ saved = 0 /\ queue = 0 /\ reads = 0 /\ translations = 0 /\ result = 0 /\ changes = 0
MachineIdle ==
  activeSessionId = 0 /\ latestSessionId = 0 /\ sequence = 0 /\ state = 0 /\ progress = 0
  /\ audio = 0 /\ text = 0 /\ background = 0 /\ delivered = 0
ClientIdle ==
  tokens = 0 /\ issued = 0 /\ refreshTask = 0 /\ spent = 0 /\ call = 0 /\ read = 0 /\ held = 0
  /\ attempts = 0 /\ logout = 0 /\ overtaken = 0

PartInit ==
  /\ topic \in {"page", "files", "settings", "rate", "commands", "paste", "machine", "client"}
  /\ Init
  /\ IF topic = "files" THEN Files!Init ELSE FilesIdle
  /\ IF topic = "settings" THEN Settings!Init ELSE SettingsIdle
  /\ IF topic = "rate" THEN Rate!Init ELSE RateIdle
  /\ IF topic = "commands" THEN Commands!Init ELSE CommandsIdle
  /\ IF topic = "paste" THEN Paste!Init ELSE PasteIdle
  /\ IF topic = "machine" THEN Machine!Init ELSE MachineIdle
  /\ IF topic = "client" THEN Client!Init ELSE ClientIdle

PartNext ==
  /\ UNCHANGED topic
  /\ (topic = "page" /\ Next) \/ (topic # "page" /\ UNCHANGED vars)
  /\ (topic = "files" /\ Files!Next) \/ (topic # "files" /\ UNCHANGED files_)
  /\ (topic = "settings" /\ Settings!Next) \/ (topic # "settings" /\ UNCHANGED settings_)
  /\ (topic = "rate" /\ Rate!Next) \/ (topic # "rate" /\ UNCHANGED rate_)
  /\ (topic = "commands" /\ Commands!Next) \/ (topic # "commands" /\ UNCHANGED commands_)
  /\ (topic = "paste" /\ Paste!Next) \/ (topic # "paste" /\ UNCHANGED paste_)
  /\ (topic = "machine" /\ Machine!Next) \/ (topic # "machine" /\ UNCHANGED machine_)
  /\ (topic = "client" /\ Client!Next) \/ (topic # "client" /\ UNCHANGED client_)

PartSpec ==
  PartInit /\ [][PartNext]_<<topic, vars, files_, settings_, rate_, commands_, paste_,
                             machine_, client_>>

(* What the Library hands out is whole, the archive of everything and the  *)
(* bytes and captions that were asked for: LibraryFiles.                   *)
ArchiveWhole == topic = "files" => Files!ArchiveWhole
MediaTrue == topic = "files" => Files!MediaTrue

(* What the server's settings route accepts is kept: SettingsRoutes.       *)
SettingsKept == topic = "settings" => Settings!SettingsKept

(* The server's rate limit lets through no more than twice itself:         *)
(* RateLimit.                                                              *)
RateKept == topic = "rate" => Rate!AtMostTwiceTheLimit

(* The extension records what its commands and choices say:                *)
(* DictationCommands.                                                      *)
CommandsAsChosen == topic = "commands" => Commands!CommandsAsChosen

(* Pasted text is translated whole, for the last request, in a pair of two *)
(* languages: PastedTranslation.                                           *)
PasteTranslated == topic = "paste" => Paste!PasteTranslated

(* The core's session machine shows and delivers the newest session, and   *)
(* its client of the proxy uses its tokens as one, whatever calls, stops   *)
(* and logouts coincide: SessionMachine, ProxyClient.                      *)
CoreKeepsInStep ==
  /\ topic = "machine" => Machine!MachineFollowsLatest
  /\ topic = "client" => Client!TokensKeptTogether
=============================================================================
