# Diduny: a TLA+ verification project

Diduny turns speech into text. A browser (the web app or the Chrome extension)
records audio, streams it to a small server of the user's own (the BFF,
`server.ts` and `src/server/`), and the BFF relays it to a transcription and
sign-in service (the proxy). The BFF keeps the user's tokens and a library of
recordings. This directory models the parts of that system whose correctness
depends on order: who calls whom while something else is still under way, what
fails half-way, what a restart leaves behind.

Paths below are relative to the root of the repository.

## Inventory

| Part | State it keeps | Operations | Talks to | What makes it hard |
|---|---|---|---|---|
| Live dictation session, `src/core/realtime-session.ts`, `web/src/realtime.ts` | one socket, a pre-ready audio buffer, the transcript, six timers, reconnect count | `sendAudio`, `finalize`, `close`, socket events, timer callbacks | recorder above, relay below | reconnects and the closing handshake against timers; a timer whose handle is lost |
| Realtime relay, `src/server/realtime-relay.ts` | sessions reserved and active, a socket count, per connection two sockets and a frame buffer | `authorizeUpgrade`, `connect`, socket handlers, the awaited `checkUsage` | browser, proxy, session store | two connections of one session; clients leaving during an await; late events |
| Request relay and refresh, `src/server/relay.ts`, `refreshSession` and `logout` in `server.ts` | refreshes in flight | relay, refresh, logout | session store, proxy | concurrent 401s, logout against refresh, single-use refresh tokens |
| Session stores, `src/server/session-store.ts` | rows of encrypted tokens | create, get, set, delete | – | restart |
| Recording library, `src/server/library-store.ts` and its routes | rows, media and `.upload` files, pending saves, policies | POST and PUT of a recording, removal, retention sweep, reconcile | file system, SQLite | no transaction spans files and rows |
| What the Library hands out, `server/zip.ts`, export, media and caption routes | one streamed archive or answer | export, range, captions | store, file system | removals while bytes are on their way, offsets |
| Settings route, `server.ts`, `core/settings.ts`, `core/shortcuts.ts` | one row of settings | validate, merge, normalise | store | validation and normalisation that disagree |
| Rate limiting, `server.ts` | table of windows | a hook on each request | – | late and early requests, eviction at the limit |
| Service worker, `entrypoints/background.ts` | recording state and mode, start generation, delivery session, completed and persisted sources | start, stop, discard, messages, commands | offscreen document, panel, pages | messages between awaits, worker restarts |
| Offscreen recorder, `entrypoints/offscreen/main.ts` | pipelines | start, stop, discard | service worker, live session, scratch storage, library | stop or discard during start |
| Side panel, `entrypoints/sidepanel` | mirrored state, transcript and its stored draft, preferences | start, stop, Logout, choices | service worker, BFF | results after Logout, panels closed and opened |
| Delivery into pages, `lib/delivery` | target field and caret in the page, delivery session in the worker | note, insert, clear | pages | the page changes between Start and result |
| Shortcuts, `lib/commands` | last press and its timer | presses, start, stop | service worker | a late timer against the next press |
| Web capture, `web/src/App.tsx`, `capture.ts` | the capture, UI state, upload | start, hold, finish, cancel, recover, sign in and out | live session, lock, scratch storage, library | background save, cancel and recovery overlapping |
| Recording lock, `web/src/recording-lock.ts` | a lock shared by tabs | acquire, release | – | tabs that crash |
| Scratch storage, `web/src/scratch-storage*.ts` | files of each recording, open handles | start, append, complete, discard, recover | – | crash anywhere, recovery of live recordings |
| Panes of the web app, `LibraryPane.tsx`, `SettingsPane.tsx`, `invalidation.ts` | list, detail, snapshot of the settings | read, page, save, delete, tell the other tabs | routes, other tabs | tabs that change the same thing, refused reads |
| Translation of pasted text, `translation.ts`, `App.tsx` | the pair of languages, one request | cut, translate, choose, read the pair again | service, settings route | three writers of the pair, the limit of a part |
| Session machine of the core, `core/session-machine.ts` | active and latest session, state, background tasks | start, stop | its ports | stops that overlap the next session (only its tests use it) |
| Proxy client of the core, `core/proxy-api-client.ts` | a token store, the refresh under way | calls, refresh, logout | its ports | calls that share a refresh (only its tests use it) |
| Former WebSocket client | – | – | – | unused |
| Layout, texts, sign-in forms, start-up, mock proxy | – | – | – | out of scope: presentation, I/O, tooling |

What makes each of the modelled parts correct is stated as properties in its
module; `PROJECT.json` lists the hazards they are aimed at, those without a
property included.

## Plan

Done, in this order:

1. `TranscriptResult` (abstract) and `RealtimeSession`, with `RealtimeSessionProofs`.
2. `RealtimeRelay`, with `RealtimeRelayProofs`.
3. `SessionRefresh`, with `SessionRefreshProofs`.
4. `RecordingLibrary` (abstract) and `LibraryStore`, with `LibraryStoreProofs`.
5. `ExtensionRecording`: service worker, offscreen document, panel, permission
   page and pages exchanging messages, with `ExtensionRecordingProofs`.
6. `WebCapture`: web capture, lock between tabs and scratch storage composed,
   with `WebCaptureProofs`.
7. `Workspace`: the panes of several tabs over the store, with invalidation, and
   `WorkspaceProofs`.
8. The parts without shared state: `PageDelivery`, `LibraryFiles`,
   `SettingsRoutes`, `RateLimit`, `DictationCommands`, `PastedTranslation`,
   `SessionMachine`, `ProxyClient`, composed by `MCParts`, with `PartsProofs`.

Left, should the project go on: a torn manifest in the scratch storage; several
panels and settings pages at once; abstract specifications of the two recorders,
as `LibraryStore` has one.

Bounds are one or two of everything that competes (requests, sockets, logouts,
uploads, tabs, recordings) and one more than a limit where a limit matters.

## Modules

### TranscriptResult and RealtimeSession

`TranscriptResult` says what a recorder is promised: tokens are shown once and
in order, the session is settled at most once, a resolved session has shown
everything and its text is exactly the final tokens, and nothing is shown after
that. A rejected or abandoned session may still show tokens it had heard.

`RealtimeSession` is the class method by method. JavaScript runs a callback to
its end, so each call, socket event and timer callback is one action.
`socket` and `wire` separate the session's reference to its WebSocket from the
life of that WebSocket: `fail` and `close` drop the reference at once, the close
event comes later. `connection` is the generation that makes events of an older
socket void; since a new socket is opened only after the old one's close event,
one `wire` is enough. `timers` is the set of timers the session holds a handle
of; `strayTokenTimers` counts the token timers that still run although their
handle was overwritten (`flushTokenUpdates` forgets it). Delays are abstracted:
any armed timer may fire at any moment, which covers every clock. `flushing` is
not a variable: the flush is a synchronous loop and `WebSocket.send` calls
nothing back. A message with several tokens is several `TokenMessage` steps.

| Code | Action |
|---|---|
| `start`, `openSocket` | `Init`, `ReconnectFires` |
| `sendAudio`, `queue` | `SendAudioNow`, `QueueAudio` |
| `finalize`, `sendFinalizeControl` | `Finalize`, `ProxyReady`, `ControlFires` |
| `handleMessage` | `ProxyReady`, `Rejected`, `TokenMessage`, `FinishedMessage` |
| `handleClose` | `SocketClosed` |
| `complete`, `fail`, `close` | `Complete`, `Fail` (in the actions that call them), `Close` |
| timer callbacks | `WatchdogFires`, `ReconnectFires`, `ControlFires`, `TimeoutFires`, `QuietFires`, `TokenTimerFires`, `StrayTokenTimerFires` |

### RealtimeRelay

One upgrade request is one possible connection. `stage` is where its handler
stands: reserved, connected and waiting for the usage answer (`usage`), for the
configuration (`config`), or past both. `downstream` and `upstream` are the
`readyState`s of the two sockets; closing a socket and its close event are
different steps, and other events may come in between. `LoseUpgrade` is a
reservation whose connection never arrives; its session stays reserved, as in
the code. Frames have one size and `bufferedAmount` may have any value once the
upstream socket has opened. Not modelled: forwarding from the proxy to the
browser and the log entry for a changed feature flag.

### SessionRefresh

The tokens of a session are numbered by the refresh that issued them, 0 is no
session. Both stores answer synchronously, so between two network calls a
handler is one action; the continuations that run when a shared refresh settles
(the joined requests and the logouts that waited) run with it, and a waiting
logout deletes the session before anything else happens. `presented` records
the refresh tokens sent to the auth service. `attempts` records the tokens each
request went upstream with; `body` whether it can be sent again. `Restart` loses
all but the store.

### RecordingLibrary and LibraryStore

`RecordingLibrary` says what a browser may believe: a recording is one thing, it
appears whole by an upload that is under way, disappears whole when it is
deleted, and an upload is answered once, by what became of its recording. In
`LibraryStore` the recording is a row and a file, each with its own steps. The
refinement (`ImplementsLibrary`) shows the rows as the recordings listed and the
rows with their audio file as those that can be played; writing, moving,
unlinking and clearing away happen behind the row and are stutters. `Told` is
what an upload has heard so far.

One failure breaks the promise, and both modules say so: `saveStaged` reads the
row back after its commit and inside the same `try` (library-store.ts:409-415).
When that `open` throws, the audio is unlinked, the row stays and the upload is
answered with an error. Such recordings are `misread` in `LibraryStore`
(`ReadBackFails`) and `spoilt` in `RecordingLibrary`, where they may fall silent
(`Silence`) and their upload is refused; every other recording keeps its audio.

A recording is named by the PUT that saves it. A file system call ends a step;
database calls are synchronous and belong to the step that makes them. `put` is
the position of the handler: streaming to the `.upload` file, moving it,
inserting, unwinding, answering. `doomed` are removed rows whose files are still
to be unlinked. `stranded` (a history variable) are files a failed unlink or a
restart left behind. A restart is one of the process: the database runs with
`synchronous = NORMAL`, so a power failure may lose more. `Reconcile` runs with
nothing else under way because the tests, its only caller, run it so; the race
it would otherwise have is a hazard without a property. `save()` has no caller
outside the tests and is left out. A `DELETE`, a batch and a retention sweep are
all `Remove` of some set of rows.

### ExtensionRecording

A recording r goes through `stage[r]`: asked for, opening, live, collecting,
transcribing, saving, reporting, and done, failed or killed. `bg` is what the
service worker keeps in memory; `Restart` rebuilds it from the existence of the
offscreen document, while `field` (the delivery session) survives in
`chrome.storage`. `start` is where `startRecording` waits: for the session, the
page, the microphone grant, the document, the tab's stream. Whatever comes while
it waits (a stop, a discard, a closed permission tab, a restart) is a step of its
own. Messages between the extension's own parts take no time: they are heard in
the action that sends them. Only network, page, user, microphone, recorder and
scratch files make a handler wait. The panel has its mirrored state, its
transcript and the draft it stores; the session is the BFF's, and the web app may
end or renew it without the extension.

| Code | Action |
|---|---|
| `startRecording` | `StartRequested`, `SameLanguage`, `SessionMissing`, `SessionKnown`, `PagePrepared`, `MicrophoneAnswered`, `DocumentCreated`, `CaptureRequested`, `StartFails` |
| `stopRecording`, `stopCapture` | `StopRecording` (with `Collect`) |
| `startCapture`, `createPipeline` | `ScratchStarts`, `CaptureOpens`, `CaptureFails` |
| the end of a tab's stream, the offscreen document's work after a stop | `TabStreamEnds`, `Collected`, `CollectFails`, `Transcribed`, `Saved`, `ReportTranscript`, `ReportEnd` |
| `deliverTranscript` | `PageAnswers` |
| the panel's Logout, `discardRecording`, `discardCapture` | `LogoutRequested`, `LogoutWithoutCapture`, `PipelineDiscarded`, `DiscardEnds`, `LogoutEnds` |

### WebCapture

One browser with several tabs: `captureRef`, `lock` and `scratch` are the app's
reference, the lock of `recording-lock.ts` and the files of
`scratch-storage.worker.ts`. `stage[r]` is where `startCapture`, `finishCapture`
or `cancelCapture` stands for recording r; `saving[r]` is the save behind the
text, which nothing waits for; `recovering[t]` what the recovery of a tab has
still to do, and how much of each recording it found. A microphone counts as
open from its request until its tracks are stopped, the stages of finishing
included. `catching` are failed starts whose files are still being discarded. A
recorder that does not start fails when its capture is the active one already,
and is not reset: such a recording goes through the stages `Leftover` (`broken`,
and then `clearing` or `dropping` once it is finished or cancelled).
`scratch[r]` counts the pieces of PCM and notes whether the recorder's own
stream (`webm`) holds audio; an entry `<<r, n>>` of `library` is recording r
with n pieces of it, so that a snapshot is not taken for the whole.
`CleanupRaces` lets a clean-up that frees the lock run beside a recording of its
tab that needs it: a change of language while one starts, is cancelled or is
finished, and the second discard of a failed start beside the next start.
`Close` ends a tab at any point, by the user or by a crash: the browser frees
its lock and its file handles, its promises are gone, its files stay. `early`
(in `scratch`, a history variable) marks a recording that a tab recovered before
it was over, and `abandoned` (history) records who gave a recording up. The
settings that carry the interface language are read at sign-in and whenever a
tab tells of a change.

### Workspace

A request of a tab is served at any time after it is sent. A browser sends the
requests of a tab over several connections, and the handlers await before they
read the store, so a request or its answer may go past those sent before it
(`Overtake`). Only the detail view ignores an answer that is stale. `overtaken`
notes that it has happened: what shows is promised to be current only until then.
`view`,
`selected`, `page`, `detail` and `snapshot` are what the panes show; a pane that
goes leaves its requests unread (`shown`). `Told` is `invalidateWorkspace`:
which tabs read again after which answer. `GrowOld` and `sweepRetention` are the
sweeper of the store; a recording grows old only under a policy that counts
days. `lastSaved` (history) is the last value saved per section.

### The parts without shared state

- `PageDelivery`: one page with one field of each kind that
  `page-bridge.ts` tells apart (a text control, one without a selection API, an
  editing host, a Quill editor, a canvas that only looks like one). Content is
  the sequence of what was put into a field. `landed` (history) is what arrived
  where; `swallowed` what the page itself refused by cancelling `beforeinput`,
  which the bridge reports as inserted (page-bridge.ts:276); `away` whether the
  caret was moved since Start. There is one frame: of several with a focused
  field the code takes the first that answers.
- `LibraryFiles`: `writeZip` write by write with its offsets and ZIP32 limits
  (small ones here), `exportEntries` recording by recording, the media route
  with `parseRange` (a range of the last bytes, `bytes=-N`, included, which it
  does not answer as it is meant: server.ts:272-275), the captions route with the
  validation of the segments it shows. Recordings are removed, row first and then file, at any step between.
  A write is a piece: its kind, the entry it belongs to, its length and the
  numbers noted in it. The properties read the archive back from its pieces
  (`out`) alone, and not from the offsets `writeZip` keeps in `zip`.
- `SettingsRoutes`: `parseWorkspaceSettings`, `updateSettings` and
  `normalizeSettings` as functions of the kinds of values they tell apart, and
  `PATCH /bff/settings` as the only action, from a fresh row and from one an
  older version left.
- `RateLimit`: the hook as it is, on a clock that may stand still. `admitted`
  (history) is when requests were let through, `dropped` the clients whose
  window was given up for room: the code promises those nothing.
- `DictationCommands`: `nextCommandPress` and its timer, which may fire late but
  not early; preferences in storage, in the panel and on their way; what a
  command records.
- `PastedTranslation`: `translationChunks` over texts of words with lengths, the
  request part by part (the button is off while one is under way), and the three
  writers of the pair: the pickers with their saves, another tab's save, and the
  settings read again after every change that a tab tells of, or not read, which
  shows Ukrainian and English (App.tsx:560-577). Saves are served and answered
  in any order, as are reads, so the pair shown need not be the one stored.
- `SessionMachine`: starts, and stops that wait for the audio and the text while
  the next session begins.
- `ProxyClient`: calls, their shared refresh and a logout, over a token store
  that answers when it likes. A refresh that begins between the two awaits of
  `logout` can write its tokens after they were cleared: `overtaken` marks that
  case, and `LoggedOut` is stated for all others.

They share no state with each other. `MCParts` picks one of them at the start of
a behaviour and keeps the others still, so that one run checks each by itself
without the product of their states.

How the modules fit together: the live session of `RealtimeSession` is the
`realtime` and `transcribing` stage of the two recorders, its socket the
`downstream` of `RealtimeRelay`; the library saves of both recorders are uploads
of `LibraryStore` with the answer it gives; what `ExtensionRecording` types into
a page is one recording of `PageDelivery`; a start in it is what
`DictationCommands` asks for. These seams are not composed for TLC: each module
lets the neighbour do anything its own module allows, and more.

## Runs

| Run | Checks | Bounds, and why they are enough |
|---|---|---|
| `realtime_session` | `TypeOK`, `AudioInOrder`, `ClosingHandshake`, `NeverStalls`, `ResolvesWithWholeTranscript`, `ImplementsResult`, `FinalizeSettles` | two reconnects, three frames of which the third overflows the buffer, three tokens: a frame before, during and after a disconnect, a token in a batch, behind a stray timer and after `finished` |
| `realtime_relay` | `TypeOK`, `SlotHeldByOne`, `OneOpenClient`, `SocketsCounted`, `RelaysInOrder`, `ClientAnswered` | two upgrades of one session (sessions do not interact), three frames and room for one |
| `realtime_relay_leak` | `UpstreamFollowsClient`, violated | as above with one frame |
| `session_refresh` | `TypeOK`, `RefreshTokenUsedOnce`, `RetriesWithNewerToken`, `LoggedOutForGood`, `UnauthenticatedMeansGone`, `AllAnswered` | two requests and two logouts, two successful refreshes: each pair of handlers meets at every await |
| `library_store` | `TypeOK`, `NoForgottenFile`, `ImplementsLibrary` | two uploads of one pending save and one of another, room for one pending save. That a listed recording has its audio, that answers are true and that an answered save is not saved again (`RowHasMedia`, `AnswerIsTrue`, `SavedForGood`), a row that could not be read back excepted, is part of what `RecordingLibrary` says; they are proved below |
| `extension_recording` | `NoHiddenCapture`, `OneCapture`, `ResultOnceAndInItsOwnField` | two recordings, voice or meeting, one Logout and one restart: a start meets the end of the one before; Logout and a start do not overlap where the document opens (`LogoutRacesStart`), which is the next run |
| `extension_logout` | `LogoutEndsRecording`, violated | one recording, one Logout at any moment |
| `extension_transcript` | `LogoutLeavesNoTranscript`, violated | one recording, one Logout |
| `web_capture` | `OneCapture`, `LockFreed`, `AudioKept`, `TextOnce` | two recordings in two tabs; three page loads and two pieces of audio, or in their place one use of Hold, sign-out or change of language beside two loads and one piece: a tab can record, end, come back and meet the other, and a piece of audio comes before and one after another tab's recovery looked. Clean-ups that race (`CleanupRaces`) are kept out, see below |
| `web_language` | `OnlyTheUserAbandons`, violated | the same |
| `workspace` | `NoLostUpdate`, `ShownIsCurrent` | two tabs, two recordings (a dictation and a meeting), pages of one, two sections; the users' moves and the requests or answers that overtake others are four together |
| `parts` | `LandsOnceWhereItStarted`, `ResultFollowsTyping` | two typed pieces, two recordings, three focus changes, caret moves or page changes |
| | `ArchiveWhole` | two recordings of one and three bytes, limits of nine entries and 560 bytes, which the larger export exceeds |
| | `MediaTrue` | the same files and range numbers up to four, one past the last byte, each of them possibly missing (of a range without a first byte it says how the code answers, which is not what was asked for: `SuffixAnswered`); segments that start or end on and next to a full second, minute and hour, and durations of none and of more than a minute |
| | `SettingsKept` | every kind of accepted and refused value in two changes, on a fresh row and on an old one |
| | `RateKept` | two addresses on two paths, two windows kept of four, a limit of one, windows of two and a clock that reaches five: two full windows and what lies between |
| | `CommandsAsChosen` | three commands, two choices, a clock that reaches three and a window of two |
| | `CoreKeepsInStep` | three sessions that overlap; two calls, one logout and three token pairs, so that one call may refresh before, during and after the refresh of the other |
| | `PasteTranslated` | five texts around a limit of four characters, three moves (a text, a choice here or in another tab, a read of the settings), three languages |

Deadlock is not checked in any run: sessions end, requests are answered and
bounds are reached.

**What the runs found.** Four runs end in a violation of what the repository
says about itself:

- `realtime_relay_leak`: `closeUpstream` closes only a socket that is open. A
  client that leaves while its upstream socket is connecting releases the slot
  and the count; the socket then opens, and no handler closes it. The proxy keeps
  a connection that `/bff/health` does not count, and the same session may open
  another. `tests/bff-realtime.test.js` expects that a closed client leaves no
  upstream socket; it closes its client only after the upstream socket is open.
- `extension_logout`: `startRecording` looks at its generation once and then
  awaits the document, the stream id and `start-capture`. A Logout in between
  shows idle while the microphone records; "Logout ends the recording too", says
  `background.ts`.
- `extension_transcript`: results on their way while Logout runs join the panel's
  transcript and its stored draft; "nothing from this session stays in the panel
  or in storage", says `useTranscript.ts`.
- `web_language`: `cancelCapture` is the clean-up of an effect that depends on
  it, so a change of the interface language, from another tab or from a failed
  read of the settings, cancels a recording and discards its audio.

**What the model shows and no run claims.** The model has these too, and the
properties leave each of them out by name:

- The same clean-up, while a recording starts or is being finished, finds no
  active capture and only releases the lock (App.tsx:588-591). The microphone is
  open (its tracks are stopped at line 765), and another tab gets the lock and
  opens it as well. `OneCapture` is checked without it (`CleanupRaces`) and fails
  with it; `LockFreed` holds all the same.
- `startCapture` makes its capture the active one and then starts the recorder
  (App.tsx:918-919). If that throws, everything is cleaned up but the reference,
  and each further Start of the tab returns without a word until a Stop by the
  shortcut, a cancel or a reload. The stage `broken` is that state, and
  `OneCapture` allows it.
- `recover` takes the manifest of a recording another tab is still making for an
  interrupted one (scratch-storage.worker.ts:248), saves what is written so far,
  and removes the files if that tab was closed meanwhile (App.tsx:489): the audio
  since the snapshot is nowhere. `AudioKept` promises a recording recovered before
  it was over (`early`) no more than the part that was found.
- `recover` looks at the PCM file only and deletes an interrupted recording of
  which only the recorder's own stream holds audio (scratch-storage.worker.ts:262).
  `AudioKept` speaks of audio in the PCM file.
- A read of the settings or of the Library list answered after a later one
  overwrites what that one showed, with no request left to correct it
  (SettingsPane.tsx:303, LibraryPane.tsx:287). `ShownIsCurrent` ends where a
  request or an answer has `overtaken` another.
- The reading back of a committed recording may fail (library-store.ts:411); what
  that leaves is `misread`, and `ImplementsLibrary` has it as a case of its own.
- A range of the last N bytes is not answered as it is meant
  (server.ts:272-275); `MediaTrue` says how it is (`SuffixAnswered`).

### Fairness

- `RealtimeSession`: the browser runs an armed timer in the end (weak fairness
  of the watchdog, reconnect, control and timeout timers). Nothing is assumed of
  the network. The quiet timer may be restarted for as long as tokens come, and
  the token timer is not needed.
- `RealtimeRelay`: `proxyFetch` bounds both checks by a timeout; an attempt to
  open or to close a WebSocket ends. An open socket may stay open for ever.
- `SessionRefresh`: `proxyFetch` bounds every call of the proxy.
- `LibraryStore` and the modules after it: only safety is stated. A stalled
  upload, an unanswered page or a user who never lets a key go may stay for ever;
  the code arms no timer that would end them.

## Proofs

`RealtimeSessionProofs` proves, for every frame size, buffer size, number of
reconnects and bound on frames and tokens (`ConstantsAssumption`: naturals, the
frame size positive):

- `TypeCorrect`, `FramesInOrder`, `HandshakeInOrder`, `LiveSessionNeverStalls`,
  `WholeTranscript`: the five invariants of the run `realtime_session`;
- `SessionKeepsPromise`: `RealtimeSession` implements `TranscriptResult`.

They rest on `SessionInvariant`, the inductive `IInv`. The five invariants are
not inductive by themselves; `IInv` adds

- `Coupling`, which ties the state of a live session together: it has a socket
  exactly while the WebSocket lives, nothing waits in the buffer of a ready one,
  the finalize control is only sent to a socket while finalizing and then the
  control timer or the timeout runs, an armed control timer means that the
  control was the last message sent, a pending reconnect that there is no
  socket, and nothing has been reported yet;
- `TranscriptKept`: shown and unshown tokens together are those received, and
  the text so far lists the final ones, which is what `complete` relies on
  wherever it is called from;
- `Resolved`: what the outcome says once there is one.

One lemma per action shows that `IInv` is preserved, one conjunct at a time;
the sequence facts (appending, concatenating and counting numbered frames) are
lemmas of their own. For the refinement, each action is mapped to a step of
`TranscriptResult` or to a stutter, using `IInv` and `IInv'`.

`LibraryStoreProofs` proves, for every finite set of saves, every set of uploads
and every limit (`LibraryAssumption`), the three properties of the run
`library_store`: `TypeCorrect` (with the limit on pending saves),
`FilesAccountedFor`, and `LibraryKeepsPromise`, that `LibraryStore` implements
`RecordingLibrary`. It also proves, of the store itself, what that promise comes
to: `ListedHasAudio`, `TrueAnswers` and the action property `SavedOnce`. The
first two except the recordings of `misread`, whose audio the catch of
`saveStaged` unlinks and whose upload is answered with an error. The
inductive invariant `LibraryInvariant` adds to the types

- `Place`, which says of every upload, by the position of its handler, which of
  its `.upload` file, media file and row may exist: for instance that a file
  about to be inserted is in the library directory and not stranded, and that a
  recording with a row, now or earlier, has no `.upload` file left. Without it
  an insertion could list a recording whose file was already unlinked;
- `PendingKnown`: an upload that has started names a posted save, and one that
  was answered with success names one that is gone.

A step of one upload leaves the files of the others alone (`OtherPlaces`), so
only its own recording has to be looked at (`OwnPlace`, one case per action).

The refinement maps each action to a step of `RecordingLibrary` or to a stutter,
from the invariant: `Place` gives that an inserted recording was not listed before
and finds its file, so that it becomes listed and playable at once; `RowHasMedia`
that a row and its audio go together, but for a misread one, which is spoilt from
the step on that lists it; `PendingKnown` that an upload of a save that
was answered finds no pending save and is refused.

`RealtimeRelayProofs` proves the five safety properties of the run
`realtime_relay` for every finite set of upgrades, any sessions they carry and
any buffer limit: `TypeCorrect`, `SlotOfOne`, `OneClientOpen`, `CountTrue`,
`FramesRelayedInOrder`. `RelayInvariant` adds to the types `Slots` and
`SocketCount`, the two sets and the counter as what they stand for, and for each
connection `Connection` (a connection that is not there yet has no sockets and no
frames, an open client was not cleaned up) and `Frames` (nothing waits for an
open upstream socket; sent and waiting frames of an open client are those
received). Without `Connection` a late close event could release a slot twice.
A step of one connection leaves the others alone, but for the sets, the counter
and the stage, so that only its own parts have to be proved again.

`SessionRefreshProofs` proves the five safety properties of the run
`session_refresh` for any requests, logouts and number of token pairs:
`TypeCorrect`, `TokenPresentedOnce`, `RetriedWithNewerToken`, `LogoutLasts`,
`RefusedWhenGone`. `RefreshInvariant` adds `Tokens` (a session has the newest
tokens issued, a refresh under way presents the session's, and no presented
token is as new as those of a session at rest) and `Request`, which bounds the
attempts of each request by where it stands and orders their tokens.

`ExtensionRecordingProofs` proves, for any number of recordings, logouts and
restarts, the three safety properties of the run `extension_recording`:
`NothingHidden`, `OneAtATime` and `ResultOnce`. All three assume
`~LogoutRacesStart`, the constant that lets a Logout come while a start opens the
offscreen document. They have to: the start then goes on behind an idle worker,
which is the finding of `extension_logout`, and each of them fails.
`CaptureInvariant` says how the worker's state, the start under way and the
document belong together (`Starts`, `Document`, `Discarding`), that one recording
at most is in the document (`OneBusy`) and that it is there with no start under
way, or is the one the start asked for (`Recording`). That the worker shows
itself at work while the document exists is not inductive alone: a result of an
earlier recording, delivered so late that another is on its way, would end it.
What prevents that is that a start voids those results before it goes on, so
`persisted` is empty from then on; and a start that waited for the microphone must
be the one the state speaks of, unless it was discarded. `TextInvariant` follows
each text: nowhere before its recording reports it (`Text`), still nowhere while a
page is asked to take it (`Delivery`), and the field saved meanwhile is the one
chosen for the recording in the document.

`WebCaptureProofs` proves the four properties of the run `web_capture`
for any tabs and any number of recordings. `OneAtATime` assumes
`~CleanupRaces`: a clean-up beside a recording of its tab gives the lock of an
open microphone back, and the statement fails.
`CaptureInvariant` says that a tab has one recording under way at most, the
leftover of a failed start and the discard of its files included (`OnePerTab`);
that whatever has a microphone open, or is still being discarded after a failed
start, finds the lock at its tab (`Recording`); and that a tab's `captureRef` is a
recording of its own that runs or that failed to start, and a lock has one that
accounts for it (`Tab`). That a recording finds the lock at its tab is not kept
alone: only because a tab starts nothing while one of its own is under way does no
other path give this lock back. `LockNeverStays`, `TextEntersOnce` and
`AudioStays` assume nothing of the clean-ups: the lock does not stay, and text and
audio are as safe where it is given back too early. `LockFreed` is inductive once
the types of `TextInvariant` are known: what a tab has under way (`Pending`) ends
only in steps that give its lock back.
`TextInvariant` says that an entered text is that of a recording that is over and
was not given up, and that one given up is cancelled, discarded or over.
`AudioInvariant` says that files are there while a worker has them open, that
nothing was heard before the capture began, and that whatever is about to be
discarded was given up or is in the Library: with all of it where its own tab
saved it, with the part a recovery found where that one did. `AudioStays` promises
no more of a recording that was recovered while it went on than that part; the
rest can be lost.

`PartsProofs` proves eight of the nine properties of the run `parts`, all but
`SettingsKept`, as theorems of `PartSpec`. A behaviour of `PartSpec` is one of the
parts, so each part has an inductive invariant of its own, and `PartsInvariant`
joins them. They assume no more of the constants than `PartsAssumption`: naturals;
a limit, a window and a table of windows that are positive; recordings numbered
from one; a request of the translation that holds a character at least; and that
the pickers know the two languages the App starts with.

- `LandsWhereItStarted`, for any number of recordings, typed pieces, moves and
  pages: `DeliveryInv` couples the session in the worker, the note in the page and
  the mark on the Quill editor. They name one field as long as they belong to one
  document, and an undelivered recording has not landed anywhere. What is reported
  as inserted has landed there, or the page itself swallowed it.
- `LandsBehindTyping`, an action property: what was typed in the field since Start
  stays before the result, and a delivery takes away nothing that was not
  selected. An email input is left out of the first half: it does not tell where
  its caret is, the result goes to the caret of Start (page-bridge.ts:319-334), and
  so before what was typed since. `FollowInv` follows the page itself: a field holds no text of the
  recording under way, all that was typed in the noted field since Start is before
  its caret, an editing host that was noted keeps the selection, and the range kept
  for a control without a selection API is empty. It holds of the note only while
  the document is the same and the caret has not been moved. `SplicedSeq` says
  where the elements of a field are after a piece replaced a range of it, and
  `ShiftsInOrder` that a saved range stays one while the user types.
- `CoreInStep`, for any number of sessions, calls and token pairs. `MachineInv`
  says of the session machine that only its newest session is active or can still
  be delivered, and that whatever was delivered is done. `ClientInv` says of the proxy client that a
  complete pair in its store is the newest and unspent, that a refresh under way
  presents the pair it read, and, call by call, which pair it went out with and
  what it has read since; half a stored pair is only met by calls that go no
  further.
- `RecordsAsChosen`, for any length of the window between two presses.
  `CommandsInv` adds to the property what is not started yet: the presses behind a
  queued start, the timer of the last one, and that an open panel shows the last
  choice it has yet to save, or else what the storage holds.
- `PastedTextCutWhole`, of the algorithm alone and for every text: the parts of
  `translationChunks` fit a request and are the text, character by character.
  `splitOversizedWord` is an arithmetic of multiples of the limit (`SplitWhole`).
  The loop over the pieces needs an invariant, `SoFar`: the parts cut so far and
  what is collected are together the pieces seen, what is collected fits, and a
  sentence end is remembered at a place in it. Each turn keeps it (`FlushKeeps`,
  `FitKeeps`, `CollectKeeps`), and `CollectedWhole` follows by an induction over the
  pieces. The library's induction theorems take an operator, so the induction
  (`Inductive`, `InductiveSeq`) is proved here from the well-foundedness of the
  naturals, for sets in place of operators, and the recursive functions of the
  model are shown to exist (`CollectingExists`). The lemmas about `FlattenSeq` say
  that joining respects `\o` and may be done in two stages.
- `TranslatesAsPasted`, for any languages and limit and any number of texts (of
  those the run pastes), choices and reads. `ResultInv` follows every request,
  what it was given and what came back; since the button is off meanwhile, all but
  the last are over. `PairsInv` is about the pair: it is never one language twice
  on the page, in the store, in a save or a read on its way, whichever of its
  writers comes last. Nothing is said of whether page and store agree: a read
  answered late makes them differ.
- `RequestsLimited`, for any addresses, limit, window and size of the table.
  `RateInv` says, of every client whose window was never given up, what its window
  knows of the requests let through (`Accounts`): all of them were before its end,
  those it does not count at least a window before that, and those a whole limit
  further back two windows; without a window, a client may start afresh because
  every request is behind the clock and those a limit back a window more
  (`Afresh`). The walk that drops the windows that are over (`Live`) is a recursive
  function: that it keeps the others and only those is an induction over the table.
- `ArchiveIsOne`, for any recordings, sizes and limits of the format. `ArchiveInv`
  reads the archive from its pieces (`Laid`): every entry that is finished is
  `Closed`, that is, noted in the directory to be with the offset of its local
  header and the bytes of its data; one at most is still open; no name is used
  twice (`FreshNames`); what `writeZip` counts in `zip.offset` is the sum of the
  pieces; and the headers written so far are those of the first entries in order
  (`Directory`). A recording that was never removed is still to be read or has its
  entries (`Gathered`), and only a removal or a limit ends the export early. The
  sums (`Total`) are recursive functions, shown to exist and to grow piece by piece
  by induction; a removal between two steps changes none of them.
- `MediaAsAsked`, for any sizes and any numbers in a range: what `parseRange`
  makes of a range that names its first byte (`RangeParsed`) lies in the file and
  is what was asked for; what it makes of one of the last bytes begins where they
  do and ends elsewhere, but where the range is the whole file or misses one byte
  of it; and
  the times of a caption read back as the milliseconds of its segment
  (`TimeReadsBack`, by division with remainder, from hours down to milliseconds).

`WorkspaceProofs` proves `NothingLost`: what the store holds is, section by
section, what was saved last, whether answers overtake each other or not. The
invariant it needs is about the queues: a save under way carries its own form
and nothing else, whatever became of the pane that sent it.

It also proves `QuietTabsAreCurrent`, that is, `ShownIsCurrent` with its
condition that nothing was `overtaken`: the code does not see to the order of
the answers, and without it the statement is false. While requests are under way
a pane may show what is out of date, so the invariant looks ahead (`Fine`):
either the queues hold an answer on which some tab will tell this one to read
again (`Tells`), or what the tab's own requests will show is what the store
holds (`Right`): in each pane an answer that has come is right unless a later
one overwrites it, and what shows now is right unless a read will overwrite it
or one failed. What makes an overwritten answer safe is the order in `Settled`:
requests are served and answered in order, a recording opened after others asks
for itself last, and a title or a deletion whose view is gone is followed by the
read of the view that took its place. A page of the list holds recordings of the
store since every place in it is taken (`PlacesTaken`, by counting newer
recordings).

Only model-checked: the liveness properties (`FinalizeSettles`,
`ClientAnswered`, `AllAnswered`, `UpstreamFollowsClient`), since liveness under
fairness is out of the prover's reach; and `SettingsKept`. The latter is a pure
computation on values the model lists one by one, with the selections and folds of
the libraries, which take operators as parameters that the provers cannot
instantiate. Its only constant bounds the number of changes; TLC evaluates every
kind of value after every other, which is the whole of the property.

## Not modelled

Delays and clock values (timers fire in any order; `RateLimit` and
`DictationCommands` count ticks), the content of audio, text and configuration,
encryption, the parsing of headers and queries, transcript versions, the search
index and the statistics of the library, sign-in, layout and texts of the user
interface, streamed partial tokens in the panel, levels and picture-in-picture.
The former WebSocket client is not imported by any module.
`PROJECT.json` lists each part with its reason, and under
`hazards` what no property covers.
