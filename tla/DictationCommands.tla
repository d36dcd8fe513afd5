------------------------- MODULE DictationCommands -------------------------
(***************************************************************************)
(* What the extension records when it is told to: the keyboard commands of *)
(* the service worker (entrypoints/background.ts, lib/commands), where one *)
(* or two presses mean a dictation and three a meeting, and the choices of *)
(* the side panel they are recorded with (lib/recording-preferences.ts,    *)
(* hooks/useRecording.ts).  What becomes of a recording is a matter of     *)
(* ExtensionRecording; here it only keeps the worker busy.                 *)
(*                                                                         *)
(* One side panel is open at a time, and it may be in any mode.  Timers    *)
(* fire late but never early.                                              *)
(***************************************************************************)
EXTENDS Integers, Sequences, FiniteSets

CONSTANTS
  Window,           (* ticks within which another press belongs to the last *)
  MaxTime,          (* bound on the clock                                   *)
  MaxCommands,      (* bound on commands and clicks on Start                *)
  MaxChoices        (* bound on choices made and panels opened              *)

VARIABLES
  now,
  phase,            (* of the worker: idle, starting, recording, processing *)
  commandPress,     (* the last press that may still be followed by another *)
  commandPressTimer,(* when the timer is due, or None                       *)
  asked,            (* starts on their way, some reading the preferences    *)
  stored, saves,    (* the preferences in storage, those being written      *)
  panel,            (* closed, loading or open; and its choices             *)
  pressed,          (* the last three presses of the dictation key: when    *)
  started,          (* the last recording begun                             *)
  commands, choices

keys == <<commandPress, commandPressTimer, pressed>>
preferences == <<stored, saves, panel, choices>>
vars == <<now, phase, keys, asked, preferences, started, commands>>

None == -1
NoPress == [at |-> None, count |-> 0]

SpokenLanguages == {"uk", "en", "uk,en"}
TranslationTargets == {"en", "uk"}
Modes == {"voice", "translation", "meeting"}

Preferences(language, target) == [language |-> language, target |-> target]
Default == Preferences("uk", "en")
NoPreferences == Preferences("", "")
NoRecording ==
  [language |-> "uk", target |-> "", asShown |-> TRUE]

---------------------------------------------------------------------------
(* lib/recording-preferences.ts.                                           *)

oneOf(value, allowed, fallback) == IF value \in allowed THEN value ELSE fallback

otherTarget(language) == IF language = "en" THEN "uk" ELSE "en"

parseRecordingPreferences(p) ==
  LET language == oneOf(p.language, SpokenLanguages, Default.language)
      target == oneOf(p.target, TranslationTargets, Default.target)
  IN Preferences(language, IF target = language THEN otherTarget(language) ELSE target)

(* A swap that forgot that one may speak two languages at once would be:   *)
withSpokenLanguageSwapped(p, language) ==
  IF language # p.target THEN [p EXCEPT !.language = language]
                         ELSE [p EXCEPT !.language = language, !.target = p.language]

withSpokenLanguage(p, language) ==
  IF language # p.target THEN [p EXCEPT !.language = language]
  ELSE [p EXCEPT !.language = language,
                 !.target = oneOf(p.language, TranslationTargets, otherTarget(language))]

withTranslationTarget(p, target) ==
  IF target = p.language THEN [p EXCEPT !.language = p.target, !.target = target]
                         ELSE [p EXCEPT !.target = target]

(* What the storage may hold: nothing, choices of this version, or others. *)
Init ==
  /\ now = 0 /\ phase = "idle"
  /\ commandPress = NoPress /\ commandPressTimer = None
  /\ asked = <<>>
  /\ stored \in {NoPreferences, Preferences("en", "en"), Preferences("uk,en", "en")}
  /\ saves = <<>> /\ panel = [phase |-> "closed", chosen |-> Default]
  /\ pressed = <<None, None, None>> /\ started = NoRecording /\ commands = 0 /\ choices = 0

---------------------------------------------------------------------------
(* The side panel.                                                         *)

Choice == choices < MaxChoices /\ choices' = choices + 1

(* Choices are saved when they change, once the saved ones are loaded.     *)
Choose(p) ==
  /\ panel' = [panel EXCEPT !.chosen = p]
  /\ saves' = IF panel.phase = "open" /\ p # panel.chosen THEN Append(saves, p) ELSE saves

PanelOpens ==
  /\ panel.phase = "closed" /\ Choice
  /\ panel' = [phase |-> "loading", chosen |-> Default]
  /\ UNCHANGED <<now, phase, keys, asked, stored, saves, started, commands>>

PanelLoads ==
  /\ panel.phase = "loading"
  /\ LET p == parseRecordingPreferences(stored)
     IN panel' = [phase |-> "open", chosen |-> p] /\ saves' = Append(saves, p)
  /\ UNCHANGED <<now, phase, keys, asked, stored, choices, started, commands>>

PanelCloses ==
  /\ panel.phase # "closed" /\ panel' = [phase |-> "closed", chosen |-> Default]
  /\ UNCHANGED <<now, phase, keys, asked, stored, saves, choices, started, commands>>

UserChooses ==
  /\ panel.phase # "closed" /\ Choice
  /\ \/ \E l \in SpokenLanguages : Choose(withSpokenLanguage(panel.chosen, l))
     \/ \E l \in TranslationTargets : Choose(withTranslationTarget(panel.chosen, l))
  /\ UNCHANGED <<now, phase, keys, asked, stored, started, commands>>

saveRecordingPreferences ==
  /\ saves # <<>> /\ stored' = Head(saves) /\ saves' = Tail(saves)
  /\ UNCHANGED <<now, phase, keys, asked, panel, choices, started, commands>>

---------------------------------------------------------------------------
(* The keyboard commands and the panel's button.                           *)

Command == commands < MaxCommands /\ commands' = commands + 1
CanStart == phase = "idle"

Ask(key, mode, p) ==
  asked' = Append(asked, [key |-> key, mode |-> mode, chosen |-> p,
                          at |-> IF key = "dictation" THEN now ELSE None])

nextCommandPress ==
  IF commandPress.count > 0 /\ now - commandPress.at <= Window
  THEN [at |-> now, count |-> commandPress.count + 1] ELSE [at |-> now, count |-> 1]

(* Every command, and the panel's button, stops a running recording.       *)
StopRecording ==
  /\ Command /\ phase = "recording" /\ phase' = "processing"
  /\ UNCHANGED <<now, keys, asked, preferences, started>>

(* On the web app's tab a press is handed back to the page, and while a    *)
(* start or a result is under way it counts for nothing: no step here.     *)
handleDictationCommandPress ==
  /\ Command /\ CanStart /\ pressed' = <<pressed[2], pressed[3], now>>
  /\ IF nextCommandPress.count >= 3
     THEN /\ commandPress' = NoPress /\ commandPressTimer' = None
          /\ Ask("dictation", "meeting", NoPreferences)
     ELSE /\ commandPress' = nextCommandPress /\ commandPressTimer' = now + Window
          /\ UNCHANGED asked
  /\ UNCHANGED <<now, phase, preferences, started>>

CommandPressTimer ==
  /\ commandPressTimer # None /\ now >= commandPressTimer
  /\ commandPress' = NoPress /\ commandPressTimer' = None
  /\ IF CanStart THEN Ask("dictation", "voice", NoPreferences) ELSE UNCHANGED asked
  /\ UNCHANGED <<now, phase, pressed, preferences, started, commands>>

ModeCommand ==
  /\ Command /\ CanStart
  /\ \E mode \in {"translation", "meeting"} : Ask("command", mode, NoPreferences)
  /\ UNCHANGED <<now, phase, keys, preferences, started>>

(* The panel starts with what it shows.                                    *)
PanelStarts ==
  /\ Command /\ CanStart /\ panel.phase # "closed"
  /\ \E mode \in Modes : Ask("panel", mode, panel.chosen)
  /\ UNCHANGED <<now, phase, keys, preferences, started>>

commandRecording(a) ==
  LET p == IF a.chosen = NoPreferences THEN parseRecordingPreferences(stored) ELSE a.chosen
      shown == panel.phase = "open" /\ saves = <<>> /\ a.key # "panel"
  IN [language |-> p.language, target |-> IF a.mode = "translation" THEN p.target ELSE "",
      asShown |-> shown => p = panel.chosen]

(* startRecording, when the preferences are read: another start may be     *)
(* under way by then; a translation into itself is refused.                *)
startRecording(i) ==
  /\ asked' = SubSeq(asked, 1, i - 1) \o SubSeq(asked, i + 1, Len(asked))
  /\ LET recording == commandRecording(asked[i])
     IN IF ~CanStart \/ recording.target = recording.language
        THEN UNCHANGED <<phase, started>>
        ELSE /\ phase' = "starting" /\ started' = recording
  /\ UNCHANGED <<now, keys, preferences, commands>>

(* The recording goes on, fails or ends.                                   *)
Progress ==
  /\ \/ phase = "starting" /\ phase' \in {"recording", "idle"}
     \/ phase \in {"recording", "processing"} /\ phase' = "idle"
  /\ UNCHANGED <<now, keys, asked, preferences, started, commands>>

Tick ==
  /\ now < MaxTime /\ now' = now + 1
  /\ UNCHANGED <<phase, keys, asked, preferences, started, commands>>

Next ==
  \/ PanelOpens \/ PanelLoads \/ PanelCloses \/ UserChooses \/ saveRecordingPreferences
  \/ StopRecording \/ handleDictationCommandPress \/ CommandPressTimer
  \/ ModeCommand \/ PanelStarts \/ Progress \/ Tick
  \/ \E i \in DOMAIN asked : startRecording(i)

Spec == Init /\ [][Next]_vars

---------------------------------------------------------------------------
(* No choice, however it came about, translates a language into itself or  *)
(* into something that is no target, so no start is refused for it.        *)
LanguagesApart ==
  /\ panel.chosen.target \in TranslationTargets /\ panel.chosen.target # panel.chosen.language
  /\ started.target \in TranslationTargets \cup {""} /\ started.target # started.language
  /\ \A i \in DOMAIN asked :
       LET r == commandRecording(asked[i]) IN r.target # r.language

(* A dictation is asked for only when no further press may follow; the     *)
(* dictation key asks for a meeting only on its third press in a row; and  *)
(* no press that waits for another is forgotten.                           *)
PressesCounted ==
  /\ \A i \in DOMAIN asked :
       LET a == asked[i]
           Before == {k \in 1 .. 3 : pressed[k] # None /\ pressed[k] <= a.at}
       IN a.key = "dictation" =>
            IF a.mode = "voice"
            THEN \A k \in Before : pressed[k] = a.at \/ pressed[k] <= a.at - Window
            ELSE /\ pressed[3] = a.at => Before = 1 .. 3
                 /\ \A k \in Before : a.at - pressed[k] <= 2 * Window
  /\ commandPress # NoPress <=> commandPressTimer # None

(* A command records in the languages an open panel shows, once saved.     *)
CommandsSpeakAsShown == started.asShown

CommandsAsChosen == LanguagesApart /\ PressesCounted /\ CommandsSpeakAsShown
=============================================================================
