--------------------------- MODULE SettingsRoutes --------------------------
(***************************************************************************)
(* The way of a settings change through the server: the validation of the  *)
(* body (server.ts parseWorkspaceSettings) and the row it is merged into   *)
(* (updateWorkspaceSettings, core/settings.ts normalizeSettings and        *)
(* core/shortcuts.ts normalizeShortcut), which is normalised again each    *)
(* time it is read.                                                        *)
(*                                                                         *)
(* A wire value is one of its kind: a scalar is a string, a list of terms  *)
(* or languages a sequence, a shortcut the sequence of its parts.  Nine of *)
(* the keys stand for all: each kind of value, and a key that no request   *)
(* may change.                                                             *)
(***************************************************************************)
EXTENDS Naturals, Sequences, FiniteSets, SequencesExt

CONSTANT MaxPatches     (* bound on accepted changes                          *)

VARIABLES
  row,              (* the stored settings, as they were written            *)
  sent, first,      (* per key: the last accepted value; the first reading  *)
  patches

vars == <<row, sent, first, patches>>

Nothing == <<"nothing">>

---------------------------------------------------------------------------
(* core/shortcuts.ts.  "No key" is no shortcut.                            *)

Modifiers == {"Ctrl", "Alt", "Shift", "Meta"}
KeyNames == {"D", "T", "V", "F5", "Space"}
NoShortcut == [modifiers |-> {}, key |-> "no key"]

normalizeShortcut(parts) ==
  LET keys == SelectSeq(parts, LAMBDA p : p \notin Modifiers)
      mods == SelectSeq(parts, LAMBDA p : p \in Modifiers)
  IN IF Len(keys) = 1 /\ keys[1] \in KeyNames /\ Cardinality(ToSet(mods)) = Len(mods)
     THEN [modifiers |-> ToSet(mods), key |-> keys[1]]
     ELSE NoShortcut

isReservedShortcut(s) ==
  \/ s.key = "T" /\ s.modifiers \in {{"Ctrl"}, {"Meta"}}
  \/ s.key = "R" /\ s.modifiers \in {{"Ctrl"}, {"Meta"}, {"Ctrl", "Shift"}, {"Meta", "Shift"}}

Canonical(s) ==
  SelectSeq(<<"Ctrl", "Alt", "Shift", "Meta">>, LAMBDA m : m \in s.modifiers) \o <<s.key>>

UsableShortcut(parts) ==
  normalizeShortcut(parts) # NoShortcut /\ ~isReservedShortcut(normalizeShortcut(parts))

---------------------------------------------------------------------------
(* core/settings.ts.                                                       *)

Keys == {"announceLiveTranscript", "dictationShortcut", "fillerWords", "microphoneDeviceId",
         "speechLanguageHints", "typingSpeedWordsPerMinute", "translationTargetLanguage",
         "uiLocale", "playSoundOnCompletion"}

DEFAULT_SETTINGS == [k \in Keys |->
  CASE k = "dictationShortcut" -> <<"Alt", "Shift", "V">>
    [] k = "fillerWords" -> <<"um", "uh">>
    [] k = "speechLanguageHints" -> <<"uk">>
    [] k = "announceLiveTranscript" -> "false"
    [] k = "playSoundOnCompletion" -> "true"
    [] k \in {"translationTargetLanguage", "uiLocale"} -> "en"
    [] OTHER -> "null"]

(* What tells wire values apart: padding, blanks, and values out of range. *)
Trimmed(term) == IF term = " um " THEN "um" ELSE term
Terms == {"um", " um ", "uh", " ", "long"}
Languages == {"uk", "en", "pt-br"}
Speeds == {"40", "1000", "1001"}

stringList(value) ==
  SelectSeq([i \in DOMAIN value |-> Trimmed(value[i])], LAMBDA t : t # " ")

Distinct(value) ==
  FoldLeft(LAMBDA kept, l : IF l \in ToSet(kept) THEN kept ELSE Append(kept, l), <<>>, value)

languageList(value) == Distinct(SelectSeq(value, LAMBDA l : l \in Languages))

(* What is read from a stored value that may be of an older version.       *)
Normal(k, value) ==
  CASE k = "dictationShortcut" ->
         IF UsableShortcut(value) THEN Canonical(normalizeShortcut(value)) ELSE DEFAULT_SETTINGS[k]
    [] k = "fillerWords" ->
         IF \E i \in DOMAIN value : value[i] = "not a string" THEN DEFAULT_SETTINGS[k]
                                                               ELSE stringList(value)
    [] k = "speechLanguageHints" -> languageList(value)
    [] k \in {"announceLiveTranscript", "playSoundOnCompletion"} ->
         IF value \in {"true", "false"} THEN value ELSE DEFAULT_SETTINGS[k]
    [] k = "microphoneDeviceId" ->
         IF value \in {"null", "mic"} THEN value ELSE DEFAULT_SETTINGS[k]
    [] k = "typingSpeedWordsPerMinute" ->
         IF value \in {"null"} \cup Speeds THEN value ELSE DEFAULT_SETTINGS[k]
    [] k = "translationTargetLanguage" ->
         IF value \in Languages THEN value ELSE DEFAULT_SETTINGS[k]
    [] k = "uiLocale" -> IF value \in {"en", "uk"} THEN value ELSE DEFAULT_SETTINGS[k]

normalizeSettings(s) == [k \in Keys |-> Normal(k, s[k])]

(* A change merged into the defaults, not into the row, would be:          *)
updateDefaults(s, changes) ==
  normalizeSettings([k \in Keys |->
    IF k \in DOMAIN changes THEN changes[k] ELSE DEFAULT_SETTINGS[k]])

updateSettings(s, changes) ==
  normalizeSettings([k \in Keys |-> IF k \in DOMAIN changes THEN changes[k] ELSE s[k]])

---------------------------------------------------------------------------
(* parseWorkspaceSettings: the keys the route takes, the values it accepts.*)

Accepts(k, value) ==
  CASE k = "dictationShortcut" -> UsableShortcut(value)
    [] k = "fillerWords" -> \A i \in DOMAIN value : value[i] \in Terms \ {"long"}
    [] k = "speechLanguageHints" -> \A i \in DOMAIN value : value[i] \in Languages
    [] k = "announceLiveTranscript" -> value \in {"true", "false"}
    [] k = "microphoneDeviceId" -> value \in {"null", "mic"}
    [] k = "typingSpeedWordsPerMinute" -> value \in {"null", "40", "1000"}
    [] k = "translationTargetLanguage" -> value \in Languages
    [] k = "uiLocale" -> value \in {"en", "uk"}
    [] OTHER -> FALSE

parseWorkspaceSettings(body) == body # <<>> /\ \A k \in DOMAIN body : Accepts(k, body[k])

(* Bodies: one key with a value of each kind, or a good and a bad one.     *)
Wire(k) ==
  CASE k = "dictationShortcut" ->
         {<<"Shift", "Alt", "D">>, <<"F5">>, <<"Ctrl", "T">>, <<"D", "V">>, <<"Alt", "Alt", "D">>,
          <<"Alt">>, <<"Alt", "%">>}
    [] k = "fillerWords" ->
         {<<>>, <<" um ", "uh">>, <<"uh", " ">>, <<"um", "long">>, <<"um", "not a string">>}
    [] k = "speechLanguageHints" -> {<<>>, <<"en", "uk", "en">>, <<"uk", "e1">>}
    [] k \in {"announceLiveTranscript", "playSoundOnCompletion"} -> {"true", "other"}
    [] k = "microphoneDeviceId" -> {"mic", "null", "", "long"}
    [] k = "typingSpeedWordsPerMinute" -> {"40", "1000", "1001", "0", "other", "null"}
    [] k = "translationTargetLanguage" -> {"pt-br", "e1", "other"}
    [] k = "uiLocale" -> {"uk", "de"}

Single(k, value) == [x \in {k} |-> value]
Bodies ==
  UNION {{Single(k, v) : v \in Wire(k)} : k \in Keys} \cup
  {<<>>, [x \in {"uiLocale", "playSoundOnCompletion"} |-> IF x = "uiLocale" THEN "uk" ELSE "true"],
   [x \in {"uiLocale", "microphoneDeviceId"} |-> IF x = "uiLocale" THEN "uk" ELSE "mic"]}

(* What an older version may have left in the row.                         *)
OldRow ==
  [DEFAULT_SETTINGS EXCEPT !["dictationShortcut"] = <<"Ctrl", "T">>,
     !["speechLanguageHints"] = <<"uk", "uk", "e1">>, !["typingSpeedWordsPerMinute"] = "1001",
     !["fillerWords"] = <<"um", " ">>, !["uiLocale"] = "de"]

Init ==
  /\ row \in {DEFAULT_SETTINGS, OldRow}
  /\ sent = [k \in Keys |-> Nothing] /\ first = normalizeSettings(row) /\ patches = 0

---------------------------------------------------------------------------
(* PATCH /bff/settings, and a body that is refused.                        *)

PatchSettings(body) ==
  /\ parseWorkspaceSettings(body) /\ patches < MaxPatches /\ patches' = patches + 1
  /\ row' = updateSettings(normalizeSettings(row), body)
  /\ sent' = [k \in Keys |-> IF k \in DOMAIN body THEN <<body[k]>> ELSE sent[k]]
  /\ UNCHANGED first

Next == \E body \in Bodies : PatchSettings(body)

Spec == Init /\ [][Next]_vars

---------------------------------------------------------------------------
Meaning(k, value) ==
  CASE k = "dictationShortcut" -> <<ToSet(value)>>
    [] k = "fillerWords" -> <<{Trimmed(t) : t \in ToSet(value)} \ {" "}>>
    [] k = "speechLanguageHints" -> <<ToSet(value)>>
    [] OTHER -> <<value>>

(* What the route accepts is what every later reading shows, until it is   *)
(* changed again: the validation lets nothing in that the store would      *)
(* replace by a default, and a change touches no other key, not even when  *)
(* the row was left by an older version.                                   *)
SettingsKept ==
  LET shown == normalizeSettings(row)
  IN \A k \in Keys :
       IF sent[k] = Nothing THEN shown[k] = first[k]
       ELSE Meaning(k, shown[k]) = Meaning(k, sent[k][1])
=============================================================================
