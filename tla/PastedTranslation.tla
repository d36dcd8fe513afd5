------------------------- MODULE PastedTranslation -------------------------
(***************************************************************************)
(* The web app's translation of pasted text (web/src/translation.ts,       *)
(* App.tsx translatePastedText) and the pair of languages it is made in,   *)
(* which has two writers here: the pickers (TranslationLanguages.tsx,      *)
(* App.tsx changeTranslationLanguages) and the settings read again         *)
(* whenever the workspace changed (App.tsx 537-581).  Their requests are   *)
(* served and answered in any order, so what is shown may end up behind    *)
(* the store.  A text is cut into parts that each fit one request; the     *)
(* parts are sent one after the other, one text at a time.                 *)
(*                                                                         *)
(* A text is a sequence of words, each with its length and whether it ends *)
(* a sentence; a character is <<word, place>>, a space <<word, 0>>, and    *)
(* each counts one.  What is translated of a character in a pair p is      *)
(* <<p, character>>.                                                       *)
(***************************************************************************)
EXTENDS Naturals, Sequences, FiniteSets, SequencesExt

CONSTANTS
  Languages,        (* "uk" and "en", which are shown first, among them     *)
  Texts,            (* what the user pastes: sequences of words             *)
  Limit,            (* characters a request can carry                       *)
  MaxMoves          (* bound on translations, choices of languages by this  *)
                    (* tab or another, and settings read again              *)

VARIABLES
  pair,             (* the languages shown                                  *)
  row, queue,       (* the settings in the store, the changes on their way  *)
  reads,            (* the pairs of settings read again and not yet shown   *)
  translations,     (* the translations asked for                           *)
  result,           (* what is shown                                        *)
  choices

settings == <<pair, row, queue, reads, choices>>
vars == <<settings, translations, result>>

Nothing == <<>>
Pairs == {p \in Languages \X Languages : p[1] # p[2]}
Default == <<"uk", "en">>

---------------------------------------------------------------------------
(* translation.ts.                                                         *)

Space(c) == c[2] = 0
SpaceIf(b, i) == IF b THEN <<<<i, 0>>>> ELSE <<>>

(* A word with the space behind it, the last word's trimmed off.           *)
Word(text, i) ==
  [k \in 1 .. text[i].length |-> <<i, k>>] \o SpaceIf(i < Len(text), i)

Least(a, b) == IF a <= b THEN a ELSE b

splitOversizedWord(word) ==
  [n \in 1 .. (Len(word) + Limit - 1) \div Limit |->
     SubSeq(word, (n - 1) * Limit + 1, Least(n * Limit, Len(word)))]

Pieces(text) == FlattenSeq([i \in DOMAIN text |-> splitOversizedWord(Word(text, i))])

(* The last character of a piece that is not a space ends a sentence.      *)
SentenceEnd(text, piece) ==
  \E k \in DOMAIN piece :
    LET word == piece[k][1]
    IN piece[k] = <<word, text[word].length>> /\ text[word].ends

(* A part without the space at its end: a word has one at most behind it.  *)
Body(part) ==
  IF part # <<>> /\ Space(part[Len(part)]) THEN SubSeq(part, 1, Len(part) - 1) ELSE part

(* One part of what is collected: up to the last sentence's end, if any.   *)
Chunk(joined) == [text |-> Body(joined), gap |-> SubSeq(joined, Len(Body(joined)) + 1, Len(joined))]

Flush(s, count) ==
  [chunks |-> Append(s.chunks, Chunk(FlattenSeq(SubSeq(s.current, 1, count)))),
   current |-> SubSeq(s.current, count + 1, Len(s.current)), lastSentenceEnd |-> 0]

(* If the next piece does not fit, the parts up to the last sentence's end *)
(* go, and all of them if that is not enough.                              *)
FitOnce(s, piece) ==
  IF s.current # <<>> /\ Len(FlattenSeq(s.current)) + Len(piece) > Limit
  THEN Flush(s, IF s.lastSentenceEnd # 0 THEN s.lastSentenceEnd ELSE Len(s.current)) ELSE s

Fit(s, piece) ==
  LET t == FitOnce(s, piece)
  IN IF t.current # <<>> /\ Len(FlattenSeq(t.current)) + Len(piece) > Limit
     THEN Flush(t, Len(t.current)) ELSE t

Collect(text, s, piece) ==
  LET t == Fit(s, piece)
  IN [t EXCEPT !.current = Append(@, piece),
        !.lastSentenceEnd = IF SentenceEnd(text, piece) THEN Len(t.current) + 1 ELSE @]

(* What is collected after the first n pieces.                             *)
Collected(text, pieces) ==
  LET after[n \in 0 .. Len(pieces)] ==
        IF n = 0 THEN [chunks |-> <<>>, current |-> <<>>, lastSentenceEnd |-> 0]
        ELSE Collect(text, after[n - 1], pieces[n])
  IN after[Len(pieces)]

translationChunks(text) ==
  LET all == Collected(text, Pieces(text))
  IN IF all.current = <<>> THEN all.chunks ELSE Flush(all, Len(all.current)).chunks

Init ==
  /\ pair = Default /\ row = Default /\ queue = <<>> /\ reads = <<>> /\ choices = 0
  /\ translations = <<>> /\ result = Nothing

---------------------------------------------------------------------------
Moves == choices + Len(translations) < MaxMoves

(* The pickers: choosing the language of the other side swaps the two.     *)

chooseSource(l) == IF l = pair[2] THEN <<pair[2], pair[1]>> ELSE <<l, pair[2]>>
chooseTarget(l) == IF l = pair[1] THEN <<pair[2], pair[1]>> ELSE <<pair[1], l>>

changeTranslationLanguages ==
  /\ Moves /\ choices' = choices + 1
  /\ \E l \in Languages : pair' \in {chooseSource(l), chooseTarget(l)}
  /\ queue' = Append(queue, [sent |-> pair', previous |-> pair, served |-> FALSE])
  /\ UNCHANGED <<row, reads, translations, result>>

ServeChange ==
  /\ \E i \in DOMAIN queue :
       ~queue[i].served /\ row' = queue[i].sent /\ queue' = [queue EXCEPT ![i].served = TRUE]
  /\ UNCHANGED <<pair, reads, choices, translations, result>>

(* A change refused, or whose answer is lost, puts back the pair that was  *)
(* shown when it was made.                                                 *)
ChangeAnswered ==
  /\ \E i \in DOMAIN queue :
       /\ queue' = RemoveAt(queue, i)
       /\ \/ queue[i].served /\ pair' = queue[i].sent
          \/ pair' = queue[i].previous
  /\ UNCHANGED <<row, reads, choices, translations, result>>

(* Another tab, or the form of Settings, saves a pair: the server takes it *)
(* whatever this tab has under way.                                        *)
OtherTabSaves ==
  /\ Moves /\ choices' = choices + 1 /\ row' \in Pairs \ {row}
  /\ UNCHANGED <<pair, queue, reads, translations, result>>

(* The settings are read again, which any change in the workspace asks for;*)
(* without them, or without a session, the first pair is shown.            *)
ReadServed ==
  /\ Moves /\ choices' = choices + 1 /\ reads' = Append(reads, row)
  /\ UNCHANGED <<pair, row, queue, translations, result>>

ReadAnswered ==
  /\ \E i \in DOMAIN reads : pair' = reads[i] /\ reads' = RemoveAt(reads, i)
  /\ UNCHANGED <<row, queue, choices, translations, result>>

ReadFails == pair' = Default /\ UNCHANGED <<row, queue, reads, choices, translations, result>>

---------------------------------------------------------------------------
(* translatePastedText.                                                    *)

Chunks(n) == translations[n].chunks
Waits(n) == translations[n].done \in 0 .. Len(Chunks(n)) - 1
Translating == \E n \in DOMAIN translations : Waits(n)

translatePastedText ==
  /\ Moves /\ ~Translating
  /\ \E text \in Texts :
       translations' = Append(translations,
         [text |-> text, chunks |-> translationChunks(text), pair |-> pair, done |-> 0,
          translated |-> <<>>, bare |-> FALSE])
  /\ result' = Nothing
  /\ UNCHANGED settings

(* The languages a part is asked for in: those shown when its text was.    *)
PairShown(r) == pair
PairOf(r) == r.pair

(* The translation of a part, or an answer without sentences.  With one   *)
(* text at a time no answer is to a superseded request, which the code     *)
(* would leave alone.                                                      *)
PartTranslated(n) ==
  /\ Waits(n)
  /\ LET r == translations[n]
         chunk == Chunks(n)[r.done + 1]
         In(part) == [k \in DOMAIN part |-> <<PairOf(r), part[k]>>]
     IN \E bare \in BOOLEAN :
          translations' = [translations EXCEPT ![n] =
            [r EXCEPT !.done = @ + 1, !.bare = @ \/ bare,
                      !.translated = @ \o (IF bare THEN <<>> ELSE In(chunk.text)) \o In(chunk.gap)]]
  /\ LET r == translations'[n]
     IN result' = IF r.done = Len(Chunks(n)) THEN r.translated ELSE result
  /\ UNCHANGED settings

(* A part is refused, cannot reach the service, or has an empty answer.    *)
PartFails(n) ==
  /\ Waits(n) /\ translations' = [translations EXCEPT ![n].done = Len(Chunks(n)) + 1]
  /\ UNCHANGED <<settings, result>>

Next ==
  \/ changeTranslationLanguages \/ ServeChange \/ ChangeAnswered \/ OtherTabSaves
  \/ ReadServed \/ ReadAnswered \/ ReadFails \/ translatePastedText
  \/ \E n \in DOMAIN translations : PartTranslated(n) \/ PartFails(n)

Spec == Init /\ [][Next]_vars

---------------------------------------------------------------------------
(* However a text is cut, no part exceeds the limit, and together the parts*)
(* and their gaps are the text.                                            *)
PartsFit ==
  \A n \in DOMAIN translations :
    LET text == translations[n].text
        Whole == [i \in DOMAIN Chunks(n) |-> Chunks(n)[i].text \o Chunks(n)[i].gap]
    IN /\ \A i \in DOMAIN Whole : Len(Whole[i]) <= Limit
       /\ FlattenSeq(Whole) = FlattenSeq([i \in DOMAIN text |-> Word(text, i)])

(* What is shown is the whole of the text last asked for, in its order and *)
(* in the languages shown when it was asked, however often the pair        *)
(* changed while its parts were answered; only an answer without sentences *)
(* leaves a part out.                                                      *)
ResultOfLastText ==
  result # Nothing =>
    LET r == translations[Len(translations)]
        text == FlattenSeq([i \in DOMAIN r.text |-> Word(r.text, i)])
    IN r.bare \/ result = [k \in DOMAIN text |-> <<r.pair, text[k]>>]

(* "the pair never translates into itself" (TranslationLanguages.tsx:6):   *)
(* not in the store, and in no text under way, whichever of the pickers,   *)
(* their answers, the settings read again and other tabs came last.        *)
PairsApart ==
  /\ {pair, row} \subseteq Pairs
  /\ \A n \in DOMAIN translations : translations[n].pair \in Pairs

PasteTranslated == PartsFit /\ ResultOfLastText /\ PairsApart
=============================================================================
