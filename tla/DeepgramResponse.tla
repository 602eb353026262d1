--------------------------- MODULE DeepgramResponse ---------------------------
(***************************************************************************)
(* What integrations/transcription/deepgram.py makes of one answer of the  *)
(* provider: the retry class of a status code, and the segments of a 200.  *)
(*                                                                         *)
(* A field of the body that should be a list is a record: list says that   *)
(* it is one.  An entry of a list is its speaker, or Bad when a field has  *)
(* the wrong type, and its place in the body, which stands for its times   *)
(* and its text.                                                           *)
(***************************************************************************)
EXTENDS SequencesExt, Integers

CONSTANTS Speakers, Bad, Places

ASSUME SpeakersAssumption == Bad \notin Speakers

-------------------------------------------------------------------------------
\* The retry class of an HTTP status: 429 and 5xx are worth another attempt,
\* every other status from 300 on is final.
TransientStatus(code) == code = 429 \/ code >= 500

PermanentStatus(code) == ~TransientStatus(code) /\ code >= 300

Accepted(code) == code < 300

-------------------------------------------------------------------------------
Parses(entry) == entry.speaker # Bad

Segment(entry) == [speaker |-> entry.speaker, first |-> entry.at, last |-> entry.at,
                   text |-> <<entry.at>>]

\* Mutant: the word is compared with the first segment of the call.
AddWordToFirst(segments, word) ==
  IF segments # <<>> /\ segments[1].speaker = word.speaker
  THEN [segments EXCEPT ![Len(segments)].last = word.at,
                        ![Len(segments)].text = Append(@, word.at)]
  ELSE Append(segments, Segment(word))

\* A word of the last segment's speaker makes it longer; any other opens one.
AddWord(segments, word) ==
  IF segments # <<>> /\ segments[Len(segments)].speaker = word.speaker
  THEN [segments EXCEPT ![Len(segments)].last = word.at,
                        ![Len(segments)].text = Append(@, word.at)]
  ELSE Append(segments, Segment(word))

IsList(field) == field.list

\* The words of the alternatives that have a list of them.
Words(alternatives) ==
  LET lists == SelectSeq(alternatives, IsList)
  IN  FlattenSeq([i \in 1..Len(lists) |-> lists[i].items])

\* The loop over the entries: one that does not parse is dropped, words make
\* runs, and each utterance is a segment of its own.
Collected(entries, runs) ==
  LET upTo[n \in 0..Len(entries)] ==
        IF n = 0 THEN <<>>
        ELSE IF ~Parses(entries[n]) THEN upTo[n - 1]
        ELSE IF runs THEN AddWord(upTo[n - 1], entries[n])
        ELSE Append(upTo[n - 1], Segment(entries[n]))
  IN  upTo[Len(entries)]

SegmentsFromUtterances(utterances) == Collected(utterances, FALSE)

SegmentsFromWords(words) == Collected(words, TRUE)

\* What parse_response returns or raises.
Transcript(segments) == [ok |-> TRUE, segments |-> segments]

Raises == [ok |-> FALSE, segments |-> <<>>]

\* Entries came back and none of them parsed: provider drift, not silence.
Honest(segments, entries) ==
  IF segments = <<>> /\ entries # <<>> THEN Raises ELSE Transcript(segments)

\* The body of a 200: a JSON object with a results object, or not.  The
\* utterances are read if they are a list, empty or not; the words are not
\* looked at then.
ParseResponse(body) ==
  IF ~body.results THEN Raises
  ELSE IF IsList(body.utterances)
  THEN Honest(SegmentsFromUtterances(body.utterances.items), body.utterances.items)
  ELSE Honest(SegmentsFromWords(Words(body.alternatives)), Words(body.alternatives))

-------------------------------------------------------------------------------
\* The entries that a parse reads.
EntriesOf(body) ==
  IF IsList(body.utterances) THEN body.utterances.items ELSE Words(body.alternatives)

Entries == [speaker : Speakers \cup {Bad}, at : Places]

\* No two entries of a body stand at one place.
WellPlaced(body) ==
  /\ EntriesOf(body) \in Seq(Entries)
  /\ \A k, l \in DOMAIN EntriesOf(body) :
       EntriesOf(body)[k].at = EntriesOf(body)[l].at => k = l

\* The reference for a transcript, stated of the result: its texts have the
\* places of all entries that parse, each once and in their order; a segment
\* spans its text and has one speaker; and of words, two neighbours differ in
\* their speaker, so that a segment is as long as it can be.
IsTranscriptOf(segments, body) ==
  LET entries == EntriesOf(body)
      good == {k \in DOMAIN entries : Parses(entries[k])}
      text(i) == segments[i].text
  IN  /\ UNION {ToSet(text(i)) : i \in DOMAIN segments} = {entries[k].at : k \in good}
      /\ \A i, j \in DOMAIN segments : \A p \in DOMAIN text(i), q \in DOMAIN text(j) :
           i < j \/ (i = j /\ p < q) =>
             \E k, l \in good :
               k < l /\ text(i)[p] = entries[k].at /\ text(j)[q] = entries[l].at
      /\ \A i \in DOMAIN segments :
           /\ text(i) # <<>>
           /\ segments[i].first = text(i)[1] /\ segments[i].last = text(i)[Len(text(i))]
           /\ \A k \in good :
                entries[k].at \in ToSet(text(i)) => entries[k].speaker = segments[i].speaker
           /\ IF IsList(body.utterances) THEN Len(text(i)) = 1
              ELSE i < Len(segments) => segments[i].speaker # segments[i + 1].speaker
===============================================================================
