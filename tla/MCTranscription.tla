---------------------------- MODULE MCTranscription ----------------------------
(***************************************************************************)
(* Two speakers, lists of up to three utterances or of up to two           *)
(* alternatives with up to two words, and for every wait a short and the   *)
(* longest time.                                                           *)
(***************************************************************************)
EXTENDS Transcription

MCPlaces == (1..2) \X (1..3)

Missing == [list |-> FALSE, items |-> <<>>]

\* Every list of up to n entries, as the k-th list of its body.
ListsUpTo(n, k) ==
  {[list |-> TRUE, items |-> [i \in DOMAIN s |-> [speaker |-> s[i], at |-> <<k, i>>]]] :
     s \in UNION {[1..m -> Speakers \cup {Bad}] : m \in 0..n}}

WordLists(k) == {Missing} \cup ListsUpTo(2, k)

AllBodies ==
  [results : {TRUE}, utterances : {Missing} \cup ListsUpTo(3, 1), alternatives : {<<>>}]
  \cup [results : {TRUE}, utterances : {Missing},
        alternatives : {<<a>> : a \in WordLists(1)}
                       \cup {<<a, b>> : a \in WordLists(1), b \in WordLists(2)}]
  \cup {[results |-> FALSE, utterances |-> ListOfOne, alternatives |-> <<>>] :
          ListOfOne \in ListsUpTo(1, 1)}
===============================================================================
