------------------------- MODULE PlacementNavigation -------------------------
(***************************************************************************)
(* resolveDestinationRoom of handyman_ros2, the first answer to a question *)
(* the rebuilt parser answers again: which room an instruction wants the   *)
(* object brought to.  Texts are sequences of tokens as in TaskPlanning; a *)
(* key is a sequence of lower-case words, which the code joins with '_'.   *)
(***************************************************************************)
EXTENDS Lists, Integers, SequencesExt

CONSTANTS Lower  \* tokens that are words -> their lower-case spelling

\* normalizeForParsing: words only.
NormalizeForParsing(text) ==
  LET words == Chosen(text, {i \in DOMAIN text : text[i] \in DOMAIN Lower})
  IN  [i \in DOMAIN words |-> Lower[words[i]]]

\* normalizeKey: a separator in front of the first word stays, which the other
\* normalisation drops.
NormalizeKey(text) ==
  LET words == NormalizeForParsing(text)
  IN  IF words # <<>> /\ Head(text) \notin DOMAIN Lower THEN <<"">> \o words ELSE words

\* kRoomAliasDefinitions; the label of every key is the key itself.
RoomAliases ==
  <<[alias |-> <<"living", "room">>, key |-> <<"living">>],
    [alias |-> <<"living">>, key |-> <<"living">>],
    [alias |-> <<"bedroom">>, key |-> <<"bedroom">>],
    [alias |-> <<"lobby">>, key |-> <<"lobby">>],
    [alias |-> <<"kitchen">>, key |-> <<"kitchen">>],
    [alias |-> <<"trash", "box", "for", "bottle", "can">>,
     key |-> <<"trash", "box", "for", "bottle", "can">>]>>

\* The key of a room as it is written anywhere; a room it does not know is its
\* own key.
CanonicalRoomKey(text) ==
  LET key == NormalizeKey(text)
      known == {entry \in Range(RoomAliases) : entry.alias = key}
  IN  IF known = {} THEN key ELSE (CHOOSE entry \in known : TRUE).key

\* matchWholePhrase: the words of the phrase, and whole words only.
MatchWholePhrase(words, phrase, position) ==
  /\ position + Len(phrase) - 1 <= Len(words)
  /\ \A i \in DOMAIN phrase : words[position + i - 1] = phrase[i]

\* Where the rooms in question are mentioned.
Mentions(words, rooms) ==
  {m \in (DOMAIN RoomAliases) \X (DOMAIN words) :
     /\ RoomAliases[m[1]].key \in rooms
     /\ MatchWholePhrase(words, RoomAliases[m[1]].alias, m[2])}

\* Seeded fault: an earlier mention wins.
EarliestMention(mentions) ==
  CHOOSE m \in mentions : \A n \in mentions : m[2] < n[2] \/ (m[2] = n[2] /\ m[1] >= n[1])

\* The last mention wins, of two at one place the later row of the table.
LatestMention(mentions) ==
  CHOOSE m \in mentions : \A n \in mentions : m[2] > n[2] \/ (m[2] = n[2] /\ m[1] >= n[1])

\* resolveDestinationRoom: among the rooms given and the one of the pickup, the
\* one mentioned last; without a mention the last room given, else the pickup room.
ResolveDestinationRoom(instruction, rooms, pickup) ==
  LET allowed == {CanonicalRoomKey(r) : r \in Range(rooms) \cup {pickup}} \ {<<>>}
      mentions == Mentions(NormalizeForParsing(instruction), allowed)
      last == IF rooms = <<>> THEN <<>> ELSE CanonicalRoomKey(Last(rooms))
  IN  CASE mentions # {} -> RoomAliases[LatestMention(mentions)[1]].key
        [] mentions = {} /\ last \in allowed -> last
        [] mentions = {} /\ last \notin allowed /\ CanonicalRoomKey(pickup) \in allowed ->
             CanonicalRoomKey(pickup)
        [] OTHER -> pickup
=============================================================================
