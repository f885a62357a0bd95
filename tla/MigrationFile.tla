---------------------------- MODULE MigrationFile ----------------------------
(***************************************************************************)
(* The text of a migration file and splitSQL, which cuts it into an up and *)
(* a down section.  A text is a sequence of tokens: the two markers, blank *)
(* space, and anything else as statements.  A marker is found wherever the *)
(* characters stand, in a comment or in a string as well.                  *)
(***************************************************************************)
EXTENDS Naturals, Sequences

CONSTANT Statements     \* what stands between the markers and is not blank

Up == "-- shift:up"
Down == "-- shift:down"
Blank == "blank"

Tokens == Statements \cup {Up, Down, Blank}

ASSUME StatementsAssumption == Statements \cap {Up, Down, Blank} = {}

(* What create writes. *)
Template == <<Up, Blank, Down, Blank>>

(* strings.Index: the first place of a marker, 0 if it is nowhere. *)
Index(text, marker) ==
    IF \E i \in DOMAIN text : text[i] = marker
    THEN CHOOSE i \in DOMAIN text :
            /\ text[i] = marker
            /\ \A j \in 1..(i - 1) : text[j] # marker
    ELSE 0

From(text, i) == SubSeq(text, i, Len(text))

(* strings.TrimSpace *)
TrimSpace(text) ==
    LET filled == {i \in DOMAIN text : text[i] # Blank}
        first == CHOOSE i \in filled : \A j \in filled : i <= j
        last == CHOOSE i \in filled : \A j \in filled : j <= i
    IN  IF filled = {} THEN <<>> ELSE SubSeq(text, first, last)

AfterUp(text) == From(text, Index(text, Up) + 1)

(* Mutant of DownIndex: the marker is searched from the start of the file. *)
DownIndexOfFile(text) == Index(text, Down)

(* Where the down marker stands in what follows the up marker. *)
DownIndex(text) == Index(AfterUp(text), Down)

UpSQL(text) ==
    IF DownIndex(text) = 0
    THEN TrimSpace(AfterUp(text))
    ELSE TrimSpace(SubSeq(AfterUp(text), 1, DownIndex(text) - 1))

DownSQL(text) ==
    IF DownIndex(text) = 0
    THEN <<>>
    ELSE TrimSpace(From(AfterUp(text), DownIndex(text) + 1))

(* splitSQL accepts a text with an up marker and a filled up section. *)
Splits(text) == Index(text, Up) # 0 /\ UpSQL(text) # <<>>

-----------------------------------------------------------------------------
(* What the markers say, position by position: a token belongs to the up   *)
(* section if an up marker stands before it and no down marker after that; *)
(* to the down section if both do.                                         *)
PastDown(text, i) ==
    \E j, k \in 1..i : j < k /\ text[j] = Up /\ text[k] = Down

UpPlaces(text) ==
    {i \in DOMAIN text :
        (\E j \in 1..(i - 1) : text[j] = Up) /\ ~PastDown(text, i)}

DownPlaces(text) == {i \in DOMAIN text : PastDown(text, i - 1)}

Filled(text, places) == {i \in places : text[i] # Blank}

(* section consists of the tokens of text at these places, in their order, *)
(* without the blanks around them.                                         *)
IsSection(section, text, places) ==
    IF Filled(text, places) = {}
    THEN section = <<>>
    ELSE \E first, last \in Filled(text, places) :
            /\ \A i \in Filled(text, places) : first <= i /\ i <= last
            /\ first..last \subseteq places
            /\ section = SubSeq(text, first, last)

(* The text is cut as its markers say, or has no statement that is up and  *)
(* is refused.                                                             *)
FollowsMarkers(text) ==
    IF Splits(text)
    THEN /\ IsSection(UpSQL(text), text, UpPlaces(text))
         /\ IsSection(DownSQL(text), text, DownPlaces(text))
    ELSE Filled(text, UpPlaces(text)) = {}

=============================================================================
