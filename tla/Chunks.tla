------------------------------- MODULE Chunks -------------------------------
(***************************************************************************)
(* How a reply is cut to the channel's limit: chunk_text of                *)
(* app/dispatch/dispatcher.py, and chunkBoundaries of the web client's     *)
(* composer, which shows the agent where it will be cut.                   *)
(*                                                                         *)
(* A text is a sequence of characters of four kinds: a letter, a space, a  *)
(* newline, and one outside the basic plane, such as an emoji, which       *)
(* Python counts as one character and JavaScript as two units.             *)
(***************************************************************************)
EXTENDS Integers, SequencesExt

Char == {"a", "emoji", " ", "\n"}
Unit == {"a", "high", "low", " ", "\n"}

Blank(c) == c \in {" ", "\n"}

(* str.strip(), and String.trim(): for these characters the same. *)
Strip(t) ==
  LET inked == {i \in DOMAIN t : ~Blank(t[i])} IN
  IF inked = {} THEN <<>> ELSE SubSeq(t, Min(inked), Max(inked))

StripStart(t) ==
  LET inked == {i \in DOMAIN t : ~Blank(t[i])} IN
  IF inked = {} THEN <<>> ELSE SubSeq(t, Min(inked), Len(t))

(* rfind, lastIndexOf: the last index from 0, or -1. *)
LastIndex(t, c) == Max({i - 1 : i \in {j \in DOMAIN t : t[j] = c}} \cup {-1})

(* Variants of definitions below, each with one mistake, used to see that  *)
(* the properties notice it, stand before the definition they vary.        *)

(* A hard cut whatever the text. *)
CutAtLimit(t, limit) == limit

(* Where to cut a text longer than the limit: a newline first, then a      *)
(* space, then a hard cut.                                                 *)
Cut(t, limit) ==
  LET window == SubSeq(t, 1, limit) IN
  IF LastIndex(window, "\n") > 0 THEN LastIndex(window, "\n")
  ELSE IF LastIndex(window, " ") > 0 THEN LastIndex(window, " ")
  ELSE limit

(* One pass of the loop: a piece, and what `rest` makes of the remainder.  *)
Pass(rest, t, limit) ==
  LET remaining == Strip(t) IN
  IF Len(remaining) <= limit
    THEN IF remaining = <<>> THEN <<>> ELSE <<remaining>>
    ELSE LET cut == Cut(remaining, limit)
             piece == Strip(SubSeq(remaining, 1, cut))
         IN (IF piece = <<>> THEN <<>> ELSE <<piece>>)
              \o rest[SubSeq(remaining, cut + 1, Len(remaining))]

(* The pieces of a text for a limit, in order. *)
Pieces(text, limit) ==
  LET from[t \in Seq(Char)] == Pass(from, t, limit) IN from[text]

(* What JavaScript sees of a text. *)
Utf16[t \in Seq(Char)] ==
  IF t = <<>> THEN <<>>
  ELSE (IF t[1] = "emoji" THEN <<"high", "low">> ELSE <<t[1]>>) \o Utf16[Tail(t)]

(* The blanks after a cut are dropped and not counted. *)
DiscardedUncounted(rest) == 0

Discarded(rest) == Len(rest) - Len(StripStart(rest))

(* One pass of the composer's loop: `remaining` is trimmed and begins at   *)
(* `offset`, and the state the next pass finds is a pair of the two.       *)
MarkPass(from, remaining, offset, limit) ==
  IF Len(remaining) <= limit THEN <<>>
  ELSE LET cut == Cut(remaining, limit)
           rest == SubSeq(remaining, cut + 1, Len(remaining))
       IN <<offset + cut>>
            \o from[<<StripStart(rest), offset + cut + Discarded(rest)>>]

(* Offsets into the trimmed text, as the composer gets them. *)
ChunkBoundaries(t, limit) ==
  LET from[s \in Seq(Unit) \X Nat] == MarkPass(from, s[1], s[2], limit)
  IN IF limit <= 0 THEN <<>> ELSE from[<<Strip(Utf16[t]), 0>>]

-----------------------------------------------------------------------------
Texts(n) == UNION {[1..k -> Char] : k \in 0..n}

(* Where the pieces stand in the text: `at` is where each begins.  Each is *)
(* a stretch of the text as it is, they follow one another, and what       *)
(* stands in none of them is blank.                                        *)
LastOf(at, pieces, i) == at[i] + Len(pieces[i]) - 1

Layouts(t, pieces) ==
  {at \in [DOMAIN pieces -> DOMAIN t] :
     /\ \A i \in DOMAIN pieces :
          /\ LastOf(at, pieces, i) \in DOMAIN t
          /\ pieces[i] = SubSeq(t, at[i], LastOf(at, pieces, i))
     /\ \A i \in 1..(Len(pieces) - 1) : LastOf(at, pieces, i) < at[i + 1]
     /\ \A k \in DOMAIN t :
          Blank(t[k]) \/ \E i \in DOMAIN pieces : k \in at[i]..LastOf(at, pieces, i)}

(* No word of the customer's answer is lost, repeated or moved by the cut, *)
(* and no piece is empty or beyond the limit, which the provider would     *)
(* refuse.                                                                 *)
CutKeepsText(t, limit) ==
  LET pieces == Pieces(t, limit) IN
  /\ Layouts(t, pieces) # {}
  /\ \A i \in DOMAIN pieces : Len(pieces[i]) \in 1..limit

(* "Cutting mid-word makes the bot look broken": between two pieces there  *)
(* was a blank, unless the first of them is one unbroken run as long as    *)
(* the limit.                                                              *)
CutKeepsWords(t, limit) ==
  LET pieces == Pieces(t, limit) IN
  \E at \in Layouts(t, pieces) : \A i \in 1..(Len(pieces) - 1) :
    \/ Blank(t[LastOf(at, pieces, i) + 1])
    \/ Len(pieces[i]) = limit /\ \A k \in 1..limit : ~Blank(pieces[i][k])

(* A mark the composer shows is where the dispatcher cuts: as many marks   *)
(* as cuts, each after the piece it closes and before the next begins.     *)
MarksAreCuts(t, limit) ==
  LET pieces == Pieces(t, limit)
      marks == ChunkBoundaries(t, limit)
  IN /\ Len(marks) = Max({Len(pieces) - 1, 0})
     /\ \E at \in Layouts(t, pieces) : \A i \in DOMAIN marks :
          LastOf(at, pieces, i) <= marks[i] /\ marks[i] < at[i + 1]

=============================================================================
