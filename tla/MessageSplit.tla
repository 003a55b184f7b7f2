---------------------------- MODULE MessageSplit ----------------------------
(***************************************************************************)
(* How a reply that is too long for its platform is cut (runner.rs:        *)
(* split_message, rfind_paragraph_break, rfind_fence_break), one pass of   *)
(* the loop a step.                                                        *)
(*                                                                         *)
(* A text is a sequence of marks: a newline, a space, a code fence or a    *)
(* letter.  A mark counts as one byte, so that a cut never falls into the  *)
(* middle of a character (floor_char_boundary) or of a fence.              *)
(***************************************************************************)
EXTENDS Integers, Sequences, FiniteSets

CONSTANTS
    Texts,      \* the replies
    MaxChunk    \* MAX_CHUNK_LEN

Marks == {"letter", "fence", "space", "newline"}

ASSUME SplitAssumption ==
    /\ Texts \subseteq Seq(Marks)
    /\ MaxChunk \in Nat \ {0}

VARIABLES
    text,     \* the reply
    at,       \* where the rest of it begins
    chunks    \* what was pushed, each <<from, to>> with the position after it

splitVars == <<text, at, chunks>>

End == Len(text) + 1
Is(p, mark) == text[p] = mark
Blank(p) == Is(p, "space") \/ Is(p, "newline")

-----------------------------------------------------------------------------
(* Where a window may be cut, best first. *)

WindowEnd == at + MaxChunk
Window == at..(WindowEnd - 1)

\* Outside of the code blocks that begin in the rest.
Balanced(p) == Cardinality({q \in at..(p - 1) : Is(q, "fence")}) % 2 = 0

\* Before two newlines.
ParagraphBreaks ==
    {p \in Window : p + 1 \in Window /\ Is(p, "newline") /\ Is(p + 1, "newline") /\ Balanced(p)}

\* After a fence and its newline.
FenceBreaks_PastWindow ==
    {p \in at..End : p - 2 \in Window /\ Is(p - 2, "fence") /\ Is(p - 1, "newline")}
FenceBreaks ==
    {p \in at..WindowEnd : p - 2 \in Window /\ Is(p - 2, "fence") /\ Is(p - 1, "newline")}

Cuts(mark) == {p \in Window : Is(p, mark)}

SplitPoints ==
    CASE ParagraphBreaks # {} -> ParagraphBreaks
      [] ParagraphBreaks = {} /\ FenceBreaks # {} -> FenceBreaks
      [] ParagraphBreaks \union FenceBreaks = {} /\ Cuts("newline") # {} -> Cuts("newline")
      [] ParagraphBreaks \union FenceBreaks \union Cuts("newline") = {}
            /\ Cuts("space") # {} -> Cuts("space")
      [] OTHER -> {WindowEnd}

SplitsAt(p) == p \in SplitPoints /\ \A q \in SplitPoints : q <= p

\* trim_start_matches('\n') on the rest from p on ends at r.
Trimmed_OneMore(p, r) ==
    /\ r \in p..End
    /\ \A q \in p..(r - 1) : q > p => Is(q, "newline")
    /\ r > p /\ (r < End => ~Is(r, "newline"))
Trimmed_Never(p, r) == r = p
Trimmed(p, r) ==
    /\ r \in p..End
    /\ \A q \in p..(r - 1) : Is(q, "newline")
    /\ r < End => ~Is(r, "newline")

\* A chunk that is blank is not pushed.
Pushed(to) ==
    IF \A p \in at..(to - 1) : Blank(p) THEN chunks ELSE Append(chunks, <<at, to>>)

-----------------------------------------------------------------------------

SplitInit ==
    /\ text \in Texts
    /\ at = 1
    /\ chunks = << >>

Rest == End - at

\* A text that fits is one chunk, blank or not.
Whole ==
    /\ chunks = << >> /\ at = 1
    /\ Len(text) <= MaxChunk
    /\ chunks' = << <<1, End>> >>
    /\ at' = End
    /\ UNCHANGED text

\* One pass over a rest that does not fit.
Pass ==
    /\ Rest > MaxChunk
    /\ \E to \in SplitPoints, r \in at..End :
          /\ SplitsAt(to)
          /\ Trimmed(to, r)
          /\ chunks' = Pushed(to)
          /\ at' = r
    /\ UNCHANGED text

\* The rest that fits.
LastChunk ==
    /\ Len(text) > MaxChunk
    /\ Rest \in 1..MaxChunk
    /\ chunks' = Pushed(End)
    /\ at' = End
    /\ UNCHANGED text

SplitNext == Whole \/ Pass \/ LastChunk

SplitSpec == SplitInit /\ [][SplitNext]_splitVars

-----------------------------------------------------------------------------

\* What was passed over is in exactly one chunk, unless it is blank, and the
\* chunks are in the order of the text: no letter of a long reply is lost,
\* doubled or moved (split_message).
NothingLost ==
    /\ \A p \in 1..(at - 1) :
          ~Blank(p) => \E i \in 1..Len(chunks) : chunks[i][1] <= p /\ p < chunks[i][2]
    /\ \A i, j \in 1..Len(chunks) : i < j => chunks[i][2] <= chunks[j][1]
    /\ \A i \in 1..Len(chunks) : chunks[i][2] <= at

\* A chunk is not empty and fits the platform's limit ("chunk.len() <=
\* MAX_CHUNK_LEN" in the tests of split_message).
ChunksFit ==
    Len(text) > 0 =>
        \A i \in 1..Len(chunks) : chunks[i][2] - chunks[i][1] \in 1..MaxChunk

\* What split_message promises: the whole text, in chunks that can be sent.
SplitKeeps == NothingLost /\ ChunksFit

\* The pass would leave the rest as it is, and every further pass too.
Stalled == Rest > MaxChunk /\ SplitsAt(at) /\ Trimmed(at, at)

\* The loop only stalls on a space that begins the rest and is the last of its
\* window: paragraphs, fences, lines and hard cuts always shorten the rest.
OnlySpaceStalls ==
    Stalled => \A p \in Window : ~Is(p, "newline") /\ (Is(p, "space") <=> p = at)

\* "Fallback: hard cut" (runner.rs): a rest without a place to break is cut, so
\* that every pass shortens it.
EveryPassShortens == ~Stalled
=============================================================================
