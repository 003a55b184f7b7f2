---------------------------- MODULE StreamFilters ----------------------------
(***************************************************************************)
(* The two filters a streamed answer passes before the chat sees it        *)
(* (runner.rs: ThinkTagStreamFilter, then GatewayActionStreamFilter), fed  *)
(* with the answer in pieces of any size, against what the stored reply    *)
(* makes of the whole answer (strip_think_blocks and                       *)
(* execute_gateway_actions_with_policy).                                   *)
(*                                                                         *)
(* Tags are short sequences of marks with the overlaps of the real ones:   *)
(* "t" is think, "g" is ing, "G" is GATEWAY:.  The white space that is     *)
(* trimmed off the ends of a reply is not modelled, nor what the stored    *)
(* reply keeps of a think block that was never closed.                     *)
(***************************************************************************)
EXTENDS Integers, Sequences, SequencesExt

CONSTANTS
    Characters,  \* what texts are made of
    Answers      \* the answers of the model

Strings == Seq(Characters)

ASSUME CharactersAssumption == {"<", "/", "t", "g", ">", "[", "G", "]"} \subseteq Characters

ASSUME AnswersAssumption == Answers \subseteq Strings

VARIABLES
    answer,       \* the whole answer
    read,         \* how many of its marks were pushed
    ended,        \* finish was called
    pending,      \* of the think filter
    inThink,
    tagPending,   \* of the gateway filter
    inTag,
    shown,        \* what came out of the second filter
    cutClose      \* a push to the second filter ended between its two brackets

streamVars == <<answer, read, ended, pending, inThink, tagPending, inTag, shown, cutClose>>

ThinkOpen == {<<"<", "t", ">">>, <<"<", "t", "g", ">">>}
ThinkClose == {<<"<", "/", "t", ">">>, <<"<", "/", "t", "g", ">">>}
TagStart == <<"[", "[", "G">>
TagEnd == <<"]", "]">>

-----------------------------------------------------------------------------
(* str::find and its like: positions start at 1, 0 is None. *)

StartsAt(s, tag, p) ==
    p + Len(tag) - 1 <= Len(s) /\ SubSeq(s, p, p + Len(tag) - 1) = tag

Positions(s, tags) == {p \in 1..Len(s) : \E tag \in tags : StartsAt(s, tag, p)}

Find(s, tags) == IF Positions(s, tags) = {} THEN 0 ELSE Min(Positions(s, tags))

Before(s, p) == SubSeq(s, 1, p - 1)

\* What follows the tag at p.
After(s, tags, p) ==
    LET tag == CHOOSE tag \in tags : StartsAt(s, tag, p)
    IN  SubSeq(s, p + Len(tag), Len(s))

\* The longest end of s that begins a tag without being one
\* (tag_suffix_prefix_len, gateway_tag_prefix_suffix_len).
IsPart(part, tags) == \E tag \in tags : Len(part) < Len(tag) /\ IsPrefix(part, tag)
Kept_Shortest(s, tags) ==
    Min({n \in 1..Len(s) : IsPart(SubSeq(s, Len(s) - n + 1, Len(s)), tags)} \union {Len(s) + 1})
        % (Len(s) + 1)
Kept(s, tags) ==
    Max({n \in 0..Len(s) : IsPart(SubSeq(s, Len(s) - n + 1, Len(s)), tags)})

-----------------------------------------------------------------------------
(* push and finish. *)

\* The loops run from one tag outside of any block to the next; one that starts inside
\* first looks for the end of its block.
Think[held \in Strings] ==
    LET open == Find(held, ThinkOpen)
        block == After(held, ThinkOpen, open)
        closed == Find(block, ThinkClose)
        emit == Len(held) - Kept(held, ThinkOpen)
        rest == Think[After(block, ThinkClose, closed)]
    IN  IF open = 0
        THEN [held |-> SubSeq(held, emit + 1, Len(held)), inside |-> FALSE,
              out |-> SubSeq(held, 1, emit)]
        ELSE IF closed = 0
        THEN [held |-> block, inside |-> TRUE, out |-> Before(held, open)]
        ELSE [rest EXCEPT !.out = Before(held, open) \o @]

ThinkFrom(held, inside) ==
    LET closed == Find(held, ThinkClose)
    IN  IF ~inside THEN Think[held]
        ELSE IF closed = 0 THEN [held |-> held, inside |-> TRUE, out |-> << >>]
        ELSE Think[After(held, ThinkClose, closed)]

Tag[held \in Strings] ==
    LET open == Find(held, {TagStart})
        block == After(held, {TagStart}, open)
        closed == Find(block, {TagEnd})
        emit == Len(held) - Kept(held, {TagStart})
        rest == Tag[After(block, {TagEnd}, closed)]
    IN  IF open = 0
        THEN [held |-> SubSeq(held, emit + 1, Len(held)), inside |-> FALSE,
              out |-> SubSeq(held, 1, emit)]
        ELSE IF closed = 0
        THEN [held |-> << >>, inside |-> TRUE, out |-> Before(held, open)]
        ELSE [rest EXCEPT !.out = Before(held, open) \o @]

TagFrom(held, inside) ==
    LET closed == Find(held, {TagEnd})
    IN  IF ~inside THEN Tag[held]
        ELSE IF closed = 0 THEN [held |-> << >>, inside |-> TRUE, out |-> << >>]
        ELSE Tag[After(held, {TagEnd}, closed)]

PushTag(part) ==
    LET held == tagPending \o part
        result == TagFrom(held, inTag)
    IN  /\ tagPending' = result.held
        /\ inTag' = result.inside
        /\ shown' = shown \o result.out
        /\ cutClose' = (cutClose \/ (result.inside /\ held # << >> /\ Last(held) = "]"))

StreamInit ==
    /\ answer \in Answers
    /\ read = 0
    /\ ended = FALSE
    /\ pending = << >> /\ inThink = FALSE
    /\ tagPending = << >> /\ inTag = FALSE
    /\ shown = << >>
    /\ cutClose = FALSE

\* CliProgress::Token with the next n marks.
Push(n) ==
    LET result == ThinkFrom(pending \o SubSeq(answer, read + 1, read + n), inThink)
    IN  /\ ~ended
        /\ read + n <= Len(answer)
        /\ read' = read + n
        /\ pending' = result.held
        /\ inThink' = result.inside
        /\ PushTag(result.out)
        /\ UNCHANGED <<answer, ended>>

\* The end of the turn: the think filter returns what it holds, even of a block
\* that was never closed; of a gateway tag that was never closed nothing comes.
Finish ==
    LET held == tagPending \o pending
        result == IF pending = << >> THEN [held |-> tagPending, inside |-> inTag, out |-> << >>]
                                     ELSE TagFrom(held, inTag)
    IN  /\ ~ended
        /\ read = Len(answer)
        /\ ended' = TRUE
        /\ shown' = shown \o result.out \o (IF result.inside THEN << >> ELSE result.held)
        /\ pending' = << >> /\ inThink' = FALSE
        /\ tagPending' = << >> /\ inTag' = FALSE
        /\ UNCHANGED <<answer, read, cutClose>>

StreamNext ==
    \/ \E n \in 1..Len(answer) : Push(n)
    \/ Finish

StreamSpec == StreamInit /\ [][StreamNext]_streamVars

-----------------------------------------------------------------------------
(* The stored reply. *)

\* filter_think_tags
Visible[s \in Strings] ==
    LET open == Find(s, ThinkOpen)
        block == After(s, ThinkOpen, open)
        closed == Find(block, ThinkClose)
    IN  CASE open = 0 -> s
          [] open > 0 /\ closed = 0 -> Before(s, open)
          [] OTHER -> Before(s, open) \o Visible[After(block, ThinkClose, closed)]

\* The answer ends inside of a think block.
Unclosed[s \in Strings] ==
    LET open == Find(s, ThinkOpen)
        block == After(s, ThinkOpen, open)
        closed == Find(block, ThinkClose)
    IN  open > 0 /\ (closed = 0 \/ Unclosed[After(block, ThinkClose, closed)])

\* The gateway tags, found as the regular expression finds them, cut out.
WithoutTags[s \in Strings] ==
    LET open == Find(s, {TagStart})
        block == After(s, {TagStart}, open)
        closed == Find(block, {TagEnd})
    IN  IF open = 0 \/ closed = 0 THEN s
        ELSE Before(s, open) \o WithoutTags[After(block, {TagEnd}, closed)]

Stored == WithoutTags[Visible[answer]]

\* No tag begins inside of another one.
NoneNested(s) ==
    \A p, q \in Positions(s, {TagStart}) :
        p < q => \E e \in Positions(s, {TagEnd}) : p + Len(TagStart) <= e /\ e + 1 < q

\* All blocks and tags of the answer are closed.  A tag whose text is also inside of
\* another one is cut out of that one too (clean.replace), which WithoutTags does not.
WellFormed ==
    ~Unclosed[answer] /\ Find(Stored, {TagStart}) = 0 /\ NoneNested(Visible[answer])

\* Wherever the stream cuts a well-formed answer, the chat sees the beginning of
\* what the stored reply says, and at the end all of it: no part of a tag shows
\* up and nothing held back is lost or repeated.  The gateway filter forgets the
\* first bracket of "]]" when a push ends after it, and hides what follows.
ShownAsStored ==
    WellFormed /\ ~cutClose =>
        IsPrefix(shown, Stored) /\ (ended => shown = Stored)
=============================================================================
