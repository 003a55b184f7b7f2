------------------------------ MODULE MCSplit ------------------------------
(* Texts for MessageSplit: short, two marks, and up to three windows long.   *)
(* Replies are trimmed before they are sent.                                 *)
EXTENDS MessageSplit

MCTexts ==
    { t \in UNION { [1..n -> Marks] : n \in {0, 2, 7} } :
        t # << >> => t[1] \in {"letter", "fence"} }
=============================================================================
