------------------------------ MODULE MCLanes ------------------------------
(* Instances of ConversationLanes. *)
EXTENDS ConversationLanes

OneCodexKey == {"codexChat"}
TwoKeys == {"codexChat", "claudeChat"}
MCBackendOf == [k \in Keys |->
                   CASE k = "codexChat" -> "codex"
                     [] k = "claudeChat" -> "claude"]

Texts == {"text"}
SteeredOrScheduled == {"text", "scheduled"}
=============================================================================
