----------------------------- MODULE MCServers ------------------------------
(* What answers to the turns of an Astra profile: its app server, and the    *)
(* server that its token is checked by.  A behaviour moves one of them.      *)
EXTENDS CodexPool, AuthGuard

VARIABLE answering

ServersInit == answering \in {"app", "auth"} /\ Init /\ AuthInit

ServersNext ==
    /\ UNCHANGED answering
    /\ \/ answering = "app" /\ Next /\ UNCHANGED authVars
       \/ answering = "auth" /\ AuthNext /\ UNCHANGED vars

ServersSpec == ServersInit /\ [][ServersNext]_<<answering, vars, authVars>>
=============================================================================
