------------------------------ MODULE AuthGuard ------------------------------
(***************************************************************************)
(* Authorization of the Astra CLI: the counter of failures that keeps      *)
(* turns from being spawned (check_auth_circuit, record_auth_failure), the *)
(* access token that all turns share (SharedAuthToken) and the file of     *)
(* credentials that it is read from and renewed in.                        *)
(*                                                                         *)
(* The shared token is behind a lock that is held for one read or write;   *)
(* the file has none, and is truncated before it is written.               *)
(***************************************************************************)
EXTENDS Naturals, FiniteSets

CONSTANTS
    Users,           \* turns on the Astra profile and /auth commands at once
    AuthThreshold,   \* AUTH_FAILURE_THRESHOLD
    MaxAuthCalls,    \* bound: turns and commands
    MaxTokens        \* bound: tokens that the server issues

ASSUME AuthAssumption ==
    /\ IsFiniteSet(Users)
    /\ AuthThreshold \in Nat /\ MaxAuthCalls \in Nat
    /\ MaxTokens \in Nat \ {0}

VARIABLES
    failures, recent,    \* entry of auth_failures; its last failure is in the cooldown
    shared,              \* SharedAuthToken.token
    credentials,         \* the file: [access, others], its token and its other profiles
    issued, revoked,     \* the server: how many tokens, and which it refuses
    user,                \* turn or command -> [at, why, tok, doc]
    authCalls,
    \* history: revoked tokens that a turn was refused with and invalidated; who has had the
    \* cache invalidated behind its back, and whether such a one filled it; failures that
    \* were not answered by a new token; profiles may be lost
    refused, overtaken, overtook, unanswered, clobbered

authHistory == <<refused, overtaken, overtook, unanswered, clobbered>>
authServer  == <<issued, revoked>>
authVars ==
    <<failures, recent, shared, credentials, authServer, user, authCalls, authHistory>>

AuthTokens == 1..MaxTokens
NoAuthToken == 0

\* A file that is empty, missing or cannot be parsed is read as {}.
EmptyFile == [access |-> NoAuthToken, others |-> FALSE]
AuthIdle == [at |-> "idle", why |-> "turn", tok |-> NoAuthToken, doc |-> EmptyFile]

AuthInit ==
    /\ failures = 0 /\ recent = FALSE
    /\ shared = NoAuthToken /\ credentials = [access |-> 1, others |-> TRUE]
    /\ issued = 1 /\ revoked = {}
    /\ user = [c \in Users |-> AuthIdle]
    /\ authCalls = 0
    /\ refused = {} /\ overtaken = {} /\ overtook = FALSE
    /\ unanswered = 0 /\ clobbered = FALSE

UserAt(c, place) == user[c].at = place
UserGoes(c, place) == user' = [user EXCEPT ![c].at = place]
UserGoesWith(c, place, t) ==
    user' = [user EXCEPT ![c].at = place, ![c].tok = t]
UserEnds(c) == user' = [user EXCEPT ![c] = AuthIdle]

NewCall == authCalls < MaxAuthCalls /\ authCalls' = authCalls + 1

-----------------------------------------------------------------------------
(* The circuit. *)

CircuitOpen == failures > AuthThreshold /\ recent

\* The circuit is open: the turn ends with a message and no CLI is spawned.
TurnRefused(c) ==
    /\ UserAt(c, "idle") /\ NewCall
    /\ CircuitOpen
    /\ UNCHANGED <<failures, recent, shared, credentials, authServer, user, authHistory>>

\* An entry whose cooldown is over is removed.
TurnBegins(c) ==
    /\ UserAt(c, "idle") /\ NewCall
    /\ ~CircuitOpen
    /\ failures' = (IF recent THEN failures ELSE 0)
    /\ unanswered' = (IF recent THEN unanswered ELSE 0)
    /\ UserGoes(c, "get")
    /\ UNCHANGED <<recent, shared, credentials, authServer, refused, overtaken, overtook,
                   clobbered>>

ClearFailures == failures' = 0 /\ recent' = FALSE /\ unanswered' = 0

Cooldown ==
    /\ recent
    /\ recent' = FALSE
    /\ UNCHANGED <<failures, shared, credentials, authServer, user, authCalls, authHistory>>

-----------------------------------------------------------------------------
(* SharedAuthToken.get and refresh. *)

GetCached(c) ==
    /\ UserAt(c, "get")
    /\ IF shared # NoAuthToken THEN UserGoesWith(c, "run", shared) ELSE UserGoes(c, "read")
    /\ UNCHANGED <<failures, recent, shared, credentials, authServer, authCalls, authHistory>>

ReadCredentials(c) ==
    /\ UserAt(c, "read")
    /\ IF credentials.access # NoAuthToken
          THEN UserGoesWith(c, "validate", credentials.access)
          ELSE UserGoes(c, "login")
    /\ UNCHANGED <<failures, recent, shared, credentials, authServer, authCalls, authHistory>>

\* The request of a good token may run into its limit of 3 s.
Valid_Any(t) == TRUE
Valid(t) == t \notin revoked

Validate(c) ==
    /\ UserAt(c, "validate")
    /\ \/ /\ Valid(user[c].tok)
          /\ UserGoes(c, "cache")
          /\ overtaken' = overtaken \ {c}
       \/ UserGoesWith(c, "login", NoAuthToken) /\ UNCHANGED overtaken
    /\ UNCHANGED <<failures, recent, shared, credentials, authServer, authCalls, refused,
                   overtook, unanswered, clobbered>>

FillCache(c) ==
    /\ UserAt(c, "cache")
    /\ shared' = user[c].tok
    /\ overtook' = (c \in overtaken) /\ overtaken' = overtaken \ {c}
    /\ IF user[c].why = "turn" THEN UserGoes(c, "run") ELSE UserEnds(c)
    /\ UNCHANGED <<failures, recent, credentials, authServer, authCalls, refused, unanswered,
                   clobbered>>

-----------------------------------------------------------------------------
(* Login and save_token_to_cli_credentials. *)

Login(c) ==
    /\ UserAt(c, "login") /\ issued < MaxTokens
    /\ issued' = issued + 1
    /\ UserGoesWith(c, "load", issued + 1)
    /\ overtaken' = overtaken \ {c}
    /\ UNCHANGED <<failures, recent, shared, credentials, revoked, authCalls, refused,
                   overtook, unanswered, clobbered>>

\* A renewal that fails leaves its turn's failure counted.
NotRenewed(c) ==
    /\ UserEnds(c)
    /\ unanswered' = (IF user[c].why = "renew" THEN unanswered + 1 ELSE unanswered)

\* No username or password, or the request fails.  A turn runs without a token.
LoginFails(c) ==
    /\ UserAt(c, "login")
    /\ IF user[c].why = "turn" THEN UserGoes(c, "run") /\ UNCHANGED unanswered
                               ELSE NotRenewed(c)
    /\ UNCHANGED <<failures, recent, shared, credentials, authServer, authCalls, refused,
                   overtaken, overtook, clobbered>>

\* Somebody has truncated the file and not yet written it.
BeingWritten == \E c \in Users : UserAt(c, "write")

LoadDocument(c) ==
    /\ UserAt(c, "load")
    /\ user' = [user EXCEPT ![c].at = "truncate", ![c].doc = credentials]
    /\ clobbered' = (clobbered \/ BeingWritten)
    /\ UNCHANGED <<failures, recent, shared, credentials, authServer, authCalls, refused,
                   overtaken, overtook, unanswered>>

Truncate(c) ==
    /\ UserAt(c, "truncate")
    /\ credentials' = EmptyFile
    /\ UserGoes(c, "write")
    /\ UNCHANGED <<failures, recent, shared, authServer, authCalls, authHistory>>

Saved(c) == [user[c].doc EXCEPT !.access = user[c].tok]

WriteDocument(c) ==
    /\ UserAt(c, "write")
    /\ credentials' = Saved(c)
    /\ user' = [user EXCEPT ![c].at = IF user[c].why = "renew" THEN "clear" ELSE "cache",
                           ![c].doc = EmptyFile]
    /\ UNCHANGED <<failures, recent, shared, authServer, authCalls, authHistory>>

\* refresh ignores the error; try_auto_relogin returns it and the token is dropped.
SaveFails(c) ==
    /\ user[c].at \in {"truncate", "write"}
    /\ clobbered' = (clobbered \/ UserAt(c, "write"))
    /\ IF user[c].why = "turn"
          THEN /\ user' = [user EXCEPT ![c].at = "cache", ![c].doc = EmptyFile]
               /\ UNCHANGED unanswered
          ELSE NotRenewed(c)
    /\ UNCHANGED <<failures, recent, shared, credentials, authServer, authCalls, refused,
                   overtaken, overtook>>

\* clear_auth_failure, before the cache is filled.
RenewalClears(c) ==
    /\ UserAt(c, "clear")
    /\ ClearFailures
    /\ UserGoes(c, "cache")
    /\ UNCHANGED <<shared, credentials, authServer, authCalls, refused, overtaken, overtook,
                   clobbered>>

-----------------------------------------------------------------------------
(* The run of the CLI. *)

\* It succeeds with a token that it got before that was revoked, or without one with
\* credentials of its own.
RunSucceeds(c) ==
    /\ UserAt(c, "run")
    /\ ClearFailures
    /\ UserEnds(c)
    /\ UNCHANGED <<shared, credentials, authServer, authCalls, refused, overtaken, overtook,
                   clobbered>>

RunFailsOtherwise(c) ==
    /\ UserAt(c, "run")
    /\ UserEnds(c)
    /\ UNCHANGED <<failures, recent, shared, credentials, authServer, authCalls, authHistory>>

\* The output tells of an authorization error, of this token or of another credential
\* (is_auth_error looks for words).  The token is renewed if the
\* CLI exited with it (renew), not if the bridge returned it as an error (give_up).
RunIsRefused(c) ==
    /\ UserAt(c, "run")
    /\ failures' = failures + 1 /\ recent' = TRUE
    /\ \E why \in {"renew", "give_up"} :
          /\ user' = [user EXCEPT ![c].at = "invalidate", ![c].why = why]
          /\ unanswered' = (IF why = "renew" THEN unanswered ELSE unanswered + 1)
    /\ UNCHANGED <<shared, credentials, authServer, authCalls, refused, overtaken, overtook,
                   clobbered>>

\* Step 1 of /auth; its probes change no state.
CommandBegins(c) ==
    /\ UserAt(c, "idle") /\ NewCall
    /\ ClearFailures
    /\ user' = [user EXCEPT ![c].at = "invalidate", ![c].why = "auth"]
    /\ UNCHANGED <<shared, credentials, authServer, refused, overtaken, overtook, clobbered>>

Invalidated_Kept == shared
Invalidated == NoAuthToken

\* A token that was issued or validated and is not yet in the cache.
HasFresh(c) == user[c].at \in {"cache", "load", "truncate", "write", "clear"}

InvalidateToken(c) ==
    /\ UserAt(c, "invalidate")
    /\ shared' = Invalidated
    /\ refused' = refused \union ({user[c].tok} \intersect revoked)
    /\ overtaken' = {d \in Users : HasFresh(d)} /\ overtook' = FALSE
    /\ IF user[c].why = "give_up" THEN UserEnds(c) ELSE UserGoesWith(c, "login", NoAuthToken)
    /\ UNCHANGED <<failures, recent, credentials, authServer, authCalls, unanswered, clobbered>>

\* Server side: a token expires or is withdrawn.  One that nobody has is left alone.
Revoke(t) ==
    /\ t <= issued /\ t \notin revoked
    /\ t \in {shared, credentials.access} \union {user[c].tok : c \in Users}
    /\ revoked' = revoked \union {t}
    /\ UNCHANGED <<failures, recent, shared, credentials, issued, user, authCalls,
                   authHistory>>

AuthNext ==
    \/ \E c \in Users :
          \/ TurnRefused(c) \/ TurnBegins(c) \/ CommandBegins(c)
          \/ GetCached(c) \/ ReadCredentials(c) \/ Validate(c) \/ FillCache(c)
          \/ Login(c) \/ LoginFails(c) \/ LoadDocument(c) \/ Truncate(c)
          \/ WriteDocument(c) \/ SaveFails(c) \/ RenewalClears(c)
          \/ RunSucceeds(c) \/ RunFailsOtherwise(c) \/ RunIsRefused(c) \/ InvalidateToken(c)
    \/ Cooldown
    \/ \E t \in AuthTokens : Revoke(t)

AuthSpec == AuthInit /\ [][AuthNext]_authVars

-----------------------------------------------------------------------------
(* Properties. *)

AuthPlaces == {"idle", "get", "read", "validate", "cache", "login", "load", "truncate",
               "write", "clear", "run", "invalidate"}
AnyToken == AuthTokens \union {NoAuthToken}
Documents == [access : AnyToken, others : BOOLEAN]

AuthTypeOK ==
    /\ failures \in Nat /\ recent \in BOOLEAN /\ unanswered \in Nat
    /\ shared \in AnyToken /\ credentials \in Documents
    /\ issued \in AuthTokens /\ revoked \subseteq AuthTokens
    /\ user \in [Users -> [at : AuthPlaces, why : {"turn", "renew", "give_up", "auth"},
                           tok : AnyToken, doc : Documents]]
    /\ authCalls \in Nat
    /\ refused \subseteq AuthTokens /\ overtaken \subseteq Users
    /\ overtook \in BOOLEAN /\ clobbered \in BOOLEAN

\* A token that a turn was refused with is given to no later turn, though it may still
\* be in the file: the cache holds it again only if a turn that had validated it before
\* filled the cache after it was invalidated.
RefusedStaysOut == shared \in refused => overtook

\* The other profiles in the file survive every renewal of a token, unless a renewal
\* read the file while another one was writing it or a write failed half-way.
ProfilesKept == credentials.others \/ BeingWritten \/ clobbered

\* Failures that a new token answers do not add up: every failure that the circuit
\* counts belongs to a turn that is still renewing its token, or to one that has failed
\* to.  With logins that succeed, as many turns as the threshold never open it.
Renewing == {c \in Users : user[c].why = "renew"}
CountedIsUnanswered == failures <= Cardinality(Renewing) + unanswered
=============================================================================
