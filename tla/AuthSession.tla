---------------------------- MODULE AuthSession ----------------------------
(***************************************************************************)
(* A user's session in the client: AuthManager and its TokenStorage        *)
(* (auth-service/src/auth-manager.ts, token-storage.ts), which keeps four  *)
(* secrets in the editor's secret store.                                   *)
(*                                                                         *)
(* initialize, login, logout and refreshAccessToken are processes with one *)
(* step per await; the timer, the user and other extensions start them     *)
(* side by side.  The server is external: a request is answered, or        *)
(* refused, or fails.  So does every operation of the store, the four      *)
(* writes of saveTokens and the four deletions of clearTokens each for     *)
(* itself, and the program may end and be started again at any time.  A    *)
(* register is a login.                                                    *)
(***************************************************************************)
EXTENDS Naturals

CONSTANTS
    Call,          \* calls the client may have under way at a time
    MaxRestarts    \* bound: restarts of the client

ASSUME SessionAssumption == MaxRestarts \in Nat

VARIABLES
    secrets,     \* the keys that have a value in the secret store
    expired,     \* the expiry they tell of is over
    session,     \* authState.isAuthenticated
    timer,       \* whether the refresh timer runs
    phase,       \* of activate: it awaits initialize, or has succeeded or failed with it
    restarts,
    call,        \* which call each is and where
    torn,        \* history: a clearTokens failed part of the way and none succeeded, nor a saveTokens, since
    disturbed    \* history: a logout ran beside a call that had its answer already

vars == <<secrets, expired, session, timer, phase, restarts, call, torn, disturbed>>

Key == {"access", "refresh", "expiresIn", "lastRefresh"}

\* what getTokens wants
Pair == {"access", "refresh", "expiresIn"} \subseteq secrets

\* isTokenExpired
Expired == expired \/ ~({"expiresIn", "lastRefresh"} \subseteq secrets)

Done == [op |-> "none", at |-> "idle"]

Init ==
    /\ secrets = {} /\ expired = FALSE
    /\ session = FALSE /\ timer = FALSE
    /\ phase = "active"
    /\ restarts = 0
    /\ call = [c \in Call |-> Done]
    /\ torn = FALSE /\ disturbed = FALSE

----------------------------------------------------------------------------
At(c, at) == call[c].at = at

Overlap(calls) ==
    \E c, d \in Call : calls[c].at \in {"clear", "off"} /\ calls[d].at \in {"save", "me"}

Becomes(c, k) ==
    /\ call' = [call EXCEPT ![c] = k]
    /\ disturbed' = (disturbed \/ Overlap(call'))
    /\ UNCHANGED restarts

\* call c goes on to its next await
GoesOn(c, op, at) ==
    /\ Becomes(c, [op |-> op, at |-> at])
    /\ UNCHANGED <<timer, phase>>

\* call c ends; while activate awaits initialize there is no other call, and activate ends with it
Ends(c, outcome) ==
    /\ Becomes(c, Done)
    /\ phase' = IF phase = "starting" THEN outcome ELSE phase

TimerKept == timer
TimerAfterLogout == FALSE

\* logout up to its await, as a call of its own or in the catch of one
SignsOut(c, op) ==
    /\ timer' = TimerAfterLogout
    /\ Becomes(c, [op |-> op, at |-> "clear"])
    /\ UNCHANGED phase

ThrowsUnheeded(c, outcome) ==
    /\ Ends(c, IF call[c].op = "refresh" THEN "active" ELSE outcome)
    /\ UNCHANGED timer

\* What follows a refresh that throws: initialize catches it and logs out.  Any other call
\* is over with its logout, or with what it throws.
Throws(c, outcome) ==
    IF phase = "starting" /\ call[c].op = "refresh"
    THEN SignsOut(c, "logout")
    ELSE Ends(c, outcome) /\ UNCHANGED timer

----------------------------------------------------------------------------
Logout(c) ==
    /\ phase = "active" /\ At(c, "idle")
    /\ SignsOut(c, "logout")
    /\ UNCHANGED <<secrets, expired, session, torn>>

Login(c) ==
    /\ phase = "active" /\ At(c, "idle")
    /\ GoesOn(c, "login", "ask")
    /\ UNCHANGED <<secrets, expired, session, torn>>

\* the timer fires, getAccessToken finds the token expired, or another extension asks for it
Refresh(c) ==
    /\ phase = "active" /\ At(c, "idle")
    /\ GoesOn(c, "refresh", "read")
    /\ UNCHANGED <<secrets, expired, session, torn>>

ReadRefreshToken(c) ==
    /\ At(c, "read")
    /\ "refresh" \in secrets
    /\ GoesOn(c, "refresh", "ask")
    /\ UNCHANGED <<secrets, expired, session, torn>>

\* the first await of refreshAccessToken is before its try; so are the reads of initialize
ReadFails(c) ==
    /\ call[c].at \in {"restore", "read"}
    /\ Throws(c, "failed")
    /\ UNCHANGED <<secrets, expired, session, torn>>

Answered(c) ==
    /\ At(c, "ask")
    /\ GoesOn(c, call[c].op, "save")
    /\ UNCHANGED <<secrets, expired, session, torn>>

SaveTokens(c) ==
    /\ At(c, "save")
    /\ secrets' = Key /\ expired' = FALSE
    /\ torn' = FALSE
    /\ GoesOn(c, call[c].op, "me")
    /\ UNCHANGED session

\* fetchUserInfo answers: updateAuthState, and startAutoRefresh but for a refresh; with
\* autoRefresh switched off no timer is left
FetchUserInfo(c) ==
    /\ At(c, "me")
    /\ session' = TRUE
    /\ timer' \in IF call[c].op = "refresh" THEN {timer} ELSE BOOLEAN
    /\ Ends(c, "active")
    /\ UNCHANGED <<secrets, expired, torn>>

OnlyThrows(op) == op = "login"

\* A request fails or is refused, or saveTokens fails with some of its writes done.  A login
\* throws; a refresh logs out before it does, and initialize logs out.
CallFails(c) ==
    /\ call[c].at \in {"ask", "save", "me"}
    /\ \E written \in SUBSET Key :
         /\ ~At(c, "save") => written = {}
         /\ secrets' = secrets \cup written
         /\ expired' \in IF written = {} THEN {expired} ELSE {expired, FALSE}
    /\ IF OnlyThrows(call[c].op)
       THEN Ends(c, "failed") /\ UNCHANGED timer
       ELSE SignsOut(c, IF call[c].op = "refresh" THEN "refresh" ELSE "logout")
    /\ UNCHANGED <<session, torn>>

ClearTokens(c) ==
    /\ At(c, "clear")
    /\ secrets' = {} /\ expired' = FALSE
    /\ torn' = FALSE
    /\ GoesOn(c, call[c].op, "off")
    /\ UNCHANGED session

\* clearTokens fails with some of its deletions done: logout throws before updateAuthState
ClearFails(c) ==
    /\ At(c, "clear")
    /\ \E deleted \in SUBSET Key :
         /\ secrets' = secrets \ deleted
         /\ torn' = (torn \/ deleted # {})
    /\ Throws(c, "failed")
    /\ UNCHANGED <<expired, session>>

SignedOut(c) ==
    /\ At(c, "off")
    /\ session' = FALSE
    /\ Throws(c, "active")
    /\ UNCHANGED <<secrets, expired, torn>>

\* The program ends at any point, with some of the writes or deletions under way done, and
\* activate starts initialize.
Restart(c) ==
    /\ restarts < MaxRestarts
    /\ restarts' = restarts + 1
    /\ \E written, deleted \in SUBSET Key :
         /\ (\A d \in Call : ~At(d, "save")) => written = {}
         /\ (\A d \in Call : ~At(d, "clear")) => deleted = {}
         /\ secrets' = (secrets \cup written) \ deleted
    /\ session' = FALSE /\ timer' = FALSE
    /\ phase' = "starting"
    /\ call' = [d \in Call |-> IF d = c THEN [op |-> "boot", at |-> "restore"] ELSE Done]
    /\ torn' = FALSE /\ disturbed' = FALSE
    /\ UNCHANGED expired

\* initialize has read the store
Restore(c) ==
    /\ At(c, "restore")
    /\ \/ ~Pair /\ Ends(c, "active") /\ UNCHANGED timer
       \/ Pair /\ Expired /\ GoesOn(c, "refresh", "read")
       \/ Pair /\ ~Expired /\ GoesOn(c, "boot", "me")
    /\ UNCHANGED <<secrets, expired, session, torn>>

TokenExpires ==
    /\ ~Expired
    /\ expired' = TRUE
    /\ UNCHANGED <<secrets, session, timer, phase, restarts, call, torn, disturbed>>

----------------------------------------------------------------------------
Next ==
    \/ \E c \in Call : Logout(c)
    \/ \E c \in Call : Login(c)
    \/ \E c \in Call : Refresh(c)
    \/ \E c \in Call : ReadRefreshToken(c)
    \/ \E c \in Call : ReadFails(c)
    \/ \E c \in Call : Answered(c)
    \/ \E c \in Call : SaveTokens(c)
    \/ \E c \in Call : FetchUserInfo(c)
    \/ \E c \in Call : CallFails(c)
    \/ \E c \in Call : ClearTokens(c)
    \/ \E c \in Call : ClearFails(c)
    \/ \E c \in Call : SignedOut(c)
    \/ \E c \in Call : Restart(c)
    \/ \E c \in Call : Restore(c)
    \/ TokenExpires

\* every await of a call that is under way settles, with success or not
Fairness ==
    \A c \in Call :
        WF_vars(Restore(c) \/ ReadRefreshToken(c) \/ ReadFails(c) \/ Answered(c) \/ SaveTokens(c)
                \/ FetchUserInfo(c) \/ CallFails(c) \/ ClearTokens(c) \/ ClearFails(c) \/ SignedOut(c))

Spec == Init /\ [][Next]_vars /\ Fairness

----------------------------------------------------------------------------
AtRest == phase # "starting" /\ \A c \in Call : call[c] = Done

\* When nothing is under way, a session has its tokens in the store and the refresh timer
\* runs for a session only: whatever logins, refreshes, logouts and restarts came before,
\* whichever failed and wherever.  The code gives no more than that after a clearTokens that
\* has deleted a part, for then the session is kept, nor, until the next start, after a
\* logout beside a call that had its answer.
SessionHasTokens ==
    AtRest /\ ~disturbed => /\ session => Pair \/ torn
                            /\ timer => session

Starting == phase = "starting"

\* activate has succeeded with a session, or without tokens that could restore one; or it has failed
StartSettled ==
    \/ phase = "active" /\ (session \/ ~Pair)
    \/ phase = "failed"

\* A start of the program comes to an end, and if activate succeeds then with the stored
\* session restored or else without tokens that could restore one: also when the refresh
\* fails, its logout and the one of initialize.
StartSettles == Starting ~> StartSettled
=============================================================================
