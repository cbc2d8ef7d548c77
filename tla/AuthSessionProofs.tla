------------------------- MODULE AuthSessionProofs -------------------------
(***************************************************************************)
(* For any number of calls and restarts: what the store holds beside the   *)
(* session when nothing is under way, how a start of the program ends, and *)
(* that every call gets nearer to its end.                                 *)
(*                                                                         *)
(* SessionHasTokens speaks of the calls at rest and is not inductive.      *)
(* ClientInv says what holds while calls are under way: a call that awaits *)
(* the user's data has its tokens in the store, one that logs out has      *)
(* stopped the timer, and a session without tokens has a logout about to   *)
(* end it.                                                                 *)
(***************************************************************************)
EXTENDS AuthSession, TLAPS

\* the calls there are, and the awaits of each
CallRecord ==
    [op : {"none"}, at : {"idle"}]
    \cup [op : {"login"}, at : {"ask", "save", "me"}]
    \cup [op : {"refresh"}, at : {"read", "ask", "save", "me", "clear", "off"}]
    \cup [op : {"logout"}, at : {"clear", "off"}]
    \cup [op : {"boot"}, at : {"restore", "me"}]

SessionTypeOK ==
    /\ secrets \in SUBSET Key
    /\ phase \in {"starting", "active", "failed"}
    /\ restarts \in Nat
    /\ call \in [Call -> CallRecord]
    /\ {expired, session, timer, torn, disturbed} \subseteq BOOLEAN

ClientInv ==
    ~disturbed =>
        /\ ~Overlap(call)
        /\ session => Pair \/ torn \/ \E c \in Call : At(c, "off")
        /\ timer => session
        /\ \A c \in Call : At(c, "me") => Pair
        /\ \A c \in Call : call[c].at \in {"clear", "off"} => ~timer

\* the steps that are left to a call, failures and the logouts after them included
StepsLeft(k) ==
    CASE k.at = "idle" -> 0
      [] k.at = "off" -> IF k.op = "refresh" THEN 3 ELSE 1
      [] k.at = "clear" -> IF k.op = "refresh" THEN 4 ELSE 2
      [] k.at = "me" -> 5
      [] k.at = "save" -> 6
      [] k.at = "ask" -> 7
      [] k.at = "read" -> 8
      [] k.at = "restore" -> 9

\* the steps one call takes
StepOf(c) ==
    \/ Logout(c) \/ Login(c) \/ Refresh(c) \/ ReadRefreshToken(c) \/ ReadFails(c) \/ Answered(c)
    \/ SaveTokens(c) \/ FetchUserInfo(c) \/ CallFails(c) \/ ClearTokens(c) \/ ClearFails(c)
    \/ SignedOut(c) \/ Restore(c)

\* What a start leaves when activate succeeds: a session, or no tokens to restore one from.
Settled == session \/ ~Pair

\* Call c goes on as k: nearer to its end if it was under way.  If it ends, activate succeeds
\* with what it leaves settled, or fails because the store did.
GoesOnAs(c, k) ==
    /\ Becomes(c, k)
    /\ At(c, "idle") => phase = "active"
    /\ ~At(c, "idle") => StepsLeft(k) < StepsLeft(call[c]) /\ (k.op = "login" => call[c].op = "login")
    /\ k.at # "idle" => phase' = phase /\ (session' => session) /\ (k.at = "off" => secrets' = {})
    /\ k.at = "idle" =>
         /\ k = Done
         /\ phase # "starting" => phase' = phase
         /\ phase = "starting" =>
              \/ call[c].op = "login"
              \/ phase' = "failed" /\ (ReadFails(c) \/ ClearFails(c))
              \/ phase' = "active" /\ Settled'
              \/ phase' = "active" /\ At(c, "off") /\ secrets' = secrets

LEMMA CallRecords ==
    /\ Done \in CallRecord /\ Done.at = "idle" /\ Done.op = "none"
    /\ \A k \in CallRecord : /\ StepsLeft(k) \in 0 .. 9
                             /\ k.at = "idle" <=> k = Done
                             /\ k.at # "idle" => StepsLeft(k) > 0
<1>1. Done \in CallRecord /\ Done.at = "idle" /\ Done.op = "none"
    BY DEF Done, CallRecord
<1>2. \A k \in CallRecord : StepsLeft(k) \in 0 .. 9 /\ (k.at # "idle" => StepsLeft(k) > 0)
    BY DEF CallRecord, StepsLeft
<1>3. \A k \in CallRecord : k.at = "idle" <=> k = Done
    BY DEF CallRecord, Done
<1> QED
    BY <1>1, <1>2, <1>3

\* A call that signs out, goes on, or throws.
LEMMA SigningOut ==
    ASSUME SessionTypeOK, NEW c \in Call, NEW op \in {"logout", "refresh"}, SignsOut(c, op),
           session' = session,
           At(c, "idle") => phase = "active",
           ~At(c, "idle") => StepsLeft([op |-> op, at |-> "clear"]) < StepsLeft(call[c])
    PROVE  \E k \in CallRecord : GoesOnAs(c, k)
<1>1. PICK k : k = [op |-> op, at |-> "clear"]
    OBVIOUS
<1>2. k \in CallRecord /\ k.at = "clear" /\ k.op = op
    BY <1>1 DEF CallRecord
<1>3. GoesOnAs(c, k)
    BY <1>1, <1>2 DEF GoesOnAs, SignsOut
<1> QED
    BY <1>2, <1>3

LEMMA GoingOn ==
    ASSUME SessionTypeOK, NEW c \in Call, NEW op, NEW at, at # "idle", GoesOn(c, op, at),
           [op |-> op, at |-> at] \in CallRecord,
           session' = session, at = "off" => secrets' = {},
           At(c, "idle") => phase = "active",
           ~At(c, "idle") => /\ StepsLeft([op |-> op, at |-> at]) < StepsLeft(call[c])
                             /\ op = "login" => call[c].op = "login"
    PROVE  \E k \in CallRecord : GoesOnAs(c, k)
<1>1. PICK k \in CallRecord : k = [op |-> op, at |-> at]
    OBVIOUS
<1>2. k.at = at /\ k.op = op
    BY <1>1
<1>3. GoesOnAs(c, k)
    BY <1>1, <1>2 DEF GoesOnAs, GoesOn
<1> QED
    BY <1>3

LEMMA Throwing ==
    ASSUME SessionTypeOK, NEW c \in Call, NEW outcome, Throws(c, outcome), ~At(c, "idle"),
           session' => session,
           call[c].op = "refresh" => StepsLeft([op |-> "logout", at |-> "clear"]) < StepsLeft(call[c]),
           phase = "starting" =>
              \/ outcome = "failed" /\ (ReadFails(c) \/ ClearFails(c))
              \/ outcome = "active" /\ At(c, "off") /\ secrets' = secrets
    PROVE  \E k \in CallRecord : GoesOnAs(c, k)
<1>1. call[c] \in CallRecord
    BY DEF SessionTypeOK
<1>2. CASE phase = "starting" /\ call[c].op = "refresh"
    <2>1. PICK k : k = [op |-> "logout", at |-> "clear"]
        OBVIOUS
    <2>2. k \in CallRecord /\ k.at = "clear" /\ k.op = "logout"
        BY <2>1 DEF CallRecord
    <2>3. GoesOnAs(c, k)
        BY <1>2, <2>1, <2>2 DEF GoesOnAs, Throws, SignsOut
    <2> QED
        BY <2>2, <2>3
<1>3. CASE ~(phase = "starting" /\ call[c].op = "refresh")
    <2>1. Ends(c, outcome)
        BY <1>3 DEF Throws
    <2>2. StepsLeft(Done) = 0 /\ StepsLeft(call[c]) \in 0 .. 9 /\ StepsLeft(call[c]) > 0
        BY <1>1, CallRecords DEF StepsLeft, At
    <2>3. GoesOnAs(c, Done)
        BY <2>1, <2>2, CallRecords DEF GoesOnAs, Ends
    <2> QED
        BY <2>3, CallRecords
<1> QED
    BY <1>2, <1>3

LEMMA CallGoesOn ==
    ASSUME SessionTypeOK, NEW c \in Call, StepOf(c)
    PROVE  \E k \in CallRecord : GoesOnAs(c, k)
<1>1. call[c] \in CallRecord
    BY DEF SessionTypeOK
<1>2. CASE Logout(c)
    BY <1>2, SigningOut DEF Logout
<1>3. CASE Login(c)
    <2>1. [op |-> "login", at |-> "ask"] \in CallRecord
        BY DEF CallRecord
    <2> QED
        BY <1>3, <2>1, GoingOn DEF Login
<1>4. CASE Refresh(c)
    <2>1. [op |-> "refresh", at |-> "read"] \in CallRecord
        BY DEF CallRecord
    <2> QED
        BY <1>4, <2>1, GoingOn DEF Refresh
<1>5. CASE ReadRefreshToken(c)
    <2>1. [op |-> "refresh", at |-> "ask"] \in CallRecord
        BY DEF CallRecord
    <2>2. StepsLeft([op |-> "refresh", at |-> "ask"]) < StepsLeft(call[c])
        BY <1>1, <1>5 DEF ReadRefreshToken, At, StepsLeft, CallRecord
    <2> QED
        BY <1>5, <2>1, <2>2, GoingOn DEF ReadRefreshToken, At
<1>6. CASE ReadFails(c)
    <2>1. /\ ~At(c, "idle") /\ session' = session /\ Throws(c, "failed")
          /\ StepsLeft([op |-> "logout", at |-> "clear"]) < StepsLeft(call[c])
        BY <1>1, <1>6 DEF ReadFails, At, StepsLeft, CallRecord
    <2> QED
        BY <1>6, <2>1, Throwing
<1>7. CASE Answered(c)
    <2>1. [op |-> call[c].op, at |-> "save"] \in CallRecord
        BY <1>1, <1>7 DEF Answered, At, CallRecord
    <2>2. StepsLeft([op |-> call[c].op, at |-> "save"]) < StepsLeft(call[c])
        BY <1>1, <1>7 DEF Answered, At, StepsLeft, CallRecord
    <2> QED
        BY <1>7, <2>1, <2>2, GoingOn DEF Answered, At
<1>8. CASE SaveTokens(c)
    <2>1. [op |-> call[c].op, at |-> "me"] \in CallRecord
        BY <1>1, <1>8 DEF SaveTokens, At, CallRecord
    <2>2. StepsLeft([op |-> call[c].op, at |-> "me"]) < StepsLeft(call[c])
        BY <1>1, <1>8 DEF SaveTokens, At, StepsLeft, CallRecord
    <2> QED
        BY <1>8, <2>1, <2>2, GoingOn DEF SaveTokens, At
<1>9. CASE FetchUserInfo(c)
    <2>1. Ends(c, "active") /\ session' /\ At(c, "me") /\ ~At(c, "idle")
        BY <1>9 DEF FetchUserInfo, At
    <2>2. StepsLeft(Done) < StepsLeft(call[c]) /\ Done.op # "login"
        BY <2>1 DEF At, StepsLeft, Done
    <2>3. GoesOnAs(c, Done)
        BY <2>1, <2>2, CallRecords DEF GoesOnAs, Ends, Settled
    <2> QED
        BY <2>3, CallRecords
<1>10. CASE CallFails(c)
    <2>1. ~At(c, "idle") /\ session' = session
        BY <1>10 DEF CallFails, At
    <2>2. CASE call[c].op = "login"
        <3>1. Ends(c, "failed")
            BY <1>10, <2>2 DEF CallFails, OnlyThrows
        <3>2. StepsLeft(Done) < StepsLeft(call[c])
            BY <1>10 DEF CallFails, StepsLeft, Done
        <3>3. GoesOnAs(c, Done)
            BY <2>1, <2>2, <3>1, <3>2, CallRecords DEF GoesOnAs, Ends
        <3> QED
            BY <3>3, CallRecords
    <2>3. CASE call[c].op # "login"
        <3>1. PICK op \in {"logout", "refresh"} : SignsOut(c, op)
            BY <1>10, <2>3 DEF CallFails, OnlyThrows
        <3>2. StepsLeft([op |-> op, at |-> "clear"]) < StepsLeft(call[c])
            BY <1>10, <3>1 DEF CallFails, StepsLeft
        <3> QED
            BY <2>1, <3>1, <3>2, SigningOut
    <2> QED
        BY <2>2, <2>3
<1>11. CASE ClearTokens(c)
    <2>1. [op |-> call[c].op, at |-> "off"] \in CallRecord
        BY <1>1, <1>11 DEF ClearTokens, At, CallRecord
    <2>2. StepsLeft([op |-> call[c].op, at |-> "off"]) < StepsLeft(call[c])
        BY <1>1, <1>11 DEF ClearTokens, At, StepsLeft, CallRecord
    <2> QED
        BY <1>11, <2>1, <2>2, GoingOn DEF ClearTokens, At
<1>12. CASE ClearFails(c)
    <2>1. ~At(c, "idle") /\ session' = session /\ Throws(c, "failed")
        BY <1>12 DEF ClearFails, At
    <2>2. call[c].op = "refresh" => StepsLeft([op |-> "logout", at |-> "clear"]) < StepsLeft(call[c])
        BY <1>12 DEF ClearFails, At, StepsLeft
    <2> QED
        BY <1>12, <2>1, <2>2, Throwing
<1>13. CASE SignedOut(c)
    <2>1. ~At(c, "idle") /\ ~session' /\ Throws(c, "active") /\ At(c, "off") /\ secrets' = secrets
        BY <1>13 DEF SignedOut, At
    <2>2. call[c].op = "refresh" => StepsLeft([op |-> "logout", at |-> "clear"]) < StepsLeft(call[c])
        BY <2>1 DEF At, StepsLeft
    <2> QED
        BY <2>1, <2>2, Throwing
<1>14. CASE Restore(c)
    <2>1. ~At(c, "idle") /\ session' = session /\ At(c, "restore") /\ secrets' = secrets
        BY <1>14 DEF Restore, At
    <2>2. CASE ~Pair /\ Ends(c, "active")
        <3>1. StepsLeft(Done) < StepsLeft(call[c]) /\ ~Pair' /\ Done.op # "login"
            BY <2>1, <2>2 DEF At, StepsLeft, Done, Pair
        <3>2. GoesOnAs(c, Done)
            BY <2>1, <2>2, <3>1, CallRecords DEF GoesOnAs, Ends, Settled
        <3> QED
            BY <3>2, CallRecords
    <2>3. ASSUME NEW op, NEW at, GoesOn(c, op, at), <<op, at>> \in {<<"refresh", "read">>, <<"boot", "me">>}
          PROVE  \E k \in CallRecord : GoesOnAs(c, k)
        <3>1. [op |-> op, at |-> at] \in CallRecord /\ at \in {"read", "me"} /\ op # "login"
            BY <2>3 DEF CallRecord
        <3>2. StepsLeft([op |-> op, at |-> at]) < StepsLeft(call[c])
            BY <2>1, <3>1 DEF At, StepsLeft
        <3> QED
            BY <2>1, <2>3, <3>1, <3>2, GoingOn
    <2> QED
        BY <1>14, <2>2, <2>3 DEF Restore
<1> QED
    BY <1>2, <1>3, <1>4, <1>5, <1>6, <1>7, <1>8, <1>9, <1>10, <1>11, <1>12, <1>13, <1>14 DEF StepOf

----------------------------------------------------------------------------
(* Types. *)

LEMMA TypeInit == Init => SessionTypeOK
<1> SUFFICES ASSUME Init PROVE SessionTypeOK
    OBVIOUS
<1>1. call \in [Call -> CallRecord]
    BY CallRecords DEF Init
<1> QED
    BY <1>1 DEF Init, SessionTypeOK

\* what a step does to the store, the session and the timer, whatever the call goes on as
LEMMA StoreTypes ==
    ASSUME SessionTypeOK, NEW c \in Call, StepOf(c)
    PROVE  /\ secrets' \in SUBSET Key
           /\ {expired', session', timer', torn'} \subseteq BOOLEAN
           /\ phase' \in {"starting", "active", "failed"}
<1>1. secrets \in SUBSET Key /\ {expired, session, timer, torn} \subseteq BOOLEAN
      /\ phase \in {"starting", "active", "failed"}
    BY DEF SessionTypeOK
<1>2. secrets' \in SUBSET Key
    BY <1>1 DEF StepOf, Logout, Login, Refresh, ReadRefreshToken, ReadFails, Answered, SaveTokens,
                FetchUserInfo, CallFails, ClearTokens, ClearFails, SignedOut, Restore
<1>3. expired' \in BOOLEAN /\ session' \in BOOLEAN
    BY <1>1 DEF StepOf, Logout, Login, Refresh, ReadRefreshToken, ReadFails, Answered, SaveTokens,
                FetchUserInfo, CallFails, ClearTokens, ClearFails, SignedOut, Restore
<1>4. torn' \in BOOLEAN
    BY <1>1 DEF StepOf, Logout, Login, Refresh, ReadRefreshToken, ReadFails, Answered, SaveTokens,
                FetchUserInfo, CallFails, ClearTokens, ClearFails, SignedOut, Restore
<1>5. timer' \in BOOLEAN /\ phase' \in {"starting", "active", "failed"}
    <2>1. ASSUME NEW op, SignsOut(c, op)
          PROVE  timer' \in BOOLEAN /\ phase' = phase
        BY <2>1 DEF SignsOut, TimerAfterLogout
    <2>2. ASSUME NEW op, NEW at, GoesOn(c, op, at)
          PROVE  timer' = timer /\ phase' = phase
        BY <2>2 DEF GoesOn
    <2>3. ASSUME NEW outcome \in {"active", "failed"}, Ends(c, outcome)
          PROVE  phase' \in {"starting", "active", "failed"}
        BY <1>1, <2>3 DEF Ends
    <2>4. ASSUME NEW outcome \in {"active", "failed"}, Throws(c, outcome)
          PROVE  timer' \in BOOLEAN /\ phase' \in {"starting", "active", "failed"}
        BY <1>1, <2>1, <2>3, <2>4 DEF Throws
    <2>5. CASE FetchUserInfo(c)
        BY <1>1, <2>3, <2>5 DEF FetchUserInfo
    <2>6. CASE CallFails(c)
        BY <1>1, <2>1, <2>3, <2>6 DEF CallFails
    <2>7. CASE Restore(c)
        BY <1>1, <2>2, <2>3, <2>7 DEF Restore
    <2>8. CASE ReadFails(c) \/ ClearFails(c) \/ SignedOut(c)
        BY <2>4, <2>8 DEF ReadFails, ClearFails, SignedOut
    <2>9. CASE Logout(c) \/ Login(c) \/ Refresh(c) \/ ReadRefreshToken(c) \/ Answered(c)
               \/ SaveTokens(c) \/ ClearTokens(c)
        BY <1>1, <2>1, <2>2, <2>9
           DEF Logout, Login, Refresh, ReadRefreshToken, Answered, SaveTokens, ClearTokens
    <2> QED
        BY <2>5, <2>6, <2>7, <2>8, <2>9 DEF StepOf
<1> QED
    BY <1>2, <1>3, <1>4, <1>5

LEMMA TypeStep == SessionTypeOK /\ [Next]_vars => SessionTypeOK'
<1> SUFFICES ASSUME SessionTypeOK, [Next]_vars PROVE SessionTypeOK'
    OBVIOUS
<1>1. ASSUME NEW c \in Call, StepOf(c) PROVE SessionTypeOK'
    <2>1. PICK k \in CallRecord : Becomes(c, k)
        BY <1>1, CallGoesOn DEF GoesOnAs
    <2>2. call' \in [Call -> CallRecord] /\ restarts' \in Nat
        BY <2>1 DEF SessionTypeOK, Becomes
    <2>3. disturbed' \in BOOLEAN
        BY <2>1 DEF SessionTypeOK, Becomes, Overlap
    <2> QED
        BY <1>1, <2>2, <2>3, StoreTypes DEF SessionTypeOK
<1>2. ASSUME NEW c \in Call, Restart(c) PROVE SessionTypeOK'
    <2>1. [op |-> "boot", at |-> "restore"] \in CallRecord
        BY DEF CallRecord
    <2>2. call' \in [Call -> CallRecord]
        BY <1>2, <2>1, CallRecords DEF Restart
    <2>3. secrets' \in SUBSET Key
        BY <1>2 DEF Restart, SessionTypeOK
    <2>4. expired' \in BOOLEAN /\ restarts' \in Nat
        BY <1>2 DEF Restart, SessionTypeOK
    <2> QED
        BY <1>2, <2>2, <2>3, <2>4 DEF Restart, SessionTypeOK
<1>3. CASE TokenExpires \/ UNCHANGED vars
    BY <1>3 DEF TokenExpires, vars, SessionTypeOK
<1> QED
    BY <1>1, <1>2, <1>3 DEF Next, StepOf

----------------------------------------------------------------------------
(* The session, its tokens and its timer. *)

LEMMA ClientInvInit == Init => ClientInv
<1> SUFFICES ASSUME Init PROVE ClientInv
    OBVIOUS
<1>1. \A c \in Call : call[c].at = "idle"
    BY DEF Init, Done
<1> QED
    BY <1>1 DEF Init, ClientInv, Overlap, At

\* Undisturbed, a call becomes k: what the others are about is as before.
LEMMA Undisturbed ==
    ASSUME SessionTypeOK, ClientInv, NEW c \in Call, NEW k \in CallRecord, Becomes(c, k), ~disturbed'
    PROVE  /\ ~disturbed /\ ~Overlap(call')
           /\ \A d \in Call : call'[d] = IF d = c THEN k ELSE call[d]
           /\ session => Pair \/ torn \/ \E d \in Call : At(d, "off")
           /\ timer => session
           /\ \A d \in Call : At(d, "me") => Pair
           /\ \A d \in Call : call[d].at \in {"clear", "off"} => ~timer
<1>1. ~disturbed /\ ~Overlap(call')
    BY DEF Becomes, SessionTypeOK
<1>2. \A d \in Call : call'[d] = IF d = c THEN k ELSE call[d]
    BY DEF Becomes, SessionTypeOK
<1> QED
    BY <1>1, <1>2 DEF ClientInv

\* A step that leaves the session alone, and starts no timer: the call becomes one that
\* does not await the user's data, or awaits it with its tokens in the store.
LEMMA QuietStep ==
    ASSUME SessionTypeOK, ClientInv, NEW c \in Call, NEW k \in CallRecord, Becomes(c, k),
           session' = session, timer' => timer,
           k.at \in {"clear", "off"} => ~timer',
           k.at = "me" => Pair',
           Pair => Pair' \/ At(c, "clear"),
           ~At(c, "off"),
           Pair \/ torn => Pair' \/ torn' \/ k.at = "off"
    PROVE  ClientInv'
<1> SUFFICES ASSUME ~disturbed' PROVE ClientInv'
    BY DEF ClientInv
<1>1. /\ ~disturbed /\ ~Overlap(call')
      /\ \A d \in Call : call'[d] = IF d = c THEN k ELSE call[d]
      /\ session => Pair \/ torn \/ \E d \in Call : At(d, "off")
      /\ timer => session
      /\ \A d \in Call : At(d, "me") => Pair
      /\ \A d \in Call : call[d].at \in {"clear", "off"} => ~timer
    BY Undisturbed
<1>2. session' => Pair' \/ torn' \/ \E d \in Call : call'[d].at = "off"
    BY <1>1 DEF At
<1>3. timer' => session'
    <2>1. timer' => timer /\ session
        BY <1>1
    <2> QED
        BY <2>1
<1>4. \A d \in Call : call'[d].at = "me" => Pair'
    <2>1. At(c, "clear") => \A d \in Call : ~At(d, "me")
        BY <1>1 DEF ClientInv, Overlap, At
    <2> QED
        BY <1>1, <2>1 DEF At
<1>5. \A d \in Call : call'[d].at \in {"clear", "off"} => ~timer'
    BY <1>1
<1> QED
    BY <1>1, <1>2, <1>3, <1>4, <1>5 DEF ClientInv, At

LEMMA ClientInvStep == SessionTypeOK /\ ClientInv /\ [Next]_vars => ClientInv'
<1> SUFFICES ASSUME SessionTypeOK, ClientInv, [Next]_vars PROVE ClientInv'
    OBVIOUS
<1>a. \A op \in {"logout", "refresh"} : [op |-> op, at |-> "clear"] \in CallRecord
    BY DEF CallRecord
\* what quiet steps have in common: the call signs out, goes on, ends or throws
<1>b. ASSUME NEW c \in Call, NEW op \in {"logout", "refresh"}, SignsOut(c, op), ~At(c, "off"),
             session' = session, Pair => Pair' \/ At(c, "clear"), Pair \/ torn => Pair' \/ torn'
      PROVE  ClientInv'
    <2>1. PICK k \in CallRecord : k = [op |-> op, at |-> "clear"]
        BY <1>a
    <2>2. Becomes(c, k) /\ k.at = "clear" /\ ~timer'
        BY <1>b, <2>1 DEF SignsOut, TimerAfterLogout
    <2> QED
        BY <1>b, <2>2, QuietStep
<1>c. ASSUME NEW c \in Call, NEW outcome, Ends(c, outcome), UNCHANGED timer, ~At(c, "off"),
             session' = session, Pair => Pair' \/ At(c, "clear"), Pair \/ torn => Pair' \/ torn'
      PROVE  ClientInv'
    BY <1>c, CallRecords, QuietStep DEF Ends
<1>d. ASSUME NEW c \in Call, NEW op, NEW at, GoesOn(c, op, at), [op |-> op, at |-> at] \in CallRecord,
             ~At(c, "off"), session' = session, at \in {"clear", "off"} => At(c, "clear"),
             at = "me" => Pair', Pair => Pair' \/ At(c, "clear"),
             Pair \/ torn => Pair' \/ torn' \/ at = "off"
      PROVE  ClientInv'
    <2>1. PICK k \in CallRecord : k = [op |-> op, at |-> at]
        BY <1>d
    <2>2. Becomes(c, k) /\ k.at = at /\ timer' = timer
        BY <1>d, <2>1 DEF GoesOn
    <2>3. CASE disturbed
        BY <2>2, <2>3 DEF ClientInv, Becomes
    <2>4. CASE ~disturbed
        <3>1. at \in {"clear", "off"} => ~timer'
            BY <1>d, <2>2, <2>4 DEF ClientInv, At
        <3> QED
            BY <1>d, <2>2, <3>1, QuietStep
    <2> QED
        BY <2>3, <2>4
<1>1. ASSUME NEW c \in Call, Logout(c) PROVE ClientInv'
    BY <1>1, <1>b DEF Logout, At, Pair
<1>2. ASSUME NEW c \in Call, Login(c) \/ Refresh(c) \/ ReadRefreshToken(c) \/ Answered(c)
      PROVE  ClientInv'
    <2>1. UNCHANGED <<secrets, session, torn>> /\ ~At(c, "off")
        BY <1>2 DEF Login, Refresh, ReadRefreshToken, Answered, At
    <2>2. PICK op, at : /\ GoesOn(c, op, at) /\ at \in {"ask", "read", "save"}
                        /\ [op |-> op, at |-> at] \in CallRecord
        <3>1. /\ [op |-> "login", at |-> "ask"] \in CallRecord
              /\ [op |-> "refresh", at |-> "read"] \in CallRecord
              /\ [op |-> "refresh", at |-> "ask"] \in CallRecord
            BY DEF CallRecord
        <3>2. At(c, "ask") => [op |-> call[c].op, at |-> "save"] \in CallRecord
            <4>1. call[c] \in CallRecord
                BY DEF SessionTypeOK
            <4> QED
                BY <4>1 DEF At, CallRecord
        <3> QED
            BY <1>2, <3>1, <3>2 DEF Login, Refresh, ReadRefreshToken, Answered
    <2> QED
        BY <1>d, <2>1, <2>2 DEF Pair
<1>3. ASSUME NEW c \in Call, ReadFails(c) PROVE ClientInv'
    BY <1>3, <1>b, <1>c DEF ReadFails, Throws, At, Pair
<1>4. ASSUME NEW c \in Call, SaveTokens(c) PROVE ClientInv'
    <2>1. call[c] \in CallRecord
        BY DEF SessionTypeOK
    <2>2. [op |-> call[c].op, at |-> "me"] \in CallRecord /\ ~At(c, "off")
        BY <1>4, <2>1 DEF SaveTokens, At, CallRecord
    <2>3. Pair'
        BY <1>4 DEF SaveTokens, Pair, Key
    <2> QED
        BY <1>4, <1>d, <2>2, <2>3 DEF SaveTokens
<1>5. ASSUME NEW c \in Call, FetchUserInfo(c) PROVE ClientInv'
    <2> SUFFICES ASSUME ~disturbed' PROVE ClientInv'
        BY DEF ClientInv
    <2>1. Becomes(c, Done) /\ session' = TRUE /\ UNCHANGED <<secrets, torn>> /\ At(c, "me")
        BY <1>5 DEF FetchUserInfo, Ends
    <2>2. /\ ~disturbed /\ ~Overlap(call')
          /\ \A d \in Call : call'[d] = IF d = c THEN Done ELSE call[d]
          /\ \A d \in Call : At(d, "me") => Pair
        BY <2>1, CallRecords, Undisturbed
    <2>3. Pair' /\ \A d \in Call : ~(call[d].at \in {"clear", "off"})
        BY <2>1, <2>2 DEF ClientInv, Overlap, At, Pair
    <2> QED
        BY <2>1, <2>2, <2>3, CallRecords DEF ClientInv, At
<1>6. ASSUME NEW c \in Call, CallFails(c) PROVE ClientInv'
    <2>1. ~At(c, "off") /\ session' = session /\ torn' = torn /\ secrets \subseteq secrets'
        BY <1>6 DEF CallFails, At
    <2>2. Pair => Pair'
        BY <2>1 DEF Pair
    <2> QED
        BY <1>6, <1>b, <1>c, <2>1, <2>2 DEF CallFails
<1>7. ASSUME NEW c \in Call, ClearTokens(c) PROVE ClientInv'
    <2>1. call[c] \in CallRecord
        BY DEF SessionTypeOK
    <2>2. [op |-> call[c].op, at |-> "off"] \in CallRecord /\ ~At(c, "off")
        BY <1>7, <2>1 DEF ClearTokens, At, CallRecord
    <2> QED
        BY <1>7, <1>d, <2>2 DEF ClearTokens
<1>8. ASSUME NEW c \in Call, ClearFails(c) PROVE ClientInv'
    <2>1. ~At(c, "off") /\ At(c, "clear") /\ session' = session
        BY <1>8 DEF ClearFails, At
    <2>2. Pair \/ torn => Pair' \/ torn'
        BY <1>8 DEF ClearFails, Pair
    <2> QED
        BY <1>8, <1>b, <1>c, <2>1, <2>2 DEF ClearFails, Throws
<1>9. ASSUME NEW c \in Call, SignedOut(c) PROVE ClientInv'
    <2> SUFFICES ASSUME ~disturbed' PROVE ClientInv'
        BY DEF ClientInv
    <2>1. PICK k \in CallRecord : Becomes(c, k) /\ k.at \in {"idle", "clear"}
        <3>1. CASE SignsOut(c, "logout")
            <4>1. PICK k \in CallRecord : k = [op |-> "logout", at |-> "clear"]
                BY <1>a
            <4> QED
                BY <3>1, <4>1 DEF SignsOut
        <3>2. CASE Ends(c, "active")
            BY <3>2, CallRecords DEF Ends
        <3> QED
            BY <1>9, <3>1, <3>2 DEF SignedOut, Throws
    <2>2. /\ ~disturbed /\ ~Overlap(call')
          /\ \A d \in Call : call'[d] = IF d = c THEN k ELSE call[d]
          /\ \A d \in Call : At(d, "me") => Pair
          /\ \A d \in Call : call[d].at \in {"clear", "off"} => ~timer
        BY <2>1, Undisturbed
    <2>3. ~session' /\ Pair' = Pair /\ ~timer'
        <3>1. ~session' /\ secrets' = secrets /\ ~timer
            BY <1>9, <2>2 DEF SignedOut, At
        <3>2. ~timer'
            BY <1>9, <3>1 DEF SignedOut, Throws, SignsOut, TimerAfterLogout
        <3> QED
            BY <3>1, <3>2 DEF Pair
    <2> QED
        BY <2>1, <2>2, <2>3 DEF ClientInv, At
<1>10. ASSUME NEW c \in Call, Restart(c) PROVE ClientInv'
    <2>1. \A d \in Call : call'[d].at \in {"restore", "idle"}
        BY <1>10 DEF Restart, Done
    <2>2. ~session' /\ ~timer'
        BY <1>10 DEF Restart
    <2> QED
        BY <2>1, <2>2 DEF ClientInv, Overlap, At
<1>11. ASSUME NEW c \in Call, Restore(c) PROVE ClientInv'
    <2>1. UNCHANGED <<secrets, session, torn>> /\ ~At(c, "off") /\ (Pair' <=> Pair)
        BY <1>11 DEF Restore, At, Pair
    <2>2. [op |-> "refresh", at |-> "read"] \in CallRecord /\ [op |-> "boot", at |-> "me"] \in CallRecord
        BY DEF CallRecord
    <2> QED
        BY <1>11, <1>c, <1>d, <2>1, <2>2 DEF Restore
<1>12. CASE TokenExpires \/ UNCHANGED vars
    <2>1. UNCHANGED <<secrets, session, timer, call, torn, disturbed>>
        BY <1>12 DEF TokenExpires, vars
    <2> QED
        BY <2>1 DEF ClientInv, Overlap, At, Pair
<1> QED
    BY <1>1, <1>2, <1>3, <1>4, <1>5, <1>6, <1>7, <1>8, <1>9, <1>10, <1>11, <1>12 DEF Next

LEMMA Invariance == Spec => [](SessionTypeOK /\ ClientInv)
<1>1. Init => SessionTypeOK /\ ClientInv
    BY TypeInit, ClientInvInit
<1>2. SessionTypeOK /\ ClientInv /\ [Next]_vars => (SessionTypeOK /\ ClientInv)'
    BY TypeStep, ClientInvStep
<1> QED
    BY <1>1, <1>2, PTL DEF Spec

\* For any number of calls: at rest a session has its tokens and the timer a session, unless
\* a clearTokens deleted a part of them or a logout ran beside a call that had its answer.
THEOREM SessionsHaveTokens == Spec => []SessionHasTokens
<1>1. ClientInv => SessionHasTokens
    BY DEF ClientInv, SessionHasTokens, AtRest, At, Done
<1> QED
    BY <1>1, Invariance, PTL

----------------------------------------------------------------------------
(* How a start of the program ends, and that no call goes on for ever. *)

\* While activate awaits initialize there is one call, which is no login, and no session;
\* the store is empty when that call is about to end with a logout.
BootInv ==
    phase = "starting" =>
        /\ ~session
        /\ \E b \in Call :
             /\ \A c \in Call \ {b} : At(c, "idle")
             /\ ~At(b, "idle")
             /\ call[b].op # "login"
             /\ At(b, "off") => secrets = {}

\* what the last step of a start may be
StartEnds ==
    \/ phase' = "active" /\ Settled'
    \/ phase' = "failed" /\ \E c \in Call : ReadFails(c) \/ ClearFails(c)

\* A step of a call, seen from the start of the client.
LEMMA CallKeepsBootInv ==
    ASSUME SessionTypeOK, BootInv, NEW c \in Call, NEW k \in CallRecord, GoesOnAs(c, k)
    PROVE  /\ BootInv'
           /\ phase = "starting" => phase' = "starting" \/ StartEnds
<1>1. call \in [Call -> CallRecord] /\ call' = [call EXCEPT ![c] = k]
    BY DEF SessionTypeOK, GoesOnAs, Becomes
<1>2. CASE phase # "starting"
    BY <1>2 DEF BootInv, GoesOnAs
<1>3. CASE phase = "starting"
    <2>1. PICK b \in Call :
             /\ \A d \in Call \ {b} : At(d, "idle")
             /\ ~At(b, "idle") /\ call[b].op # "login" /\ (At(b, "off") => secrets = {})
        BY <1>3 DEF BootInv
    <2>2. c = b /\ ~session
        BY <1>3, <2>1 DEF GoesOnAs, BootInv
    <2>3. CASE k.at # "idle"
        <3>1. phase' = "starting" /\ ~session' /\ (k.at = "off" => secrets' = {}) /\ k.op # "login"
            BY <1>3, <2>1, <2>2, <2>3 DEF GoesOnAs
        <3>2. (\A d \in Call \ {b} : call'[d].at = "idle") /\ call'[b] = k
            BY <1>1, <2>1, <2>2 DEF At
        <3> QED
            BY <2>3, <3>1, <3>2 DEF BootInv, At
    <2>4. CASE k.at = "idle"
        <3>1. \/ phase' = "failed" /\ (ReadFails(c) \/ ClearFails(c))
              \/ phase' = "active" /\ Settled'
              \/ phase' = "active" /\ At(c, "off") /\ secrets' = secrets
            BY <1>3, <2>1, <2>2, <2>4 DEF GoesOnAs
        <3>2. At(c, "off") /\ secrets' = secrets => Settled'
            BY <2>1, <2>2 DEF Settled, Pair
        <3> QED
            BY <3>1, <3>2 DEF StartEnds, BootInv
    <2> QED
        BY <2>3, <2>4
<1> QED
    BY <1>2, <1>3

LEMMA BootInvStep ==
    ASSUME SessionTypeOK, BootInv, [Next]_vars
    PROVE  BootInv' /\ (phase = "starting" => phase' = "starting" \/ StartEnds)
<1>1. ASSUME NEW c \in Call, StepOf(c)
      PROVE  BootInv' /\ (phase = "starting" => phase' = "starting" \/ StartEnds)
    BY <1>1, CallGoesOn, CallKeepsBootInv
<1>2. ASSUME NEW c \in Call, Restart(c)
      PROVE  BootInv' /\ (phase = "starting" => phase' = "starting" \/ StartEnds)
    <2>1. /\ phase' = "starting" /\ ~session'
          /\ \A d \in Call \ {c} : call'[d].at = "idle"
          /\ call'[c].at = "restore" /\ call'[c].op = "boot"
        BY <1>2 DEF Restart, Done
    <2> QED
        BY <2>1 DEF BootInv, At
<1>3. CASE TokenExpires \/ UNCHANGED vars
    <2>1. UNCHANGED <<secrets, session, phase, call>>
        BY <1>3 DEF TokenExpires, vars
    <2> QED
        BY <2>1 DEF BootInv, At
<1> QED
    BY <1>1, <1>2, <1>3 DEF Next, StepOf

LEMMA StartsInvariant == Spec => [](SessionTypeOK /\ BootInv)
<1>1. Init => SessionTypeOK /\ BootInv
    BY TypeInit DEF Init, BootInv
<1>2. SessionTypeOK /\ BootInv /\ [Next]_vars => (SessionTypeOK /\ BootInv)'
    BY TypeStep, BootInvStep
<1> QED
    BY <1>1, <1>2, PTL DEF Spec

\* A start in which activate succeeds has restored the session, or else left no tokens that
\* could restore one: whichever requests, writes, deletions and reads failed in it, and after
\* any number of starts that broke off.  One in which activate fails has just had a read or a
\* deletion of the store fail.
THEOREM StartsLeaveNoTokens ==
    Spec => [][phase = "starting" /\ phase' # "starting" => StartEnds]_vars
<1>1. SessionTypeOK /\ BootInv /\ [Next]_vars
      => [phase = "starting" /\ phase' # "starting" => StartEnds]_vars
    BY BootInvStep
<1> QED
    BY <1>1, StartsInvariant, PTL DEF Spec

\* So every start settles if it ends.
THEOREM StartsSettleWhenTheyEnd == Spec /\ []<>~Starting => StartSettles
<1>1. SessionTypeOK /\ BootInv /\ [Next]_vars /\ Starting => (Starting \/ StartSettled)'
    BY BootInvStep DEF StartEnds, Settled, Starting, StartSettled
<1> QED
    BY <1>1, StartsInvariant, PTL DEF Spec, StartSettles

\* what any step may do to a call under way
GetsOn(c) ==
    \/ call'[c] = call[c]
    \/ At(c, "idle")
    \/ StepsLeft(call'[c]) < StepsLeft(call[c])

\* And no call keeps it from ending: a call is at most nine steps from its end, and each of
\* its steps, also one that fails and turns it into one logout or two, brings it nearer.  Only
\* a new start of the program puts a call back.
THEOREM CallsGetOn ==
    Spec => /\ [](\A c \in Call : StepsLeft(call[c]) \in 0 .. 9)
            /\ [][restarts' # restarts \/ \A c \in Call : GetsOn(c)]_vars
<1>1. SessionTypeOK => \A c \in Call : StepsLeft(call[c]) \in 0 .. 9
    <2>1. SessionTypeOK => \A c \in Call : call[c] \in CallRecord
        BY DEF SessionTypeOK
    <2> QED
        BY <2>1, CallRecords
<1>2. ASSUME SessionTypeOK, [Next]_vars
      PROVE  restarts' # restarts \/ \A c \in Call : GetsOn(c)
    <2>1. ASSUME NEW c \in Call, StepOf(c), NEW d \in Call
          PROVE  GetsOn(d)
        <3>1. PICK k \in CallRecord : GoesOnAs(c, k)
            BY <1>2, <2>1, CallGoesOn
        <3>2. call \in [Call -> CallRecord] /\ call' = [call EXCEPT ![c] = k]
            BY <1>2, <3>1 DEF SessionTypeOK, GoesOnAs, Becomes
        <3> QED
            BY <3>1, <3>2 DEF GoesOnAs, GetsOn
    <2>2. ASSUME NEW c \in Call, Restart(c)
          PROVE  restarts' # restarts
        BY <1>2, <2>2 DEF Restart, SessionTypeOK
    <2>3. CASE TokenExpires \/ UNCHANGED vars
        BY <2>3 DEF TokenExpires, vars, GetsOn
    <2> QED
        BY <1>2, <2>1, <2>2, <2>3 DEF Next, StepOf
<1>3. SessionTypeOK /\ [Next]_vars => [restarts' # restarts \/ \A c \in Call : GetsOn(c)]_vars
    BY <1>2
<1> QED
    BY <1>1, <1>3, StartsInvariant, PTL DEF Spec
=============================================================================
