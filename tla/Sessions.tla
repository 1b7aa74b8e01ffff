------------------------------- MODULE Sessions -------------------------------
(***************************************************************************)
(* One installation of the app with its session: core/api/api_client.dart, *)
(* core/auth/auth_state.dart and the login of auth_provider.dart, against  *)
(* the server of AuthTokens.  A step is what runs between two awaits.      *)
(*                                                                         *)
(* The server works on a request while the client waits, or after the      *)
(* client has given up on it; an answer may get lost.  The secure storage  *)
(* may throw; what it was to write or to delete then stays as it was.      *)
(***************************************************************************)
EXTENDS AuthTokens

CONSTANTS Calls,    \* requests of the app that can be under way at once
          MaxLate   \* bound: requests given up on and still under way

VARIABLES
    access, refresh,    \* the two tokens in the secure storage
    status,             \* AuthState: is somebody logged in?  "unread": no, as
                        \* the storage could not be read at the start
    calls,              \* call -> its progress through the interceptor
    refreshing,         \* the refresh that refreshFuture stands for
    login, logout,      \* AuthFormNotifier.login, AuthNotifier.logout
    late,               \* requests the server has yet to see, nobody waiting
    events              \* history: what of Events has happened

storage == <<access, refresh, status>>
client  == <<storage, calls, refreshing, login, logout>>
vars == <<server, client, late, events>>

Events == {"lost",      \* no answer to a login or refresh, no commit of it, or
                        \* its tokens were not stored
           "ended",     \* the user, another device or time ended a session
           "early",     \* a new refresh token came back before its commit
           "crossed"}   \* two of refresh, login and logout were under way

Held == Tokens \cup {NoToken}

\* A call holds the access token it was sent with.
Call == [at : {"idle", "sent", "refused", "waiting"}, token : Held,
         retried : BOOLEAN]
Idle == [at |-> "idle", token |-> NoToken, retried |-> FALSE]
Sent(token, retried) == [at |-> "sent", token |-> token, retried |-> retried]

\* What the client does over several steps: where it is, with which token.
Nothing      == [at |-> "none", token |-> NoToken]
Doing(steps) == [at : steps, token : Tokens] \cup {Nothing}

TypeOK ==
    /\ ServerTypeOK
    /\ access \in Held /\ refresh \in Held
    /\ status \in {"in", "out", "unread"}
    /\ calls \in [Calls -> Call]
    /\ refreshing \in Doing({"sent", "granted", "saved", "refused", "cleared"})
    /\ login \in Doing({"granted", "saved"})
    /\ logout \in Doing({"posted", "answered", "failed", "cleared"})
                  \cup [at : {"failed", "cleared"}, token : {NoToken}]
    /\ late \subseteq [kind : {"refresh", "logout"}, token : Tokens]
    /\ events \subseteq Events

Init ==
    /\ ServerInit
    /\ access = NoToken /\ refresh = NoToken
    /\ status = "out"
    /\ calls = [c \in Calls |-> Idle]
    /\ refreshing = Nothing /\ login = Nothing /\ logout = Nothing
    /\ late = {}
    /\ events = {}

Step(op, to) == [op EXCEPT !.at = to]

Happened(es) == events' = events \cup es
Given(condition, es) == IF condition THEN es ELSE {}

\* An unanswered request is still on its way, or will never arrive.
GivenUp(kind, t) ==
    {l \in {late, late \cup {[kind |-> kind, token |-> t]}} :
         Cardinality(l) <= MaxLate}
-----------------------------------------------------------------------------
(* Calls: the interceptor of createDioClient *)

\* onRequest: the screens call the server while somebody is logged in.
Send(c) ==
    /\ status = "in" /\ calls[c] = Idle
    /\ calls' = [calls EXCEPT ![c] = Sent(access, FALSE)]
    /\ UNCHANGED <<server, storage, refreshing, login, logout, late, events>>

\* The handler runs, or get_current_user answers 401.
ServeCall(c) ==
    /\ calls[c].at = "sent"
    /\ calls' = [calls EXCEPT ![c] =
           IF Accepts(@.token) THEN Idle ELSE Step(@, "refused")]
    /\ UNCHANGED <<server, storage, refreshing, login, logout, late, events>>

\* Timeouts, lost connections, other errors: handed to the caller.
CallFails(c) ==
    /\ calls[c].at = "sent"
    /\ calls' = [calls EXCEPT ![c] = Idle]
    /\ UNCHANGED <<server, storage, refreshing, login, logout, late, events>>

\* Mutant: a refresh for every 401; an earlier one goes on by itself.
OnRefusedAlone(c) ==
    /\ calls[c].at = "refused"
    /\ IF ~calls[c].retried /\ refresh # NoToken
       THEN /\ refreshing' = [at |-> "sent", token |-> refresh]
            /\ late' = IF refreshing.at = "sent"
                       THEN late \cup {[kind |-> "refresh",
                                    token |-> refreshing.token]}
                       ELSE late
            /\ calls' = [calls EXCEPT ![c] = Step(@, "waiting")]
       ELSE calls' = [calls EXCEPT ![c] = Idle] /\ UNCHANGED <<refreshing, late>>
    /\ UNCHANGED <<server, storage, login, logout, events>>

\* onError for a 401: a call that has been retried gives up; the others
\* join the refresh under way or start one, if a token for it can be read.
OnRefused(c) ==
    /\ calls[c].at = "refused"
    /\ \/ /\ ~calls[c].retried /\ refreshing # Nothing
          /\ calls' = [calls EXCEPT ![c] = Step(@, "waiting")]
          /\ UNCHANGED <<refreshing, events>>
       \/ /\ ~calls[c].retried /\ refreshing = Nothing /\ refresh # NoToken
          /\ calls' = [calls EXCEPT ![c] = Step(@, "waiting")]
          /\ refreshing' = [at |-> "sent", token |-> refresh]
          /\ Happened(Given(login # Nothing \/ logout # Nothing, {"crossed"}))
       \/ /\ calls[c].retried \/ refreshing = Nothing
          /\ calls' = [calls EXCEPT ![c] = Idle]
          /\ UNCHANGED <<refreshing, events>>
    /\ UNCHANGED <<server, storage, login, logout, late>>

\* Mutant: the shared future is completed only if the refresh succeeded.
ResumedOnSuccess(token) ==
    [c \in Calls |->
        IF calls[c].at = "waiting" /\ token # NoToken
        THEN Sent(token, TRUE) ELSE calls[c]]

\* Everybody who awaits refreshFuture goes on, before any other event: to
\* send the request once more, or to hand the error to the caller.  Without a
\* token in the storage the second attempt gets its 401 for certain.
Resumed(token) ==
    [c \in Calls |->
        CASE calls[c].at # "waiting" -> calls[c]
          [] token # NoToken -> Sent(token, TRUE)
          [] OTHER -> Idle]
-----------------------------------------------------------------------------
(* AuthNotifier.refresh *)

ServeRefresh ==
    /\ refreshing.at = "sent"
    /\ \/ /\ Exchange(refreshing.token)
          /\ refreshing' = [at |-> "granted", token |-> issued']
          /\ UNCHANGED events
       \/ /\ Refuse(refreshing.token)
          /\ refreshing' = Step(refreshing, "refused")
          /\ Happened(Given(\E p \in pending : p.new = refreshing.token,
                            {"early"}))
    /\ UNCHANGED <<storage, calls, login, logout, late>>

\* No answer in time: the tokens stay.  An answer that is lost on its way
\* is a request that arrives late.
RefreshFails ==
    /\ refreshing.at = "sent"
    /\ late' \in GivenUp("refresh", refreshing.token)
    /\ Happened({"lost"})
    /\ refreshing' = Nothing
    /\ calls' = Resumed(NoToken)
    /\ UNCHANGED <<server, storage, login, logout>>

SaveAccess ==
    /\ refreshing.at = "granted"
    /\ access' = refreshing.token
    /\ refreshing' = Step(refreshing, "saved")
    /\ UNCHANGED <<server, refresh, status, calls, login, logout, late, events>>

\* Mutant: the new refresh token is not stored.
SaveAccessOnly ==
    /\ refreshing.at = "saved"
    /\ status' = "in"
    /\ refreshing' = Nothing
    /\ calls' = Resumed(access)
    /\ UNCHANGED <<server, access, refresh, login, logout, late, events>>

SaveRefresh ==
    /\ refreshing.at = "saved"
    /\ refresh' = refreshing.token
    /\ status' = "in"
    /\ refreshing' = Nothing
    /\ calls' = Resumed(access)
    /\ UNCHANGED <<server, access, login, logout, late, events>>

\* A storage that throws, or an answer without the tokens: false, and what is
\* stored by then stays.
RefreshNotStored ==
    /\ refreshing.at \in {"granted", "saved"}
    /\ Happened({"lost"})
    /\ refreshing' = Nothing
    /\ calls' = Resumed(NoToken)
    /\ UNCHANGED <<server, storage, login, logout, late>>

\* 401: clearOnUnauthorized, one key after the other.
ClearAccess ==
    /\ refreshing.at = "refused"
    /\ access' = NoToken
    /\ refreshing' = Step(refreshing, "cleared")
    /\ UNCHANGED <<server, refresh, status, calls, login, logout, late, events>>

ClearRefresh ==
    /\ refreshing.at = "cleared"
    /\ refresh' = NoToken
    /\ status' = "out"
    /\ refreshing' = Nothing
    /\ calls' = Resumed(NoToken)
    /\ UNCHANGED <<server, access, login, logout, late, events>>

\* The storage throws, out of clearOnUnauthorized and refresh.
NotCleared ==
    /\ refreshing.at \in {"refused", "cleared"}
    /\ refreshing' = Nothing
    /\ calls' = Resumed(NoToken)
    /\ UNCHANGED <<server, storage, login, logout, late, events>>
-----------------------------------------------------------------------------
(* Login and logout *)

\* AuthFormNotifier.login: a refused one changes nothing.
LogIn ==
    /\ status # "in" /\ login = Nothing
    /\ Issue(NoToken)
    /\ login' = [at |-> "granted", token |-> issued']
    /\ Happened(Given(refreshing # Nothing \/ logout # Nothing, {"crossed"}))
    /\ UNCHANGED <<storage, calls, refreshing, logout, late>>

LoginSavesAccess ==
    /\ login.at = "granted"
    /\ access' = login.token
    /\ status' = "in"
    /\ login' = Step(login, "saved")
    /\ UNCHANGED <<server, refresh, calls, refreshing, logout, late, events>>

LoginSavesRefresh ==
    /\ login.at = "saved"
    /\ refresh' = login.token
    /\ login' = Nothing
    /\ UNCHANGED <<server, access, status, calls, refreshing, logout, late, events>>

\* The storage throws in one of the two: whoever has only the access token is
\* logged in.
LoginNotStored ==
    /\ login.at \in {"granted", "saved"}
    /\ Happened({"lost"})
    /\ login' = Nothing
    /\ UNCHANGED <<server, storage, calls, refreshing, logout, late>>

\* AuthNotifier.logout: the server is told if a token to tell it with is read.
LogOut ==
    /\ status = "in" /\ logout = Nothing
    /\ \/ access # NoToken /\ logout' = [at |-> "posted", token |-> access]
       \/ logout' = [at |-> "failed", token |-> NoToken]
    /\ Happened({"ended"} \cup Given(refreshing # Nothing \/ login # Nothing,
                                      {"crossed"}))
    /\ UNCHANGED <<server, storage, calls, refreshing, login, late>>

\* 200 or 401, the client does not look.
ServeLogout ==
    /\ logout.at = "posted"
    /\ RevokeAll(logout.token)
    /\ logout' = Step(logout, "answered")
    /\ UNCHANGED <<storage, calls, refreshing, login, late, events>>

LogoutFails ==
    /\ logout.at = "posted"
    /\ late' \in GivenUp("logout", logout.token)
    /\ logout' = Step(logout, "failed")
    /\ UNCHANGED <<server, storage, calls, refreshing, login, events>>

\* Mutant: the access token stays in the storage.
LogoutForgetsAccess ==
    /\ logout.at \in {"answered", "failed"}
    /\ logout' = Step(logout, "cleared")
    /\ UNCHANGED <<server, storage, calls, refreshing, login, late, events>>

LogoutClearsAccess ==
    /\ logout.at \in {"answered", "failed"}
    /\ access' = NoToken
    /\ logout' = Step(logout, "cleared")
    /\ UNCHANGED <<server, refresh, status, calls, refreshing, login, late, events>>

LogoutClearsRefresh ==
    /\ logout.at = "cleared"
    /\ refresh' = NoToken
    /\ status' = "out"
    /\ logout' = Nothing
    /\ UNCHANGED <<server, access, calls, refreshing, login, late, events>>

\* The storage throws: logged in still.
LogoutNotCleared ==
    /\ logout.at \in {"answered", "failed", "cleared"}
    /\ logout' = Nothing
    /\ UNCHANGED <<server, storage, calls, refreshing, login, late, events>>
-----------------------------------------------------------------------------
(* Everything else *)

\* A request arrives after the client has given up on it.
ServeLate(r) ==
    /\ r \in late
    /\ late' = late \ {r}
    /\ \/ r.kind = "refresh" /\ (Exchange(r.token) \/ Refuse(r.token))
       \/ r.kind = "logout" /\ RevokeAll(r.token)
    /\ UNCHANGED <<client, events>>

CommitResponse ==
    /\ \E p \in pending : Commit(p)
    /\ UNCHANGED <<client, late, events>>

LoseCommit ==
    /\ \E p \in pending : Rollback(p)
    /\ Happened({"lost"})
    /\ UNCHANGED <<client, late>>

\* Other devices, the operator, and the passing of time.
EndElsewhere ==
    /\ EndEverySession
    /\ Happened({"ended"})
    /\ UNCHANGED <<client, late>>

PassTime ==
    /\ \E t \in Tokens : Expire(t)
    /\ Happened(Given(\E t \in Tokens : age'[t] = 2 /\ rows[t] = "active",
                      {"ended"}))
    /\ UNCHANGED <<client, late>>

PurgeExpired == Purge /\ UNCHANGED <<client, late, events>>

\* The app is killed and started again: _initialize looks for an access
\* token, and takes a storage that throws for nobody logged in.  What was
\* under way is gone, or still under way to the server.
Restart ==
    /\ status' \in {IF access = NoToken THEN "out" ELSE "in", "unread"}
    /\ calls' = [c \in Calls |-> Idle]
    /\ refreshing' = Nothing /\ login' = Nothing /\ logout' = Nothing
    /\ \/ late' = late
       \/ refreshing.at = "sent" /\ late' \in GivenUp("refresh", refreshing.token)
       \/ logout.at = "posted" /\ late' \in GivenUp("logout", logout.token)
    /\ Happened(Given(refreshing # Nothing \/ login # Nothing, {"lost"}))
    /\ UNCHANGED <<server, access, refresh>>

Next ==
    \/ \E c \in Calls : Send(c) \/ ServeCall(c) \/ CallFails(c) \/ OnRefused(c)
    \/ ServeRefresh \/ RefreshFails \/ SaveAccess \/ SaveRefresh
    \/ RefreshNotStored \/ ClearAccess \/ ClearRefresh \/ NotCleared
    \/ LogIn \/ LoginSavesAccess \/ LoginSavesRefresh \/ LoginNotStored
    \/ LogOut \/ ServeLogout \/ LogoutFails
    \/ LogoutClearsAccess \/ LogoutClearsRefresh \/ LogoutNotCleared
    \/ \E r \in late : ServeLate(r)
    \/ CommitResponse \/ LoseCommit \/ EndElsewhere \/ PassTime \/ PurgeExpired
    \/ Restart

Spec == Init /\ [][Next]_vars

-----------------------------------------------------------------------------
(* Properties *)

\* A refresh never presents a token that a refresh has used up, however many
\* calls get a 401 at once, unless an answer was lost.  The server takes
\* such a token for stolen and revokes every session (auth.py:197).
NoTokenUsedTwice ==
    (refreshing.at = "sent" /\ "lost" \notin events)
        => rows[refreshing.token] # "rotated"

LoggedOut == status = "out" /\ issued > 0 /\ login.at # "granted"

\* As long as no session was ended, by the user, elsewhere or by time, and
\* every answer to a login or refresh arrived, was committed and stored, whoever
\* has logged in stays in (auth_state.dart:169), though access tokens expire all
\* the time.  There are two exceptions: a refresh that presents a token before
\* the transaction that issued it has committed (auth.py:191), and a start that
\* cannot read the storage (auth_state.dart:125), until the next login or start.
SessionsLast ==
    events \cap {"lost", "ended", "early"} = {} => ~LoggedOut

\* Whoever is logged out stays out, also when the app is started again: no
\* access token is left in the storage, unless a refresh, a login and a logout
\* crossed, their writes to the two keys of the storage interleaved.  Nobody was
\* logged out who is out because the storage could not be read.
NothingStoredWhileOut ==
    (status = "out" /\ "crossed" \notin events) => access = NoToken

\* The shared future of the interceptor: a call that waits for a refresh waits
\* for one that is under way, whatever became of the one it joined.
NobodyWaitsInVain ==
    \A c \in Calls : calls[c].at = "waiting" => refreshing # Nothing
=============================================================================
