--------------------------- MODULE Sessions_proofs ---------------------------
(***************************************************************************)
(* Theorems about Sessions, for any number of calls and tokens.            *)
(***************************************************************************)
EXTENDS Sessions, TLAPS

\* Tokens that have not been issued yet are nowhere.
IssuedOnly ==
    /\ \A t \in Tokens : t > issued => rows[t] = "none"
    /\ \A p \in pending : p.old <= issued /\ p.new <= issued
    /\ refresh <= issued /\ refreshing.token <= issued /\ login.token <= issued

\* A refresh has exchanged the token, or is about to commit that it has.
Used(t) == rows[t] = "rotated" \/ \E p \in pending : p.old = t

(***************************************************************************)
(* Why no token is used twice: as long as every answer arrives, the token  *)
(* in the storage has not been used unless the one that replaces it is on  *)
(* its way to the storage; and a login under way has a token of its own.   *)
(***************************************************************************)
OneHolderEach ==
    /\ \A r \in late : r.kind = "logout"
    /\ refreshing.at \in {"sent", "granted", "saved"} => ~Used(refreshing.token)
    /\ login # Nothing => /\ ~Used(login.token)
                          /\ login.token # refresh
                          /\ login.token # refreshing.token
    /\ (refreshing.at \notin {"granted", "saved"} /\ refresh # NoToken)
          => ~Used(refresh)

Unspent == "lost" \notin events => OneHolderEach

(***************************************************************************)
(* Why nothing is stored while logged out: as long as refresh, login and   *)
(* logout take turns, whoever is about to write to the storage knows the   *)
(* status that goes with it; and a refresh starts only while logged in,    *)
(* since after a restart no call is left to ask for one.                   *)
(***************************************************************************)
TakeTurns ==
    /\ refreshing # Nothing => login = Nothing /\ logout = Nothing
    /\ login # Nothing => logout = Nothing
    /\ refreshing # Nothing \/ login.at = "saved" => status = "in"
    /\ "cleared" \in {refreshing.at, logout.at} => access = NoToken
    /\ status = "out" =>
          /\ access = NoToken
          /\ refresh = NoToken \/ calls = [c \in Calls |-> Idle]
    /\ status = "unread" => calls = [c \in Calls |-> Idle]

InStep == "crossed" \notin events => TakeTurns

\* A pair that is new has not aged.
NewIsFresh ==
    /\ \A t \in Tokens : t > issued => age[t] = 0
    /\ \A p \in pending : age[p.new] = 0

\* The server accepts the refresh token, or will when a commit is through.
Valid(t) == Exchangeable(t) \/ \E p \in pending : p.new = t

(***************************************************************************)
(* Why sessions last: nothing is revoked, so the one token that the client *)
(* will present next is valid, and nothing empties the storage.            *)
(***************************************************************************)
Undisturbed ==
    /\ logout = Nothing /\ late = {}
    /\ refreshing.at \notin {"refused", "cleared"}
    /\ status = "in" \/ refreshing.at = "saved" => access # NoToken
    /\ status = "unread" /\ access = NoToken => issued = 0 \/ login.at = "granted"
    /\ ~LoggedOut
    /\ refreshing # Nothing => Valid(refreshing.token)
    /\ login # Nothing => Valid(login.token)
    /\ (refreshing.at \notin {"granted", "saved"} /\ refresh # NoToken)
          => Valid(refresh)

Lasting == events \cap {"lost", "ended", "early"} = {} => Undisturbed

IInv == TypeOK /\ IssuedOnly /\ Unspent /\ NobodyWaitsInVain
-----------------------------------------------------------------------------
LEMMA InitIInv == Init => IInv
  BY MaxTokensAssumption
  DEF Init, ServerInit, IInv, TypeOK, ServerTypeOK, IssuedOnly, Unspent, OneHolderEach,
      Used, NobodyWaitsInVain, Tokens, Held, NoToken, Call, Idle, Nothing, Doing, Events,
      Rotation

(***************************************************************************)
(* A step that neither rotates nor hands out a token: fewer rows are used, *)
(* and the storage holds what it held or nothing.                          *)
(***************************************************************************)
LEMMA QuietStep ==
    ASSUME TypeOK, IssuedOnly, Unspent,
           UNCHANGED <<pending, issued, login>>,
           refreshing' = refreshing \/ (refreshing'.at \in {"refused", "cleared"}
                                        /\ refreshing'.token = refreshing.token
                                        /\ refreshing.at \in {"sent", "refused"}),
           refresh' \in {refresh, NoToken},
           events \subseteq events',
           \A t \in Tokens : rows'[t] \in {rows[t], "none", "ended"},
           \A t \in Tokens : rows[t] = "none" => rows'[t] = "none",
           \A r \in late' : r \in late \/ r.kind = "logout"
    PROVE  IssuedOnly' /\ Unspent'
<1>1. issued \in Nat /\ refreshing.token \in Tokens \cup {NoToken}
  BY MaxTokensAssumption DEF TypeOK, ServerTypeOK, Doing, Nothing
<1>2. IssuedOnly'
  BY <1>1 DEF IssuedOnly, NoToken
<1>3. ASSUME NEW t \in Tokens, Used(t)'
      PROVE  Used(t)
  BY <1>3 DEF Used
<1>4. ASSUME "lost" \notin events'
      PROVE  OneHolderEach'
  <2>1. OneHolderEach
    BY <1>4 DEF Unspent
  <2>2. login # Nothing => login.token \in Tokens
    BY DEF TypeOK, Doing
  <2>3. refresh \in Tokens \cup {NoToken}
    BY DEF TypeOK, Held
  <2>4. refreshing.at \in {"sent", "granted", "saved"} => refreshing.token \in Tokens
    BY DEF TypeOK, Doing, Nothing
  <2> QED
    BY <1>3, <2>1, <2>2, <2>3, <2>4 DEF OneHolderEach, NoToken, Tokens
<1> QED
  BY <1>2, <1>4 DEF Unspent
-----------------------------------------------------------------------------
\* What the server does keeps its rows well typed.
LEMMA ServerSteps ==
    ASSUME ServerTypeOK,
           \/ \E t \in Tokens \cup {NoToken} : Issue(t)
           \/ \E t \in Tokens : Refuse(t) \/ RevokeAll(t) \/ Expire(t)
           \/ \E p \in pending : Commit(p) \/ Rollback(p)
           \/ EndEverySession
           \/ Purge
    PROVE  /\ ServerTypeOK'
           /\ issued' # issued => issued' \in Tokens
<1> USE MaxTokensAssumption
<1>1. ASSUME NEW t \in Tokens \cup {NoToken}, Issue(t)
      PROVE  ServerTypeOK' /\ issued' \in Tokens
  BY <1>1 DEF Issue, ServerTypeOK, Tokens, Rotation
<1>2. ASSUME NEW t \in Tokens, Refuse(t) \/ RevokeAll(t)
      PROVE  ServerTypeOK' /\ issued' = issued
  BY <1>2 DEF Refuse, RevokeAll, AllEnded, ServerTypeOK
<1>3. ASSUME NEW t \in Tokens, Expire(t)
      PROVE  ServerTypeOK' /\ issued' = issued
  BY <1>3 DEF Expire, ServerTypeOK
<1>4. ASSUME NEW p \in pending, Commit(p) \/ Rollback(p)
      PROVE  ServerTypeOK' /\ issued' = issued
  BY <1>4 DEF Commit, Rollback, ServerTypeOK
<1>5. ASSUME EndEverySession \/ Purge
      PROVE  ServerTypeOK' /\ issued' = issued
  BY <1>5 DEF EndEverySession, AllEnded, Purge, Purged, ServerTypeOK
<1> QED
  BY <1>1, <1>2, <1>3, <1>4, <1>5

\* Calls that are resumed are well typed, and none of them goes on waiting.
LEMMA ResumedCalls ==
    ASSUME NEW token \in Held, calls \in [Calls -> Call]
    PROVE  /\ Resumed(token) \in [Calls -> Call]
           /\ \A c \in Calls : Resumed(token)[c].at # "waiting"
  BY DEF Resumed, Call, Sent, Idle, Held, NoToken

LEMMA GivenUpRequests ==
    ASSUME TypeOK, NEW kind \in {"refresh", "logout"}, NEW t \in Tokens,
           late' \in GivenUp(kind, t)
    PROVE  /\ late' \subseteq [kind : {"refresh", "logout"}, token : Tokens]
           /\ kind = "logout" => \A r \in late' : r \in late \/ r.kind = "logout"
  BY DEF GivenUp, TypeOK

LEMMA HappenedEvents ==
    ASSUME TypeOK, NEW es \in SUBSET Events, Happened(es)
    PROVE  events' \subseteq Events /\ events \subseteq events' /\ es \subseteq events'
  BY DEF Happened, TypeOK

-----------------------------------------------------------------------------
(* One lemma for each group of actions. *)

LEMMA CallOnItsWay ==
    ASSUME NEW call \in Call, NEW to \in {"refused", "waiting"}
    PROVE  Step(call, to) \in Call /\ Step(call, to).at = to
  BY DEF Step, Call

LEMMA CallSteps ==
    ASSUME IInv, NEW c \in Calls,
           Send(c) \/ ServeCall(c) \/ CallFails(c) \/ OnRefused(c)
    PROVE  IInv'
<1>1. CASE Send(c) \/ ServeCall(c) \/ CallFails(c)
  <2>1. /\ UNCHANGED <<server, storage, refreshing, login, logout, late, events>>
        /\ calls' \in [Calls -> Call]
        /\ \A d \in Calls : calls'[d].at = "waiting" => calls[d].at = "waiting"
    <3>1. Idle \in Call /\ Idle.at = "idle"
      BY DEF Idle, Call, Held
    <3>2. Sent(access, FALSE) \in Call /\ Sent(access, FALSE).at = "sent"
      BY DEF Sent, Call, IInv, TypeOK
    <3>3. Step(calls[c], "refused") \in Call /\ Step(calls[c], "refused").at = "refused"
      BY CallOnItsWay DEF IInv, TypeOK
    <3> QED
      BY <1>1, <3>1, <3>2, <3>3 DEF Send, ServeCall, CallFails, IInv, TypeOK
  <2>2. TypeOK'
    BY <2>1 DEF IInv, TypeOK, ServerTypeOK, server, storage
  <2>3. IssuedOnly' /\ Unspent'
    BY <2>1, QuietStep DEF IInv, server, storage
  <2> QED
    BY <2>1, <2>2, <2>3 DEF IInv, NobodyWaitsInVain
<1>2. CASE OnRefused(c)
  <2>1. /\ UNCHANGED <<server, storage, login, logout, late>>
        /\ calls' \in [Calls -> Call]
        /\ \A d \in Calls : calls'[d].at = "waiting"
                              => calls[d].at = "waiting" \/ refreshing' # Nothing
    <3>1. Idle \in Call /\ Idle.at = "idle"
      BY DEF Idle, Call, Held
    <3>2. Step(calls[c], "waiting") \in Call
      BY CallOnItsWay DEF IInv, TypeOK
    <3>3. [at |-> "sent", token |-> refresh] # Nothing
      BY DEF Nothing
    <3> QED
      BY <1>2, <3>1, <3>2, <3>3 DEF OnRefused, IInv, TypeOK
  <2>2. CASE UNCHANGED <<refreshing, events>>
    <3>1. TypeOK'
      BY <2>1, <2>2 DEF IInv, TypeOK, ServerTypeOK, server, storage
    <3>2. IssuedOnly' /\ Unspent'
      BY <2>1, <2>2, QuietStep DEF IInv, server, storage
    <3> QED
      BY <2>1, <2>2, <3>1, <3>2 DEF IInv, NobodyWaitsInVain
  <2>3. CASE /\ refreshing = Nothing /\ refresh # NoToken
             /\ refreshing' = [at |-> "sent", token |-> refresh]
             /\ Happened(Given(login # Nothing \/ logout # Nothing, {"crossed"}))
    <3>1. events' \subseteq Events /\ events \subseteq events'
      BY <2>3, HappenedEvents DEF IInv, Given, Events
    <3>2. TypeOK'
      BY <2>1, <2>3, <3>1 DEF IInv, TypeOK, ServerTypeOK, Doing, Held, server, storage
    <3>3. IssuedOnly' /\ Unspent'
      BY <2>1, <2>3, <3>1
      DEF IInv, IssuedOnly, Unspent, OneHolderEach, Used, Nothing, server, storage
    <3>4. refreshing' # Nothing
      BY <2>3 DEF Nothing
    <3> QED
      BY <3>2, <3>3, <3>4 DEF IInv, NobodyWaitsInVain
  <2> QED
    BY <1>2, <2>2, <2>3 DEF OnRefused
<1> QED
  BY <1>1, <1>2

LEMMA ServeRefreshStep ==
    ASSUME IInv, ServeRefresh
    PROVE  IInv'
<1> DEFINE t == refreshing.token
<1>1. t \in Tokens
  BY DEF IInv, TypeOK, ServeRefresh, Doing, Nothing
<1>2. UNCHANGED <<storage, calls, login, logout, late>>
  BY DEF ServeRefresh
<1>3. CASE /\ Exchange(t) /\ UNCHANGED events
           /\ refreshing' = [at |-> "granted", token |-> issued']
  <2>1. ServerTypeOK' /\ issued' \in Tokens /\ issued' = issued + 1
    BY <1>1, <1>3, ServerSteps, MaxTokensAssumption
    DEF Exchange, Issue, IInv, TypeOK, ServerTypeOK
  <2>2. TypeOK'
    BY <1>2, <1>3, <2>1 DEF IInv, TypeOK, Doing, storage
  <2>3. pending' = pending \cup {[old |-> t, new |-> issued + 1]} /\ UNCHANGED rows
    BY <1>3 DEF Exchange, Issue
  <2>4. IssuedOnly'
    BY <1>1, <1>2, <1>3, <2>1, <2>3
    DEF IInv, IssuedOnly, TypeOK, ServerTypeOK, Rotation, Held, Doing, Nothing, NoToken,
        Tokens, storage
  <2>5. ASSUME NEW new \in Tokens, new = issued + 1
        PROVE  ~Used(new)'
    BY <1>1, <2>1, <2>3, <2>5
    DEF Used, IInv, IssuedOnly, TypeOK, ServerTypeOK, Rotation, Tokens, NoToken
  <2>7. login # Nothing => /\ login.token \in Tokens
                           /\ login.token # issued + 1
    BY <2>1 DEF IInv, TypeOK, ServerTypeOK, IssuedOnly, Doing, Tokens
  <2>8. Unspent'
    <3>1. PICK new \in Tokens : new = issued + 1
      BY <2>1
    <3>2. ~Used(new)'
      BY <2>5, <3>1
    <3>3. SUFFICES ASSUME OneHolderEach, "lost" \notin events
                   PROVE  OneHolderEach'
      BY <1>3 DEF IInv, Unspent
    <3>4. refreshing' = [at |-> "granted", token |-> new]
      BY <1>3, <2>1, <3>1
    <3>5. login # Nothing => ~Used(login.token)'
      BY <1>2, <2>3, <2>7, <3>3 DEF OneHolderEach, Used
    <3> QED
      BY <1>2, <2>7, <3>1, <3>2, <3>3, <3>4, <3>5 DEF OneHolderEach, Used, storage
  <2>9. refreshing' # Nothing
    BY <1>3 DEF Nothing
  <2> QED
    BY <2>2, <2>4, <2>8, <2>9 DEF IInv, NobodyWaitsInVain
<1>4. CASE /\ Refuse(t) /\ refreshing' = Step(refreshing, "refused")
           /\ Happened(Given(\E p \in pending : p.new = t, {"early"}))
  <2>1. events' \subseteq Events /\ events \subseteq events'
    BY <1>4, HappenedEvents DEF IInv, Given, Events
  <2>2. ServerTypeOK'
    BY <1>1, <1>4, ServerSteps DEF IInv, TypeOK
  <2>3. refreshing' = [at |-> "refused", token |-> t]
    BY <1>4 DEF Step, IInv, TypeOK, Doing, Nothing
  <2>4. TypeOK'
    BY <1>1, <1>2, <2>1, <2>2, <2>3 DEF IInv, TypeOK, Doing, storage
  <2>5. \A s \in Tokens : /\ rows'[s] \in {rows[s], "none", "ended"}
                          /\ rows[s] = "none" => rows'[s] = "none"
    BY <1>4 DEF Refuse, AllEnded, IInv, TypeOK, ServerTypeOK
  <2>6. IssuedOnly' /\ Unspent'
    BY <1>2, <1>4, <2>1, <2>3, <2>5, QuietStep DEF ServeRefresh, Refuse, IInv, storage
  <2>7. refreshing' # Nothing
    BY <2>3 DEF Nothing
  <2> QED
    BY <2>4, <2>6, <2>7 DEF IInv, NobodyWaitsInVain
<1> QED
  BY <1>3, <1>4 DEF ServeRefresh

\* No answer, or one whose tokens are not stored.
LEMMA RefreshFailsStep ==
    ASSUME IInv, RefreshFails \/ RefreshNotStored
    PROVE  IInv'
<1>1. refreshing.token \in Tokens
  BY DEF IInv, TypeOK, RefreshFails, RefreshNotStored, Doing, Nothing
<1>2. late' \subseteq [kind : {"refresh", "logout"}, token : Tokens]
  BY <1>1, GivenUpRequests DEF RefreshFails, RefreshNotStored, IInv, TypeOK
<1>3. events' \subseteq Events /\ "lost" \in events'
  BY HappenedEvents DEF RefreshFails, RefreshNotStored, IInv, Events
<1>4. /\ calls' \in [Calls -> Call]
      /\ \A c \in Calls : calls'[c].at # "waiting"
  BY ResumedCalls DEF RefreshFails, RefreshNotStored, IInv, TypeOK, Held
<1>5. TypeOK'
  BY <1>2, <1>3, <1>4
  DEF RefreshFails, RefreshNotStored, IInv, TypeOK, ServerTypeOK, Doing, server, storage
<1>6. IssuedOnly'
  BY DEF RefreshFails, RefreshNotStored, IInv, IssuedOnly, TypeOK, ServerTypeOK, Nothing,
         NoToken, server, storage
<1> QED
  BY <1>3, <1>4, <1>5, <1>6 DEF IInv, Unspent, NobodyWaitsInVain

\* The answer to a refresh is stored, or the tokens are cleared.
LEMMA StorageSteps ==
    ASSUME IInv, \/ SaveAccess \/ SaveRefresh
                 \/ ClearAccess \/ ClearRefresh \/ NotCleared
    PROVE  IInv'
<1>1. UNCHANGED <<server, login, logout, late, events>>
  BY DEF SaveAccess, SaveRefresh, ClearAccess, ClearRefresh, NotCleared
<1>2. refreshing # Nothing /\ refreshing.token \in Tokens
  BY DEF SaveAccess, SaveRefresh, ClearAccess, ClearRefresh, NotCleared, IInv, TypeOK,
         Doing, Nothing
<1>3. CASE SaveAccess \/ ClearAccess
  <2>1. /\ access' \in Held
        /\ UNCHANGED <<refresh, status, calls>>
        /\ \/ /\ refreshing.at = "granted"
              /\ refreshing' = [at |-> "saved", token |-> refreshing.token]
           \/ /\ refreshing.at = "refused"
              /\ refreshing' = [at |-> "cleared", token |-> refreshing.token]
    BY <1>2, <1>3 DEF SaveAccess, ClearAccess, Step, IInv, TypeOK, Doing, Held, Nothing
  <2>2. TypeOK'
    BY <1>1, <1>2, <2>1 DEF IInv, TypeOK, ServerTypeOK, Doing, server
  <2>3. IssuedOnly' /\ Unspent'
    BY <1>1, <2>1 DEF IInv, IssuedOnly, Unspent, OneHolderEach, Used, server
  <2>4. refreshing' # Nothing
    BY <2>1 DEF Nothing
  <2> QED
    BY <2>2, <2>3, <2>4 DEF IInv, NobodyWaitsInVain
<1>4. CASE SaveRefresh \/ ClearRefresh \/ NotCleared
  <2>1. /\ calls' \in [Calls -> Call]
        /\ \A c \in Calls : calls'[c].at # "waiting"
    BY <1>4, ResumedCalls DEF SaveRefresh, ClearRefresh, NotCleared, IInv, TypeOK, Held
  <2>2. /\ UNCHANGED access
        /\ status' \in {status, "in", "out"}
        /\ refreshing' = Nothing
        /\ \/ refreshing.at = "saved" /\ refresh' = refreshing.token
           \/ refreshing.at \in {"refused", "cleared"} /\ refresh' \in {refresh, NoToken}
    BY <1>4 DEF SaveRefresh, ClearRefresh, NotCleared, storage
  <2>3. TypeOK'
    BY <1>1, <1>2, <2>1, <2>2 DEF IInv, TypeOK, ServerTypeOK, Doing, Held, server
  <2>4. IssuedOnly'
    BY <1>1, <2>2
    DEF IInv, IssuedOnly, TypeOK, ServerTypeOK, Nothing, NoToken, server
  <2>5. login # Nothing => login.token # NoToken
    BY DEF IInv, TypeOK, Doing, Tokens, NoToken
  <2>6. Unspent'
    BY <1>1, <1>2, <2>2, <2>5
    DEF IInv, Unspent, OneHolderEach, Used, Nothing, NoToken, server
  <2> QED
    BY <2>1, <2>3, <2>4, <2>6 DEF IInv, NobodyWaitsInVain
<1> QED
  BY <1>3, <1>4

LEMMA LoginSteps ==
    ASSUME IInv, LogIn \/ LoginSavesAccess \/ LoginSavesRefresh \/ LoginNotStored
    PROVE  IInv'
<1>1. UNCHANGED <<calls, refreshing, logout, late>>
  BY DEF LogIn, LoginSavesAccess, LoginSavesRefresh, LoginNotStored
<1>2. NobodyWaitsInVain'
  BY <1>1 DEF IInv, NobodyWaitsInVain
<1>3. CASE LogIn
  <2>1. events' \subseteq Events /\ events \subseteq events'
    BY <1>3, HappenedEvents DEF LogIn, IInv, Given, Events
  <2>2. /\ UNCHANGED <<rows, storage>>
        /\ pending' = pending \cup {[old |-> NoToken, new |-> issued + 1]}
        /\ issued' = issued + 1
        /\ login' = [at |-> "granted", token |-> issued']
    BY <1>3 DEF LogIn, Issue
  <2>3. ServerTypeOK' /\ issued' \in Tokens
    BY <1>3, <2>2, ServerSteps, MaxTokensAssumption
    DEF LogIn, IInv, TypeOK, ServerTypeOK
  <2>4. TypeOK'
    BY <1>1, <2>1, <2>2, <2>3 DEF IInv, TypeOK, Doing, storage
  <2>5. IssuedOnly'
    BY <1>1, <2>2, <2>3, MaxTokensAssumption
    DEF IInv, IssuedOnly, TypeOK, ServerTypeOK, Rotation, Held, Doing, Nothing, NoToken,
        Tokens, storage
  <2>6. refreshing.token < issued + 1 /\ refresh < issued + 1
    BY DEF IInv, IssuedOnly, TypeOK, ServerTypeOK, Held, Doing, Nothing, NoToken, Tokens
  <2>7. \A t \in Tokens : Used(t)' => Used(t) /\ t < issued + 1
    BY <2>2, MaxTokensAssumption
    DEF Used, IInv, IssuedOnly, TypeOK, ServerTypeOK, Rotation, Tokens, NoToken
  <2>8. Unspent'
    <3>1. SUFFICES ASSUME OneHolderEach, "lost" \notin events
                   PROVE  OneHolderEach'
      BY <2>1 DEF IInv, Unspent
    <3>2. /\ refreshing.at \in {"sent", "granted", "saved"} => refreshing.token \in Tokens
          /\ refresh # NoToken => refresh \in Tokens
      BY DEF IInv, TypeOK, Doing, Nothing, Held
    <3>3. ~Used(login.token)'
      <4>1. PICK new \in Tokens : new = issued + 1
        BY <2>2, <2>3
      <4>2. ~Used(new)'
        BY <2>3, <2>7, <4>1 DEF ServerTypeOK, Tokens
      <4> QED
        BY <2>2, <4>1, <4>2 DEF Used
    <3>4. login'.token # refresh' /\ login'.token # refreshing'.token
      BY <1>1, <2>2, <2>3, <2>6 DEF storage, ServerTypeOK
    <3>5. refreshing.at \in {"sent", "granted", "saved"} => ~Used(refreshing.token)'
      BY <1>1, <2>2, <3>1, <3>2 DEF OneHolderEach, Used, Tokens, NoToken
    <3>6. (refreshing.at \notin {"granted", "saved"} /\ refresh # NoToken)
             => ~Used(refresh)'
      BY <1>1, <2>2, <3>1, <3>2 DEF OneHolderEach, Used, storage
    <3> QED
      BY <1>1, <2>2, <3>1, <3>3, <3>4, <3>5, <3>6 DEF OneHolderEach, Used, storage
  <2> QED
    BY <1>2, <2>4, <2>5, <2>8 DEF IInv
<1>4. CASE LoginSavesAccess \/ LoginSavesRefresh
  <2>1. login # Nothing /\ login.token \in Tokens
    BY <1>4 DEF LoginSavesAccess, LoginSavesRefresh, IInv, TypeOK, Doing, Nothing
  <2>2. /\ UNCHANGED <<server, events>>
        /\ access' \in Held /\ status' \in {status, "in"}
        /\ \/ /\ UNCHANGED refresh
              /\ login' = [at |-> "saved", token |-> login.token]
           \/ /\ refresh' = login.token
              /\ login' = Nothing
    BY <1>4, <2>1
    DEF LoginSavesAccess, LoginSavesRefresh, Step, IInv, TypeOK, Doing, Held
  <2>3. TypeOK'
    BY <1>1, <2>1, <2>2 DEF IInv, TypeOK, ServerTypeOK, Doing, Held, server
  <2>4. IssuedOnly' /\ Unspent'
    BY <1>1, <2>1, <2>2
    DEF IInv, IssuedOnly, Unspent, OneHolderEach, Used, TypeOK, ServerTypeOK, Nothing,
        NoToken, server
  <2> QED
    BY <1>2, <2>3, <2>4 DEF IInv
<1>5. CASE LoginNotStored
  <2>1. events' \subseteq Events /\ "lost" \in events'
    BY <1>5, HappenedEvents DEF LoginNotStored, IInv, Events
  <2>2. TypeOK'
    BY <1>1, <1>5, <2>1
    DEF LoginNotStored, IInv, TypeOK, ServerTypeOK, Doing, server, storage
  <2>3. IssuedOnly'
    BY <1>1, <1>5
    DEF LoginNotStored, IInv, IssuedOnly, TypeOK, ServerTypeOK, Nothing, NoToken, server,
        storage
  <2> QED
    BY <1>2, <2>1, <2>2, <2>3 DEF IInv, Unspent
<1> QED
  BY <1>3, <1>4, <1>5

LEMMA LogoutSteps ==
    ASSUME IInv, \/ LogOut \/ ServeLogout \/ LogoutFails
                 \/ LogoutClearsAccess \/ LogoutClearsRefresh \/ LogoutNotCleared
    PROVE  IInv'
<1>1. UNCHANGED <<calls, refreshing, login>>
  BY DEF LogOut, ServeLogout, LogoutFails, LogoutClearsAccess, LogoutClearsRefresh,
         LogoutNotCleared
<1>2. NobodyWaitsInVain'
  BY <1>1 DEF IInv, NobodyWaitsInVain
<1>3. /\ UNCHANGED <<pending, issued>>
      /\ \A t \in Tokens : /\ rows'[t] \in {rows[t], "none", "ended"}
                           /\ rows[t] = "none" => rows'[t] = "none"
      /\ refresh' \in {refresh, NoToken}
      /\ access' \in {access, NoToken}
      /\ status' \in {status, "out"}
  BY DEF LogOut, ServeLogout, LogoutFails, LogoutClearsAccess, LogoutClearsRefresh,
         LogoutNotCleared, RevokeAll, AllEnded, IInv, TypeOK, ServerTypeOK, server, storage
<1>4. ServerTypeOK'
  <2>1. CASE ServeLogout
    <3>1. logout.token \in Tokens
      BY <2>1 DEF ServeLogout, IInv, TypeOK, Doing, Nothing
    <3> QED
      BY <2>1, <3>1, ServerSteps DEF ServeLogout, IInv, TypeOK
  <2>2. CASE ~ServeLogout
    BY <2>2
    DEF LogOut, LogoutFails, LogoutClearsAccess, LogoutClearsRefresh, LogoutNotCleared,
        IInv, TypeOK, ServerTypeOK, server
  <2> QED
    BY <2>1, <2>2
<1>5. /\ late' \subseteq [kind : {"refresh", "logout"}, token : Tokens]
      /\ \A r \in late' : r \in late \/ r.kind = "logout"
  <2>1. CASE LogoutFails
    <3>1. logout.token \in Tokens
      BY <2>1 DEF LogoutFails, IInv, TypeOK, Doing, Nothing
    <3> QED
      BY <2>1, <3>1, GivenUpRequests DEF LogoutFails, IInv
  <2>2. CASE ~LogoutFails
    BY <2>2
    DEF LogOut, ServeLogout, LogoutClearsAccess, LogoutClearsRefresh, LogoutNotCleared,
        IInv, TypeOK
  <2> QED
    BY <2>1, <2>2
<1>6. events' \subseteq Events /\ events \subseteq events'
  <2>1. CASE LogOut
    BY <2>1, HappenedEvents DEF LogOut, IInv, Given, Events
  <2>2. CASE ~LogOut
    BY <2>2
    DEF ServeLogout, LogoutFails, LogoutClearsAccess, LogoutClearsRefresh,
        LogoutNotCleared, IInv, TypeOK
  <2> QED
    BY <2>1, <2>2
<1>7. logout' \in      Doing({"posted", "answered", "failed", "cleared"})
                  \cup [at : {"failed", "cleared"}, token : {NoToken}]
  BY DEF LogOut, ServeLogout, LogoutFails, LogoutClearsAccess, LogoutClearsRefresh,
         LogoutNotCleared, Step, IInv, TypeOK, Doing, Nothing, Held
<1>8. TypeOK'
  BY <1>1, <1>3, <1>4, <1>5, <1>6, <1>7 DEF IInv, TypeOK, Held
<1>9. IssuedOnly' /\ Unspent'
  BY <1>1, <1>3, <1>5, <1>6, QuietStep DEF IInv
<1> QED
  BY <1>2, <1>8, <1>9 DEF IInv
\* Requests that nobody waits for any more.
LEMMA ServeLateStep ==
    ASSUME IInv, NEW r \in late, ServeLate(r)
    PROVE  IInv'
<1>1. r \in [kind : {"refresh", "logout"}, token : Tokens] /\ r.token \in Tokens
  BY DEF IInv, TypeOK
<1>2. UNCHANGED <<client, events>> /\ late' \subseteq late
  BY DEF ServeLate
<1>3. NobodyWaitsInVain'
  BY <1>2 DEF IInv, NobodyWaitsInVain, client
<1>4. ServerTypeOK'
  BY <1>1, ServerSteps DEF ServeLate, Exchange, IInv, TypeOK
<1>5. TypeOK'
  BY <1>2, <1>4 DEF IInv, TypeOK, client, storage
<1>6. CASE Exchange(r.token) /\ r.kind = "refresh"
  <2>1. "lost" \in events
    BY <1>6 DEF IInv, Unspent, OneHolderEach
  <2>2. IssuedOnly'
    BY <1>1, <1>2, <1>4, <1>6
    DEF Exchange, Exchangeable, Issue, IInv, IssuedOnly, TypeOK, ServerTypeOK, Rotation,
        Held, Doing, Nothing, NoToken, Tokens, client, storage
  <2> QED
    BY <1>2, <1>3, <1>5, <2>1, <2>2 DEF IInv, Unspent
<1>7. CASE Refuse(r.token) \/ RevokeAll(r.token)
  <2>1. /\ UNCHANGED <<pending, issued>>
        /\ \A t \in Tokens : /\ rows'[t] \in {rows[t], "none", "ended"}
                             /\ rows[t] = "none" => rows'[t] = "none"
    BY <1>7 DEF Refuse, RevokeAll, AllEnded, IInv, TypeOK, ServerTypeOK
  <2>2. IssuedOnly' /\ Unspent'
    BY <1>2, <2>1, QuietStep DEF IInv, client, storage
  <2> QED
    BY <1>3, <1>5, <2>2 DEF IInv
<1> QED
  BY <1>6, <1>7 DEF ServeLate

\* What happens on the server by itself.
LEMMA ServerOnlySteps ==
    ASSUME IInv, \/ CommitResponse \/ LoseCommit \/ EndElsewhere \/ PassTime
                 \/ PurgeExpired
    PROVE  IInv'
<1>1. UNCHANGED <<client, late>>
  BY DEF CommitResponse, LoseCommit, EndElsewhere, PassTime, PurgeExpired
<1>2. NobodyWaitsInVain'
  BY <1>1 DEF IInv, NobodyWaitsInVain, client
<1>3. ServerTypeOK'
  BY ServerSteps
  DEF CommitResponse, LoseCommit, EndElsewhere, PassTime, PurgeExpired, IInv, TypeOK
<1>4. events' \subseteq Events /\ events \subseteq events'
  <2>1. CASE LoseCommit \/ EndElsewhere \/ PassTime
    BY <2>1, HappenedEvents DEF LoseCommit, EndElsewhere, PassTime, Given, IInv, Events
  <2>2. CASE CommitResponse \/ PurgeExpired
    BY <2>2 DEF CommitResponse, PurgeExpired, IInv, TypeOK
  <2> QED
    BY <2>1, <2>2
<1>5. TypeOK'
  BY <1>1, <1>3, <1>4 DEF IInv, TypeOK, client, storage
<1>6. CASE CommitResponse
  <2>1. PICK p \in pending : Commit(p)
    BY <1>6 DEF CommitResponse
  <2>2. p \in Rotation /\ p.new <= issued /\ p.old <= issued
    BY DEF IInv, TypeOK, ServerTypeOK, IssuedOnly
  <2>3. IssuedOnly'
    BY <1>1, <2>1, <2>2
    DEF Commit, IInv, IssuedOnly, TypeOK, ServerTypeOK, Rotation, Tokens, NoToken,
        client, storage
  <2>4. \A t \in Tokens : Used(t)' => Used(t)
    BY <2>1 DEF Used, Commit, IInv, TypeOK, ServerTypeOK
  <2>5. Unspent'
    <3>1. UNCHANGED events
      BY <1>6 DEF CommitResponse
    <3>2. SUFFICES ASSUME OneHolderEach, "lost" \notin events
                   PROVE  OneHolderEach'
      BY <3>1 DEF IInv, Unspent
    <3>3. /\ refreshing.at \in {"sent", "granted", "saved"} => refreshing.token \in Tokens
          /\ login # Nothing => login.token \in Tokens
          /\ refresh # NoToken => refresh \in Tokens
      BY DEF IInv, TypeOK, Doing, Nothing, Held
    <3>4. \A t \in Tokens : t \in {refreshing.token, login.token, refresh} /\ ~Used(t)
                              => ~Used(t)'
      BY <2>4
    <3> QED
      BY <1>1, <2>4, <3>2, <3>3, <3>4 DEF OneHolderEach, Used, client, storage
  <2> QED
    BY <1>2, <1>5, <2>3, <2>5 DEF IInv
<1>7. CASE LoseCommit
  <2>1. IssuedOnly'
    BY <1>1, <1>7
    DEF LoseCommit, Rollback, IInv, IssuedOnly, client, storage
  <2>2. "lost" \in events'
    BY <1>7 DEF LoseCommit, Happened
  <2> QED
    BY <1>2, <1>5, <2>1, <2>2 DEF IInv, Unspent
<1>8. CASE EndElsewhere \/ PassTime \/ PurgeExpired
  <2>1. /\ UNCHANGED <<pending, issued>>
        /\ \A t \in Tokens : /\ rows'[t] \in {rows[t], "none", "ended"}
                             /\ rows[t] = "none" => rows'[t] = "none"
    BY <1>8
    DEF EndElsewhere, EndEverySession, AllEnded, PassTime, Expire, PurgeExpired, Purge,
        Purged, IInv, TypeOK, ServerTypeOK
  <2>2. IssuedOnly' /\ Unspent'
    BY <1>1, <1>4, <2>1, QuietStep DEF IInv, client, storage
  <2> QED
    BY <1>2, <1>5, <2>2 DEF IInv
<1> QED
  BY <1>6, <1>7, <1>8

LEMMA RestartStep ==
    ASSUME IInv, Restart
    PROVE  IInv'
<1>1. events' \subseteq Events /\ events \subseteq events'
  BY HappenedEvents DEF Restart, IInv, Given, Events
<1>2. /\ late' \subseteq [kind : {"refresh", "logout"}, token : Tokens]
      /\ refreshing = Nothing => \A r \in late' : r \in late \/ r.kind = "logout"
  <2>1. CASE late' = late
    BY <2>1 DEF IInv, TypeOK
  <2>2. CASE refreshing.at = "sent" /\ late' \in GivenUp("refresh", refreshing.token)
    <3>1. refreshing.token \in Tokens
      BY <2>2 DEF IInv, TypeOK, Doing, Nothing
    <3> QED
      BY <2>2, <3>1, GivenUpRequests DEF IInv, Nothing
  <2>3. CASE logout.at = "posted" /\ late' \in GivenUp("logout", logout.token)
    <3>1. logout.token \in Tokens
      BY <2>3 DEF IInv, TypeOK, Doing, Nothing
    <3> QED
      BY <2>3, <3>1, GivenUpRequests DEF IInv
  <2> QED
    BY <2>1, <2>2, <2>3 DEF Restart
<1>3. /\ calls' \in [Calls -> Call]
      /\ \A c \in Calls : calls'[c].at # "waiting"
  BY DEF Restart, Idle, Call, Held
<1>4. TypeOK'
  BY <1>1, <1>2, <1>3 DEF Restart, IInv, TypeOK, ServerTypeOK, Doing, server
<1>5. IssuedOnly'
  BY DEF Restart, IInv, IssuedOnly, TypeOK, ServerTypeOK, Nothing, NoToken, server
<1>6. CASE refreshing # Nothing \/ login # Nothing
  <2>1. "lost" \in events'
    BY <1>6 DEF Restart, Happened, Given
  <2> QED
    BY <1>3, <1>4, <1>5, <2>1 DEF IInv, Unspent, NobodyWaitsInVain
<1>7. CASE refreshing = Nothing /\ login = Nothing
  <2>1. Unspent'
    BY <1>1, <1>2, <1>7
    DEF Restart, IInv, Unspent, OneHolderEach, Used, Nothing, server
  <2> QED
    BY <1>3, <1>4, <1>5, <2>1 DEF IInv, NobodyWaitsInVain
<1> QED
  BY <1>6, <1>7
-----------------------------------------------------------------------------
LEMMA NextKeepsIInv == IInv /\ [Next]_vars => IInv'
<1>1. SUFFICES ASSUME IInv, [Next]_vars
               PROVE  IInv'
  OBVIOUS
<1>2. CASE Next
  BY <1>1, <1>2, CallSteps, ServeRefreshStep, RefreshFailsStep, StorageSteps, LoginSteps,
     LogoutSteps, ServeLateStep, ServerOnlySteps, RestartStep
  DEF Next
<1>3. CASE UNCHANGED vars
  <2>1. TypeOK'
    BY <1>1, <1>3 DEF IInv, TypeOK, ServerTypeOK, vars, client, server, storage
  <2>2. IssuedOnly' /\ Unspent' /\ NobodyWaitsInVain'
    BY <1>1, <1>3
    DEF IInv, IssuedOnly, Unspent, OneHolderEach, Used, NobodyWaitsInVain, vars, client,
        server, storage
  <2> QED
    BY <2>1, <2>2 DEF IInv
<1> QED
  BY <1>1, <1>2, <1>3

LEMMA IInvAlways == Spec => []IInv
  BY InitIInv, NextKeepsIInv, PTL DEF Spec

-----------------------------------------------------------------------------
(* Refresh, login and logout take turns. *)

\* Calls alone: nothing but the progress of one call changes.
LEMMA CallsKeepTurns ==
    ASSUME TypeOK, InStep, NEW c \in Calls,
           Send(c) \/ ServeCall(c) \/ CallFails(c) \/ OnRefused(c)
    PROVE  InStep'
<1>1. SUFFICES ASSUME "crossed" \notin events'
               PROVE  TakeTurns'
  BY DEF InStep
<1>2. UNCHANGED <<access, refresh, status, login, logout>> /\ events \subseteq events'
  BY DEF Send, ServeCall, CallFails, OnRefused, Happened, Given, storage
<1>3. TakeTurns
  BY <1>1, <1>2 DEF InStep
<1>4. calls[c] = Idle => status = "in"
  BY DEF Idle, Send, ServeCall, CallFails, OnRefused
<1>5. /\ status = "out" => refresh = NoToken
      /\ status # "unread"
  BY <1>3, <1>4 DEF TakeTurns, Idle, ServeCall, CallFails, OnRefused, Send
<1>6. CASE UNCHANGED refreshing
  BY <1>2, <1>3, <1>5, <1>6 DEF TakeTurns
<1>7. CASE /\ refreshing = Nothing /\ refresh # NoToken
           /\ refreshing' = [at |-> "sent", token |-> refresh]
           /\ Happened(Given(login # Nothing \/ logout # Nothing, {"crossed"}))
  <2>1. login = Nothing /\ logout = Nothing
    BY <1>1, <1>7 DEF Happened, Given
  <2>2. status = "in"
    BY <1>5, <1>7 DEF TypeOK
  <2> QED
    BY <1>2, <1>3, <1>7, <2>1, <2>2 DEF TakeTurns, Nothing
<1> QED
  BY <1>6, <1>7 DEF Send, ServeCall, CallFails, OnRefused

LEMMA RefreshKeepsTurns ==
    ASSUME TypeOK, InStep,
           \/ ServeRefresh \/ RefreshFails \/ SaveAccess \/ SaveRefresh
           \/ RefreshNotStored \/ ClearAccess \/ ClearRefresh \/ NotCleared
    PROVE  InStep'
<1>1. SUFFICES ASSUME "crossed" \notin events'
               PROVE  TakeTurns'
  BY DEF InStep
<1>2. UNCHANGED <<login, logout>> /\ events \subseteq events'
  BY DEF ServeRefresh, RefreshFails, SaveAccess, SaveRefresh, RefreshNotStored,
         ClearAccess, ClearRefresh, NotCleared, Happened
<1>3. TakeTurns
  BY <1>1, <1>2 DEF InStep
<1>4. login = Nothing /\ logout = Nothing /\ status = "in"
  <2>1. refreshing.at # "none"
    BY DEF ServeRefresh, RefreshFails, SaveAccess, SaveRefresh, RefreshNotStored,
           ClearAccess, ClearRefresh, NotCleared
  <2> QED
    BY <1>3, <2>1 DEF TakeTurns, Nothing
<1>5. CASE ServeRefresh \/ SaveAccess
  <2>1. CASE ServeRefresh
    <3>1. refreshing'.at # "cleared"
      BY <2>1 DEF ServeRefresh, Happened, Given, Step, TypeOK, Doing, Nothing
    <3> QED
      BY <1>2, <1>4, <2>1, <3>1 DEF TakeTurns, ServeRefresh, storage, Nothing
  <2>2. CASE SaveAccess
    <3>1. refreshing'.at # "cleared"
      BY <2>2 DEF SaveAccess, Step, TypeOK, Doing, Nothing
    <3> QED
      BY <1>2, <1>4, <2>2, <3>1 DEF TakeTurns, SaveAccess, Nothing
  <2> QED
    BY <1>5, <2>1, <2>2
<1>6. CASE ClearAccess
  BY <1>2, <1>4, <1>6 DEF TakeTurns, ClearAccess, Nothing
<1>7. CASE RefreshFails \/ SaveRefresh \/ RefreshNotStored \/ NotCleared
  BY <1>2, <1>4, <1>7
  DEF TakeTurns, RefreshFails, SaveRefresh, RefreshNotStored, NotCleared, storage, Nothing
<1>8. CASE ClearRefresh
  BY <1>2, <1>3, <1>4, <1>8 DEF TakeTurns, ClearRefresh, Nothing
<1> QED
  BY <1>5, <1>6, <1>7, <1>8

LEMMA LoginKeepsTurns ==
    ASSUME TypeOK, InStep,
           LogIn \/ LoginSavesAccess \/ LoginSavesRefresh \/ LoginNotStored
    PROVE  InStep'
<1>1. SUFFICES ASSUME "crossed" \notin events'
               PROVE  TakeTurns'
  BY DEF InStep
<1>2. UNCHANGED <<calls, refreshing, logout>> /\ events \subseteq events'
  BY DEF LogIn, LoginSavesAccess, LoginSavesRefresh, LoginNotStored, Happened
<1>3. TakeTurns
  BY <1>1, <1>2 DEF InStep
<1>4. refreshing = Nothing /\ logout = Nothing
  BY <1>1, <1>3
  DEF TakeTurns, LogIn, LoginSavesAccess, LoginSavesRefresh, LoginNotStored, Happened,
      Given, Nothing
<1>5. CASE LogIn
  BY <1>2, <1>3, <1>4, <1>5 DEF TakeTurns, LogIn, storage, Nothing
<1>6. CASE LoginSavesAccess
  BY <1>2, <1>3, <1>4, <1>6 DEF TakeTurns, LoginSavesAccess, Nothing
<1>7. CASE LoginSavesRefresh \/ LoginNotStored
  BY <1>2, <1>3, <1>4, <1>7
  DEF TakeTurns, LoginSavesRefresh, LoginNotStored, storage, Nothing
<1> QED
  BY <1>5, <1>6, <1>7

LEMMA LogoutKeepsTurns ==
    ASSUME TypeOK, InStep, \/ LogOut \/ ServeLogout \/ LogoutFails
                           \/ LogoutClearsAccess \/ LogoutClearsRefresh
                           \/ LogoutNotCleared
    PROVE  InStep'
<1>1. SUFFICES ASSUME "crossed" \notin events'
               PROVE  TakeTurns'
  BY DEF InStep
<1>2. UNCHANGED <<calls, refreshing, login>> /\ events \subseteq events'
  BY DEF LogOut, ServeLogout, LogoutFails, LogoutClearsAccess, LogoutClearsRefresh,
         LogoutNotCleared, Happened
<1>3. TakeTurns
  BY <1>1, <1>2 DEF InStep
<1>4. refreshing = Nothing /\ login = Nothing
  BY <1>1, <1>3
  DEF TakeTurns, LogOut, ServeLogout, LogoutFails, LogoutClearsAccess,
      LogoutClearsRefresh, LogoutNotCleared, Happened, Given, Nothing
<1>5. CASE LogOut
  BY <1>2, <1>3, <1>4, <1>5 DEF TakeTurns, LogOut, storage, Nothing
<1>6. CASE ServeLogout \/ LogoutFails
  <2>1. logout'.at # "cleared" /\ UNCHANGED storage /\ logout # Nothing
    BY <1>6 DEF ServeLogout, LogoutFails, Step, TypeOK, Doing, Nothing
  <2> QED
    BY <1>2, <1>3, <1>4, <2>1 DEF TakeTurns, storage, Nothing
<1>7. CASE LogoutClearsAccess
  BY <1>2, <1>3, <1>4, <1>7 DEF TakeTurns, LogoutClearsAccess, Nothing
<1>8. CASE LogoutClearsRefresh
  BY <1>2, <1>3, <1>4, <1>8 DEF TakeTurns, LogoutClearsRefresh, Nothing
<1>9. CASE LogoutNotCleared
  BY <1>2, <1>3, <1>4, <1>9 DEF TakeTurns, LogoutNotCleared, storage, Nothing
<1> QED
  BY <1>5, <1>6, <1>7, <1>8, <1>9

LEMMA NextKeepsInStep == TypeOK /\ InStep /\ [Next]_vars => InStep'
<1>1. SUFFICES ASSUME TypeOK, InStep, [Next]_vars
               PROVE  InStep'
  OBVIOUS
<1>2. CASE \/ \E r \in late : ServeLate(r)
           \/ CommitResponse \/ LoseCommit \/ EndElsewhere \/ PassTime \/ PurgeExpired
           \/ UNCHANGED vars
  <2>1. UNCHANGED client /\ events \subseteq events'
    BY <1>2
    DEF ServeLate, CommitResponse, LoseCommit, EndElsewhere, PassTime, PurgeExpired,
        Happened, vars
  <2> QED
    BY <1>1, <2>1 DEF InStep, TakeTurns, client, storage
<1>3. CASE Restart
  BY <1>1, <1>3 DEF Restart, InStep, TakeTurns, Nothing
<1> QED
  BY <1>1, <1>2, <1>3, CallsKeepTurns, RefreshKeepsTurns, LoginKeepsTurns, LogoutKeepsTurns
  DEF Next

LEMMA InStepAlways == Spec => []InStep
<1>1. Init => InStep
  BY DEF Init, InStep, TakeTurns, Nothing
<1>2. IInv => TypeOK
  BY DEF IInv
<1> QED
  BY <1>1, <1>2, IInvAlways, NextKeepsInStep, PTL DEF Spec
-----------------------------------------------------------------------------
(* Sessions last. *)

LEMMA NewStaysFresh ==
    ASSUME TypeOK, IssuedOnly, NewIsFresh, [Next]_vars
    PROVE  NewIsFresh'
<1> USE MaxTokensAssumption
<1>1. CASE UNCHANGED <<age, issued>> /\ pending' \subseteq pending
  BY <1>1 DEF NewIsFresh
<1>2. ASSUME NEW old \in Tokens \cup {NoToken}, Issue(old)
      PROVE  NewIsFresh'
  BY <1>2 DEF Issue, NewIsFresh, TypeOK, ServerTypeOK, Rotation, Tokens
<1>3. ASSUME NEW t \in Tokens, Expire(t)
      PROVE  NewIsFresh'
  BY <1>3 DEF Expire, NewIsFresh, TypeOK, ServerTypeOK, Rotation, Tokens
<1>4. refreshing.at = "sent" => refreshing.token \in Tokens
  BY DEF TypeOK, Doing, Nothing
<1>5. \A r \in late : r.token \in Tokens
  BY DEF TypeOK
<1>6. CASE \/ \E c \in Calls : Send(c) \/ ServeCall(c) \/ CallFails(c) \/ OnRefused(c)
           \/ RefreshFails \/ SaveAccess \/ SaveRefresh \/ RefreshNotStored
           \/ ClearAccess \/ ClearRefresh \/ NotCleared
           \/ LoginSavesAccess \/ LoginSavesRefresh \/ LoginNotStored
           \/ LogOut \/ LogoutFails
           \/ LogoutClearsAccess \/ LogoutClearsRefresh \/ LogoutNotCleared
           \/ Restart
           \/ UNCHANGED vars
  BY <1>1, <1>6
  DEF Send, ServeCall, CallFails, OnRefused, RefreshFails, SaveAccess, SaveRefresh,
      RefreshNotStored, ClearAccess, ClearRefresh, NotCleared, LoginSavesAccess,
      LoginSavesRefresh, LoginNotStored, LogOut, LogoutFails, LogoutClearsAccess,
      LogoutClearsRefresh, LogoutNotCleared, Restart, vars, server
<1>7. CASE ServeLogout \/ CommitResponse \/ LoseCommit \/ EndElsewhere \/ PurgeExpired
  BY <1>1, <1>7
  DEF ServeLogout, RevokeAll, CommitResponse, Commit, LoseCommit, Rollback, EndElsewhere,
      EndEverySession, PurgeExpired, Purge
<1>8. CASE ServeRefresh
  BY <1>1, <1>2, <1>4, <1>8 DEF ServeRefresh, Exchange, Refuse
<1>9. CASE \E r \in late : ServeLate(r)
  BY <1>1, <1>2, <1>5, <1>9 DEF ServeLate, Exchange, Refuse, RevokeAll
<1>10. CASE LogIn
  BY <1>2, <1>10 DEF LogIn
<1>11. CASE PassTime
  BY <1>3, <1>11 DEF PassTime
<1> QED
  BY <1>6, <1>7, <1>8, <1>9, <1>10, <1>11 DEF Next

\* A new pair, and a transaction that commits, end no other token.
LEMMA IssueKeepsValid ==
    ASSUME NEW old, Issue(old), NEW t, Valid(t)
    PROVE  Valid(t)'
  BY DEF Issue, Valid, Exchangeable

LEMMA IssuedIsValid ==
    ASSUME NEW old, Issue(old), NEW t, t = issued'
    PROVE  Valid(t)'
<1>1. [old |-> old, new |-> t] \in pending'
  BY DEF Issue
<1> QED
  BY <1>1 DEF Valid

LEMMA CommitKeepsValid ==
    ASSUME TypeOK, NewIsFresh, CommitResponse, NEW t \in Tokens, Valid(t), ~Used(t)
    PROVE  Valid(t)'
<1>1. PICK p \in pending : Commit(p)
  BY DEF CommitResponse
<1>2. UNCHANGED age /\ t # p.old
  BY <1>1 DEF Commit, Used
<1>3. CASE t = p.new
  BY <1>1, <1>2, <1>3
  DEF Commit, Valid, Exchangeable, NewIsFresh, TypeOK, ServerTypeOK
<1>4. CASE t # p.new
  BY <1>1, <1>2, <1>4 DEF Commit, Valid, Exchangeable, TypeOK, ServerTypeOK
<1> QED
  BY <1>3, <1>4

\* Time ends no session unless it is said to, nor does the purge.
LEMMA TimeKeepsValid ==
    ASSUME TypeOK, PurgeExpired \/ (PassTime /\ "ended" \notin events'),
           NEW t \in Tokens, Valid(t)
    PROVE  Valid(t)'
<1>1. CASE PurgeExpired
  BY <1>1 DEF PurgeExpired, Purge, Purged, Valid, Exchangeable, TypeOK, ServerTypeOK
<1>2. CASE PassTime /\ "ended" \notin events'
  <2>1. \A s \in Tokens : ~(age'[s] = 2 /\ rows[s] = "active")
    BY <1>2 DEF PassTime, Happened, Given
  <2>2. UNCHANGED <<rows, pending>> /\ age'[t] \in 0..2
    BY <1>2 DEF PassTime, Expire, TypeOK, ServerTypeOK
  <2> QED
    BY <2>1, <2>2 DEF Valid, Exchangeable
<1> QED
  BY <1>1, <1>2

\* Whose tokens Undisturbed is about.
LEMMA HeldTokens ==
    ASSUME TypeOK, IssuedOnly, Undisturbed
    PROVE  /\ refreshing # Nothing => /\ refreshing.at \in {"sent", "granted", "saved"}
                                      /\ refreshing.token \in Tokens
                                      /\ issued > 0
           /\ login # Nothing => /\ login.at \in {"granted", "saved"}
                                 /\ login.token \in Tokens
                                 /\ issued > 0
           /\ refresh # NoToken => refresh \in Tokens
  BY MaxTokensAssumption
  DEF TypeOK, ServerTypeOK, IssuedOnly, Undisturbed, Doing, Nothing, Held, Tokens

LEMMA CallsLast ==
    ASSUME TypeOK, IssuedOnly, Undisturbed, NEW c \in Calls,
           Send(c) \/ ServeCall(c) \/ CallFails(c) \/ OnRefused(c)
    PROVE  Undisturbed'
<1>1. UNCHANGED <<server, storage, login, logout, late>>
  BY DEF Send, ServeCall, CallFails, OnRefused
<1>2. CASE UNCHANGED refreshing
  BY <1>1, <1>2
  DEF Undisturbed, LoggedOut, Valid, Exchangeable, server, storage
<1>3. CASE /\ refreshing = Nothing /\ refresh # NoToken
           /\ refreshing' = [at |-> "sent", token |-> refresh]
  BY <1>1, <1>3
  DEF Undisturbed, LoggedOut, Valid, Exchangeable, Nothing, server, storage
<1> QED
  BY <1>2, <1>3 DEF Send, ServeCall, CallFails, OnRefused

LEMMA RefreshLasts ==
    ASSUME TypeOK, IssuedOnly, Undisturbed,
           "lost" \notin events', "early" \notin events',
           \/ ServeRefresh \/ RefreshFails \/ SaveAccess \/ SaveRefresh
           \/ RefreshNotStored \/ ClearAccess \/ ClearRefresh \/ NotCleared
    PROVE  Undisturbed'
<1>1. CASE ServeRefresh
  <2>1. UNCHANGED <<storage, login, logout, late>> /\ refreshing # Nothing
    BY <1>1 DEF ServeRefresh, Nothing
  <2>2. PICK t \in Tokens : t = refreshing.token
    BY <2>1, HeldTokens
  <2>3. Exchange(t) /\ refreshing' = [at |-> "granted", token |-> issued']
    <3>1. Valid(t)
      BY <2>1, <2>2 DEF Undisturbed
    <3> QED
      BY <1>1, <2>2, <3>1 DEF ServeRefresh, Refuse, Valid, Happened, Given
  <2>4. Issue(t)
    BY <2>3 DEF Exchange
  <2>5. login # Nothing => Valid(login.token)'
    BY <2>1, <2>4, IssueKeepsValid DEF Undisturbed
  <2>6. Valid(refreshing.token)'
    BY <2>3, <2>4, IssuedIsValid
  <2>7. ~LoggedOut'
    BY <2>1, HeldTokens DEF Undisturbed, LoggedOut, storage, TypeOK, ServerTypeOK
  <2>8. ~(status = "unread" /\ access = NoToken) \/ login.at = "granted"
    BY <2>1, HeldTokens DEF Undisturbed, TypeOK, ServerTypeOK
  <2> QED
    BY <2>1, <2>3, <2>5, <2>6, <2>7, <2>8 DEF Undisturbed, storage
<1>2. CASE RefreshFails \/ RefreshNotStored
  BY <1>2 DEF RefreshFails, RefreshNotStored, Happened
<1>3. CASE SaveAccess
  <2>1. /\ UNCHANGED <<server, refresh, status, login, logout, late>>
        /\ refreshing' = [at |-> "saved", token |-> refreshing.token]
        /\ access' = refreshing.token
        /\ refreshing # Nothing /\ refreshing.at = "granted"
    BY <1>3 DEF SaveAccess, Step, TypeOK, Doing, Nothing
  <2>2. access' # NoToken
    BY <2>1, HeldTokens DEF Tokens, NoToken
  <2> QED
    BY <2>1, <2>2 DEF Undisturbed, LoggedOut, Valid, Exchangeable, server
<1>4. CASE SaveRefresh
  BY <1>4
  DEF SaveRefresh, Undisturbed, LoggedOut, Valid, Exchangeable, Nothing, server
<1>5. CASE ClearAccess \/ ClearRefresh \/ NotCleared
  BY <1>5 DEF ClearAccess, ClearRefresh, NotCleared, Undisturbed
<1> QED
  BY <1>1, <1>2, <1>3, <1>4, <1>5

LEMMA LoginLasts ==
    ASSUME TypeOK, IssuedOnly, Undisturbed, "lost" \notin events',
           LogIn \/ LoginSavesAccess \/ LoginSavesRefresh \/ LoginNotStored
    PROVE  Undisturbed'
<1>1. UNCHANGED <<refreshing, logout, late>>
  BY DEF LogIn, LoginSavesAccess, LoginSavesRefresh, LoginNotStored
<1>2. CASE LogIn
  <2>1. Issue(NoToken) /\ login' = [at |-> "granted", token |-> issued']
        /\ UNCHANGED storage
    BY <1>2 DEF LogIn
  <2>2. Valid(login.token)'
    BY <2>1, IssuedIsValid
  <2>3. /\ refreshing # Nothing => Valid(refreshing.token)'
        /\ (refreshing.at \notin {"granted", "saved"} /\ refresh # NoToken)
              => Valid(refresh)'
    BY <1>1, <2>1, IssueKeepsValid DEF Undisturbed, storage
  <2> QED
    BY <1>1, <2>1, <2>2, <2>3 DEF Undisturbed, LoggedOut, storage
<1>3. CASE LoginSavesAccess
  <2>1. /\ UNCHANGED <<server, refresh>>
        /\ login' = [at |-> "saved", token |-> login.token]
        /\ access' = login.token /\ status' = "in"
        /\ login # Nothing
    BY <1>3 DEF LoginSavesAccess, Step, TypeOK, Doing, Nothing
  <2>2. access' # NoToken
    BY <2>1, HeldTokens DEF Tokens, NoToken
  <2> QED
    BY <1>1, <2>1, <2>2 DEF Undisturbed, LoggedOut, Valid, Exchangeable, server
<1>4. CASE LoginSavesRefresh
  <2>1. /\ UNCHANGED <<server, access, status>>
        /\ login' = Nothing /\ refresh' = login.token
        /\ login # Nothing /\ login.at = "saved"
    BY <1>4 DEF LoginSavesRefresh, Nothing
  <2>2. ~LoggedOut'
    BY <2>1, HeldTokens DEF Undisturbed, LoggedOut
  <2> QED
    BY <1>1, <2>1, <2>2 DEF Undisturbed, Valid, Exchangeable, server
<1>5. CASE LoginNotStored
  BY <1>5 DEF LoginNotStored, Happened
<1> QED
  BY <1>2, <1>3, <1>4, <1>5

LEMMA LogoutNeverStarts ==
    ASSUME Undisturbed, "ended" \notin events',
           \/ LogOut \/ ServeLogout \/ LogoutFails
           \/ LogoutClearsAccess \/ LogoutClearsRefresh \/ LogoutNotCleared
    PROVE  FALSE
  BY DEF Undisturbed, LogOut, ServeLogout, LogoutFails, LogoutClearsAccess,
         LogoutClearsRefresh, LogoutNotCleared, Happened, Nothing

LEMMA ServerLasts ==
    ASSUME TypeOK, IssuedOnly, NewIsFresh, OneHolderEach, Undisturbed,
           "lost" \notin events', "ended" \notin events',
           \/ \E r \in late : ServeLate(r)
           \/ CommitResponse \/ LoseCommit \/ EndElsewhere \/ PassTime \/ PurgeExpired
    PROVE  Undisturbed'
<1>1. CommitResponse \/ PassTime \/ PurgeExpired
  BY DEF Undisturbed, LoseCommit, EndElsewhere, Happened
<1>2. UNCHANGED <<client, late, issued>>
  BY <1>1
  DEF CommitResponse, Commit, PassTime, Expire, PurgeExpired, Purge
<1>3. ASSUME NEW t \in Tokens, Valid(t), ~Used(t)
      PROVE  Valid(t)'
  BY <1>1, <1>3, CommitKeepsValid, TimeKeepsValid
<1>4. /\ refreshing # Nothing => Valid(refreshing.token)'
      /\ login # Nothing => Valid(login.token)'
      /\ (refreshing.at \notin {"granted", "saved"} /\ refresh # NoToken)
            => Valid(refresh)'
  <2>1. /\ refreshing # Nothing => refreshing.token \in Tokens /\ ~Used(refreshing.token)
        /\ login # Nothing => login.token \in Tokens /\ ~Used(login.token)
        /\ (refreshing.at \notin {"granted", "saved"} /\ refresh # NoToken)
              => refresh \in Tokens /\ ~Used(refresh)
    BY HeldTokens DEF OneHolderEach
  <2> QED
    BY <1>2, <1>3, <2>1 DEF Undisturbed, Valid, client, storage
<1> QED
  BY <1>2, <1>4 DEF Undisturbed, LoggedOut, client, storage

LEMMA RestartLasts ==
    ASSUME TypeOK, Undisturbed, "lost" \notin events', Restart
    PROVE  Undisturbed'
<1>1. refreshing = Nothing /\ login = Nothing /\ logout = Nothing
  BY DEF Restart, Happened, Given, Undisturbed
<1>2. UNCHANGED <<server, access, refresh, refreshing, login, logout, late>>
  BY <1>1 DEF Restart, Nothing
<1>3. status' = "out" => issued = 0
  BY <1>1 DEF Restart, Undisturbed, LoggedOut, TypeOK, ServerTypeOK, Nothing
<1>5. status' = "unread" /\ access = NoToken => issued = 0
  BY <1>1 DEF Restart, Undisturbed, LoggedOut, TypeOK, ServerTypeOK, Nothing
<1>4. status' = "in" => access # NoToken
  BY DEF Restart
<1> QED
  BY <1>1, <1>2, <1>3, <1>4, <1>5
  DEF Undisturbed, LoggedOut, Valid, Exchangeable, Nothing, server

LEMMA NextKeepsLasting == IInv /\ NewIsFresh /\ Lasting /\ [Next]_vars => Lasting'
<1>1. SUFFICES ASSUME IInv, NewIsFresh, Lasting, [Next]_vars,
                      events' \cap {"lost", "ended", "early"} = {}
               PROVE  Undisturbed'
  BY DEF Lasting
<1>2. events \subseteq events'
  BY <1>1
  DEF Next, Send, ServeCall, CallFails, OnRefused, ServeRefresh, RefreshFails, SaveAccess,
      SaveRefresh, RefreshNotStored, ClearAccess, ClearRefresh, NotCleared, LogIn,
      LoginSavesAccess, LoginSavesRefresh, LoginNotStored, LogOut, ServeLogout,
      LogoutFails, LogoutClearsAccess, LogoutClearsRefresh, LogoutNotCleared, ServeLate,
      CommitResponse, LoseCommit, EndElsewhere, PassTime, PurgeExpired, Restart, Happened,
      vars
<1>3. Undisturbed /\ OneHolderEach
  BY <1>1, <1>2 DEF Lasting, IInv, Unspent
<1>4. CASE UNCHANGED vars
  BY <1>3, <1>4
  DEF Undisturbed, LoggedOut, Valid, Exchangeable, vars, client, server, storage
<1> QED
  BY <1>1, <1>3, <1>4, CallsLast, RefreshLasts, LoginLasts, LogoutNeverStarts, ServerLasts,
     RestartLasts
  DEF Next, IInv

LEMMA LastingAlways == Spec => []Lasting
<1>1. Init => NewIsFresh /\ Lasting
  BY MaxTokensAssumption
  DEF Init, ServerInit, NewIsFresh, Lasting, Undisturbed, LoggedOut, Nothing
<1>2. IInv => TypeOK /\ IssuedOnly
  BY DEF IInv
<1>3. IInv /\ NewIsFresh /\ [Next]_vars => NewIsFresh'
  BY <1>2, NewStaysFresh
<1> QED
  BY <1>1, <1>3, IInvAlways, NextKeepsLasting, PTL DEF Spec
-----------------------------------------------------------------------------
(***************************************************************************)
(* The state of the client and of the server is well typed, however many   *)
(* calls are under way and however many tokens have been issued.           *)
(***************************************************************************)
THEOREM TypeCorrect == Spec => []TypeOK
<1>1. IInv => TypeOK
  BY DEF IInv
<1> QED
  BY <1>1, IInvAlways, PTL

(***************************************************************************)
(* A refresh never presents a token that a refresh has used up, unless an  *)
(* answer was lost (api_client.dart:69, auth.py:197).                      *)
(***************************************************************************)
THEOREM NoTokenEverUsedTwice == Spec => []NoTokenUsedTwice
<1>1. IInv => NoTokenUsedTwice
  BY DEF IInv, Unspent, OneHolderEach, Used, NoTokenUsedTwice
<1> QED
  BY <1>1, IInvAlways, PTL

(***************************************************************************)
(* Whoever has logged in stays in, however often access tokens expire, as  *)
(* long as no session was ended and every answer arrived, was stored, and  *)
(* was committed before the token in it was used (auth_state.dart:169,     *)
(* auth.py:191).  A start that cannot read the storage logs nobody out for *)
(* good: the tokens are still there at the next one (auth_state.dart:125). *)
(***************************************************************************)
THEOREM SessionsAlwaysLast == Spec => []SessionsLast
<1>1. Lasting => SessionsLast
  BY DEF Lasting, Undisturbed, SessionsLast
<1> QED
  BY <1>1, LastingAlways, PTL

(***************************************************************************)
(* Whoever is logged out stays out, also when the app is started again:    *)
(* no access token is left in the storage, unless a refresh, a login and a *)
(* logout crossed (auth_state.dart:117-165).  This says nothing of who is  *)
(* out because the storage could not be read at the start.                 *)
(***************************************************************************)
THEOREM NothingEverStoredWhileOut == Spec => []NothingStoredWhileOut
<1>1. InStep => NothingStoredWhileOut
  BY DEF InStep, TakeTurns, NothingStoredWhileOut
<1> QED
  BY <1>1, InStepAlways, PTL

(***************************************************************************)
(* A call that waits for a refresh waits for one that is under way         *)
(* (api_client.dart:69-82).                                                *)
(***************************************************************************)
THEOREM NobodyEverWaitsInVain == Spec => []NobodyWaitsInVain
<1>1. IInv => NobodyWaitsInVain
  BY DEF IInv
<1> QED
  BY <1>1, IInvAlways, PTL
=============================================================================
