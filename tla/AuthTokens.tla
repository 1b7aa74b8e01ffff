------------------------------ MODULE AuthTokens ------------------------------
(***************************************************************************)
(* The tokens of one account on the server: api/auth.py, api/users.py,     *)
(* api/deps.py, cli.py and the purge of the daily job.                     *)
(*                                                                         *)
(* A login or a refresh issues an access token and a refresh token         *)
(* together; both are named by one number.  An access token is a signed    *)
(* text the server keeps no row for, a refresh token is a row of           *)
(* refresh_tokens.  get_db commits after the response has been sent, so    *)
(* the row of a new token is pending for a while.                          *)
(***************************************************************************)
EXTENDS Integers, FiniteSets

CONSTANTS MaxTokens     \* bound: pairs of tokens issued

ASSUME MaxTokensAssumption == MaxTokens \in Nat

Tokens  == 1..MaxTokens
NoToken == 0

VARIABLES
    rows,       \* token -> its committed row: absent, or why it is revoked
    pending,    \* uncommitted transactions that rotate old into new
    blocked,    \* revoked_tokens: the access tokens logged out
    age,        \* token -> 0 fresh, 1 access expired, 2 refresh expired too
    issued      \* number of pairs issued

server == <<rows, pending, blocked, age, issued>>

Rotation == [old : Tokens \cup {NoToken}, new : Tokens]

ServerTypeOK ==
    /\ rows \in [Tokens -> {"none", "active", "rotated", "ended"}]
    /\ pending \subseteq Rotation
    /\ blocked \subseteq Tokens
    /\ age \in [Tokens -> 0..2]
    /\ issued \in 0..MaxTokens

ServerInit ==
    /\ rows = [t \in Tokens |-> "none"]
    /\ pending = {}
    /\ blocked = {}
    /\ age = [t \in Tokens |-> 0]
    /\ issued = 0
-----------------------------------------------------------------------------
\* get_current_user: the signature and expiry of the access token, and the
\* blocklist.
Accepts(t) == t # NoToken /\ age[t] = 0 /\ t \notin blocked

\* UPDATE refresh_tokens SET revoked_at WHERE user_id AND revoked_at IS NULL.
\* It sees committed rows only.  If it has to wait for a rotation under way,
\* the old row is revoked by one or the other; the new one is not seen.
AllEnded == [t \in Tokens |-> IF rows[t] = "active" THEN "ended" ELSE rows[t]]

\* A new pair; the row, and the rotation of the old one, are uncommitted.
Issue(old) ==
    /\ issued < MaxTokens
    /\ issued' = issued + 1
    /\ pending' = pending \cup {[old |-> old, new |-> issued + 1]}
    /\ UNCHANGED <<rows, blocked, age>>

\* The row exists, is not revoked and not expired.  No lock is taken.
Exchangeable(t) == rows[t] = "active" /\ age[t] < 2

\* refresh_token: rotation.
Exchange(t) == Exchangeable(t) /\ Issue(t)

\* refresh_token: 401.  A token that has been revoked, for whatever reason,
\* revokes every token of the user, and that is committed.
Refuse(t) ==
    /\ ~Exchangeable(t)
    /\ rows' = IF rows[t] \in {"rotated", "ended"} THEN AllEnded ELSE rows
    /\ UNCHANGED <<pending, blocked, age, issued>>

\* logout: 401 for an expired access token, before anything is revoked.
\* The blocklist is not looked at: logging out twice is the same as once.
RevokeAll(t) ==
    /\ IF age[t] = 0
       THEN rows' = AllEnded /\ blocked' = blocked \cup {t}
       ELSE UNCHANGED <<rows, blocked>>
    /\ UNCHANGED <<pending, age, issued>>

\* get_db commits a login or a rotation.
Commit(p) ==
    /\ p \in pending
    /\ pending' = pending \ {p}
    /\ rows' = [t \in Tokens |->
           CASE t = p.new -> "active"
             [] t = p.old /\ rows[t] = "active" -> "rotated"
             [] OTHER -> rows[t]]
    /\ UNCHANGED <<blocked, age, issued>>

\* The commit fails after the response has gone out.
Rollback(p) ==
    /\ p \in pending
    /\ pending' = pending \ {p}
    /\ UNCHANGED <<rows, blocked, age, issued>>

\* A logout on another device, change_password or the operator's
\* reset-password: every refresh token of the account.
EndEverySession ==
    /\ rows # AllEnded
    /\ rows' = AllEnded
    /\ UNCHANGED <<pending, blocked, age, issued>>

\* Half an hour, then 30 days, pass.  Older tokens expire first; a commit
\* takes less than either.
Expire(t) ==
    /\ t <= issued /\ age[t] < 2
    /\ \A s \in 1..(t - 1) : age[s] > age[t]
    /\ \A p \in pending : t \notin {p.old, p.new}
    /\ age' = [age EXCEPT ![t] = @ + 1]
    /\ UNCHANGED <<rows, pending, blocked, issued>>

Purged == [t \in Tokens |-> IF age[t] = 2 THEN "none" ELSE rows[t]]

\* cleanup_expired_tokens, in the daily job.  An expired access token is
\* refused whether it is on the blocklist or not.
Purge ==
    /\ rows # Purged
    /\ rows' = Purged
    /\ blocked' = {t \in blocked : age[t] = 0}
    /\ UNCHANGED <<pending, age, issued>>
=============================================================================
