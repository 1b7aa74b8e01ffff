-------------------------------- MODULE Invites --------------------------------
(***************************************************************************)
(* The invite tokens of one household, statement by statement, at READ     *)
(* COMMITTED: create, accept and revoke an invite (api/invites.py) while   *)
(* members leave and the household is deleted, by its admin or with the    *)
(* account of its only member (services/account_deletion.py).              *)
(*                                                                         *)
(* A handler reads the time when it begins and judges or stamps with that, *)
(* however long it then waits for a lock.  Every reading is an instant of  *)
(* its own: the clock has microseconds.  An invite is named by the request *)
(* that creates it.  A write is visible to others from its COMMIT.         *)
(***************************************************************************)
EXTENDS Integers, FiniteSets

CONSTANTS Users,
          Founder,      \* the household's admin; the others join as members
          Requests,     \* requests, each made once
          TTL,          \* INVITE_TOKEN_TTL_HOURS, in instants
          LastInstant   \* bound on the clock

ASSUME InvitesAssumption ==
    /\ Founder \in Users
    /\ TTL \in Nat \ {0} /\ LastInstant \in Nat

VARIABLES
    clock,      \* the present instant
    exists,     \* the household has not been deleted
    members,    \* users with an active membership
    invites,    \* rows of invite_tokens
    expires,    \* invite -> expires_at
    used,       \* invites whose used_at is set
    call,       \* request -> what it asks for
    pc,         \* request -> its next statement
    now,        \* request -> the instant it has read
    matched,    \* request -> invites its UPDATE has found
    locked,     \* request -> invites it holds a row lock on
    redeemed,   \* history: [token, by] of committed accepts
    ended,      \* history: invites with a committed revocation or replacement
    over,       \* history: request -> what had ended when it was received
    met         \* history: pairs of requests that were in flight together

rows    == <<exists, members, invites, expires, used>>
history == <<redeemed, ended, over, met>>
vars    == <<clock, rows, call, pc, now, matched, locked, history>>

Kinds == {"create", "accept", "revoke", "deleteAccount", "deleteHousehold"}
Steps == {"new", "lock", "update", "insert", "delete", "cascade", "commit", "done"}

NoCall == [kind |-> "none", user |-> Founder, token |-> "none"]
Call   == [kind : Kinds, user : Users, token : Requests \cup {"none"}]

TypeOK ==
    /\ clock \in Nat /\ exists \in BOOLEAN /\ members \subseteq Users
    /\ invites \subseteq Requests /\ used \subseteq Requests
    /\ expires \in [Requests -> Nat]
    /\ call \in [Requests -> Call \cup {NoCall}]
    /\ pc \in [Requests -> Steps]
    /\ now \in [Requests -> Nat]
    /\ matched \in [Requests -> SUBSET Requests]
    /\ locked \in [Requests -> SUBSET Requests]
    /\ redeemed \subseteq [token : Requests, by : Requests]
    /\ ended \subseteq Requests
    /\ over \in [Requests -> SUBSET Requests]
    /\ met \subseteq SUBSET Requests

Init ==
    /\ clock = 0 /\ exists = TRUE /\ members = {Founder}
    /\ invites = {} /\ used = {}
    /\ expires = [k \in Requests |-> 0]
    /\ call = [r \in Requests |-> NoCall]
    /\ pc = [r \in Requests |-> "new"]
    /\ now = [r \in Requests |-> 0]
    /\ matched = [r \in Requests |-> {}]
    /\ locked = [r \in Requests |-> {}]
    /\ redeemed = {} /\ ended = {} /\ met = {}
    /\ over = [r \in Requests |-> {}]
-----------------------------------------------------------------------------
InFlight == {r \in Requests : pc[r] \notin {"new", "done"}}
Deletes(r) == call[r].kind \in {"deleteAccount", "deleteHousehold"}

\* Unused and not past its time, as create_invite and list_invites ask.
IsOpen(k, t) == k \in invites /\ k \notin used /\ expires[k] > t

Receive(r, c) ==
    /\ pc[r] = "new"
    /\ call' = [call EXCEPT ![r] = c]
    /\ met' = met \cup {{r, s} : s \in InFlight}
    /\ over' = [over EXCEPT ![r] = ended]
    /\ UNCHANGED <<rows, locked, redeemed, ended>>

ReadTheTime(r) ==
    /\ clock < LastInstant
    /\ clock' = clock + 1
    /\ now' = [now EXCEPT ![r] = clock + 1]

Goto(r, step) == pc' = [pc EXCEPT ![r] = step]

\* The end of a transaction, whatever became of it.
Finish(r) ==
    /\ Goto(r, "done")
    /\ locked' = [locked EXCEPT ![r] = {}]
    /\ matched' = [matched EXCEPT ![r] = {}]
    /\ UNCHANGED <<clock, call, now, over, met>>

\* create_invite: require_admin, and the UPDATE finds the open invites that
\* its snapshot shows.
ReceiveCreate(r) ==
    /\ Founder \in members
    /\ Receive(r, [kind |-> "create", user |-> Founder, token |-> "none"])
    /\ ReadTheTime(r)
    /\ matched' = [matched EXCEPT ![r] = {k \in invites : IsOpen(k, clock + 1)}]
    /\ Goto(r, "update")

\* accept_invite, by anybody who has been shown the link.
ReceiveAccept(r, u, k) ==
    /\ pc[k] = "done" /\ call[k].kind = "create"
    /\ Receive(r, [kind |-> "accept", user |-> u, token |-> k])
    /\ ReadTheTime(r)
    /\ Goto(r, "lock") /\ UNCHANGED matched

\* revoke_invite: require_admin, a plain SELECT (404 without the row), and
\* the time its flush is going to write.
ReceiveRevoke(r, k) ==
    /\ Founder \in members /\ k \in invites
    /\ Receive(r, [kind |-> "revoke", user |-> Founder, token |-> k])
    /\ ReadTheTime(r)
    /\ matched' = [matched EXCEPT ![r] = {k}]
    /\ Goto(r, "update")

\* Mutant: a member more does not matter.
IsLastMemberOffByOne == Cardinality(members) <= 2

\* The count in the first pass of delete_user_account.
IsLastMember == Cardinality(members) <= 1

\* With others around, the founder as the only admin gets 409 instead.
ReceiveDeleteAccount(r) ==
    /\ Founder \in members /\ IsLastMember
    /\ Receive(r, [kind |-> "deleteAccount", user |-> Founder, token |-> "none"])
    /\ Goto(r, "delete") /\ UNCHANGED <<clock, now, matched>>

\* delete_household: require_admin, and the name confirmed.
ReceiveDeleteHousehold(r) ==
    /\ Founder \in members
    /\ Receive(r, [kind |-> "deleteHousehold", user |-> Founder, token |-> "none"])
    /\ Goto(r, "delete") /\ UNCHANGED <<clock, now, matched>>
-----------------------------------------------------------------------------
(* Waiting.  An inserted row shares the household until COMMIT (foreign    *)
(* key); a deletion locks it, and then every row that it cascades to.      *)

HoldsInvites(r, K) == {s \in Requests \ {r} : locked[s] \cap K # {}}

SharesHousehold(s) == pc[s] = "commit" /\ call[s].kind \in {"create", "accept"}
LocksHousehold(s)  == pc[s] \in {"cascade", "commit"} /\ Deletes(s)

\* The partial unique index uq_active_membership: an insert waits for an
\* uncommitted one with the same key.
SameMember(r, s) ==
    /\ call[r].kind = "accept" /\ call[s].kind = "accept"
    /\ call[r].user = call[s].user /\ pc[s] = "commit"

WaitsFor(r) ==
    CASE pc[r] = "lock"    -> HoldsInvites(r, {call[r].token})
      [] pc[r] = "update"  -> HoldsInvites(r, matched[r])
      [] pc[r] = "insert"  -> {s \in Requests \ {r} : LocksHousehold(s) \/ SameMember(r, s)}
      [] pc[r] = "delete"  -> {s \in Requests \ {r} : LocksHousehold(s) \/ SharesHousehold(s)}
      [] pc[r] = "cascade" -> HoldsInvites(r, invites)
      [] OTHER             -> {}

Granted(r, step) == pc[r] = step /\ WaitsFor(r) = {}
-----------------------------------------------------------------------------
\* Mutant: the time is forgotten.
RedeemableWhatever(r) ==
    call[r].token \in invites /\ call[r].token \notin used

\* The 410 of accept_invite, on the row as it is once the lock is granted.
Redeemable(r) ==
    /\ call[r].token \in invites /\ call[r].token \notin used
    /\ ~ expires[call[r].token] < now[r]

\* Mutant: a SELECT without FOR UPDATE.
LockInviteUnlocked(r) ==
    /\ pc[r] = "lock"
    /\ IF Redeemable(r) /\ call[r].user \notin members
       THEN Goto(r, "insert") /\ UNCHANGED <<clock, call, now, over, met, matched, locked>>
       ELSE Finish(r)
    /\ UNCHANGED <<rows, redeemed, ended>>

\* SELECT ... FOR UPDATE, and the check for an active membership (409).
LockInvite(r) ==
    /\ Granted(r, "lock")
    /\ IF Redeemable(r) /\ call[r].user \notin members
       THEN /\ Goto(r, "insert")
            /\ locked' = [locked EXCEPT ![r] = {call[r].token}]
            /\ UNCHANGED <<clock, call, now, over, met, matched>>
       ELSE Finish(r)
    /\ UNCHANGED <<rows, redeemed, ended>>

\* The UPDATE of create and revoke.  What it has found it looks at again
\* after a wait; what others have inserted meanwhile it does not see.
UpdateExpiry(r) ==
    /\ Granted(r, "update")
    /\ locked' = [locked EXCEPT ![r] =
         {k \in matched[r] \cap invites : call[r].kind = "revoke" \/ IsOpen(k, now[r])}]
    /\ Goto(r, IF call[r].kind = "create" THEN "insert" ELSE "commit")
    /\ UNCHANGED <<clock, rows, call, now, matched, history>>

\* The INSERT of a membership or an invite.  IntegrityError (main.py), 409,
\* when the household is gone or the user has become a member meanwhile.
Insert(r) ==
    /\ Granted(r, "insert")
    /\ IF exists /\ ~ (call[r].kind = "accept" /\ call[r].user \in members)
       THEN /\ Goto(r, "commit")
            /\ UNCHANGED <<clock, call, now, matched, locked, over, met>>
       ELSE Finish(r)
    /\ UNCHANGED <<rows, redeemed, ended>>

DeleteHousehold(r) ==
    /\ Granted(r, "delete")
    /\ IF exists
       THEN /\ Goto(r, "cascade")
            /\ UNCHANGED <<clock, call, now, matched, locked, over, met>>
       ELSE Finish(r)
    /\ UNCHANGED <<rows, redeemed, ended>>

Cascade(r) ==
    /\ Granted(r, "cascade")
    /\ locked' = [locked EXCEPT ![r] = invites]
    /\ Goto(r, "commit")
    /\ UNCHANGED <<clock, rows, call, now, matched, history>>
-----------------------------------------------------------------------------
AtCommit(r, kind) == pc[r] = "commit" /\ call[r].kind = kind

\* Mutant: the earlier invites are left as they are.
CommitCreateBeside(r) ==
    /\ AtCommit(r, "create")
    /\ invites' = invites \cup {r}
    /\ expires' = [expires EXCEPT ![r] = now[r] + TTL]
    /\ ended' = ended \cup locked[r]
    /\ Finish(r)
    /\ UNCHANGED <<exists, members, used, redeemed>>

Stamped(r) == [k \in Requests |-> IF k \in locked[r] THEN now[r] ELSE expires[k]]

CommitCreate(r) ==
    /\ AtCommit(r, "create")
    /\ invites' = invites \cup {r}
    /\ expires' = [Stamped(r) EXCEPT ![r] = now[r] + TTL]
    /\ ended' = ended \cup locked[r]
    /\ Finish(r)
    /\ UNCHANGED <<exists, members, used, redeemed>>

CommitAccept(r) ==
    /\ AtCommit(r, "accept")
    /\ members' = members \cup {call[r].user}
    /\ used' = used \cup {call[r].token}
    /\ redeemed' = redeemed \cup {[token |-> call[r].token, by |-> r]}
    /\ Finish(r)
    /\ UNCHANGED <<exists, invites, expires, ended>>

CommitRevoke(r) ==
    /\ AtCommit(r, "revoke")
    /\ expires' = Stamped(r)
    /\ ended' = ended \cup locked[r]
    /\ Finish(r)
    /\ UNCHANGED <<exists, members, invites, used, redeemed>>

CommitDelete(r) ==
    /\ pc[r] = "commit" /\ Deletes(r)
    /\ exists' = FALSE /\ members' = {} /\ invites' = {}
    /\ Finish(r)
    /\ UNCHANGED <<expires, used, redeemed, ended>>

\* Any transaction may be lost, with its connection or its process; a
\* deadlock fails one of its transactions.
Abort(r) ==
    /\ r \in InFlight
    /\ Finish(r)
    /\ UNCHANGED <<rows, redeemed, ended>>

\* leave_household, or remove_member by the founder; the row is locked once
\* a deletion has cascaded to it.
Leave(u) ==
    /\ u \in members \ {Founder}
    /\ \A r \in Requests : ~ (pc[r] = "commit" /\ Deletes(r))
    /\ members' = members \ {u}
    /\ UNCHANGED <<clock, exists, invites, expires, used, call, pc, now, matched,
                   locked, history>>

\* As much time goes by as an invite lasts.
TimePasses ==
    /\ clock + TTL <= LastInstant
    /\ clock' = clock + TTL
    /\ UNCHANGED <<rows, call, pc, now, matched, locked, history>>

Next ==
    \/ \E r \in Requests :
         \/ ReceiveCreate(r) \/ ReceiveDeleteAccount(r) \/ ReceiveDeleteHousehold(r)
         \/ \E u \in Users, k \in Requests : ReceiveAccept(r, u, k)
         \/ \E k \in Requests : ReceiveRevoke(r, k)
         \/ LockInvite(r) \/ UpdateExpiry(r) \/ Insert(r)
         \/ DeleteHousehold(r) \/ Cascade(r)
         \/ CommitCreate(r) \/ CommitAccept(r) \/ CommitRevoke(r) \/ CommitDelete(r)
         \/ Abort(r)
    \/ \E u \in Users : Leave(u)
    \/ TimePasses

Spec == Init /\ [][Next]_vars
-----------------------------------------------------------------------------
(* What must hold *)

(***************************************************************************)
(* The comment on accept_invite: two concurrent accepts of the same        *)
(* single-use token do not both redeem it.                                 *)
(***************************************************************************)
SingleUse == \A a, b \in redeemed : a.token = b.token => a.by = b.by

(***************************************************************************)
(* create_invite expires the invites that are open, so at most one is,     *)
(* unless two of them were created by requests that overlapped: neither    *)
(* UPDATE sees the other's uncommitted row.                                *)
(***************************************************************************)
OneOpenInvite ==
    \A j, k \in invites : IsOpen(j, clock) /\ IsOpen(k, clock) => j = k \/ {j, k} \in met

(***************************************************************************)
(* A token is no use to a request received after its revocation, or its    *)
(* replacement, was committed.  There is one exception, because            *)
(* revoke_invite stamps whatever row it finds: revoking an invite again    *)
(* moves its expiry forward, past the time a request under way has read.   *)
(***************************************************************************)
EndedIsRefused ==
    \A e \in redeemed : e.token \in over[e.by] =>
        \E s \in Requests : /\ call[s].kind = "revoke" /\ call[s].token = e.token
                            /\ {s, e.by} \in met

(***************************************************************************)
(* delete_user_account takes a household along only with its last member:  *)
(* whoever else loses it has joined while the account was being deleted,   *)
(* after the members were counted.                                         *)
(***************************************************************************)
HouseholdGoesWithItsLastMember ==
    [][\A r \in Requests :
         AtCommit(r, "deleteAccount") /\ ~ exists' /\ exists =>
            \A u \in members \ {Founder} :
                \E e \in redeemed : call[e.by].user = u /\ {e.by, r} \in met]_vars
=============================================================================
