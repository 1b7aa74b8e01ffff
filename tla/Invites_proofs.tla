----------------------------- MODULE Invites_proofs ----------------------------
(***************************************************************************)
(* Theorems about Invites, for any number of users and requests, any       *)
(* lifetime of an invite and any bound on the clock.                       *)
(***************************************************************************)
EXTENDS Invites, FiniteSetTheorems, TLAPS

Redeeming(r) == call[r].kind = "accept" /\ pc[r] \in {"insert", "commit"}

(***************************************************************************)
(* Between its SELECT ... FOR UPDATE and its COMMIT an accept holds its    *)
(* token, and nobody has redeemed that ...                                 *)
(***************************************************************************)
RedeemersHoldTheirToken ==
    \A r \in Requests : Redeeming(r) =>
        call[r].token \in locked[r] /\ call[r].token \notin used

\* ... an accept writes no expiry, and what cascades is a deletion ...
StepsOfTheirKind ==
    \A r \in Requests :
        /\ pc[r] \notin {"new", "done"} => call[r] \in Call
        /\ pc[r] = "lock" => call[r].kind = "accept"
        /\ pc[r] = "update" => call[r].kind \in {"create", "revoke"}
        /\ pc[r] \in {"delete", "cascade"} => Deletes(r)

\* ... no row is locked twice ...
OneLockEach ==
    \A r, s \in Requests : r # s => locked[r] \cap locked[s] = {}

\* ... and what has been redeemed is used.
RedeemedIsUsed == \A e \in redeemed : e.token \in used

IInv ==
    /\ TypeOK
    /\ RedeemersHoldTheirToken
    /\ StepsOfTheirKind
    /\ OneLockEach
    /\ RedeemedIsUsed
    /\ SingleUse
-----------------------------------------------------------------------------
LEMMA InitIInv == Init => IInv
  BY InvitesAssumption
  DEF Init, IInv, TypeOK, Steps, Redeeming, RedeemersHoldTheirToken,
      StepsOfTheirKind, OneLockEach, RedeemedIsUsed, SingleUse

\* What is left of the invariant when only one request has moved on, and no
\* accept has committed.
LEMMA OneMoves ==
    ASSUME IInv, TypeOK', NEW r \in Requests,
           \A s \in Requests \ {r} :
               call'[s] = call[s] /\ pc'[s] = pc[s] /\ locked'[s] = locked[s],
           used' = used, redeemed' = redeemed,
           Redeeming(r)' => call'[r].token \in locked'[r] /\ call'[r].token \notin used,
           pc'[r] \notin {"new", "done"} => call'[r] \in Call,
           pc'[r] = "lock" => call'[r].kind = "accept",
           pc'[r] = "update" => call'[r].kind \in {"create", "revoke"},
           pc'[r] \in {"delete", "cascade"} => Deletes(r)',
           \A s \in Requests \ {r} : locked'[r] \cap locked[s] = {}
    PROVE  IInv'
<1>1. RedeemersHoldTheirToken'
  BY DEF IInv, RedeemersHoldTheirToken, Redeeming
<1>2. StepsOfTheirKind'
  BY DEF IInv, StepsOfTheirKind, Deletes
<1>3. OneLockEach'
  BY DEF IInv, OneLockEach
<1>4. RedeemedIsUsed' /\ SingleUse'
  BY DEF IInv, RedeemedIsUsed, SingleUse
<1> QED
  BY <1>1, <1>2, <1>3, <1>4 DEF IInv

\* An end that commits nothing about the redemptions.
LEMMA FinishKeepsIInv ==
    ASSUME IInv, NEW r \in Requests, Finish(r),
           used' = used, redeemed' = redeemed, ended' \subseteq Requests,
           exists' \in BOOLEAN, members' \subseteq Users, invites' \subseteq Requests,
           expires' \in [Requests -> Nat]
    PROVE  IInv'
<1>1. TypeOK'
  BY DEF Finish, Goto, IInv, TypeOK, Steps
<1>2. /\ pc'[r] = "done" /\ locked'[r] = {}
      /\ \A s \in Requests \ {r} :
             call'[s] = call[s] /\ pc'[s] = pc[s] /\ locked'[s] = locked[s]
  BY DEF Finish, Goto, IInv, TypeOK
<1> QED
  BY <1>1, <1>2, OneMoves DEF Redeeming

\* A request is received: it has neither locked nor written anything.
LEMMA ReceiveKeepsIInv ==
    ASSUME IInv, NEW r \in Requests, NEW c \in Call, Receive(r, c),
           NEW step \in {"lock", "update", "delete"}, Goto(r, step),
           step = "lock" => c.kind = "accept",
           step = "update" => c.kind \in {"create", "revoke"},
           step = "delete" => c.kind \in {"deleteAccount", "deleteHousehold"},
           clock' \in Nat, now' \in [Requests -> Nat],
           matched' \in [Requests -> SUBSET Requests]
    PROVE  IInv'
<1>1. TypeOK'
  <2>1. met' \subseteq SUBSET Requests
    BY DEF Receive, InFlight, IInv, TypeOK
  <2>2. UNCHANGED <<exists, members, invites, expires, used, locked, redeemed, ended>>
    BY DEF Receive, rows
  <2>3. over' \in [Requests -> SUBSET Requests]
    BY DEF Receive, IInv, TypeOK
  <2>4. call' \in [Requests -> Call \cup {NoCall}] /\ pc' \in [Requests -> Steps]
    BY DEF Receive, Goto, IInv, TypeOK, Steps
  <2> QED
    BY <2>1, <2>2, <2>3, <2>4 DEF IInv, TypeOK
<1>2. /\ pc'[r] = step /\ call'[r] = c /\ locked'[r] = locked[r]
      /\ \A s \in Requests \ {r} :
             call'[s] = call[s] /\ pc'[s] = pc[s] /\ locked'[s] = locked[s]
  BY DEF Receive, Goto, IInv, TypeOK
<1>3. used' = used /\ redeemed' = redeemed
  BY DEF Receive, rows
<1> QED
  BY <1>1, <1>2, <1>3, OneMoves DEF Redeeming, Deletes, IInv, OneLockEach

LEMMA ReadTheTimeTyped ==
    ASSUME TypeOK, NEW r \in Requests, ReadTheTime(r)
    PROVE  clock' \in Nat /\ now' \in [Requests -> Nat]
  BY DEF ReadTheTime, TypeOK

LEMMA ReceivedKeepsIInv ==
    ASSUME IInv, NEW r \in Requests,
           \/ ReceiveCreate(r) \/ ReceiveDeleteAccount(r) \/ ReceiveDeleteHousehold(r)
           \/ \E u \in Users, k \in Requests : ReceiveAccept(r, u, k)
           \/ \E k \in Requests : ReceiveRevoke(r, k)
    PROVE  IInv'
<1>0. Founder \in Users /\ TypeOK
  BY InvitesAssumption DEF IInv
<1>1. CASE ReceiveCreate(r)
  <2>1. [kind |-> "create", user |-> Founder, token |-> "none"] \in Call
    BY <1>0 DEF Call, Kinds
  <2>2. matched' \in [Requests -> SUBSET Requests]
    BY <1>0, <1>1 DEF ReceiveCreate, TypeOK
  <2> QED
    BY <1>0, <1>1, <2>1, <2>2, ReadTheTimeTyped, ReceiveKeepsIInv DEF ReceiveCreate
<1>2. CASE ReceiveDeleteAccount(r)
  <2>1. [kind |-> "deleteAccount", user |-> Founder, token |-> "none"] \in Call
    BY <1>0 DEF Call, Kinds
  <2> QED
    BY <1>0, <1>2, <2>1, ReceiveKeepsIInv DEF ReceiveDeleteAccount, TypeOK
<1>3. CASE ReceiveDeleteHousehold(r)
  <2>1. [kind |-> "deleteHousehold", user |-> Founder, token |-> "none"] \in Call
    BY <1>0 DEF Call, Kinds
  <2> QED
    BY <1>0, <1>3, <2>1, ReceiveKeepsIInv DEF ReceiveDeleteHousehold, TypeOK
<1>4. ASSUME NEW u \in Users, NEW k \in Requests, ReceiveAccept(r, u, k)
      PROVE  IInv'
  <2>1. [kind |-> "accept", user |-> u, token |-> k] \in Call
    BY DEF Call, Kinds
  <2> QED
    BY <1>0, <1>4, <2>1, ReadTheTimeTyped, ReceiveKeepsIInv DEF ReceiveAccept, TypeOK
<1>5. ASSUME NEW k \in Requests, ReceiveRevoke(r, k)
      PROVE  IInv'
  <2>1. [kind |-> "revoke", user |-> Founder, token |-> k] \in Call
    BY <1>0 DEF Call, Kinds
  <2>2. matched' \in [Requests -> SUBSET Requests]
    BY <1>0, <1>5 DEF ReceiveRevoke, TypeOK
  <2> QED
    BY <1>0, <1>5, <2>1, <2>2, ReadTheTimeTyped, ReceiveKeepsIInv DEF ReceiveRevoke
<1> QED
  BY <1>1, <1>2, <1>3, <1>4, <1>5
-----------------------------------------------------------------------------
\* The lock is granted only when no other request holds the token, and the
\* token is then looked at once more.
LEMMA LockInviteKeepsIInv ==
    ASSUME IInv, NEW r \in Requests, LockInvite(r)
    PROVE  IInv'
<1>0. pc[r] = "lock" /\ call[r] \in Call /\ call[r].kind = "accept" /\ TypeOK
  BY DEF LockInvite, Granted, IInv, StepsOfTheirKind
<1>1. CASE Redeemable(r) /\ call[r].user \notin members
  <2>1. \A s \in Requests \ {r} : call[r].token \notin locked[s]
    BY <1>0 DEF LockInvite, Granted, WaitsFor, HoldsInvites
  <2>2. call[r].token \in Requests /\ call[r].token \notin used
    BY <1>0, <1>1 DEF Redeemable, TypeOK
  <2>3. /\ pc'[r] = "insert" /\ call' = call /\ locked'[r] = {call[r].token}
        /\ \A s \in Requests \ {r} : pc'[s] = pc[s] /\ locked'[s] = locked[s]
    BY <1>0, <1>1 DEF LockInvite, Goto, TypeOK
  <2>4. TypeOK'
    BY <1>0, <1>1, <2>2 DEF LockInvite, Goto, rows, TypeOK, Steps
  <2>5. used' = used /\ redeemed' = redeemed
    BY DEF LockInvite, rows
  <2> QED
    BY <1>0, <2>1, <2>2, <2>3, <2>4, <2>5, OneMoves DEF Redeeming
<1>2. CASE ~ (Redeemable(r) /\ call[r].user \notin members)
  BY <1>0, <1>2, FinishKeepsIInv DEF LockInvite, rows, TypeOK
<1> QED
  BY <1>1, <1>2

LEMMA UpdateExpiryKeepsIInv ==
    ASSUME IInv, NEW r \in Requests, UpdateExpiry(r)
    PROVE  IInv'
<1>0. /\ pc[r] = "update" /\ call[r] \in Call /\ TypeOK
      /\ call[r].kind \in {"create", "revoke"}
  BY DEF UpdateExpiry, Granted, IInv, StepsOfTheirKind
<1>1. \A s \in Requests \ {r} : locked[s] \cap matched[r] = {}
  BY <1>0 DEF UpdateExpiry, Granted, WaitsFor, HoldsInvites
<1>2. /\ pc'[r] \in {"insert", "commit"} /\ call' = call
      /\ locked'[r] \subseteq matched[r] /\ locked'[r] \subseteq Requests
      /\ \A s \in Requests \ {r} : pc'[s] = pc[s] /\ locked'[s] = locked[s]
  BY <1>0 DEF UpdateExpiry, Goto, TypeOK
<1>3. TypeOK'
  BY <1>0, <1>2 DEF UpdateExpiry, Goto, rows, history, TypeOK, Steps
<1>4. used' = used /\ redeemed' = redeemed
  BY DEF UpdateExpiry, rows, history
<1> QED
  BY <1>0, <1>1, <1>2, <1>3, <1>4, OneMoves DEF Redeeming

LEMMA InsertKeepsIInv ==
    ASSUME IInv, NEW r \in Requests, Insert(r)
    PROVE  IInv'
<1>0. pc[r] = "insert" /\ call[r] \in Call /\ TypeOK
  BY DEF Insert, Granted, IInv, StepsOfTheirKind
<1>1. CASE exists /\ ~ (call[r].kind = "accept" /\ call[r].user \in members)
  <2>1. /\ pc'[r] = "commit" /\ call' = call /\ locked' = locked
        /\ \A s \in Requests \ {r} : pc'[s] = pc[s]
    BY <1>0, <1>1 DEF Insert, Goto, TypeOK
  <2>2. TypeOK'
    BY <1>0, <1>1 DEF Insert, Goto, rows, TypeOK, Steps
  <2>3. used' = used /\ redeemed' = redeemed
    BY DEF Insert, rows
  <2> QED
    BY <1>0, <2>1, <2>2, <2>3, OneMoves
    DEF Redeeming, IInv, RedeemersHoldTheirToken, OneLockEach
<1>2. CASE ~ (exists /\ ~ (call[r].kind = "accept" /\ call[r].user \in members))
  BY <1>0, <1>2, FinishKeepsIInv DEF Insert, rows, TypeOK
<1> QED
  BY <1>1, <1>2

LEMMA DeleteHouseholdKeepsIInv ==
    ASSUME IInv, NEW r \in Requests, DeleteHousehold(r)
    PROVE  IInv'
<1>0. pc[r] = "delete" /\ call[r] \in Call /\ Deletes(r) /\ TypeOK
  BY DEF DeleteHousehold, Granted, IInv, StepsOfTheirKind
<1>1. CASE exists
  <2>1. /\ pc'[r] = "cascade" /\ call' = call /\ locked' = locked
        /\ \A s \in Requests \ {r} : pc'[s] = pc[s]
    BY <1>0, <1>1 DEF DeleteHousehold, Goto, TypeOK
  <2>2. TypeOK'
    BY <1>0, <1>1 DEF DeleteHousehold, Goto, rows, TypeOK, Steps
  <2>3. used' = used /\ redeemed' = redeemed
    BY DEF DeleteHousehold, rows
  <2> QED
    BY <1>0, <2>1, <2>2, <2>3, OneMoves DEF Redeeming, Deletes, IInv, OneLockEach
<1>2. CASE ~ exists
  BY <1>0, <1>2, FinishKeepsIInv DEF DeleteHousehold, rows, TypeOK
<1> QED
  BY <1>1, <1>2

LEMMA CascadeKeepsIInv ==
    ASSUME IInv, NEW r \in Requests, Cascade(r)
    PROVE  IInv'
<1>0. pc[r] = "cascade" /\ call[r] \in Call /\ Deletes(r) /\ TypeOK
  BY DEF Cascade, Granted, IInv, StepsOfTheirKind
<1>1. \A s \in Requests \ {r} : locked[s] \cap invites = {}
  BY <1>0 DEF Cascade, Granted, WaitsFor, HoldsInvites
<1>2. /\ pc'[r] = "commit" /\ call' = call /\ locked'[r] = invites
      /\ \A s \in Requests \ {r} : pc'[s] = pc[s] /\ locked'[s] = locked[s]
  BY <1>0 DEF Cascade, Goto, TypeOK
<1>3. TypeOK'
  BY <1>0 DEF Cascade, Goto, rows, history, TypeOK, Steps
<1>4. used' = used /\ redeemed' = redeemed
  BY DEF Cascade, rows, history
<1> QED
  BY <1>0, <1>1, <1>2, <1>3, <1>4, OneMoves DEF Redeeming, Deletes
-----------------------------------------------------------------------------
LEMMA StampedTyped ==
    ASSUME TypeOK, NEW r \in Requests
    PROVE  Stamped(r) \in [Requests -> Nat]
  BY DEF Stamped, TypeOK

LEMMA CommitCreateKeepsIInv ==
    ASSUME IInv, NEW r \in Requests, CommitCreate(r)
    PROVE  IInv'
<1>1. Stamped(r) \in [Requests -> Nat] /\ TypeOK /\ TTL \in Nat
  BY StampedTyped, InvitesAssumption DEF IInv
<1>2. expires' \in [Requests -> Nat]
  BY <1>1 DEF CommitCreate, TypeOK
<1> QED
  BY <1>1, <1>2, FinishKeepsIInv DEF CommitCreate, TypeOK

\* The commit of an accept: no other request is redeeming the same token,
\* as that would hold its lock, and none has.
LEMMA CommitAcceptKeepsIInv ==
    ASSUME IInv, NEW r \in Requests, CommitAccept(r)
    PROVE  IInv'
<1> DEFINE token == call[r].token
<1>0. Redeeming(r) /\ call[r] \in Call /\ TypeOK
  BY DEF CommitAccept, AtCommit, Redeeming, IInv, StepsOfTheirKind
<1>1. token \in locked[r] /\ token \notin used /\ token \in Requests
  BY <1>0 DEF IInv, RedeemersHoldTheirToken, TypeOK
<1>2. /\ pc'[r] = "done" /\ locked'[r] = {} /\ call' = call
      /\ \A s \in Requests \ {r} : pc'[s] = pc[s] /\ locked'[s] = locked[s]
  BY <1>0 DEF CommitAccept, Finish, Goto, TypeOK
<1>3. used' = used \cup {token} /\ redeemed' = redeemed \cup {[token |-> token, by |-> r]}
  BY DEF CommitAccept
<1>4. TypeOK'
  BY <1>0, <1>1 DEF CommitAccept, Finish, Goto, TypeOK, Steps, Call
<1>5. RedeemersHoldTheirToken'
  BY <1>1, <1>2, <1>3 DEF IInv, RedeemersHoldTheirToken, Redeeming, OneLockEach
<1>6. StepsOfTheirKind'
  BY <1>2 DEF IInv, StepsOfTheirKind, Deletes
<1>7. OneLockEach'
  BY <1>2 DEF IInv, OneLockEach
<1>8. RedeemedIsUsed' /\ SingleUse'
  BY <1>1, <1>3 DEF IInv, RedeemedIsUsed, SingleUse
<1> QED
  BY <1>4, <1>5, <1>6, <1>7, <1>8 DEF IInv

LEMMA CommitRevokeKeepsIInv ==
    ASSUME IInv, NEW r \in Requests, CommitRevoke(r)
    PROVE  IInv'
<1>1. Stamped(r) \in [Requests -> Nat] /\ TypeOK
  BY StampedTyped DEF IInv
<1> QED
  BY <1>1, FinishKeepsIInv DEF CommitRevoke, TypeOK

LEMMA CommitDeleteKeepsIInv ==
    ASSUME IInv, NEW r \in Requests, CommitDelete(r)
    PROVE  IInv'
  BY FinishKeepsIInv DEF CommitDelete, IInv, TypeOK

LEMMA AbortKeepsIInv ==
    ASSUME IInv, NEW r \in Requests, Abort(r)
    PROVE  IInv'
  BY FinishKeepsIInv DEF Abort, rows, IInv, TypeOK

LEMMA OthersKeepIInv ==
    ASSUME IInv, TimePasses \/ \E u \in Users : Leave(u)
    PROVE  IInv'
<1>1. TypeOK'
  BY InvitesAssumption DEF TimePasses, Leave, rows, history, IInv, TypeOK
<1>2. UNCHANGED <<call, pc, locked, used, redeemed>>
  BY DEF TimePasses, Leave, rows, history
<1> QED
  BY <1>1, <1>2
  DEF IInv, RedeemersHoldTheirToken, Redeeming, StepsOfTheirKind, Deletes,
      OneLockEach, RedeemedIsUsed, SingleUse

LEMMA NextKeepsIInv == IInv /\ [Next]_vars => IInv'
<1> SUFFICES ASSUME IInv, [Next]_vars PROVE IInv'
  OBVIOUS
<1>1. CASE UNCHANGED vars
  BY <1>1
  DEF vars, rows, history, IInv, TypeOK, RedeemersHoldTheirToken, Redeeming,
      StepsOfTheirKind, Deletes, OneLockEach, RedeemedIsUsed, SingleUse
<1>2. CASE Next
  BY <1>2, ReceivedKeepsIInv, LockInviteKeepsIInv, UpdateExpiryKeepsIInv,
     InsertKeepsIInv, DeleteHouseholdKeepsIInv, CascadeKeepsIInv,
     CommitCreateKeepsIInv, CommitAcceptKeepsIInv, CommitRevokeKeepsIInv,
     CommitDeleteKeepsIInv, AbortKeepsIInv, OthersKeepIInv
  DEF Next
<1> QED
  BY <1>1, <1>2

(***************************************************************************)
(* Every statement of every handler keeps the locks and rows of the        *)
(* invites in order (invites.py:38-196).                                   *)
(***************************************************************************)
THEOREM InductiveInvariant == Spec => []IInv
  BY InitIInv, NextKeepsIInv, PTL DEF Spec

(***************************************************************************)
(* What a request may rely on while others go on.  Only a request that has *)
(* not been received yet is still without a call, only a committed one has *)
(* a row, the clock is ahead of every reading of it, and whoever is under  *)
(* way together has met.                                                   *)
(***************************************************************************)
Created == {k \in Requests : call[k].kind = "create" /\ pc[k] = "done"}

InOrder ==
    /\ \A r \in Requests : pc[r] = "new" => call[r] = NoCall /\ locked[r] = {}
    /\ \A r \in Requests : now[r] <= clock
    /\ \A r, s \in InFlight : r # s => {r, s} \in met
    /\ invites \subseteq Created
    /\ \A r \in Requests : locked[r] \subseteq Created
    /\ \A r \in InFlight : call[r].kind = "accept" => call[r].token \in Created
    /\ \A e \in redeemed : pc[e.by] = "done"

(***************************************************************************)
(* Why one invite is open: whoever creates one has found, and then locked, *)
(* every other that is open, except for those of requests it has met.      *)
(***************************************************************************)
CreatorsKnowTheOthers ==
    \A r \in InFlight : call[r].kind = "create" =>
        \A k \in invites : IsOpen(k, clock) =>
            \/ {k, r} \in met
            \/ pc[r] = "update" /\ k \in matched[r]
            \/ pc[r] # "update" /\ k \in locked[r]

(***************************************************************************)
(* Why an ended invite is refused: its time is up, the UPDATE of a         *)
(* creation only brings that forward, and a revocation that puts it off    *)
(* has met whoever it could help.                                          *)
(***************************************************************************)
RevokedMeanwhile(k, r) ==
    \E s \in Requests : /\ call[s].kind = "revoke" /\ call[s].token = k
                        /\ {s, r} \in met

EndsAreEarly ==
    /\ \A k \in ended : k \in Created /\ expires[k] <= clock
    /\ \A r \in InFlight : call[r].kind = "create" /\ pc[r] # "update" =>
           \A k \in locked[r] : expires[k] > now[r]
    /\ \A r \in InFlight : call[r].kind = "revoke" =>
           matched[r] \cup locked[r] \subseteq {call[r].token}
    /\ \A r \in InFlight : call[r].kind = "accept" /\ call[r].token \in over[r] =>
           \/ RevokedMeanwhile(call[r].token, r)
           \/ pc[r] = "lock" /\ expires[call[r].token] < now[r]

(***************************************************************************)
(* Why a household goes with its last member: when the members are counted *)
(* the founder is alone, and who joins while the account is being deleted  *)
(* has met that request.                                                   *)
(***************************************************************************)
JoinedMeanwhile(u, r) ==
    \E e \in redeemed : call[e.by].user = u /\ {e.by, r} \in met

NewcomersAreLate ==
    /\ IsFiniteSet(members)
    /\ \A r \in InFlight : call[r].kind = "deleteAccount" =>
           \A u \in members \ {Founder} : JoinedMeanwhile(u, r)

-----------------------------------------------------------------------------
(* The steps of Next once more: a request is received, it works, or it has *)
(* no part in the step.                                                    *)

IsReceived(r) ==
    \/ ReceiveCreate(r) \/ ReceiveDeleteAccount(r) \/ ReceiveDeleteHousehold(r)
    \/ \E u \in Users, k \in Requests : ReceiveAccept(r, u, k)
    \/ \E k \in Requests : ReceiveRevoke(r, k)

\* Nothing is committed ...
WorksQuietly(r) ==
    \/ LockInvite(r) \/ UpdateExpiry(r) \/ Insert(r) \/ DeleteHousehold(r) \/ Cascade(r)
    \/ Abort(r)

\* ... or something is.
Works(r) ==
    \/ WorksQuietly(r)
    \/ CommitCreate(r) \/ CommitAccept(r) \/ CommitRevoke(r) \/ CommitDelete(r)

Elsewhere == TimePasses \/ \E u \in Users : Leave(u)

LEMMA NextIsOneOf ==
    ASSUME [Next]_vars
    PROVE  \/ \E r \in Requests : IsReceived(r) \/ Works(r)
           \/ Elsewhere
           \/ UNCHANGED vars
  BY DEF Next, IsReceived, Works, WorksQuietly, Elsewhere

LEMMA FinishIsTheEnd ==
    ASSUME TypeOK, NEW r \in Requests, Finish(r)
    PROVE  /\ UNCHANGED <<clock, call, now, over, met>>
           /\ pc'[r] = "done" /\ locked'[r] = {} /\ matched'[r] = {}
           /\ \A s \in Requests \ {r} : /\ pc'[s] = pc[s] /\ locked'[s] = locked[s]
                                        /\ matched'[s] = matched[s]
  BY DEF Finish, Goto, TypeOK

\* A request that works changes its own progress, and at its end the rows.
LEMMA Working ==
    ASSUME TypeOK, NEW r \in Requests, Works(r)
    PROVE  /\ r \in InFlight
           /\ UNCHANGED <<clock, call, now, over, met>>
           /\ pc'[r] # "new"
           /\ \/ pc'[r] = "done" /\ locked'[r] = {}
              \/ pc'[r] # "done" /\ WorksQuietly(r) /\ matched'[r] = matched[r]
           /\ \A s \in Requests \ {r} : /\ pc'[s] = pc[s] /\ locked'[s] = locked[s]
                                        /\ matched'[s] = matched[s]
           /\ WorksQuietly(r) => UNCHANGED <<rows, redeemed, ended>>
<1>1. WorksQuietly(r) => UNCHANGED <<rows, redeemed, ended>>
  BY DEF WorksQuietly, LockInvite, UpdateExpiry, Insert, DeleteHousehold, Cascade, Abort,
         rows, history
<1>2. CASE Finish(r)
  <2>1. r \in InFlight
    BY <1>2
    DEF Works, WorksQuietly, LockInvite, UpdateExpiry, Insert, DeleteHousehold, Cascade,
        Abort, CommitCreate, CommitAccept, CommitRevoke, CommitDelete, AtCommit, Granted,
        InFlight
  <2> QED
    BY <1>1, <1>2, <2>1, FinishIsTheEnd
<1>3. CASE ~Finish(r)
  BY <1>1, <1>3
  DEF Works, WorksQuietly, LockInvite, UpdateExpiry, Insert, DeleteHousehold, Cascade,
      Abort, CommitCreate, CommitAccept, CommitRevoke, CommitDelete, Granted, InFlight,
      Goto, history, TypeOK, Steps
<1> QED
  BY <1>2, <1>3

\* A request that is received has read the time and looked at the rows.
LEMMA Receiving ==
    ASSUME TypeOK, NEW r \in Requests, IsReceived(r)
    PROVE  /\ pc[r] = "new" /\ pc'[r] \in {"lock", "update", "delete"}
           /\ call'[r] \in Call
           /\ clock' \in Nat /\ clock <= clock' /\ (now'[r] <= clock' \/ now'[r] = now[r])
           /\ \A s \in Requests \ {r} : /\ call'[s] = call[s] /\ pc'[s] = pc[s]
                                        /\ now'[s] = now[s] /\ matched'[s] = matched[s]
                                        /\ over'[s] = over[s]
           /\ met' = met \cup {{r, s} : s \in InFlight}
           /\ over'[r] = ended
           /\ UNCHANGED <<rows, locked, redeemed, ended>>
<1>1. /\ pc[r] = "new" /\ over'[r] = ended
      /\ met' = met \cup {{r, s} : s \in InFlight}
      /\ UNCHANGED <<rows, locked, redeemed, ended>>
      /\ \A s \in Requests \ {r} : call'[s] = call[s] /\ over'[s] = over[s]
  BY DEF IsReceived, ReceiveCreate, ReceiveDeleteAccount, ReceiveDeleteHousehold,
         ReceiveAccept, ReceiveRevoke, Receive, TypeOK
<1>2. /\ pc'[r] \in {"lock", "update", "delete"}
      /\ \A s \in Requests \ {r} : /\ pc'[s] = pc[s] /\ now'[s] = now[s]
                                   /\ matched'[s] = matched[s]
      /\ clock' \in Nat /\ clock <= clock' /\ (now'[r] <= clock' \/ now'[r] = now[r])
  <2>1. /\ \E step \in {"lock", "update", "delete"} : Goto(r, step)
        /\ \A s \in Requests \ {r} : matched'[s] = matched[s]
        /\ ReadTheTime(r) \/ UNCHANGED <<clock, now>>
    BY DEF IsReceived, ReceiveCreate, ReceiveDeleteAccount, ReceiveDeleteHousehold,
           ReceiveAccept, ReceiveRevoke, TypeOK
  <2> QED
    BY <2>1 DEF ReadTheTime, Goto, TypeOK
<1>3. call'[r] \in Call
  BY InvitesAssumption
  DEF IsReceived, ReceiveCreate, ReceiveDeleteAccount, ReceiveDeleteHousehold,
      ReceiveAccept, ReceiveRevoke, Receive, TypeOK, Call, Kinds
<1> QED
  BY <1>1, <1>2, <1>3

\* What it is going to do, with what it has seen.
LEMMA ReceivedCall ==
    ASSUME TypeOK, NEW r \in Requests, IsReceived(r)
    PROVE  /\ call'[r].kind = "create" =>
                 /\ pc'[r] = "update"
                 /\ matched'[r] = {k \in invites : IsOpen(k, clock')}
           /\ call'[r].kind = "revoke" => matched'[r] = {call'[r].token}
           /\ call'[r].kind = "accept" =>
                 /\ pc'[r] = "lock" /\ now'[r] = clock + 1
                 /\ call'[r].token \in Created
           /\ call'[r].kind = "deleteAccount" => Founder \in members /\ IsLastMember
<1>1. CASE ReceiveCreate(r)
  BY <1>1 DEF ReceiveCreate, Receive, ReadTheTime, Goto, TypeOK
<1>2. CASE ReceiveDeleteAccount(r) \/ ReceiveDeleteHousehold(r)
  BY <1>2 DEF ReceiveDeleteAccount, ReceiveDeleteHousehold, Receive, TypeOK
<1>3. ASSUME NEW u \in Users, NEW k \in Requests, ReceiveAccept(r, u, k)
      PROVE  /\ call'[r].kind = "accept" /\ call'[r].token \in Created
             /\ pc'[r] = "lock" /\ now'[r] = clock + 1
  BY <1>3 DEF ReceiveAccept, Receive, ReadTheTime, Goto, Created, TypeOK
<1>4. ASSUME NEW k \in Requests, ReceiveRevoke(r, k)
      PROVE  call'[r].kind = "revoke" /\ matched'[r] = {call'[r].token}
  BY <1>4 DEF ReceiveRevoke, Receive, TypeOK
<1> QED
  BY <1>1, <1>2, <1>3, <1>4 DEF IsReceived

LEMMA Elsewheres ==
    ASSUME TypeOK, Elsewhere
    PROVE  /\ clock' \in Nat /\ clock <= clock' /\ members' \subseteq members
           /\ UNCHANGED <<exists, invites, expires, used, call, pc, now, matched, locked,
                          history>>
  BY InvitesAssumption DEF Elsewhere, TimePasses, Leave, rows, TypeOK
-----------------------------------------------------------------------------
(* InOrder. *)

LEMMA ReceivedKeepsOrder ==
    ASSUME TypeOK, InOrder, NEW r \in Requests, IsReceived(r)
    PROVE  InOrder'
<1>1. /\ pc[r] = "new" /\ pc'[r] \in {"lock", "update", "delete"}
      /\ clock' \in Nat /\ clock <= clock' /\ (now'[r] <= clock' \/ now'[r] = now[r])
      /\ \A s \in Requests \ {r} : /\ call'[s] = call[s] /\ pc'[s] = pc[s]
                                   /\ now'[s] = now[s]
      /\ met' = met \cup {{r, s} : s \in InFlight}
      /\ UNCHANGED <<rows, locked, redeemed>>
  BY Receiving
<1>2. Created' = Created /\ InFlight' = InFlight \cup {r} /\ r \notin InFlight
  BY <1>1 DEF Created, InFlight
<1>3. /\ \A s \in Requests : pc'[s] = "new" => call'[s] = NoCall /\ locked'[s] = {}
      /\ \A e \in redeemed' : pc'[e.by] = "done"
  BY <1>1 DEF InOrder, TypeOK
<1>4. \A s \in Requests : now'[s] <= clock'
  <2>1. \A s \in Requests : now[s] <= clock'
    BY <1>1 DEF InOrder, TypeOK
  <2> QED
    BY <1>1, <2>1
<1>5. \A s, t \in InFlight' : s # t => {s, t} \in met'
  BY <1>1, <1>2 DEF InOrder
<1>6. invites' \subseteq Created' /\ \A s \in Requests : locked'[s] \subseteq Created'
  BY <1>1, <1>2 DEF InOrder, rows
<1>7. \A s \in InFlight' : call'[s].kind = "accept" => call'[s].token \in Created'
  BY <1>1, <1>2, ReceivedCall DEF InOrder, InFlight
<1> QED
  BY <1>3, <1>4, <1>5, <1>6, <1>7 DEF InOrder

LEMMA WorkKeepsOrder ==
    ASSUME TypeOK, InOrder, NEW r \in Requests, Works(r)
    PROVE  InOrder'
<1>1. /\ r \in InFlight /\ pc'[r] # "new" /\ UNCHANGED <<clock, call, now, met>>
      /\ \A s \in Requests \ {r} : pc'[s] = pc[s] /\ locked'[s] = locked[s]
      /\ WorksQuietly(r) => UNCHANGED <<rows, redeemed>>
      /\ pc'[r] = "done" \/ WorksQuietly(r)
  BY Working
<1>2. Created \subseteq Created' /\ InFlight' \subseteq InFlight
  BY <1>1 DEF Created, InFlight
<1>3. invites' \subseteq Created'
  <2>1. CASE UNCHANGED invites
    BY <1>2, <2>1 DEF InOrder
  <2>2. CASE CommitCreate(r)
    BY <1>1, <1>2, <2>2, FinishIsTheEnd DEF CommitCreate, AtCommit, InOrder, Created
  <2>3. CASE CommitDelete(r)
    BY <2>3 DEF CommitDelete
  <2> QED
    BY <1>1, <2>1, <2>2, <2>3 DEF Works, CommitAccept, CommitRevoke, rows
<1>4. locked'[r] \subseteq Created'
  <2>1. CASE locked'[r] \in {locked[r], {}}
    BY <1>2, <2>1 DEF InOrder
  <2>2. CASE LockInvite(r) \/ UpdateExpiry(r) \/ Cascade(r)
    <3>1. locked'[r] \subseteq invites \/ locked'[r] = {}
      BY <2>2, FinishIsTheEnd DEF LockInvite, UpdateExpiry, Cascade, Redeemable, TypeOK
    <3> QED
      BY <1>2, <3>1 DEF InOrder
  <2>3. CASE ~ (LockInvite(r) \/ UpdateExpiry(r) \/ Cascade(r))
    BY <2>1, <2>3, FinishIsTheEnd
    DEF Works, WorksQuietly, Insert, DeleteHousehold, Abort, CommitCreate, CommitAccept,
        CommitRevoke, CommitDelete
  <2> QED
    BY <2>2, <2>3
<1>5. \A e \in redeemed' : pc'[e.by] = "done"
  <2>1. CASE UNCHANGED redeemed
    BY <1>1, <2>1 DEF InOrder, InFlight, TypeOK
  <2>2. CASE CommitAccept(r)
    <3>1. redeemed' = redeemed \cup {[token |-> call[r].token, by |-> r]} /\ pc'[r] = "done"
      BY <2>2, FinishIsTheEnd DEF CommitAccept
    <3> QED
      BY <1>1, <3>1 DEF InOrder, InFlight, TypeOK
  <2> QED
    BY <1>1, <2>1, <2>2 DEF Works, CommitCreate, CommitRevoke, CommitDelete
<1>6. \A s \in Requests : pc'[s] = "new" => call'[s] = NoCall /\ locked'[s] = {}
  BY <1>1 DEF InOrder
<1> QED
  BY <1>1, <1>2, <1>3, <1>4, <1>5, <1>6 DEF InOrder

LEMMA NextKeepsOrder == TypeOK /\ InOrder /\ [Next]_vars => InOrder'
<1> SUFFICES ASSUME TypeOK, InOrder, [Next]_vars PROVE InOrder'
  OBVIOUS
<1>1. CASE Elsewhere
  <2>1. \A s \in Requests : now[s] <= clock'
    BY <1>1, Elsewheres DEF InOrder, TypeOK
  <2> QED
    BY <1>1, <2>1, Elsewheres DEF InOrder, Created, InFlight, history
<1>2. CASE UNCHANGED vars
  BY <1>2 DEF InOrder, Created, InFlight, vars, rows, history
<1> QED
  BY <1>1, <1>2, NextIsOneOf, ReceivedKeepsOrder, WorkKeepsOrder
\* Only a revocation or a replacement that commits changes the expiry of an
\* invite, and of no invite but those it has locked.
LEMMA OnlyLockedAreStamped ==
    ASSUME TypeOK, InOrder, NEW r \in Requests, Works(r), NEW k \in Created
    PROVE  \/ expires'[k] = expires[k]
           \/ /\ k \in locked[r] /\ expires'[k] = now[r] /\ pc[r] = "commit"
              /\ call[r].kind \in {"create", "revoke"}
<1>1. k \in Requests /\ k # r
  BY Working DEF Created, InFlight
<1> QED
  BY <1>1, Working
  DEF Works, CommitCreate, CommitAccept, CommitRevoke, CommitDelete, AtCommit, Stamped,
      rows, TypeOK

\* Who has called, and whom a request has met, is never forgotten.
LEMMA PastStays ==
    ASSUME TypeOK, InOrder, [Next]_vars
    PROVE  /\ met \subseteq met' /\ redeemed \subseteq redeemed'
           /\ \A r \in Requests : pc[r] # "new" => call'[r] = call[r] /\ over'[r] = over[r]
           /\ \A k, r \in Requests : RevokedMeanwhile(k, r) => RevokedMeanwhile(k, r)'
           /\ \A u \in Users, r \in Requests : JoinedMeanwhile(u, r) => JoinedMeanwhile(u, r)'
<1>1. met \subseteq met'
  BY NextIsOneOf, Receiving, Working, Elsewheres DEF vars, history
<1>2. \A r \in Requests : pc[r] # "new" => call'[r] = call[r] /\ over'[r] = over[r]
  BY NextIsOneOf, Receiving, Working, Elsewheres DEF vars, history
<1>3. redeemed \subseteq redeemed'
  BY NextIsOneOf, Receiving, Working, Elsewheres
  DEF Works, CommitCreate, CommitAccept, CommitRevoke, CommitDelete, vars, history
<1>4. \A s \in Requests : call[s].kind = "revoke" => call'[s] = call[s]
  BY <1>2 DEF InOrder, NoCall
<1>5. \A e \in redeemed : call'[e.by] = call[e.by]
  BY <1>2 DEF InOrder, TypeOK
<1> QED
  BY <1>1, <1>2, <1>3, <1>4, <1>5 DEF RevokedMeanwhile, JoinedMeanwhile
-----------------------------------------------------------------------------
(* One open invite. *)

\* No step opens an invite that has been closed.
LEMMA OpenWasOpen ==
    ASSUME TypeOK, TypeOK', InOrder, [Next]_vars,
           NEW k \in invites, k \in invites', IsOpen(k, clock)'
    PROVE  IsOpen(k, clock)
<1>1. k \in Requests /\ pc[k] = "done"
  BY DEF InOrder, Created
<1>2. CASE UNCHANGED <<expires, used>> /\ clock <= clock'
  BY <1>1, <1>2 DEF IsOpen, TypeOK
<1>3. ASSUME NEW r \in Requests, Works(r)
      PROVE  IsOpen(k, clock)
  <2>1. r \in InFlight /\ UNCHANGED <<clock, call, now>> /\ now[r] <= clock
    BY <1>3, Working DEF InOrder
  <2>2. expires'[k] \in {expires[k], now[r]}
    BY <1>3, OnlyLockedAreStamped DEF InOrder
  <2>3. used \subseteq used'
    BY <1>3, Working
    DEF Works, CommitCreate, CommitAccept, CommitRevoke, CommitDelete, rows
  <2> QED
    BY <1>1, <2>1, <2>2, <2>3 DEF IsOpen, TypeOK
<1>4. CASE \E r \in Requests : IsReceived(r)
  BY <1>2, <1>4, Receiving DEF rows
<1>5. CASE Elsewhere
  BY <1>2, <1>5, Elsewheres
<1>6. CASE UNCHANGED vars
  BY <1>2, <1>6 DEF vars, rows, TypeOK
<1> QED
  BY <1>3, <1>4, <1>5, <1>6, NextIsOneOf

LEMMA NextKeepsCreatorsKnowing ==
    ASSUME IInv, IInv', InOrder, CreatorsKnowTheOthers, [Next]_vars
    PROVE  CreatorsKnowTheOthers'
<1> USE DEF IInv
<1>1. ASSUME NEW s \in InFlight, NEW k \in invites, call[s].kind = "create",
             k \in invites', IsOpen(k, clock)',
             UNCHANGED <<call[s], pc[s], matched[s], locked[s]>>, met \subseteq met'
      PROVE  \/ {k, s} \in met'
             \/ pc'[s] = "update" /\ k \in matched'[s]
             \/ pc'[s] # "update" /\ k \in locked'[s]
  BY <1>1, OpenWasOpen DEF CreatorsKnowTheOthers
<1>2. ASSUME NEW r \in Requests, IsReceived(r)
      PROVE  CreatorsKnowTheOthers'
  <2>1. /\ InFlight' \subseteq InFlight \cup {r} /\ met \subseteq met'
        /\ UNCHANGED <<invites, locked>>
        /\ \A s \in InFlight \ {r} : UNCHANGED <<call[s], pc[s], matched[s]>>
    BY <1>2, Receiving DEF InFlight, rows
  <2>2. call'[r].kind = "create" => \A k \in invites' : IsOpen(k, clock)' =>
            pc'[r] = "update" /\ k \in matched'[r]
    BY <1>2, Receiving, ReceivedCall DEF IsOpen, rows
  <2> QED
    BY <1>1, <2>1, <2>2 DEF CreatorsKnowTheOthers
<1>3. ASSUME NEW r \in Requests, Works(r)
      PROVE  CreatorsKnowTheOthers'
  <2>1. /\ r \in InFlight /\ InFlight' \subseteq InFlight /\ UNCHANGED <<call, met>>
        /\ \A s \in InFlight \ {r} : UNCHANGED <<pc[s], matched[s], locked[s]>>
    BY <1>3, Working DEF InFlight
  <2>2. ASSUME NEW s \in InFlight \ {r}, NEW k \in invites', call[s].kind = "create",
               IsOpen(k, clock)'
        PROVE  \/ {k, s} \in met'
               \/ pc'[s] = "update" /\ k \in matched'[s]
               \/ pc'[s] # "update" /\ k \in locked'[s]
    <3>1. CASE k \in invites
      BY <1>1, <2>1, <2>2, <3>1
    <3>2. CASE k \notin invites
      <4>1. k = r
        BY <1>3, <3>2, Working
        DEF Works, CommitCreate, CommitAccept, CommitRevoke, CommitDelete, rows
      <4> QED
        BY <2>1, <4>1 DEF InOrder
    <3> QED
      BY <3>1, <3>2
  <2>3. ASSUME r \in InFlight', call[r].kind = "create", NEW k \in invites',
               IsOpen(k, clock)'
        PROVE  \/ {k, r} \in met'
               \/ pc'[r] = "update" /\ k \in matched'[r]
               \/ pc'[r] # "update" /\ k \in locked'[r]
    <3>1. pc'[r] # "done"
      BY <2>3 DEF InFlight
    <3>2. WorksQuietly(r) /\ UNCHANGED <<rows, clock, now>>
      BY <1>3, <3>1, Working
    <3>3. IsOpen(k, clock) /\ k \in invites
      BY <2>3, <3>2 DEF IsOpen, rows
    <3>4. CASE UpdateExpiry(r)
      <4>1. k \in Requests /\ clock \in Nat /\ expires[k] \in Nat /\ now[r] \in Nat
        BY <3>3 DEF TypeOK
      <4>2. pc[r] = "update" /\ IsOpen(k, now[r])
        BY <3>3, <3>4, <4>1 DEF UpdateExpiry, Granted, IsOpen, InOrder
      <4>3. {k, r} \in met \/ k \in matched[r]
        BY <2>1, <2>3, <3>3, <4>2 DEF CreatorsKnowTheOthers
      <4>4. pc'[r] # "update" /\ (k \in matched[r] => k \in locked'[r])
        BY <2>3, <3>3, <3>4, <4>2 DEF UpdateExpiry, Goto, TypeOK
      <4> QED
        BY <2>1, <4>3, <4>4
    <3>5. CASE Insert(r)
      <4>1. pc[r] = "insert" /\ pc'[r] = "commit" /\ UNCHANGED locked
        BY <3>1, <3>5, FinishIsTheEnd DEF Insert, Granted, Goto, TypeOK
      <4> QED
        BY <2>1, <2>3, <3>3, <4>1 DEF CreatorsKnowTheOthers
    <3>6. CASE LockInvite(r) \/ DeleteHousehold(r) \/ Cascade(r)
      BY <2>3, <3>6
      DEF LockInvite, DeleteHousehold, Cascade, Granted, StepsOfTheirKind, Deletes
    <3> QED
      BY <3>1, <3>2, <3>4, <3>5, <3>6, FinishIsTheEnd DEF WorksQuietly, Abort
  <2> QED
    BY <2>1, <2>2, <2>3 DEF CreatorsKnowTheOthers
<1>4. CASE Elsewhere \/ UNCHANGED vars
  <2>1. UNCHANGED <<invites, call, pc, matched, locked, met>>
    BY <1>4, Elsewheres DEF vars, rows, history
  <2> QED
    BY <1>1, <2>1 DEF CreatorsKnowTheOthers, InFlight
<1> QED
  BY <1>2, <1>3, <1>4, NextIsOneOf

LEMMA NextKeepsOneOpen ==
    ASSUME IInv, IInv', InOrder, CreatorsKnowTheOthers, OneOpenInvite, [Next]_vars
    PROVE  OneOpenInvite'
<1>1. met \subseteq met'
  BY PastStays DEF IInv
<1>2. ASSUME NEW j \in invites, NEW k \in invites, j \in invites', k \in invites',
             IsOpen(j, clock)', IsOpen(k, clock)'
      PROVE  j = k \/ {j, k} \in met'
  BY <1>1, <1>2, OpenWasOpen DEF OneOpenInvite, IInv
<1>3. CASE invites' \subseteq invites
  BY <1>2, <1>3 DEF OneOpenInvite
<1>4. ASSUME NEW r \in Requests, CommitCreate(r)
      PROVE  OneOpenInvite'
  <2>1. invites' = invites \cup {r} /\ UNCHANGED <<clock, used>> /\ r \in InFlight
    BY <1>4 DEF CommitCreate, AtCommit, Finish, InFlight
  <2>2. ASSUME NEW k \in invites, IsOpen(k, clock)'
        PROVE  {k, r} \in met'
    <3>1. IsOpen(k, clock)
      BY <1>4, <2>1, <2>2, OpenWasOpen DEF IInv
    <3>2. {k, r} \in met \/ k \in locked[r]
      BY <1>4, <2>1, <3>1 DEF CreatorsKnowTheOthers, CommitCreate, AtCommit
    <3>3. k \in Requests /\ k # r
      BY <2>1 DEF InOrder, Created, InFlight
    <3>4. k \in locked[r] => expires'[k] = now[r]
      BY <1>4, <3>3 DEF CommitCreate, Stamped
    <3>5. now[r] <= clock /\ now[r] \in Nat /\ clock \in Nat
      BY DEF InOrder, IInv, TypeOK
    <3> QED
      BY <1>1, <2>1, <2>2, <3>2, <3>4, <3>5 DEF IsOpen
  <2>3. \A k \in invites : {k, r} = {r, k}
    OBVIOUS
  <2> QED
    BY <1>2, <2>1, <2>2, <2>3 DEF OneOpenInvite
<1>5. invites' \subseteq invites \/ \E r \in Requests : CommitCreate(r)
  BY NextIsOneOf, Receiving, Working, Elsewheres
  DEF IInv, Works, CommitAccept, CommitRevoke, CommitDelete, vars, rows
<1> QED
  BY <1>3, <1>4, <1>5
-----------------------------------------------------------------------------
(* Ended invites are refused. *)

LEMMA EndsArePast ==
    ASSUME TypeOK, InOrder, [Next]_vars,
           \A k \in ended : k \in Created /\ expires[k] <= clock
    PROVE  \A k \in ended' : k \in Created' /\ expires'[k] <= clock'
<1>1. Created \subseteq Created'
  <2>1. \A k \in Created : pc'[k] = "done" /\ call'[k] = call[k]
    BY NextIsOneOf, Receiving, Working, Elsewheres, PastStays
    DEF Created, InFlight, vars
  <2> QED
    BY <2>1 DEF Created
<1>2. ASSUME NEW r \in Requests, Works(r)
      PROVE  \A k \in ended' : k \in Created' /\ expires'[k] <= clock'
  <2>1. clock' = clock /\ now[r] <= clock /\ r \in InFlight
    BY <1>2, Working DEF InOrder
  <2>2. \A k \in ended : expires'[k] <= clock
    BY <1>2, <2>1, OnlyLockedAreStamped
  <2>3. \A k \in locked[r] : CommitCreate(r) \/ CommitRevoke(r) =>
            k \in Created /\ expires'[k] <= clock
    <3>1. \A k \in locked[r] : k \in Created /\ k \in Requests /\ k # r
      BY <2>1 DEF InOrder, Created, InFlight
    <3>2. \A k \in locked[r] : CommitCreate(r) \/ CommitRevoke(r) => expires'[k] = now[r]
      BY <3>1 DEF CommitCreate, CommitRevoke, Stamped
    <3> QED
      BY <2>1, <3>1, <3>2
  <2> QED
    BY <1>1, <1>2, <2>1, <2>2, <2>3, Working
    DEF Works, CommitCreate, CommitAccept, CommitRevoke, CommitDelete
<1>3. CASE \E r \in Requests : IsReceived(r)
  BY <1>1, <1>3, Receiving DEF rows, Created, TypeOK
<1>4. CASE Elsewhere
  BY <1>1, <1>4, Elsewheres DEF history, Created, TypeOK
<1>5. CASE UNCHANGED vars
  BY <1>1, <1>5 DEF vars, rows, history
<1> QED
  BY <1>2, <1>3, <1>4, <1>5, NextIsOneOf

LEMMA NextKeepsEndsEarly ==
    ASSUME IInv, InOrder, EndsAreEarly, [Next]_vars
    PROVE  EndsAreEarly'
<1>0. TypeOK /\ OneLockEach /\ StepsOfTheirKind
  BY DEF IInv
<1>1. \A k \in ended' : k \in Created' /\ expires'[k] <= clock'
  BY <1>0, EndsArePast DEF EndsAreEarly
<1> DEFINE Brings(s)  == call[s].kind = "create" /\ pc[s] # "update" =>
                             \A k \in locked[s] : expires[k] > now[s]
           Aims(s)    == call[s].kind = "revoke" =>
                             matched[s] \cup locked[s] \subseteq {call[s].token}
           IsLate(s)  == call[s].kind = "accept" /\ call[s].token \in over[s] =>
                             \/ RevokedMeanwhile(call[s].token, s)
                             \/ pc[s] = "lock" /\ expires[call[s].token] < now[s]
<1>2. \A s \in InFlight : Brings(s) /\ Aims(s) /\ IsLate(s)
  BY DEF EndsAreEarly
<1>3. ASSUME NEW r \in Requests, IsReceived(r)
      PROVE  \A s \in InFlight' : Brings(s)' /\ Aims(s)' /\ IsLate(s)'
  <2>1. /\ pc[r] = "new" /\ over'[r] = ended /\ UNCHANGED <<expires, locked>>
        /\ \A s \in InFlight : /\ s # r /\ call'[s] = call[s] /\ pc'[s] = pc[s]
                               /\ now'[s] = now[s] /\ matched'[s] = matched[s]
                               /\ over'[s] = over[s]
        /\ InFlight' = InFlight \cup {r}
    BY <1>0, <1>3, Receiving DEF InFlight, rows
  <2>2. Brings(r)' /\ Aims(r)'
    BY <1>0, <1>3, <2>1, ReceivedCall DEF InOrder
  <2>3. IsLate(r)'
    BY <1>0, <1>3, <2>1, ReceivedCall DEF EndsAreEarly, Created, TypeOK
  <2>4. \A s \in InFlight : Brings(s)' /\ Aims(s)'
    BY <1>2, <2>1
  <2>5. \A s \in InFlight : IsLate(s)'
    BY <1>0, <1>2, <2>1, PastStays DEF InOrder, Created, InFlight
  <2> QED
    BY <2>1, <2>2, <2>3, <2>4, <2>5
<1>4. ASSUME NEW r \in Requests, Works(r)
      PROVE  \A s \in InFlight' : Brings(s)' /\ Aims(s)' /\ IsLate(s)'
  <2>1. /\ r \in InFlight /\ UNCHANGED <<call, now, over, met>>
        /\ InFlight' \subseteq InFlight
        /\ \A s \in InFlight \ {r} : /\ pc'[s] = pc[s] /\ locked'[s] = locked[s]
                                     /\ matched'[s] = matched[s]
    BY <1>0, <1>4, Working DEF InFlight
  <2>2. ASSUME NEW s \in InFlight \ {r}
        PROVE  Brings(s)' /\ Aims(s)' /\ IsLate(s)'
    <3>1. \A k \in locked[s] : expires'[k] = expires[k]
      BY <1>0, <1>4, <2>1, OnlyLockedAreStamped DEF OneLockEach, InOrder, InFlight
    <3>2. Brings(s)' /\ Aims(s)'
      BY <1>2, <2>1, <3>1
    <3>3. ASSUME call[s].kind = "accept", call[s].token \in over[s],
                 pc[s] = "lock", expires[call[s].token] < now[s]
          PROVE  \/ RevokedMeanwhile(call[s].token, s)'
                 \/ expires'[call[s].token] < now[s]
      <4> DEFINE k == call[s].token
      <4>1. k \in Created /\ k \in Requests
        BY <3>3 DEF InOrder, Created
      <4>2. CASE expires'[k] = expires[k]
        BY <3>3, <4>2
      <4>3. CASE /\ k \in locked[r] /\ expires'[k] = now[r]
                 /\ pc[r] = "commit" /\ call[r].kind = "create"
        <5>1. expires[k] > now[r] /\ {expires[k], now[r], now[s]} \subseteq Nat
          BY <1>0, <1>2, <2>1, <4>1, <4>3 DEF TypeOK, InFlight
        <5> QED
          BY <3>3, <4>3, <5>1
      <4>4. CASE k \in locked[r] /\ call[r].kind = "revoke"
        <5>1. call[r].token = k /\ {r, s} \in met
          BY <1>2, <2>1, <4>4 DEF InOrder
        <5> QED
          BY <2>1, <4>4, <5>1 DEF RevokedMeanwhile
      <4> QED
        BY <1>0, <1>4, <4>1, <4>2, <4>3, <4>4, OnlyLockedAreStamped
    <3>4. call[s].kind = "accept" => s \in Requests /\ call[s].token \in Requests
      BY DEF InOrder, Created, InFlight
    <3>5. IsLate(s)'
      BY <1>0, <1>2, <2>1, <3>3, <3>4, PastStays
    <3> QED
      BY <3>2, <3>5
  <2>3. ASSUME r \in InFlight'
        PROVE  Brings(r)' /\ Aims(r)' /\ IsLate(r)'
    <3>1. pc'[r] # "done" /\ ~Finish(r)
      BY <1>0, <2>3, FinishIsTheEnd DEF InFlight
    <3>2. WorksQuietly(r) /\ UNCHANGED expires /\ matched'[r] = matched[r]
      BY <1>0, <1>4, <3>1, Working DEF rows
    <3>3. CASE LockInvite(r)
      <4>1. call[r].kind = "accept" /\ Redeemable(r) /\ pc'[r] = "insert"
        BY <1>0, <3>1, <3>3 DEF LockInvite, Granted, StepsOfTheirKind, Goto, TypeOK
      <4>2. IsLate(r)'
        BY <1>0, <1>2, <2>1, <4>1, PastStays DEF Redeemable, InOrder, Created
      <4> QED
        BY <2>1, <4>1, <4>2
    <3>4. CASE UpdateExpiry(r)
      <4>1. /\ call[r].kind \in {"create", "revoke"}
            /\ locked'[r] = {k \in matched[r] \cap invites :
                                call[r].kind = "revoke" \/ IsOpen(k, now[r])}
        BY <1>0, <3>4 DEF UpdateExpiry, Granted, StepsOfTheirKind, TypeOK
      <4>2. Brings(r)'
        BY <2>1, <3>2, <4>1 DEF IsOpen
      <4>3. Aims(r)'
        BY <1>2, <2>1, <3>2, <4>1
      <4> QED
        BY <2>1, <4>1, <4>2, <4>3
    <3>5. CASE Insert(r)
      <4>1. pc[r] = "insert" /\ UNCHANGED locked
        BY <3>1, <3>5 DEF Insert, Granted
      <4>2. call[r].kind = "accept" => r \in Requests /\ call[r].token \in Requests
        BY <2>1 DEF InOrder, Created
      <4> QED
        BY <1>0, <1>2, <2>1, <3>2, <4>1, <4>2, PastStays
    <3>6. CASE DeleteHousehold(r) \/ Cascade(r)
      BY <1>0, <2>1, <3>6
      DEF DeleteHousehold, Cascade, Granted, StepsOfTheirKind, Deletes
    <3> QED
      BY <3>1, <3>2, <3>3, <3>4, <3>5, <3>6 DEF WorksQuietly, Abort
  <2> QED
    BY <2>1, <2>2, <2>3
<1>5. ASSUME Elsewhere \/ UNCHANGED vars
      PROVE  \A s \in InFlight' : Brings(s)' /\ Aims(s)' /\ IsLate(s)'
  <2>1. UNCHANGED <<expires, call, pc, now, matched, locked, over, met>>
    BY <1>0, <1>5, Elsewheres DEF vars, rows, history
  <2> QED
    BY <1>2, <2>1 DEF RevokedMeanwhile, InFlight
<1>6. \A s \in InFlight' : Brings(s)' /\ Aims(s)' /\ IsLate(s)'
  BY <1>3, <1>4, <1>5, NextIsOneOf
<1> QED
  BY <1>1, <1>6 DEF EndsAreEarly

LEMMA NextKeepsRefusing ==
    ASSUME IInv, InOrder, EndsAreEarly, EndedIsRefused, [Next]_vars
    PROVE  EndedIsRefused'
<1>0. TypeOK
  BY DEF IInv
<1>1. \A e \in redeemed : e.token \in Requests /\ e.by \in Requests /\ pc[e.by] = "done"
  BY <1>0 DEF TypeOK, InOrder
<1>2. \A e \in redeemed : e.token \in over'[e.by] => RevokedMeanwhile(e.token, e.by)'
  BY <1>0, <1>1, PastStays DEF EndedIsRefused, RevokedMeanwhile
<1>3. ASSUME NEW r \in Requests, CommitAccept(r), NEW k, k = call[r].token, k \in over'[r]
      PROVE  RevokedMeanwhile(k, r)'
  <2>1. r \in InFlight /\ pc[r] = "commit" /\ call[r].kind = "accept"
    BY <1>3 DEF CommitAccept, AtCommit, InFlight
  <2>2. call[r].token \in Requests /\ over'[r] = over[r]
    BY <1>0, <2>1, PastStays DEF InOrder, Created
  <2> QED
    BY <1>0, <1>3, <2>1, <2>2, PastStays DEF EndsAreEarly
<1>4. CASE UNCHANGED redeemed
  BY <1>2, <1>4 DEF EndedIsRefused, RevokedMeanwhile
<1>5. ASSUME NEW r \in Requests, CommitAccept(r)
      PROVE  EndedIsRefused'
  <2>1. redeemed' = redeemed \cup {[token |-> call[r].token, by |-> r]}
    BY <1>5 DEF CommitAccept
  <2>2. \A e \in redeemed' : e.token \in over'[e.by] => RevokedMeanwhile(e.token, e.by)'
    BY <1>2, <1>3, <1>5, <2>1
  <2> QED
    BY <2>2 DEF EndedIsRefused, RevokedMeanwhile
<1> QED
  BY <1>0, <1>4, <1>5, NextIsOneOf, Receiving, Working, Elsewheres
  DEF Works, CommitCreate, CommitRevoke, CommitDelete, vars, history
-----------------------------------------------------------------------------
(* A household goes with its last member. *)

\* The founder is alone when the members are counted.
LEMMA AloneWhenCounted ==
    ASSUME IsFiniteSet(members), Founder \in members, IsLastMember
    PROVE  members = {Founder}
<1>1. Cardinality(members) \in Nat /\ Cardinality(members) <= 1
  BY FS_CardinalityType DEF IsLastMember
<1>2. Cardinality(members) # 0
  BY FS_EmptySet
<1> QED
  BY <1>1, <1>2, FS_Singleton

LEMMA MembersStayFinite ==
    ASSUME TypeOK, IsFiniteSet(members), [Next]_vars
    PROVE  IsFiniteSet(members')
<1>1. ASSUME NEW r \in Requests, CommitAccept(r)
      PROVE  IsFiniteSet(members')
  BY <1>1, FS_AddElement DEF CommitAccept
<1>2. CASE members' \subseteq members
  BY <1>2, FS_Subset
<1> QED
  BY <1>1, <1>2, NextIsOneOf, Receiving, Working, Elsewheres
  DEF Works, CommitCreate, CommitRevoke, CommitDelete, vars, rows

LEMMA NextKeepsNewcomersLate ==
    ASSUME IInv, InOrder, NewcomersAreLate, [Next]_vars
    PROVE  NewcomersAreLate'
<1>0. TypeOK
  BY DEF IInv
<1>1. IsFiniteSet(members')
  BY <1>0, MembersStayFinite DEF NewcomersAreLate
<1>2. ASSUME NEW s \in InFlight, call[s].kind = "deleteAccount",
             NEW u \in members \ {Founder}
      PROVE  JoinedMeanwhile(u, s)'
  BY <1>0, <1>2, PastStays DEF NewcomersAreLate, InFlight, TypeOK
<1>3. ASSUME NEW r \in Requests, IsReceived(r)
      PROVE  NewcomersAreLate'
  <2>1. /\ InFlight' = InFlight \cup {r} /\ UNCHANGED members
        /\ \A s \in InFlight : call'[s] = call[s]
    BY <1>0, <1>3, Receiving DEF InFlight, rows
  <2>2. call'[r].kind = "deleteAccount" => members = {Founder}
    BY <1>0, <1>3, ReceivedCall, AloneWhenCounted DEF NewcomersAreLate
  <2> QED
    BY <1>1, <1>2, <2>1, <2>2 DEF NewcomersAreLate
<1>4. ASSUME NEW r \in Requests, Works(r)
      PROVE  NewcomersAreLate'
  <2>1. r \in InFlight /\ InFlight' \subseteq InFlight /\ UNCHANGED <<call, met>>
    BY <1>0, <1>4, Working DEF InFlight
  <2>2. CASE members' \subseteq members
    BY <1>1, <1>2, <2>1, <2>2 DEF NewcomersAreLate
  <2>3. CASE CommitAccept(r)
    <3>1. /\ members' = members \cup {call[r].user}
          /\ [token |-> call[r].token, by |-> r] \in redeemed'
          /\ call[r].kind = "accept"
      BY <2>3 DEF CommitAccept, AtCommit
    <3>2. \A s \in InFlight : call[s].kind = "deleteAccount" =>
              JoinedMeanwhile(call[r].user, s)'
      BY <2>1, <3>1 DEF InOrder, JoinedMeanwhile
    <3> QED
      BY <1>1, <1>2, <2>1, <3>1, <3>2 DEF NewcomersAreLate, JoinedMeanwhile
  <2> QED
    BY <1>0, <1>4, <2>2, <2>3, Working
    DEF Works, CommitCreate, CommitRevoke, CommitDelete, rows
<1>5. CASE Elsewhere \/ UNCHANGED vars
  <2>1. members' \subseteq members /\ UNCHANGED <<call, pc>>
    BY <1>0, <1>5, Elsewheres DEF vars, rows
  <2> QED
    BY <1>1, <1>2, <2>1 DEF NewcomersAreLate, InFlight
<1> QED
  BY <1>3, <1>4, <1>5, NextIsOneOf
-----------------------------------------------------------------------------
\* All that has been said of requests that overlap.
OverlapInv ==
    /\ InOrder
    /\ CreatorsKnowTheOthers /\ OneOpenInvite
    /\ EndsAreEarly /\ EndedIsRefused
    /\ NewcomersAreLate

LEMMA InitOverlap == Init => OverlapInv
<1> SUFFICES ASSUME Init PROVE OverlapInv
  OBVIOUS
<1>1. InFlight = {}
  BY DEF Init, InFlight
<1>2. InOrder
  BY <1>1 DEF Init, InOrder
<1>3. NewcomersAreLate
  BY <1>1, FS_Singleton DEF Init, NewcomersAreLate
<1>4. CreatorsKnowTheOthers /\ OneOpenInvite /\ EndsAreEarly /\ EndedIsRefused
  BY <1>1 DEF Init, CreatorsKnowTheOthers, OneOpenInvite, EndsAreEarly, EndedIsRefused
<1> QED
  BY <1>2, <1>3, <1>4 DEF OverlapInv

LEMMA NextKeepsOverlap == IInv /\ IInv' /\ OverlapInv /\ [Next]_vars => OverlapInv'
<1>1. IInv => TypeOK
  BY DEF IInv
<1> QED
  BY <1>1, NextKeepsOrder, NextKeepsCreatorsKnowing, NextKeepsOneOpen, NextKeepsEndsEarly,
     NextKeepsRefusing, NextKeepsNewcomersLate
  DEF OverlapInv

\* What any two requests do to each other's invites is what they have met.
THEOREM OverlapsAreUnderstood == Spec => []OverlapInv
  BY InitOverlap, NextKeepsOverlap, InductiveInvariant, PTL DEF Spec
-----------------------------------------------------------------------------
(***************************************************************************)
(* The state of the requests and of the invites is well typed, whatever    *)
(* number of requests overlap.                                             *)
(***************************************************************************)
THEOREM TypeCorrect == Spec => []TypeOK
<1>1. IInv => TypeOK
  BY DEF IInv
<1> QED
  BY <1>1, InductiveInvariant, PTL

(***************************************************************************)
(* However many accepts of one token, creations, revocations and deletions *)
(* overlap, and whichever of them abort, at most one accept redeems it:    *)
(* what the comment on the FOR UPDATE of accept_invite promises.           *)
(***************************************************************************)
THEOREM SingleUseAlways == Spec => []SingleUse
<1>1. IInv => SingleUse
  BY DEF IInv
<1> QED
  BY <1>1, InductiveInvariant, PTL

(***************************************************************************)
(* However many invites are created, accepted and revoked at once, at most *)
(* one is open, unless the requests that created two of them overlapped    *)
(* (create_invite, invites.py).                                            *)
(***************************************************************************)
THEOREM OneOpenInviteAlways == Spec => []OneOpenInvite
<1>1. OverlapInv => OneOpenInvite
  BY DEF OverlapInv
<1> QED
  BY <1>1, OverlapsAreUnderstood, PTL

(***************************************************************************)
(* A token is no use to a request received after its revocation, or its    *)
(* replacement, was committed, unless another revocation of it was under   *)
(* way with that request (accept_invite and revoke_invite, invites.py).    *)
(***************************************************************************)
THEOREM EndedIsAlwaysRefused == Spec => []EndedIsRefused
<1>1. OverlapInv => EndedIsRefused
  BY DEF OverlapInv
<1> QED
  BY <1>1, OverlapsAreUnderstood, PTL

(***************************************************************************)
(* The deletion of an account takes a household along only with its last   *)
(* member, and with those who have joined since the members were counted   *)
(* (delete_user_account, account_deletion.py).                             *)
(***************************************************************************)
THEOREM HouseholdAlwaysGoesWithItsLastMember == Spec => HouseholdGoesWithItsLastMember
<1> DEFINE Goes == \A r \in Requests :
               AtCommit(r, "deleteAccount") /\ ~ exists' /\ exists =>
                  \A u \in members \ {Founder} :
                      \E e \in redeemed : call[e.by].user = u /\ {e.by, r} \in met
<1>1. OverlapInv => Goes
  BY DEF OverlapInv, NewcomersAreLate, JoinedMeanwhile, AtCommit, InFlight
<1>2. HouseholdGoesWithItsLastMember <=> [][Goes]_vars
  BY DEF HouseholdGoesWithItsLastMember
<1> HIDE DEF Goes
<1> QED
  BY <1>1, <1>2, OverlapsAreUnderstood, PTL
=============================================================================
