------------------------------ MODULE Household ------------------------------
(***************************************************************************)
(* One household: its members and their rotation, its chore definitions,   *)
(* the chore instances generated from them and the points ledger.          *)
(*                                                                         *)
(* Every request handler runs in one database transaction (db/session.py), *)
(* and so does the daily job.  Here a transaction is ONE step: this is the *)
(* behaviour of the program when transactions on a household do not        *)
(* overlap.  ChoreRow, HouseholdLocks and AdminGuard take the same handlers *)
(* apart into their SQL statements.                                        *)
(*                                                                         *)
(* A definition marked `Mutant' is a wrong variant of the one after it and *)
(* part of no behaviour.                                                   *)
(*                                                                         *)
(* A request that the code answers with 4xx changes nothing and is not a   *)
(* step: its condition is a guard.                                         *)
(***************************************************************************)
EXTENDS RoundRobin

CONSTANTS
    Users,          \* accounts
    Definitions,    \* ids for chore definitions
    EffortLevels,   \* the effort levels in use
    Intervals,      \* recurrence intervals in days ("weeks" are 7 days)
    DaysAhead,      \* settings.INSTANCE_GENERATION_DAYS_AHEAD
    GraceDays,      \* settings.GRACE_DAYS
    LastDay,        \* bound on the clock: days 0 .. LastDay are explored
    MaxPointer      \* bound on the rotation pointer (unbounded in the code)

\* core/constants.py
EFFORT_POINTS == [easy |-> 10, medium |-> 25, hard |-> 50]

NoRule == 0         \* recurrence_rule IS NULL

ASSUME HouseholdAssumption ==
    /\ IsFiniteSet(Users) /\ NoUser \notin Users
    /\ IsFiniteSet(Definitions)
    /\ EffortLevels \subseteq DOMAIN EFFORT_POINTS
    /\ Intervals \subseteq Nat \ {NoRule}
    /\ DaysAhead \in Nat /\ GraceDays \in Nat
    /\ LastDay \in Nat /\ MaxPointer \in Nat

Dates == 0 .. (LastDay + DaysAhead)

\* uq_chore_instance_definition_due_date: an instance is identified by the
\* definition it comes from and the day it is due.
Instances == Definitions \X Dates

Open     == {"pending", "overdue"}
Terminal == {"complete", "cancelled", "dismissed"}
Statuses == {"none"} \cup Open \cup Terminal

DefinitionRow ==
    [effort_level    : EffortLevels,
     chore_type      : {"one_off", "recurring"},
     recurrence_rule : Intervals \cup {NoRule},
     first_due_date  : Dates]

InstanceRow ==
    [status         : Statuses,
     assignee       : Users \cup {NoUser},
     points_awarded : Nat]              \* 0 stands for NULL

LedgerRow == [instance : Instances, user : Users, points : Nat]

VARIABLES
    registered, \* users whose account exists
    rotation,   \* the active members, ordered by joined_at
    admins,     \* those of them whose role is "admin"
    pointer,    \* households.rotation_pointer
    defined,    \* definitions that exist; is_active or deleted
    active,     \* definitions with is_active = true
    definition, \* definition -> its row
    instance,   \* instance -> its row, "none" when there is no row
    ledger,     \* the rows of point_ledger
    today       \* the current UTC date

vars == <<registered, rotation, admins, pointer, defined, active, definition,
          instance, ledger, today>>

people == <<registered, rotation, admins>>
series == <<defined, active, definition>>

Members == ToSet(rotation)

NoInstance == [status |-> "none", assignee |-> NoUser, points_awarded |-> 0]

TypeOK ==
    /\ registered \subseteq Users
    /\ rotation \in Seq(Users)
    /\ IsInjective(rotation)
    /\ Members \subseteq registered
    /\ admins \subseteq Members
    /\ pointer \in 0 .. MaxPointer
    /\ defined \subseteq Definitions
    /\ active \subseteq defined
    /\ definition \in [defined -> DefinitionRow]
    /\ instance \in [Instances -> InstanceRow]
    /\ ledger \subseteq LedgerRow
    /\ today \in 0 .. LastDay

\* A household just created: the creator is its admin, the pointer is 0.
Init ==
    /\ registered = Users
    /\ \E creator \in Users : rotation = <<creator>> /\ admins = {creator}
    /\ pointer = 0
    /\ defined = {} /\ active = {} /\ definition = <<>>
    /\ instance = [i \in Instances |-> NoInstance]
    /\ ledger = {}
    /\ today = 0
-----------------------------------------------------------------------------
(* Chore definitions *)

\* POST /chores.  Without an explicit assignee the rotation picks one.
CreateChore(caller, d, row, to) ==
    /\ caller \in admins
    /\ d \notin defined
    /\ row.chore_type = "recurring" => row.recurrence_rule # NoRule
    /\ to \in Members \cup {NoUser}
    /\ to = NoUser => pointer < MaxPointer
    /\ defined' = defined \cup {d}
    /\ active' = active \cup {d}
    /\ definition' = [e \in defined \cup {d} |->
                        IF e = d THEN row ELSE definition[e]]
    /\ instance' = [instance EXCEPT ![<<d, row.first_due_date>>] =
            [status         |-> "pending",
             assignee       |-> IF to = NoUser
                                THEN AutoAssigned(rotation, pointer) ELSE to,
             points_awarded |-> 0]]
    /\ pointer' = IF to = NoUser THEN Advanced(rotation, pointer, 1) ELSE pointer
    /\ UNCHANGED <<people, ledger, today>>

\* PATCH /chores/{definition_id}: an active definition's effort and rule.
\* chore_type and first_due_date cannot be edited; the rule can be nulled.
UpdateDefinition(caller, d, effort, rule) ==
    /\ caller \in admins
    /\ d \in active
    /\ definition' = [definition EXCEPT ![d].effort_level = effort,
                                        ![d].recurrence_rule = rule]
    /\ UNCHANGED <<people, pointer, defined, active, instance, ledger, today>>

\* DELETE /chores/{definition_id}: soft delete, pending instances cancelled.
DeleteDefinition(caller, d) ==
    /\ caller \in admins
    /\ d \in defined
    /\ active' = active \ {d}
    /\ instance' = [i \in Instances |->
            IF i[1] = d /\ instance[i].status = "pending"
            THEN [instance[i] EXCEPT !.status = "cancelled"]
            ELSE instance[i]]
    /\ UNCHANGED <<people, pointer, defined, definition, ledger, today>>
-----------------------------------------------------------------------------
(* Chore instances *)

\* Mutant: nothing keeps a closed instance from being closed again.
MayCloseAgain(caller, i) ==
    /\ caller \in Members
    /\ instance[i].status # "none"
    /\ caller = instance[i].assignee \/ caller \in admins

\* _load_instance_for_terminal_transition: who may close which instance.
MayClose(caller, i) ==
    /\ caller \in Members
    /\ instance[i].status \in Open
    /\ caller = instance[i].assignee \/ caller \in admins

\* Mutant: the points go to the caller, who may be an admin and not the holder.
CompleteForCaller(caller, i) ==
    /\ MayClose(caller, i)
    /\ LET points == EFFORT_POINTS[definition[i[1]].effort_level]
       IN  /\ instance' = [instance EXCEPT ![i].status = "complete",
                                            ![i].points_awarded = points]
           /\ ledger' = ledger \cup
                 {[instance |-> i, user |-> caller, points |-> points]}
    /\ UNCHANGED <<people, pointer, series, today>>

\* POST /chores/{instance_id}/complete.  The points are those of the
\* definition as it is NOW; an instance without assignee earns none.
Complete(caller, i) ==
    /\ MayClose(caller, i)
    /\ LET user   == instance[i].assignee
           points == EFFORT_POINTS[definition[i[1]].effort_level]
       IN  IF user # NoUser
           THEN /\ instance' = [instance EXCEPT ![i].status = "complete",
                                                ![i].points_awarded = points]
                /\ ledger' = ledger \cup
                     {[instance |-> i, user |-> user, points |-> points]}
           ELSE /\ instance' = [instance EXCEPT ![i].status = "complete",
                                                ![i].points_awarded = 0]
                /\ UNCHANGED ledger
    /\ UNCHANGED <<people, pointer, series, today>>

\* POST /chores/{instance_id}/dismiss.
Dismiss(caller, i) ==
    /\ MayClose(caller, i)
    /\ instance' = [instance EXCEPT ![i].status = "dismissed",
                                    ![i].points_awarded = 0]
    /\ UNCHANGED <<people, pointer, series, ledger, today>>

\* PATCH /chores/{instance_id}/assignee; NoUser asks for auto-assignment.
Reassign(caller, i, to) ==
    /\ caller \in admins
    /\ instance[i].status \in Open
    /\ to \in Members \cup {NoUser}
    /\ to = NoUser => pointer < MaxPointer
    /\ instance' = [instance EXCEPT ![i].assignee =
                      IF to = NoUser THEN AutoAssigned(rotation, pointer) ELSE to]
    /\ pointer' = IF to = NoUser THEN Advanced(rotation, pointer, 1) ELSE pointer
    /\ UNCHANGED <<people, series, ledger, today>>
-----------------------------------------------------------------------------
(* Members *)

\* POST /invites/{token}/accept, for a valid invite.  A former member comes
\* back as a plain member at the end of the rotation.
AcceptInvite(u) ==
    /\ rotation # <<>>                  \* the household, and its invites, exist
    /\ u \in registered \ Members
    /\ rotation' = Append(rotation, u)
    /\ UNCHANGED <<registered, admins, pointer, series, instance, ledger, today>>

\* Mutant: the last admin may become a plain member.
UpdateRoleUnguarded(caller, u, role) ==
    /\ caller \in admins
    /\ u \in Members
    /\ admins' = IF role = "admin" THEN admins \cup {u} ELSE admins \ {u}
    /\ UNCHANGED <<registered, rotation, pointer, series, instance, ledger, today>>

\* PATCH /members/{user_id}/role.
UpdateRole(caller, u, role) ==
    /\ caller \in admins
    /\ u \in Members
    /\ ~ (u = caller /\ role = "member" /\ Cardinality(admins) <= 1)
    /\ admins' = IF role = "admin" THEN admins \cup {u} ELSE admins \ {u}
    /\ UNCHANGED <<registered, rotation, pointer, series, instance, ledger, today>>

\* Mutant: overdue chores are forgotten.
PendingChoresAt(p) ==
    {i \in Instances : /\ instance[i].assignee = rotation[p]
                       /\ instance[i].status = "pending"}

\* The open chores of the member at position p of the rotation.
OpenChoresAt(p) ==
    {i \in Instances : /\ instance[i].assignee = rotation[p]
                       /\ instance[i].status \in Open}

\* redistribute_chores_for_removed_member: the instances afterwards, when
\* the departed member's open chores are taken in the order `queue'.
Redistributed(p, queue) ==
    LET given == BulkAssigned(RemoveAt(rotation, p), pointer, queue)
    IN  [i \in Instances |-> IF i \in DOMAIN queue
                             THEN [instance[i] EXCEPT !.assignee = given[i]]
                             ELSE instance[i]]

\* The membership at position p ends: the other tables follow.
Depart(p, queue) ==
    LET rest    == RemoveAt(rotation, p)
        current == Advanced(rest, pointer, Cardinality(DOMAIN queue))
    IN  /\ current <= MaxPointer
        /\ rotation' = rest
        /\ admins' = admins \ {rotation[p]}
        /\ pointer' = AdjustedPointer(p - 1, Len(rest), pointer, current)
        /\ UNCHANGED <<series, today>>

\* DELETE /members/{user_id}.
RemoveMember(caller, p, queue) ==
    /\ caller \in admins
    /\ rotation[p] = caller => Cardinality(admins) > 1
    /\ Depart(p, queue)
    /\ instance' = Redistributed(p, queue)
    /\ UNCHANGED <<registered, ledger>>

\* Mutant: a member who leaves takes the points along.
LeaveWithPoints(p, queue) ==
    /\ rotation[p] \in admins => Cardinality(admins) > 1
    /\ Depart(p, queue)
    /\ instance' = Redistributed(p, queue)
    /\ ledger' = {e \in ledger : e.user # rotation[p]}
    /\ UNCHANGED registered

\* POST /leave.
LeaveHousehold(p, queue) ==
    /\ rotation[p] \in admins => Cardinality(admins) > 1
    /\ Depart(p, queue)
    /\ instance' = Redistributed(p, queue)
    /\ UNCHANGED <<registered, ledger>>

(***************************************************************************)
(* DELETE /users/me, in a household with other members: the member leaves  *)
(* it, then the user row goes.  ON DELETE SET NULL clears the assignee of  *)
(* the chores the user had closed, ON DELETE CASCADE takes the ledger rows.*)
(***************************************************************************)
DeleteAccount(p, queue) ==
    LET u    == rotation[p]
        left == Redistributed(p, queue)
    IN  /\ Len(rotation) > 1
        /\ u \in admins => Cardinality(admins) > 1
        /\ Depart(p, queue)
        /\ registered' = registered \ {u}
        /\ instance' = [i \in Instances |->
                IF left[i].assignee = u
                THEN [left[i] EXCEPT !.assignee = NoUser] ELSE left[i]]
        /\ ledger' = {e \in ledger : e.user # u}

\* A user who is not a member any more deletes the account.
DeleteFormerAccount(u) ==
    /\ u \in registered \ Members
    /\ registered' = registered \ {u}
    /\ instance' = [i \in Instances |->
            IF instance[i].assignee = u
            THEN [instance[i] EXCEPT !.assignee = NoUser] ELSE instance[i]]
    /\ ledger' = {e \in ledger : e.user # u}
    /\ UNCHANGED <<rotation, admins, pointer, series, today>>

\* ON DELETE CASCADE: every row of the household goes with it.
EverythingGone ==
    /\ rotation' = <<>> /\ admins' = {} /\ pointer' = 0
    /\ defined' = {} /\ active' = {} /\ definition' = <<>>
    /\ instance' = [i \in Instances |-> NoInstance]
    /\ ledger' = {}
    /\ UNCHANGED today

\* DELETE /households/{id}, confirmed with the household's name.
DeleteHousehold(caller) ==
    /\ caller \in admins
    /\ EverythingGone
    /\ UNCHANGED registered

\* DELETE /users/me by the only member: the household is deleted too.
DeleteLastAccount(u) ==
    /\ rotation = <<u>>
    /\ EverythingGone
    /\ registered' = registered \ {u}
-----------------------------------------------------------------------------
(* The daily job *)

\* _compute_due_dates, from first_due_date to the horizon in steps of the
\* interval, without what lies before the backfill floor.
DueDates(row) ==
    {t \in Dates : /\ row.first_due_date <= t
                   /\ t <= today + DaysAhead
                   /\ t >= today - GraceDays
                   /\ (t - row.first_due_date) % row.recurrence_rule = 0}

\* Mutant: deleted series are not left out.
MissingOfAnySeries ==
    {i \in Instances :
        /\ i[1] \in defined
        /\ definition[i[1]].chore_type = "recurring"
        /\ definition[i[1]].recurrence_rule # NoRule
        /\ i[2] \in DueDates(definition[i[1]])
        /\ instance[i].status = "none"}

\* The instances generate_chore_instances adds: one per due date of an
\* active recurring definition that has none yet, whatever its status.
Missing ==
    {i \in Instances :
        /\ i[1] \in active
        /\ definition[i[1]].chore_type = "recurring"
        /\ definition[i[1]].recurrence_rule # NoRule
        /\ i[2] \in DueDates(definition[i[1]])
        /\ instance[i].status = "none"}

\* They are assigned definition by definition, in order of the due dates.
GenerationQueues(S) ==
    {q \in Queues(S) :
        /\ \A i, j \in S : i[1] = j[1] /\ i[2] < j[2] => q[i] < q[j]
        /\ \A i, j, k \in S :
             i[1] = k[1] /\ q[i] < q[j] /\ q[j] < q[k] => j[1] = i[1]}

\* flag_overdue_instances, on one row.
Flagged(i, row) ==
    IF row.status = "pending" /\ i[2] < today
    THEN [row EXCEPT !.status = "overdue"] ELSE row

\* Mutant: flags first, so what is backfilled stays pending.
DailyJobFlaggingFirst(queue) ==
    LET given == BulkAssigned(rotation, pointer, queue)
    IN  /\ Advanced(rotation, pointer, Cardinality(DOMAIN queue)) <= MaxPointer
        /\ pointer' = Advanced(rotation, pointer, Cardinality(DOMAIN queue))
        /\ instance' = [i \in Instances |->
                IF i \in DOMAIN queue
                THEN [status         |-> "pending",
                      assignee       |-> given[i],
                      points_awarded |-> 0]
                ELSE Flagged(i, instance[i])]
        /\ UNCHANGED <<people, series, ledger, today>>

\* run_daily_job: generate, then flag, in one transaction.
DailyJob(queue) ==
    LET given == BulkAssigned(rotation, pointer, queue)
    IN  /\ Advanced(rotation, pointer, Cardinality(DOMAIN queue)) <= MaxPointer
        /\ pointer' = Advanced(rotation, pointer, Cardinality(DOMAIN queue))
        /\ instance' = [i \in Instances |->
                Flagged(i, IF i \in DOMAIN queue
                           THEN [status         |-> "pending",
                                 assignee       |-> given[i],
                                 points_awarded |-> 0]
                           ELSE instance[i])]
        /\ UNCHANGED <<people, series, ledger, today>>

\* Midnight UTC.
Tomorrow ==
    /\ today < LastDay
    /\ today' = today + 1
    /\ UNCHANGED <<people, pointer, series, instance, ledger>>
-----------------------------------------------------------------------------
ChoreStep(caller) ==
    \/ \E d \in Definitions :
         \/ \E row \in DefinitionRow, to \in Users \cup {NoUser} :
              CreateChore(caller, d, row, to)
         \/ \E effort \in EffortLevels, rule \in Intervals \cup {NoRule} :
              UpdateDefinition(caller, d, effort, rule)
         \/ DeleteDefinition(caller, d)
    \/ \E i \in Instances :
         \/ Complete(caller, i)
         \/ Dismiss(caller, i)
         \/ \E to \in Users \cup {NoUser} : Reassign(caller, i, to)

Departure ==
    \E p \in DOMAIN rotation : \E queue \in Queues(OpenChoresAt(p)) :
       \/ \E caller \in Users : RemoveMember(caller, p, queue)
       \/ LeaveHousehold(p, queue)
       \/ DeleteAccount(p, queue)

MemberStep ==
    \/ \E caller, u \in Users, role \in {"admin", "member"} :
         UpdateRole(caller, u, role)
    \/ \E u \in Users : \/ AcceptInvite(u)
                        \/ DeleteFormerAccount(u)
                        \/ DeleteHousehold(u)
                        \/ DeleteLastAccount(u)

ClockStep ==
    \/ \E queue \in GenerationQueues(Missing) : DailyJob(queue)
    \/ Tomorrow

Next ==
    \/ \E caller \in Users : ChoreStep(caller)
    \/ Departure
    \/ MemberStep
    \/ ClockStep

Spec == Init /\ [][Next]_vars
-----------------------------------------------------------------------------
(* What must hold *)

(***************************************************************************)
(* FR-019: a household that has members has an admin among them.  Demoting *)
(* and removing others is unguarded; the guards sit only where an admin    *)
(* gives up the own role, in four handlers.                                *)
(***************************************************************************)
AtLeastOneAdmin == rotation # <<>> => admins # {}

(***************************************************************************)
(* FR-042: nobody but an active member ever holds an open chore, so every  *)
(* open chore can be completed by its holder.  Departures, account         *)
(* deletions, generation and reassignment all have to keep it.             *)
(***************************************************************************)
OpenChoresHeldByMembers ==
    \A i \in Instances : instance[i].status \in Open =>
                            instance[i].assignee \in Members

(***************************************************************************)
(* The two records of an award agree: a ledger row belongs to a completed  *)
(* instance, to its assignee and for its points_awarded; no instance has   *)
(* two; and a completed instance without one has lost its assignee too.    *)
(***************************************************************************)
LedgerMatchesCompletions ==
    /\ \A e \in ledger :
         instance[e.instance] = [status         |-> "complete",
                                 assignee       |-> e.user,
                                 points_awarded |-> e.points]
    /\ \A i \in Instances :
         instance[i].status = "complete" /\ instance[i].assignee # NoUser
           => \E e \in ledger : e.instance = i

(***************************************************************************)
(* FR-032: a deleted series leaves nothing to do in the future.  Only      *)
(* instances that were already overdue stay open.                          *)
(***************************************************************************)
DeletedSeriesHasNothingPending ==
    \A i \in Instances : i[1] \in defined \ active =>
                            instance[i].status # "pending"

(***************************************************************************)
(* NFR-008: the daily job is idempotent.  It also runs at every start of   *)
(* the server, so it is repeated on the same day: after it has run there   *)
(* is nothing left for it to generate or to flag.                          *)
(***************************************************************************)
DailyJobIsIdempotent ==
    [][ClockStep /\ today' = today =>
         /\ Missing' = {}
         /\ \A i \in Instances : Flagged(i, instance[i])' = instance'[i]]_vars

(***************************************************************************)
(* FR-048: points once earned stay in the ledger through every role        *)
(* change, departure, rejoin and series deletion.  Only deleting the       *)
(* account or the household takes them away.                               *)
(***************************************************************************)
PointsAreKept ==
    [][\A e \in ledger : \/ e \in ledger'
                         \/ e.user \notin registered'
                         \/ rotation' = <<>>]_vars

\* Whom the ledger credits for an instance.
Credited(i) == {e.user : e \in {f \in ledger : f.instance = i}}

Lifecycle(i) == INSTANCE ChoreLifecycle
                WITH status   <- instance[i].status,
                     holder   <- instance[i].assignee,
                     credited <- Credited(i)

(***************************************************************************)
(* Every chore instance keeps the promise of ChoreLifecycle: closed once   *)
(* and for good, handed over only while open, credited to its holder.      *)
(***************************************************************************)
EveryChoreKeepsItsLifecycle ==
    /\ \A i \in Instances : Lifecycle(i)!Init
    /\ [][\A i \in Instances : [Lifecycle(i)!Next]_(Lifecycle(i)!vars)]_vars
=============================================================================
