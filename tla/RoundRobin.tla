----------------------------- MODULE RoundRobin -----------------------------
(***************************************************************************)
(* The rotation arithmetic of services/assignment.py and of step 5 of      *)
(* services/redistribution.py, as operators without state.  A household's  *)
(* rotation is the sequence of its active members ordered by joined_at;    *)
(* the pointer is stored unbounded and reduced modulo the length of the    *)
(* rotation each time it is used.                                          *)
(***************************************************************************)
EXTENDS Integers, Sequences, FiniteSets, SequencesExt

CONSTANT NoUser     \* None: nobody is assigned

-----------------------------------------------------------------------------
\* The member whose turn it is when the pointer has the given value.
Turn(members, pointer) == members[(pointer % Len(members)) + 1]

\* RoundRobinStrategy.assign: the member picked ...
AutoAssigned(members, pointer) ==
    IF members = <<>> THEN NoUser ELSE Turn(members, pointer)

\* Mutant: a batch moves the pointer as if it were one pick.
AdvancedOnce(members, pointer, n) ==
    IF members = <<>> THEN pointer ELSE pointer + 1

\* ... and the pointer after n picks; with nobody to pick it stays put.
Advanced(members, pointer, n) ==
    IF members = <<>> THEN pointer ELSE pointer + n

(***************************************************************************)
(* The orders in which a batch S of chores can come out of a SELECT with   *)
(* no ORDER BY: q[c] chores come before chore c.                           *)
(***************************************************************************)
Queues(S) == Injection(S, 0 .. Cardinality(S) - 1)

\* Mutant: the pointer is advanced before the pick instead of after it.
BulkAssignedLate(members, pointer, queue) ==
    [c \in DOMAIN queue |-> AutoAssigned(members, pointer + queue[c] + 1)]

\* AssignmentService.redistribute_chores_bulk: one pass over the batch,
\* each chore to the next member in turn.
BulkAssigned(members, pointer, queue) ==
    [c \in DOMAIN queue |-> AutoAssigned(members, pointer + queue[c])]

\* Mutant: <= instead of < when the departed member was next.
AdjustedPointerAtNext(removedIndex, remaining, original, current) ==
    IF removedIndex <= original % (remaining + 1)
    THEN IF current = 0 THEN 0 ELSE current - 1
    ELSE current

(***************************************************************************)
(* Step 5 of the redistribution.  The departed member stood at             *)
(* removedIndex (from 0), `remaining' members are left, `original' is the  *)
(* pointer read before the batch was assigned and `current' the pointer    *)
(* after it.                                                               *)
(***************************************************************************)
AdjustedPointer(removedIndex, remaining, original, current) ==
    IF removedIndex < original % (remaining + 1)
    THEN IF current = 0 THEN 0 ELSE current - 1
    ELSE current
=============================================================================
