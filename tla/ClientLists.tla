------------------------------ MODULE ClientLists ------------------------------
(***************************************************************************)
(* The lists the app keeps of what the server stores: the grocery items    *)
(* (groceries_provider.dart, api/groceries.py) and the chores              *)
(* (chores_provider.dart, api/chores.py) of a household.  What is shown    *)
(* is changed before the server has answered (a tick), with its answer, or *)
(* by fetching the list again; requests and fetches overlap, fail and are  *)
(* lost, the server commits after it has answered (db/session.py), and     *)
(* other devices change the same rows.                                     *)
(*                                                                         *)
(* A row has a tick (is_purchased; complete or dismissed) and a text (name *)
(* and notes; the assignee of a chore, the title of its series).  A series *)
(* has one chore here.  Pages are ChorePages' subject.                     *)
(***************************************************************************)
EXTENDS Integers, FiniteSets

CONSTANTS Items,        \* ids of rows
          Texts,
          Calls,        \* slots for write requests in flight
          NoRow,
          MaxWrites,    \* bound on the write requests of this device
          MaxForeign    \* bound on the changes made on other devices

Row == [done : BOOLEAN, text : Texts]

ASSUME ClientListsAssumption ==
    /\ MaxWrites \in Nat /\ MaxForeign \in Nat
    /\ Items # {} /\ Texts # {}
    /\ NoRow \notin Row

GroceryKinds == {"toggle", "edit", "delete", "add"}
ChoreKinds   == {"close", "reassign", "revise", "drop", "create"}

Ticks     == {"toggle", "close"}        \* shown at once, reverted on failure
Edits     == {"edit", "reassign", "revise"}
Removes   == {"delete", "drop"}
Refetches == {"reassign", "revise", "drop", "create"}   \* ref.invalidateSelf()

VARIABLES
    list,       \* which of the two lists this is: "groceries" or "chores"
    stored,     \* the committed rows, NoRow where there is none
    unborn,     \* ids no row has had yet
    shown,      \* what the app shows: a row and how many times it is listed
    op,         \* call -> [kind, item, text, before, row]
    stage,      \* call -> how far it has come
    failed,     \* the fetch failed: an error is shown in place of the list
    fetch,      \* the fetch under way: its stage, and the rows it was served
    writes, foreign,    \* counters
    since,      \* history: call -> what else has changed the list since it began
    troubles    \* history: what may have made the list wrong

client    == <<shown, failed, fetch>>
counts    == <<writes, foreign>>
listsVars == <<list, stored, unborn, client, op, stage, counts, since, troubles>>

\* "open": executed, neither committed nor answered; then it is "answered" and
\* still to be committed, or "stored" and still to be answered.
Stages  == {"free", "sent", "open", "answered", "stored", "refused"}
Shown   == [Items -> [copies : 0 .. 2, row : Row \cup {NoRow}]]
Rows    == [Items -> Row \cup {NoRow}]
NoOp    == [kind |-> "none"]
NoFetch == [at |-> "none", rows |-> NoRow, clean |-> FALSE]

ListsTypeOK ==
    /\ list \in {"groceries", "chores"}
    /\ stored \in Rows /\ unborn \subseteq Items
    /\ shown \in Shown /\ failed \in BOOLEAN
    /\ \A c \in Calls : \/ op[c] = NoOp /\ stage[c] = "free"
                        \/ /\ op[c].kind \in GroceryKinds \cup ChoreKinds
                           /\ op[c].before \in Shown \cup {NoRow}
                           /\ op[c].row \in Row \cup {NoRow}
                           /\ stage[c] \in Stages \ {"free"}
    /\ fetch.at \in {"none", "asked", "served"}
    /\ fetch.at = "served" => fetch.rows \in Rows
    /\ writes \in 0 .. MaxWrites /\ foreign \in 0 .. MaxForeign
    /\ since \in [Calls -> SUBSET {"fetch", "other"}]
    /\ troubles \subseteq
         {"foreign", "lost", "staleFetch", "sameRow", "revertedOver", "addedOver"}

Display(rows) ==
    [i \in Items |-> [copies |-> IF rows[i] = NoRow THEN 0 ELSE 1, row |-> rows[i]]]

\* A list that has been loaded, and is up to date.
ListsInit ==
    /\ list \in {"groceries", "chores"}
    /\ \E born \in SUBSET Items, t \in Texts :
         /\ unborn = Items \ born
         /\ stored = [i \in Items |->
              IF i \in born THEN [done |-> FALSE, text |-> t] ELSE NoRow]
    /\ shown = Display(stored) /\ failed = FALSE
    /\ op = [c \in Calls |-> NoOp] /\ stage = [c \in Calls |-> "free"]
    /\ fetch = NoFetch
    /\ writes = 0 /\ foreign = 0
    /\ since = [c \in Calls |-> {}] /\ troubles = {}
-----------------------------------------------------------------------------
InFlight == {c \in Calls : stage[c] # "free"}

Goto(c, s)  == stage' = [stage EXCEPT ![c] = s]
Free(c)     == /\ Goto(c, "free") /\ op' = [op EXCEPT ![c] = NoOp]

\* c is done with the list; the calls still to be answered have had company.
Unanswered == {c \in Calls : stage[c] \in {"sent", "open", "stored", "refused"}}

Touched(c) ==
    since' = [b \in Calls |-> IF b = c THEN {}
                              ELSE IF b \in Unanswered THEN since[b] \cup {"other"} ELSE {}]

OnScreen(i) == shown[i].copies > 0

Ticked(i) == [shown EXCEPT ![i].row.done = ~ shown[i].row.done]

\* A tap.  The list as it is now is what a failed tick goes back to.
Send(c, kind, i, t) ==
    /\ stage[c] = "free" /\ writes < MaxWrites
    /\ writes' = writes + 1
    /\ Goto(c, "sent")
    /\ op' = [op EXCEPT ![c] = [kind |-> kind, item |-> i, text |-> t,
                                before |-> IF kind \in Ticks THEN shown ELSE NoRow,
                                row    |-> IF kind \in Ticks THEN shown[i].row ELSE NoRow]]
    /\ shown' = IF kind \in Ticks THEN Ticked(i) ELSE shown
    /\ since' = [b \in Calls |-> IF b = c \/ b \notin Unanswered THEN {}
                                 ELSE since[b] \cup {"other"}]
    /\ troubles' = IF \E b \in InFlight : op[b].item = i
                   THEN troubles \cup {"sameRow"} ELSE troubles
    /\ fetch' = [fetch EXCEPT !.clean = FALSE]
    /\ UNCHANGED <<list, stored, failed, foreign>>

Write(c, kind, i, t) ==
    /\ OnScreen(i)
    /\ kind \in IF list = "groceries" THEN {"toggle", "edit", "delete"}
                                      ELSE {"close", "reassign", "revise", "drop"}
    /\ kind \in {"close", "reassign"} => ~ shown[i].row.done    \* no button for it
    /\ kind \notin Edits => t = shown[i].row.text
    /\ Send(c, kind, i, t) /\ UNCHANGED unborn

\* addItem and createChore: the server is going to give the row its id.
Add(c, i, t) ==
    /\ i \in unborn /\ unborn' = unborn \ {i}
    /\ Send(c, IF list = "groceries" THEN "add" ELSE "create", i, t)
-----------------------------------------------------------------------------
(* The server *)

\* 404 without the row, 409 for a chore that is closed.  Deleting a series
\* again is not refused; what becomes of its chores no list shows.
Refused(c) ==
    /\ op[c].kind \notin {"add", "create", "drop"}
    /\ \/ stored[op[c].item] = NoRow
       \/ op[c].kind \in {"close", "reassign"} /\ stored[op[c].item].done

\* The row a handler writes and answers with.  A toggle asks for purchase or
\* unpurchase, by what the app showed; the other columns stay as they are.
NewRow(c) ==
    LET now == stored[op[c].item]
    IN  CASE op[c].kind = "toggle"               -> [now EXCEPT !.done = ~ op[c].row.done]
          [] op[c].kind = "close"                -> [now EXCEPT !.done = TRUE]
          [] op[c].kind \in Edits               -> [now EXCEPT !.text = op[c].text]
          [] op[c].kind \in {"add", "create"}    -> [done |-> FALSE, text |-> op[c].text]
          [] op[c].kind \in Removes              -> NoRow

\* Mutant: create_chore leaves its COMMIT to get_db.
ServeCommittingLate(c) ==
    /\ stage[c] = "sent"
    /\ \A b \in Calls : stage[b] \in {"open", "answered"} => op[b].item # op[c].item
    /\ IF Refused(c) THEN Goto(c, "refused") /\ UNCHANGED <<op, stored>>
       ELSE /\ op' = [op EXCEPT ![c].row = NewRow(c)]
            /\ Goto(c, "open") /\ UNCHANGED stored
    /\ UNCHANGED <<list, unborn, client, counts, since, troubles>>

\* The handler; it waits for an uncommitted write of the row.  create_chore
\* commits by itself, before it answers.
Serve(c) ==
    /\ stage[c] = "sent"
    /\ \A b \in Calls : stage[b] \in {"open", "answered"} => op[b].item # op[c].item
    /\ IF Refused(c) THEN Goto(c, "refused") /\ UNCHANGED <<op, stored>>
       ELSE /\ op' = [op EXCEPT ![c].row = NewRow(c)]
            /\ IF op[c].kind = "create"
               THEN Goto(c, "stored") /\ stored' = [stored EXCEPT ![op[c].item] = NewRow(c)]
               ELSE Goto(c, "open") /\ UNCHANGED stored
    /\ UNCHANGED <<list, unborn, client, counts, since, troubles>>

\* get_db, after the handler: before or after the answer arrives.
Commit(c) ==
    /\ stage[c] \in {"open", "answered"}
    /\ stored' = [stored EXCEPT ![op[c].item] = op[c].row]
    /\ IF stage[c] = "open" THEN Goto(c, "stored") /\ UNCHANGED op ELSE Free(c)
    /\ UNCHANGED <<list, unborn, client, counts, since, troubles>>

\* The connection to the database is gone when get_db commits.
CommitFails(c) ==
    /\ stage[c] \in {"open", "answered"}
    /\ IF stage[c] = "open" THEN Goto(c, "stored") /\ UNCHANGED op ELSE Free(c)
    /\ troubles' = troubles \cup {"lost"}
    /\ UNCHANGED <<list, stored, unborn, client, counts, since>>

\* Another device changes, removes or adds a row.
Foreign(i, row) ==
    /\ foreign < MaxForeign /\ foreign' = foreign + 1
    /\ \A b \in Calls : stage[b] \in {"open", "answered"} => op[b].item # i
    /\ stored[i] # row
    /\ stored[i] = NoRow => i \in unborn
    /\ unborn' = unborn \ {i}
    /\ stored' = [stored EXCEPT ![i] = row]
    /\ troubles' = troubles \cup {"foreign"}
    /\ fetch' = IF fetch.at = "served" THEN [fetch EXCEPT !.clean = FALSE] ELSE fetch
    /\ UNCHANGED <<list, shown, failed, op, stage, writes, since>>
-----------------------------------------------------------------------------
(* Answers.  whenData changes nothing of an error: then no row is listed. *)

\* The list with the row a call was answered with listed once more; a third
\* copy is not told from a second.
OneMore(c) ==
    LET i == op[c].item
    IN  [shown EXCEPT ![i] =
           [copies |-> IF shown[i].copies = 2 THEN 2 ELSE shown[i].copies + 1,
            row    |-> op[c].row]]

\* Mutant: a chore that was created is listed before it is fetched.
AppliedToChores(c) ==
    LET i == op[c].item
    IN  CASE op[c].kind \in {"toggle", "close", "edit"} ->
               IF OnScreen(i) THEN [shown EXCEPT ![i].row = op[c].row] ELSE shown
          [] op[c].kind = "delete" -> [shown EXCEPT ![i] = [copies |-> 0, row |-> NoRow]]
          [] op[c].kind \in {"add", "create"} /\ ~ failed -> OneMore(c)
          [] OTHER -> shown

\* The answer of a write that the list takes over itself.
Applied(c) ==
    LET i == op[c].item
    IN  CASE op[c].kind \in {"toggle", "close", "edit"} ->
               IF OnScreen(i) THEN [shown EXCEPT ![i].row = op[c].row] ELSE shown
          [] op[c].kind = "delete" -> [shown EXCEPT ![i] = [copies |-> 0, row |-> NoRow]]
          [] op[c].kind = "add" /\ ~ failed -> OneMore(c)
          [] OTHER -> shown

Answered(c) ==
    IF stage[c] = "open"
    THEN Goto(c, "answered") /\ op' = [op EXCEPT ![c].before = NoRow]
    ELSE Free(c)

\* What is fetched from now on replaces an earlier fetch.
Answer(c) ==
    /\ stage[c] \in {"open", "stored"}
    /\ Answered(c)
    /\ shown' = Applied(c)
    /\ fetch' = IF op[c].kind \in Refetches
                THEN [at |-> "asked", rows |-> NoRow, clean |-> FALSE] ELSE fetch
    /\ Touched(c)
    /\ troubles' = troubles
         \cup (IF op[c].kind \notin Refetches /\ fetch.at = "served" THEN {"staleFetch"} ELSE {})
         \cup (IF op[c].kind = "add" /\ "fetch" \in since[c] THEN {"addedOver"} ELSE {})
    /\ UNCHANGED <<list, stored, unborn, failed, counts>>

\* A tick that fails puts the list back as it was, the whole of it, in place
\* of an error too.
Reverted(c) == IF op[c].kind \in Ticks THEN op[c].before ELSE shown

\* An error for the client: a refusal, or no answer.  The latter may come
\* after the server has done it.
Fail(c) ==
    /\ stage[c] \in {"sent", "open", "stored", "refused"}
    /\ Answered(c)
    /\ shown' = Reverted(c)
    /\ failed' = (failed /\ op[c].kind \notin Ticks)
    /\ Touched(c)
    /\ troubles' = troubles
         \cup (IF stage[c] \in {"open", "stored"} THEN {"lost"} ELSE {})
         \cup (IF op[c].kind \in Ticks /\ since[c] # {} THEN {"revertedOver"} ELSE {})
    /\ fetch' = [fetch EXCEPT !.clean = FALSE]
    /\ UNCHANGED <<list, stored, unborn, counts>>

\* refresh(), or another provider's invalidate.
Refresh ==
    /\ fetch' = [at |-> "asked", rows |-> NoRow, clean |-> FALSE]
    /\ UNCHANGED <<list, stored, unborn, shown, failed, op, stage, counts, since, troubles>>

\* The list endpoints read what is committed.
ServeFetch ==
    /\ fetch.at = "asked"
    /\ fetch' = [at |-> "served", rows |-> stored, clean |-> InFlight = {}]
    /\ troubles' = IF \E c \in Calls : stage[c] = "answered" /\ op[c].kind # "create"
                   THEN troubles \cup {"staleFetch"} ELSE troubles
    /\ UNCHANGED <<list, stored, unborn, shown, failed, op, stage, counts, since>>

Overtaken(what) ==
    since' = [c \in Calls |-> IF c \in Unanswered THEN since[c] \cup {what} ELSE {}]

\* Everything fetched replaces everything shown.
Fetched ==
    /\ fetch.at = "served"
    /\ shown' = Display(fetch.rows) /\ failed' = FALSE
    /\ fetch' = NoFetch
    /\ Overtaken("fetch")
    /\ troubles' = IF fetch.clean THEN {} ELSE troubles
    /\ UNCHANGED <<list, stored, unborn, op, stage, counts>>

NothingListed == [i \in Items |-> [copies |-> 0, row |-> NoRow]]

\* build throws, with or without an answer: an AsyncError replaces the list.
FetchFails ==
    /\ fetch.at \in {"asked", "served"}
    /\ shown' = NothingListed /\ failed' = TRUE
    /\ fetch' = NoFetch
    /\ Overtaken("other")
    /\ UNCHANGED <<list, stored, unborn, op, stage, counts, troubles>>

ListsNext ==
    \/ \E c \in Calls :
         \/ \E i \in Items, t \in Texts :
              (\E kind \in GroceryKinds \cup ChoreKinds : Write(c, kind, i, t)) \/ Add(c, i, t)
         \/ Serve(c) \/ Commit(c) \/ CommitFails(c) \/ Answer(c) \/ Fail(c)
    \/ \E i \in Items, row \in Row \cup {NoRow} : Foreign(i, row)
    \/ Refresh \/ ServeFetch \/ Fetched \/ FetchFails

ListsSpec == ListsInit /\ [][ListsNext]_listsVars
-----------------------------------------------------------------------------
(* What must hold *)

Quiet == InFlight = {} /\ fetch.at = "none"

(***************************************************************************)
(* When nothing is under way and no fetch has failed, the list is what is  *)
(* stored, unless since the last undisturbed fetch: another device has     *)
(* written; an answer or a COMMIT was lost; a fetch was served before a    *)
(* write whose answer it then overtook, or before the COMMIT that followed *)
(* an answer; two writes of a row crossed; or a failed tick has put back a *)
(* list that others, or a fetch, or its failure, had changed.  Ticks on    *)
(* different rows may overlap as they like, and a failure that is alone is *)
(* reverted exactly.                                                       *)
(***************************************************************************)
ShownIsStored ==
    Quiet /\ ~ failed /\ troubles \ {"addedOver"} = {} =>
        \A i \in Items : /\ OnScreen(i) <=> stored[i] # NoRow
                         /\ OnScreen(i) => shown[i].row = stored[i]

(***************************************************************************)
(* No row is listed twice, unless a fetch came between the addition of a   *)
(* row and its answer, or a failed tick has put such a list back.          *)
(***************************************************************************)
ListedOnce ==
    \A i \in Items : shown[i].copies <= 1 \/ "addedOver" \in troubles \/ "revertedOver" \in troubles
=============================================================================
