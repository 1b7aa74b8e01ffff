------------------------------ MODULE ChorePages ------------------------------
(***************************************************************************)
(* The app's chore list is fetched in pages (chores_provider.dart,         *)
(* _fetchChores) from an endpoint that counts the rows and then selects a  *)
(* window of them (api/chores.py, list_chores).  Nothing holds the rows    *)
(* still: between two pages, and between the COUNT and the SELECT of one,  *)
(* chores are created and series are deleted, and the window slides.       *)
(***************************************************************************)
EXTENDS Naturals, Sequences, FiniteSets, SequencesExt

CONSTANTS Instances,    \* ids of chore instances; ids are compared by the SELECT
          Series,       \* ids of chore definitions
          SeriesOf,     \* the definition an instance belongs to, once created
          LastStamp,    \* bound on created_at
          PageSize,     \* _pageSize
          MaxPages      \* _maxPages

ASSUME ChorePagesAssumption ==
    /\ Instances \subseteq Nat /\ IsFiniteSet(Instances) /\ LastStamp \in Nat
    /\ SeriesOf \in [Instances -> Series]
    /\ PageSize \in Nat \ {0} /\ MaxPages \in Nat \ {0}

VARIABLES
    born,       \* the instances there are
    created,    \* instance -> created_at
    ended,      \* the definitions with is_active = false
    at,         \* "idle", "asked", "counted", "answered" or "done"
    items,      \* what the pages so far have brought
    total,      \* of the last page
    pages,      \* pagesFetched; the offset is PageSize times as much
    before,     \* history: the rows that were listed when the fetch began
    crossed     \* history: what has happened to the rows since then

rows      == <<born, created, ended>>
paging    == <<at, items, total, pages>>
pagesVars == <<rows, paging, before, crossed>>

PagesTypeOK ==
    /\ born \subseteq Instances
    /\ created \in [Instances -> 0 .. LastStamp]
    /\ ended \subseteq Series
    /\ at \in {"idle", "asked", "counted", "answered", "done"}
    /\ items \in Seq(Instances) /\ Len(items) <= PageSize * MaxPages
    /\ total \in 0 .. Cardinality(Instances) /\ pages \in 0 .. MaxPages
    /\ before \subseteq Instances
    /\ crossed \subseteq {"created", "between", "deleted"}

Listed == {i \in born : SeriesOf[i] \notin ended}

PagesInit ==
    /\ born \in SUBSET Instances
    /\ created \in {f \in [Instances -> 0 .. LastStamp] :
                      \A i \in Instances \ born : f[i] = 0}
    /\ ended = {}
    /\ at = "idle" /\ items = <<>> /\ total = 0 /\ pages = 0
    /\ before = {} /\ crossed = {}
-----------------------------------------------------------------------------
(* The fetch *)

\* build, or a refresh.
Start ==
    /\ at \in {"idle", "done"}
    /\ at' = "asked" /\ items' = <<>> /\ total' = 0 /\ pages' = 0
    /\ before' = Listed /\ crossed' = {}
    /\ UNCHANGED rows

\* Mutant: the total of the first page is kept.
CountOnce ==
    /\ at = "asked" /\ at' = "counted"
    /\ total' = IF pages = 0 THEN Cardinality(Listed) ELSE total
    /\ UNCHANGED <<rows, items, pages, before, crossed>>

Count ==
    /\ at = "asked" /\ at' = "counted"
    /\ total' = Cardinality(Listed)
    /\ UNCHANGED <<rows, items, pages, before, crossed>>

Newer(i, j) == \/ created[i] > created[j]
               \/ created[i] = created[j] /\ i > j

\* Mutant: the rows of one batch, which share their created_at, in any order.
OrdersByTimeOnly ==
    {s \in SetToSeqs(Listed) : \A j, k \in DOMAIN s : j < k => created[s[j]] >= created[s[k]]}

\* ORDER BY created_at DESC, id DESC: the orders the SELECT may return.
Orders == {s \in SetToSeqs(Listed) : \A j, k \in DOMAIN s : j < k => Newer(s[j], s[k])}

\* LIMIT PageSize OFFSET pages * PageSize.
Window(s) ==
    SubSeq(s, pages * PageSize + 1,
              IF Len(s) < (pages + 1) * PageSize THEN Len(s) ELSE (pages + 1) * PageSize)

Select ==
    /\ at = "counted" /\ at' = "answered"
    /\ \E s \in Orders : items' = items \o Window(s)
    /\ pages' = pages + 1
    /\ UNCHANGED <<rows, total, before, crossed>>

\* The condition of the loop.
GoesOn == Len(items) < total /\ pages < MaxPages

Loop ==
    /\ at = "answered"
    /\ at' = IF GoesOn THEN "asked" ELSE "done"
    /\ UNCHANGED <<rows, items, total, pages, before, crossed>>

\* A page is refused or lost: the fetch throws.
Throw ==
    /\ at \in {"asked", "counted", "answered"} /\ at' = "idle"
    /\ items' = <<>> /\ total' = 0 /\ pages' = 0
    /\ UNCHANGED <<rows, before, crossed>>
-----------------------------------------------------------------------------
(* Meanwhile *)

Crossed(what) ==
    crossed' = IF at \in {"idle", "done"} THEN crossed
               ELSE crossed \cup {what} \cup (IF at = "counted" THEN {"between"} ELSE {})

\* create_chore (one row) or the daily job (several of one transaction).  The
\* time they are stamped with is when their transaction began: rows stamped
\* later may have been committed before.
Create(new, t) ==
    /\ new # {} /\ new \subseteq Instances \ born
    /\ \A i \in new : SeriesOf[i] \notin ended
    /\ born' = born \cup new
    /\ created' = [i \in Instances |-> IF i \in new THEN t ELSE created[i]]
    /\ Crossed("created")
    /\ UNCHANGED <<ended, paging, before>>

\* delete_chore_definition: the rows stay, the list does without them.
DeleteSeries(d) ==
    /\ d \in Series \ ended
    /\ ended' = ended \cup {d}
    /\ Crossed("deleted")
    /\ UNCHANGED <<born, created, paging, before>>

PagesNext ==
    \/ Start \/ Count \/ Select \/ Loop \/ Throw
    \/ \E new \in SUBSET Instances, t \in 0 .. LastStamp : Create(new, t)
    \/ \E d \in Series : DeleteSeries(d)

PagesSpec == PagesInit /\ [][PagesNext]_pagesVars
-----------------------------------------------------------------------------
(* What must hold *)

(***************************************************************************)
(* A finished fetch has every row that was listed when it began, whatever  *)
(* was created meanwhile and however it was stamped, unless it reached the *)
(* limit on pages short of the total, a series was deleted (others slide   *)
(* past the window), or something was created between the COUNT and the    *)
(* SELECT of a page.                                                       *)
(***************************************************************************)
NothingLeftOut ==
    at = "done" /\ crossed \cap {"deleted", "between"} = {} =>
        \/ before \subseteq ToSet(items)
        \/ pages = MaxPages /\ Len(items) < total

(***************************************************************************)
(* No row comes twice, unless one was created while the pages were read.   *)
(* Deletions do not repeat rows.                                           *)
(***************************************************************************)
NoRowTwice == "created" \notin crossed => IsInjective(items)
=============================================================================
