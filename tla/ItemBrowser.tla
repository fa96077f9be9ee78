----------------------------- MODULE ItemBrowser -----------------------------
(***************************************************************************)
(* The browser of a source's items in the administrator's page             *)
(* (SourceRuntimeStatus of components/admin-source-manager.tsx) with the   *)
(* queries it makes (repos/source-observability-store.ts).  A folder is    *)
(* read page after page with a cursor, while the worker goes on writing    *)
(* items; answers come late and in any order, and what the page shows is   *)
(* replaced when the administrator goes elsewhere or a rule is changed.    *)
(*                                                                         *)
(* A change of the page's state and the effects React runs for it are one  *)
(* step.  Messages, counts and the table of runs are left out.             *)
(***************************************************************************)
EXTENDS Naturals, Sequences, FiniteSets, SequencesExt

CONSTANTS
    Items,        \* ids of items; the query compares them
    Folders,      \* the items that are folders; they lie at the root
    Whole,        \* the target of a collection's rule: a number too
    Colls, Home,  \* collections, and the one that holds the items
    Names,        \* names, as numbers: the query compares them
    Limit,        \* rows of a page
    MaxClock,     \* bound of the changes made without the page's knowledge
    MaxCalls,     \* bound of the requests under way
    MaxRules,     \* bound of the rules in force
    None

VARIABLES
    row,      \* source_items
    rules,    \* source_exclusion_rules: the targets of the rules of Home
    listed,   \* the collections that are not deregistered
    syncing,  \* a sync run is queued or running
    clock,    \* history: changes made without the page's knowledge
    page,     \* the state of the component
    calls     \* requests under way

vars == <<row, rules, listed, syncing, clock, page, calls>>
store == <<row, rules, listed, syncing, clock>>

(***************************************************************************)
(* A cursor is the sort key of the last row of a page.  Start stands for   *)
(* the request without a cursor, End for nextCursor = null.                *)
(***************************************************************************)
Cursor == [rank : 0..2, name : Names \cup {0}, id : Items \cup {0}]
Start == [rank |-> 0, name |-> 0, id |-> 0]
End == [rank |-> 2, name |-> 0, id |-> 0]

\* An item as it is shown, with the target of the rule that excludes it.
NoRule == 0
Targets == Items \cup {Whole}
Shown == [id : Items, by : Targets \cup {NoRule}]

Answer == [items : Seq(Shown), cursor : Cursor, at : 0..MaxClock,
           listed : SUBSET Colls, syncing : BOOLEAN]
Nothing == [items |-> <<>>, cursor |-> End, at |-> 0, listed |-> {},
            syncing |-> FALSE]

(***************************************************************************)
(* fresh   the request is the latest of its kind: cancelled is false, or   *)
(*         its number is that of itemsRequestRef or loadMoreRequestRef     *)
(***************************************************************************)
Call == [kind : {"status", "items", "more", "exclude", "restore"},
         coll : Colls \cup {None}, parents : Seq(Folders), cursor : Cursor,
         target : Targets \cup {NoRule}, fresh : BOOLEAN,
         served : BOOLEAN, answer : Answer]

Reads == {"status", "items", "more"}

TypeOK ==
    /\ row \in [Items -> [stored : BOOLEAN, parents : Seq(Folders),
                          name : Names \cup {0}, since : 0..MaxClock]]
    /\ rules \subseteq Targets
    /\ listed \subseteq Colls /\ syncing \in BOOLEAN /\ clock \in 0..MaxClock
    /\ page \in [coll : Colls \cup {None}, listed : SUBSET Colls,
                 parents : Seq(Folders), items : Seq(Shown),
                 cursor : Cursor, loadingMore : BOOLEAN,
                 active : BOOLEAN, since : 0..MaxClock]
    /\ \A c \in calls : c \in Call

NewCall(kind, p, cursor, target) ==
    [kind |-> kind, coll |-> p.coll, parents |-> p.parents,
     cursor |-> cursor, target |-> target, fresh |-> TRUE,
     served |-> FALSE, answer |-> Nothing]

EmptyPage ==
    [coll |-> None, listed |-> {}, parents |-> <<>>, items |-> <<>>,
     cursor |-> End, loadingMore |-> FALSE, active |-> FALSE, since |-> 0]

StatusCall == NewCall("status", EmptyPage, Start, NoRule)

\* What is stored of an item: a folder lies at the root, a document there or
\* in a folder.  NotStored is no row.
NotStored == [stored |-> FALSE, parents |-> <<>>, name |-> 0, since |-> 0]
Stored(i, at) ==
    {[stored |-> TRUE, parents |-> up, name |-> n, since |-> at] :
       up \in IF i \in Folders THEN {<<>>}
             ELSE {<<>>} \cup {<<f>> : f \in Folders},
       n \in Names}

Init ==
    /\ row \in [Items -> {NotStored} \cup UNION {Stored(i, 0) : i \in Items}]
    /\ \A i \in Items : row[i] \in Stored(i, 0) \cup {NotStored}
    /\ rules \in {{}, {Whole}} /\ listed = Colls /\ syncing = TRUE
    /\ clock = 0
    /\ page = EmptyPage /\ calls = {StatusCall}

-----------------------------------------------------------------------------
(* The queries *)

Key(i) == [rank |-> IF i \in Folders THEN 0 ELSE 1, name |-> row[i].name,
           id |-> i]

\* ORDER BY of the query: folders first, then by name, then by id.
After(k, l) ==
    \/ k.rank > l.rank
    \/ k.rank = l.rank /\ \/ k.name > l.name
                          \/ k.name = l.name /\ k.id > l.id

Before(i, j) == After(Key(j), Key(i))

\* The elements of a finite set in order: each occurs once.
Ordered(S, before(_, _)) ==
    CHOOSE s \in [1 .. Cardinality(S) -> S] :
        /\ \A x \in S : \E n \in 1 .. Cardinality(S) : s[n] = x
        /\ \A m, n \in 1 .. Cardinality(S) : m < n => before(s[m], s[n])

Lies(i, coll, parents) ==
    coll = Home /\ row[i].stored /\ row[i].parents = parents

\* The rule nearest to an item excludes it: its own, its folder's, then the
\* collection's.
EffectiveExclusion(i) ==
    LET up == row[i].parents
    IN  IF i \in rules THEN i
        ELSE IF up # <<>> /\ row[Last(up)].stored /\ Last(up) \in rules
        THEN Last(up)
        ELSE IF Whole \in rules THEN Whole ELSE NoRule

\* Limit + 1 rows after the cursor tell whether there is a next page.
ListSourceItems(c) ==
    LET found == {i \in Items : Lies(i, c.coll, c.parents)
                                 /\ After(Key(i), c.cursor)}
        rows == Ordered(found, Before)
        more == Cardinality(found) > Limit
        size == IF more THEN Limit ELSE Cardinality(found)
    IN  [Nothing EXCEPT
           !.items = [n \in 1 .. size |->
                        [id |-> rows[n], by |-> EffectiveExclusion(rows[n])]],
           !.cursor = IF more THEN Key(rows[Limit]) ELSE End,
           !.at = clock]

-----------------------------------------------------------------------------
(* The page *)

Superseded(C, kinds) ==
    {IF c.kind \in kinds THEN [c EXCEPT !.fresh = FALSE] ELSE c : c \in C}

\* The effect of a new collection, folder or revision: what was asked before
\* is outdated, the list is emptied and read from its start.
LoadItems(p, C) ==
    /\ page' = [p EXCEPT !.items = <<>>, !.cursor = End,
                         !.loadingMore = FALSE, !.since = 0]
    /\ calls' = Superseded(C, {"items", "more"}) \cup
                  (IF p.coll = None THEN {}
                   ELSE {NewCall("items", p, Start, NoRule)})

\* detailRevision grows: both effects run.
RefreshDetails(C) ==
    LoadItems(page, Superseded(C, {"status"}) \cup {StatusCall})

SelectCollection(coll) ==
    /\ coll \in page.listed \cup {None} /\ coll # page.coll
    /\ LoadItems([page EXCEPT !.coll = coll, !.parents = <<>>], calls)
    /\ UNCHANGED store

OpenFolder(n) ==
    /\ page.items[n].id \in Folders
    /\ LoadItems([page EXCEPT !.parents = Append(@, page.items[n].id)],
                 calls)
    /\ UNCHANGED store

Back ==
    /\ page.parents # <<>>
    /\ LoadItems([page EXCEPT !.parents = Front(@)], calls)
    /\ UNCHANGED store

\* The page asks again every two seconds while the source is synchronized.
Timer ==
    /\ page.active
    /\ RefreshDetails(calls) /\ UNCHANGED store

LoadMore ==
    /\ page.coll # None /\ page.cursor # End /\ ~page.loadingMore
    /\ page' = [page EXCEPT !.loadingMore = TRUE]
    /\ calls' = Superseded(calls, {"more"}) \cup
                  {NewCall("more", page, page.cursor, NoRule)}
    /\ UNCHANGED store

\* A second request for the same rule while the first is under way is left
\* out: the route refuses it.
Ask(kind, target) ==
    /\ ~\E c \in calls : c.kind = kind /\ c.target = target
    /\ calls' = calls \cup {NewCall(kind, EmptyPage, Start, target)}
    /\ UNCHANGED <<store, page>>

ExcludeItem(n) ==
    /\ page.items[n].by = NoRule /\ Cardinality(rules) < MaxRules
    /\ Ask("exclude", page.items[n].id)

RestoreExclusion(n) ==
    page.items[n].by = page.items[n].id /\ Ask("restore", page.items[n].id)

-----------------------------------------------------------------------------
(* The answers *)

Answered(c, a) ==
    calls' = (calls \ {c}) \cup {[c EXCEPT !.served = TRUE, !.answer = a]}

ServeStatus(c) ==
    /\ ~c.served /\ c.kind = "status"
    /\ Answered(c, [Nothing EXCEPT !.listed = listed, !.syncing = syncing])
    /\ UNCHANGED <<store, page>>

ServeItems(c) ==
    /\ ~c.served /\ c.kind \in {"items", "more"}
    /\ Answered(c, ListSourceItems(c))
    /\ UNCHANGED <<store, page>>

ServeExclude(c) ==
    /\ ~c.served /\ c.kind = "exclude" /\ c.target \notin rules
    /\ rules' = rules \cup {c.target} /\ Answered(c, Nothing)
    /\ UNCHANGED <<row, listed, syncing, clock, page>>

ServeRestore(c) ==
    /\ ~c.served /\ c.kind = "restore" /\ c.target \in rules
    /\ rules' = rules \ {c.target} /\ Answered(c, Nothing)
    /\ UNCHANGED <<row, listed, syncing, clock, page>>

\* Mutant: the number of the request is not compared.
CurrentByContext(c) == c.coll = page.coll /\ c.parents = page.parents

\* What is answered is asked for last, and in what is open now.
Current(c) == c.fresh /\ c.coll = page.coll /\ c.parents = page.parents

\* A request is refused (the target has a rule already, or no longer) or it is
\* lost, or the answer is.  The catch only shows the error; the finally of the
\* latest loadMore lets it be pressed again.  When the request had changed a
\* rule the page does not know of it.
Fail(c) ==
    /\ calls' = calls \ {c}
    /\ page' = [page EXCEPT !.loadingMore =
                              @ /\ ~(c.kind = "more" /\ Current(c))]
    /\ IF c.served /\ c.kind \notin Reads
       THEN clock < MaxClock /\ clock' = clock + 1
       ELSE UNCHANGED clock
    /\ UNCHANGED <<row, rules, listed, syncing>>

\* The latest status tells the collections; when the one that is shown is no
\* longer among them the first takes its place.
DeliverStatus(c) ==
    LET a == c.answer
        p == [page EXCEPT !.listed = a.listed, !.active = a.syncing]
    IN  /\ c.served /\ c.kind = "status"
        /\ \/ /\ ~c.fresh /\ calls' = calls \ {c} /\ UNCHANGED page
           \/ /\ c.fresh /\ page.coll \in a.listed
              /\ calls' = calls \ {c} /\ page' = p
           \/ /\ c.fresh /\ page.coll \notin a.listed
              /\ \E first \in IF a.listed = {} THEN {None} ELSE a.listed :
                   LoadItems([p EXCEPT !.coll = first, !.parents = <<>>],
                             calls \ {c})
        /\ UNCHANGED store

DeliverItems(c) ==
    /\ c.served /\ c.kind = "items" /\ calls' = calls \ {c}
    /\ page' = IF Current(c)
               THEN [page EXCEPT !.items = c.answer.items,
                                 !.cursor = c.answer.cursor,
                                 !.since = c.answer.at]
               ELSE page
    /\ UNCHANGED store

\* Those of the new items that are not shown yet.
Unknown(items) ==
    LET known == {page.items[n].id : n \in DOMAIN page.items}
        places == {n \in DOMAIN items : items[n].id \notin known}
        order == Ordered(places, LAMBDA m, n : m < n)
    IN  [n \in 1 .. Cardinality(places) |-> items[order[n]]]

\* The items that are not shown yet are appended.
DeliverMore(c) ==
    /\ c.served /\ c.kind = "more" /\ calls' = calls \ {c}
    /\ page' = IF Current(c)
               THEN [page EXCEPT !.items = @ \o Unknown(c.answer.items),
                                 !.cursor = c.answer.cursor,
                                 !.loadingMore = FALSE]
               ELSE page
    /\ UNCHANGED store

\* A rule was changed: onExclusionsChanged.
DeliverChange(c) ==
    /\ c.served /\ c.kind \in {"exclude", "restore"}
    /\ RefreshDetails(calls \ {c}) /\ UNCHANGED store

-----------------------------------------------------------------------------
(* What happens without the page *)

\* A batch of the worker stores an item, or renames or moves it.
Reconcile(i) ==
    /\ syncing /\ clock < MaxClock /\ clock' = clock + 1
    /\ \E r \in Stored(i, clock') : row' = [row EXCEPT ![i] = r]
    /\ UNCHANGED <<rules, listed, syncing, page, calls>>

SyncEnds ==
    /\ syncing /\ syncing' = FALSE
    /\ UNCHANGED <<row, rules, listed, clock, page, calls>>

Deregister(coll) ==
    /\ coll \in listed /\ clock < MaxClock /\ clock' = clock + 1
    /\ listed' = listed \ {coll}
    /\ UNCHANGED <<row, rules, syncing, page, calls>>

Next ==
    /\ \/ \E coll \in Colls \cup {None} : SelectCollection(coll)
       \/ \E n \in DOMAIN page.items :
            OpenFolder(n) \/ ExcludeItem(n) \/ RestoreExclusion(n)
       \/ Back \/ Timer \/ LoadMore
       \/ \E c \in calls :
            \/ ServeStatus(c) \/ ServeItems(c)
            \/ ServeExclude(c) \/ ServeRestore(c) \/ Fail(c)
            \/ DeliverStatus(c) \/ DeliverItems(c)
            \/ DeliverMore(c) \/ DeliverChange(c)
       \/ \E i \in Items : Reconcile(i)
       \/ \E coll \in Colls : Deregister(coll)
       \/ SyncEnds
    /\ Cardinality(calls') <= MaxCalls

Spec == Init /\ [][Next]_vars

-----------------------------------------------------------------------------
(* Properties *)

\* No item is shown twice, and those the worker has not touched since the
\* first page was read are shown in the query's order, without a gap, down to
\* the cursor, and all belong to the folder that is open: however many pages
\* were read, and whatever was stored, renamed, asked for and abandoned
\* meanwhile.
ShownIsListing ==
    LET id(n) == page.items[n].id
        Untouched(i) == row[i].since <= page.since
        Reached(i) == ~After(Key(i), page.cursor)
    IN page.items # <<>> =>
         /\ \A m, n \in DOMAIN page.items : m < n =>
              /\ id(m) # id(n)
              /\ Untouched(id(m)) /\ Untouched(id(n)) => Before(id(m), id(n))
         /\ \A i \in Items : Untouched(i) =>
              ((\E n \in DOMAIN page.items : id(n) = i)
                 <=> Lies(i, page.coll, page.parents) /\ Reached(i))

\* When nothing is under way the marks of the items that are shown are the
\* rules in force, unless something happened without the page.
MarksAreRules ==
    (page.since = clock /\ \A c \in calls : c.kind = "status" \/ ~c.fresh) =>
      \A n \in DOMAIN page.items :
        page.items[n].by = EffectiveExclusion(page.items[n].id)

\* What the page shows of a folder is what the store has of it.
ShownAsStored == ShownIsListing /\ MarksAreRules
=============================================================================
