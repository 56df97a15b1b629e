-------------------------- MODULE NotionProjection --------------------------
(***************************************************************************)
(* ProjectionConsumer with its "work" state opened up: the Notion requests *)
(* of upsert_entity, upsert_document, replace_children and archive, one    *)
(* step each, with the lease renewals between them.  Notion itself is      *)
(* external and is modelled from how the consumer uses it: it checks no    *)
(* lease, applies a request or not, and its reply may be lost either way.  *)
(*                                                                         *)
(* Every step of this module is a step of ProjectionConsumer (PROPERTY     *)
(* Spec of the runs): the requests are stuttering steps of it, the last    *)
(* read-back is its Project.                                               *)
(***************************************************************************)
EXTENDS ProjectionConsumer, Sequences, SequencesExt

CONSTANTS
    Entities,   \* the objects whose pages are data source rows
    Batches,    \* bound: append requests a body takes (100 blocks each)
    NoObject    \* a page that was not created yet

ASSUME NotionAssumption ==
    /\ Entities \subseteq Object
    /\ Batches \in Nat \ {0}
    /\ NoObject \notin Object

VARIABLES
    pages,      \* page id -> the page as Notion holds it
    work        \* instance -> its progress through the projection

notionVars == <<vars, pages, work>>

\* One block stands for the blocks of one append request.
Block == [version : Version, batch : 1..Batches]

PageState ==
    [obj      : Object \cup {NoObject},
     archived : BOOLEAN,
     props    : Version \cup {NoVersion},
     body     : Seq(Block)]

WorkStep == {"none", "resolve", "create", "patch", "list", "renewDelete",
             "delete", "renewAppend", "append", "check", "renewArchive",
             "archive", "checkArchive"}

Work ==
    [step   : WorkStep,
     page   : Page \cup {NoPage},
     listed : Seq(Block),       \* the children still to be deleted
     batch  : 1..Batches]       \* the next append request

NotionTypeOK ==
    /\ pages \in [Page -> PageState]
    /\ work \in [Consumer -> Work]
    /\ \A c \in Consumer : pc[c] = "work" <=> work[c].step # "none"

NoWork == [step |-> "none", page |-> NoPage, listed |-> <<>>, batch |-> 1]

NotionInit ==
    /\ Init
    /\ pages = [p \in Page |-> [obj |-> NoObject, archived |-> FALSE,
                                props |-> NoVersion, body |-> <<>>]]
    /\ work = [c \in Consumer |-> NoWork]

\* What the consumer means the page of an event to hold.  Only the pages of
\* entities carry revision and hash properties; both kinds carry them in the
\* marker block that heads the body.
EventVersion(e) == [rev |-> e.rev, hash |-> e.hash]
DesiredProps(e) == IF e.obj \in Entities THEN EventVersion(e) ELSE NoVersion
DesiredBody(e) ==
    [i \in 1..Batches |-> [version |-> EventVersion(e), batch |-> i]]

-----------------------------------------------------------------------------
(* Moving through the projection.                                          *)

AtStep(c, step) == pc[c] = "work" /\ work[c].step = step

\* The next request is `step'; nothing but pages and work changes.
Continue(c, w) ==
    /\ work' = [work EXCEPT ![c] = w]
    /\ UNCHANGED vars

\* The projection is left for `label': the last renewal, or the except clause.
Leave(c, label) ==
    /\ work' = [work EXCEPT ![c] = NoWork]
    /\ Goto(c, label)
    /\ UNCHANGED <<tables, quota, crashes>>

\* Mutant: no renewal between the read-back and finalize_success.
Return_WithoutRenewal(c, p) ==
    Leave(c, "finalize") /\ ev' = [ev EXCEPT ![c].page = p]

Raise(c) == Leave(c, "error") /\ UNCHANGED ev
Return(c, p) == Leave(c, "last") /\ ev' = [ev EXCEPT ![c].page = p]

\* A request that changes a page: it is applied, and the consumer goes on or
\* does not get the reply.  (A request that is not applied is a Fault.)
Request(c, p, page, w) ==
    /\ pages' = [pages EXCEPT ![p] = page]
    /\ Continue(c, w) \/ Raise(c)

\* Mutant: a page that was created but never recorded is not looked for.
Found_RecordedOnly(e) == IF e.page # NoPage THEN {e.page} ELSE {}

\* The page of an event: the recorded one, or a query that does not return
\* archived pages.
Found(e) ==
    IF e.page # NoPage THEN {e.page}
    ELSE {p \in Page : pages[p].obj = e.obj /\ ~pages[p].archived}

Resolve(c) ==
    /\ AtStep(c, "resolve")
    /\ LET e == ev[c]
           next(p, step) == [work[c] EXCEPT !.step = step, !.page = p]
       IN  \/ Cardinality(Found(e)) > 1 /\ Raise(c)
           \/ Found(e) = {} /\ e.op = "upsert" /\ Continue(c, next(NoPage, "create"))
           \/ Found(e) = {} /\ e.op = "delete" /\ Return(c, e.page)
           \/ /\ Cardinality(Found(e)) = 1
              /\ \E p \in Found(e) :
                    Continue(c, next(p, IF e.op = "upsert" THEN "patch"
                                                           ELSE "archive"))
    /\ UNCHANGED pages

CreatePage(c) ==
    /\ AtStep(c, "create")
    /\ \E p \in Page :
          /\ pages[p].obj = NoObject
          /\ Request(c, p, [obj |-> ev[c].obj, archived |-> FALSE,
                            props |-> DesiredProps(ev[c]), body |-> <<>>],
                     [work[c] EXCEPT !.step = "patch", !.page = p])

PatchProperties(c) ==
    /\ AtStep(c, "patch")
    /\ LET p == work[c].page IN
       Request(c, p, [pages[p] EXCEPT !.archived = FALSE,
                                      !.props = DesiredProps(ev[c])],
               [work[c] EXCEPT !.step = "list"])

ListChildren(c) ==
    /\ AtStep(c, "list")
    /\ LET body == pages[work[c].page].body IN
       Continue(c, [work[c] EXCEPT
                      !.listed = body,
                      !.step = IF body = <<>> THEN "renewAppend"
                                              ELSE "renewDelete"])
    /\ UNCHANGED pages

\* Blocks of an archived page, and blocks that are gone, cannot be edited.
DeleteBlock(c) ==
    /\ AtStep(c, "delete")
    /\ LET p == work[c].page
           block == Head(work[c].listed)
           rest == Tail(work[c].listed)
       IN  IF pages[p].archived \/ ~Contains(pages[p].body, block)
           THEN Raise(c) /\ UNCHANGED pages
           ELSE Request(c, p,
                   [pages[p] EXCEPT !.body = RemoveFirst(@, block)],
                   [work[c] EXCEPT !.listed = rest,
                                   !.step = IF rest = <<>> THEN "renewAppend"
                                                           ELSE "delete"])

AppendBatch(c) ==
    /\ AtStep(c, "append")
    /\ LET p == work[c].page
           batch == work[c].batch
       IN  IF pages[p].archived
           THEN Raise(c) /\ UNCHANGED pages
           ELSE Request(c, p,
                   [pages[p] EXCEPT !.body =
                      Append(@, DesiredBody(ev[c])[batch])],
                   IF batch < Batches
                   THEN [work[c] EXCEPT !.step = "renewAppend", !.batch = @ + 1]
                   ELSE [work[c] EXCEPT !.step = "check"])

\* The exact read-back of properties, marker and body
ReadBack(c) ==
    /\ AtStep(c, "check")
    /\ LET page == pages[work[c].page] IN
       IF /\ ~page.archived
          /\ page.props = DesiredProps(ev[c])
          /\ page.body = DesiredBody(ev[c])
       THEN Return(c, work[c].page)
       ELSE Raise(c)
    /\ UNCHANGED pages

ArchivePage(c) ==
    /\ AtStep(c, "archive")
    /\ LET p == work[c].page IN
       Request(c, p, [pages[p] EXCEPT !.archived = TRUE],
               [work[c] EXCEPT !.step = "checkArchive"])

ReadBackArchive(c) ==
    /\ AtStep(c, "checkArchive")
    /\ IF pages[work[c].page].archived THEN Return(c, work[c].page) ELSE Raise(c)
    /\ UNCHANGED pages

\* renew_lease inside replace_children and at the head of archive
AfterWorkRenewal(step) ==
    CASE step = "renewDelete"  -> "delete"
      [] step = "renewAppend"  -> "append"
      [] step = "renewArchive" -> "resolve"

RenewInWork(c) ==
    /\ work[c].step \in {"renewDelete", "renewAppend", "renewArchive"}
    /\ Renew(c)
    /\ work' = [work EXCEPT ![c] =
                  IF RenewOK(c, ev[c])
                  THEN [work[c] EXCEPT !.step = AfterWorkRenewal(work[c].step)]
                  ELSE NoWork]
    /\ UNCHANGED pages

-----------------------------------------------------------------------------
(* The whole system.                                                       *)

NotionStep(c) ==
    \/ Resolve(c) \/ CreatePage(c) \/ PatchProperties(c) \/ ListChildren(c)
    \/ DeleteBlock(c) \/ AppendBatch(c) \/ ReadBack(c)
    \/ ArchivePage(c) \/ ReadBackArchive(c) \/ RenewInWork(c)

StartWork(e) ==
    [NoWork EXCEPT !.step = IF e.op = "delete" THEN "renewArchive"
                                               ELSE "resolve"]

\* Steps of ProjectionConsumer outside the projection, and the faults and
\* crashes that cut it short.
OutsideStep(c) ==
    /\ \/ Start(c) \/ Acknowledge(c) \/ Reap(c) \/ EndDrain(c)
       \/ \E o \in Object : Claim(c, o)
       \/ Validate(c)
       \/ pc[c] # "work" /\ Renew(c)
       \/ Finalize(c) \/ Supersede(c) \/ RecordFailure(c)
       \/ Fault(c) \/ Crash(c)
    /\ work' = [work EXCEPT ![c] = IF pc'[c] = "work" THEN StartWork(ev[c])
                                                      ELSE NoWork]
    /\ UNCHANGED pages

NotionNext ==
    \/ \E c \in Consumer : NotionStep(c) \/ OutsideStep(c)
    \/ \E c \in Consumer : Expire(c) /\ UNCHANGED <<pages, work>>
    \/ ClientWrite /\ UNCHANGED <<pages, work>>

NotionSpec == NotionInit /\ [][NotionNext]_notionVars

-----------------------------------------------------------------------------
(* Properties.                                                             *)

\* Every step here is one of ProjectionConsumer: what it says of "work" (no
\* table changes, one provider object comes out, the last renewal follows)
\* is what the requests do.
ImplementsConsumer == Spec

Shown(o) == {p \in Page : pages[p].obj = o /\ ~pages[p].archived}

\* Whenever the sync row of an object says "synced", Notion shows exactly
\* that: the recorded page with the exact properties and body and no other,
\* or, after a deletion, no page at all (not even one whose creation was
\* never recorded).
SyncedPageIsExact ==
    \A o \in Object : sync[o].status = "synced" =>
        IF sync[o].op = "delete" THEN Shown(o) = {}
        ELSE LET e == ClaimedEvent(o) IN
             /\ Shown(o) = {sync[o].page}
             /\ pages[sync[o].page].props = DesiredProps(e)
             /\ pages[sync[o].page].body = DesiredBody(e)

\* An object never has two pages in the workspace: a creation whose reply was
\* lost is found again by the retry, by the next drain and by a deletion.
OnePagePerObject == \A o \in Object : Cardinality(Shown(o)) <= 1

=============================================================================
