--------------------------- MODULE AcunetixCollect ---------------------------
(***************************************************************************)
(* vulnerabilities/acunetix/findings.go: how one job collects the findings *)
(* of a completed scan.  The list of vulnerabilities is walked page by page*)
(* along the cursors of the answers, deduplicated, every item is looked up *)
(* by a pool of workers, and the findings are sorted and sent on out.      *)
(* Requests may fail and the job may be cancelled at any step.  Module     *)
(* AcunetixScan has the job around this one step of it.                    *)
(*                                                                         *)
(* An item of the list is a number: its place in the order of the emit sort*)
(* (severity, id, place), whose keys the details do not change.  A cursor  *)
(* is a number too, NoCursor for none.  The API documents a page's cursor  *)
(* as its own, which is p for page p; to the code, and from a server that  *)
(* does otherwise, a cursor is opaque and any page may be behind it.       *)
(***************************************************************************)
EXTENDS Naturals, Sequences, FiniteSets, SequencesExt

CONSTANTS
    Listings,       \* lists the server may have: sequences of pages of items
    OtherAnswers,   \* cursors of the answers of a server that sends others
    Nameless,       \* items whose vt_name is blank
    MaxPages,       \* maxPages (1000): cursors followed
    DetailWorkers   \* detailWorkers (8): lookups at once

NoCursor == 0

ASSUME CollectAssumption ==
    /\ MaxPages \in Nat /\ DetailWorkers \in Nat \ {0}
    /\ \A l \in Listings : l \in Seq(Seq(Nat)) /\ l # <<>>
    /\ OtherAnswers \subseteq Seq(Nat)

VARIABLES
    \* the server
    listing,      \* its list, which the completed scan no longer changes
    reported,     \* it reports pagination.count
    documented,   \* its cursors are those of the API: current, known following
    \* paginateAll
    cursor,       \* the cursor of the page asked for
    seen, pages,  \* the cursorWalker
    all,          \* items fetched
    visits,       \* history: the pages fetched
    \* collectFindings
    phase,
    lookup,       \* of each place of all that is kept: "none", "running", or
                  \* what came of it: "detail", "item", or a blank name, which
                  \* makes no finding
    todo,         \* the places whose findings are still to be sent
    sent, returned, ctxDone

served == <<listing, reported, documented>>
walk == <<cursor, seen, pages, all, visits>>
collectVars == <<served, walk, lookup, phase, todo, sent, returned, ctxDone>>

Entries == UNION {{p} \X DOMAIN listing[p] : p \in DOMAIN listing}
Item(entry) == listing[entry[1]][entry[2]]
Count == Cardinality(Entries)
Items == {Item(entry) : entry \in Entries}

Lookups(how) == {i \in DOMAIN lookup : lookup[i] = how}
Workers == Lookups("running")

CollectInit ==
    /\ listing \in Listings /\ reported \in BOOLEAN /\ documented \in BOOLEAN
    /\ cursor = NoCursor /\ seen = {} /\ pages = 0 /\ all = <<>> /\ visits = <<>>
    /\ phase = "list" /\ lookup = <<>>
    /\ todo = {} /\ sent = <<>> /\ returned = "none" /\ ctxDone = FALSE

Finish(how) == phase' = "ended" /\ returned' = how

EndContext ==
    /\ phase # "ended" /\ ~ctxDone
    /\ ctxDone' = TRUE
    /\ UNCHANGED <<served, walk, lookup, phase, todo, sent, returned>>

-----------------------------------------------------------------------------
(* paginateAll: the walk over the list.                                    *)

(* The page asked for, and the pages that may be served for it.            *)
Page == IF cursor = NoCursor THEN 1 ELSE cursor
Served == IF documented THEN {Page} ELSE DOMAIN listing

Following(p, n) == [i \in 1..n |-> p + i]

(* The cursors an answer with page p carries.  The documented ones lead    *)
(* with the page's own at most, and go on to the next page if there is one;*)
(* another server may send any.                                            *)
Answers(p) ==
    LET last == Len(listing)
        known == {n \in 0..2 : p + n <= last /\ (p < last => n > 0)}
    IN  IF documented
        THEN {lead \o Following(p, n) : lead \in {<<>>, <<NoCursor>>, <<p>>}, n \in known}
        ELSE OtherAnswers

(* cursorWalker.next: the first cursor that is new.                        *)
Fresh(cursors) == {i \in DOMAIN cursors : cursors[i] \notin {NoCursor, cursor} \cup seen}

NextCursor_Last(cursors) ==
    IF pages >= MaxPages \/ Fresh(cursors) = {} THEN NoCursor ELSE cursors[Max(Fresh(cursors))]
NextCursor(cursors) ==
    IF pages >= MaxPages \/ Fresh(cursors) = {} THEN NoCursor ELSE cursors[Min(Fresh(cursors))]

Incomplete_Never(fetched) == FALSE
Incomplete(fetched) == reported /\ Len(fetched) < Count

(* dedupeVulnerabilities: the first of equal items stays.                  *)
Kept_All(list) == DOMAIN list
Kept(list) == {i \in DOMAIN list : \A j \in 1..(i - 1) : list[j] # list[i]}

EndOfList ==
    IF Incomplete(all')
    THEN Finish("error") /\ UNCHANGED lookup
    ELSE /\ lookup' = [i \in Kept(all') |-> "none"]
         /\ IF Kept(all') = {} THEN Finish("ok") ELSE phase' = "look" /\ UNCHANGED returned

FetchPage(page) ==
    /\ phase = "list"
    /\ all' = all \o listing[page] /\ visits' = Append(visits, page)
    /\ \E cursors \in Answers(page) :
           LET c == NextCursor(cursors)
           IN  IF c = NoCursor
               THEN EndOfList /\ UNCHANGED <<cursor, seen, pages>>
               ELSE /\ cursor' = c /\ seen' = seen \cup {c} /\ pages' = pages + 1
                    /\ UNCHANGED <<lookup, phase, returned>>
    /\ UNCHANGED <<served, todo, sent, ctxDone>>

(* The request or the decoding of its answer fails, or the context ends it.*)
FetchFails ==
    /\ phase = "list"
    /\ Finish("error")
    /\ UNCHANGED <<served, walk, lookup, todo, sent, ctxDone>>

-----------------------------------------------------------------------------
(* collectFindings: the pool of lookups.                                   *)

(* An early return is held up by the deferred wg.Wait.                     *)
Leave_AtOnce == Finish("canceled")
Leave == phase' = "leaving" /\ UNCHANGED returned

Look ==
    /\ phase = "look"
    /\ IF ctxDone THEN Leave ELSE phase' = "acquire" /\ UNCHANGED returned
    /\ UNCHANGED <<served, walk, lookup, todo, sent, ctxDone>>

Dispatch ==
    /\ phase = "acquire" /\ Cardinality(Workers) < DetailWorkers
    /\ lookup' = [lookup EXCEPT ![Min(Lookups("none"))] = "running"]
    /\ phase' = IF Lookups("none")' = {} THEN "join" ELSE "look"
    /\ UNCHANGED <<served, walk, todo, sent, returned, ctxDone>>

StopDispatching ==
    /\ phase = "acquire" /\ ctxDone
    /\ Leave
    /\ UNCHANGED <<served, walk, lookup, todo, sent, ctxDone>>

(* A lookup that fails, or is ended by the context, falls back to the item.*)
(* No finding is made of a blank name, be it the item's or the detail's.   *)
FallBack_Drops(v) == "blankItem"
FallBack(v) == IF v \in Nameless THEN "blankItem" ELSE "item"

Details == {"detail", "blankDetail"}

LookupEnds ==
    /\ \E i \in Workers : \E found \in Details \cup {FallBack(all[i])} :
           lookup' = [lookup EXCEPT ![i] = found]
    /\ UNCHANGED <<served, walk, phase, todo, sent, returned, ctxDone>>

Found == {"detail", "item"}

Join ==
    /\ phase = "join" /\ Workers = {}
    /\ todo' = {i \in DOMAIN lookup : lookup[i] \in Found}
    /\ phase' = "emit"
    /\ UNCHANGED <<served, walk, lookup, sent, returned, ctxDone>>

JoinAndLeave_WithoutError ==
    /\ phase = "leaving" /\ Workers = {}
    /\ Finish("ok")
    /\ UNCHANGED <<served, walk, lookup, todo, sent, ctxDone>>
JoinAndLeave ==
    /\ phase = "leaving" /\ Workers = {}
    /\ Finish("canceled")
    /\ UNCHANGED <<served, walk, lookup, todo, sent, ctxDone>>

(* The findings are sent in the order of the sort.                         *)
EmitFinding ==
    /\ phase = "emit"
    /\ \E i \in todo :
           /\ \A j \in todo : all[i] <= all[j]
           /\ sent' = Append(sent, all[i]) /\ todo' = todo \ {i}
    /\ UNCHANGED <<served, walk, lookup, phase, returned, ctxDone>>

EmitEnds_Deaf ==
    /\ phase = "emit"
    /\ todo = {} /\ Finish("ok")
    /\ UNCHANGED <<served, walk, lookup, todo, sent, ctxDone>>
EmitEnds ==
    /\ phase = "emit"
    /\ \/ todo = {} /\ Finish("ok")
       \/ todo # {} /\ ctxDone /\ Finish("canceled")
    /\ UNCHANGED <<served, walk, lookup, todo, sent, ctxDone>>

-----------------------------------------------------------------------------
Fetch == (\E page \in Served : FetchPage(page)) \/ FetchFails
Step == Look \/ Dispatch \/ StopDispatching \/ Join \/ JoinAndLeave \/ EmitEnds
Ended == phase = "ended" /\ UNCHANGED collectVars

CollectNext == Fetch \/ Step \/ LookupEnds \/ EmitFinding \/ EndContext \/ Ended

CollectSpec == CollectInit /\ [][CollectNext]_collectVars

(* The HTTP client gives every request 30 seconds, and the goroutines run. *)
(* Nothing is assumed of the runtime that takes the findings off out.      *)
FairSpec == CollectSpec /\ WF_collectVars(Fetch) /\ WF_collectVars(Step) /\ WF_collectVars(LookupEnds)

-----------------------------------------------------------------------------
(* Properties.                                                             *)

CollectTypeOK ==
    /\ listing \in Listings /\ {reported, documented, ctxDone} \subseteq BOOLEAN
    /\ cursor \in Nat /\ seen \subseteq Nat \ {NoCursor}
    /\ documented => cursor \in NoCursor..Len(listing) /\ seen \subseteq 1..Len(listing)
    /\ pages \in 0..MaxPages
    /\ all \in Seq(Items) /\ visits \in Seq(1..Len(listing))
    /\ phase \in {"list", "look", "acquire", "join", "leaving", "emit", "ended"}
    /\ lookup \in [DOMAIN lookup -> {"none", "running", "blankItem", "blankDetail"} \cup Found]
    /\ DOMAIN lookup \subseteq DOMAIN all
    /\ todo \subseteq DOMAIN lookup /\ sent \in Seq(Items)
    /\ returned \in {"none", "ok", "error", "canceled"}

Listed == phase \notin {"list", "ended"} \/ returned = "ok"
Twice(p) == \E i, j \in DOMAIN visits : i # j /\ visits[i] = p /\ visits[j] = p

(* What the code can vouch for when it takes a list for whole.  It compares*)
(* the server's count with what was fetched, duplicates and all, so what   *)
(* passes for whole has all the items unless some page came twice.  With   *)
(* the cursors of the API that is the first page alone, and no more can be *)
(* missing than it holds; another server may serve any page again.         *)
TruncationIsLoud ==
    Listed /\ reported =>
        \/ Items \subseteq ToSet(all)
        \/ /\ \E p \in DOMAIN listing : Twice(p)
           /\ documented => /\ \A p \in DOMAIN listing : Twice(p) => p = 1
                            /\ Cardinality(Items \ ToSet(all)) <= Len(listing[1])

(* What the comment of paginateAll says of it instead: where the server    *)
(* reports its count no truncation is silent.                              *)
NeverTruncatesSilently == Listed /\ reported => Items \subseteq ToSet(all)

(* With the cursors the API documents no page is skipped: the pages come in*)
(* order, the first one perhaps again, and up to the last one or to the cap*)
(* on pages.                                                               *)
NoPageIsSkipped ==
    documented =>
        /\ \A i \in 2..Len(visits) : visits[i] \in {1, visits[i - 1] + 1}
        /\ Listed => pages = MaxPages \/ ToSet(all) = Items

(* A vulnerability that was listed is not dropped because its lookup fails:*)
(* a success leaves out those only that have a blank name, in the list or, *)
(* if the lookup succeeds, in the details.  What is sent is in the order of*)
(* the sort and none of it twice, though the list had duplicates and the   *)
(* lookups end in any order.                                               *)
AllSent ==
    \A v \in ToSet(all) \ ToSet(sent) :
        \E i \in DOMAIN lookup :
            /\ all[i] = v
            /\ lookup[i] = "blankDetail" \/ (v \in Nameless /\ lookup[i] = "blankItem")
FindingsAreWhole ==
    /\ \A i, j \in DOMAIN sent : i < j => sent[i] < sent[j]
    /\ returned = "ok" => AllSent

(* collectFindings joins its workers on every path.                        *)
NoWorkerOutlives == phase = "ended" => Workers = {}

(* Whatever cursors the server sends the walk ends, and the job does not   *)
(* wait for a lookup for ever; cancelled it ends even if nobody takes its  *)
(* findings.                                                               *)
CollectionEnds ==
    /\ <>(phase \in {"emit", "ended"})
    /\ ctxDone ~> phase = "ended"

(* The collecting is what module AcunetixScan takes in two steps: the job  *)
(* lists, which fails, finds nothing or finds something, and then sends    *)
(* everything or is cancelled.  It is shown for a job on its own target.   *)
OfJob(v) == [j \in {"job"} |-> v]
JobPhase == IF phase = "list" THEN "collect"
            ELSE IF phase # "ended" THEN "emit"
            ELSE IF returned = "ok" THEN "cleanup" ELSE "ended"
Job == INSTANCE AcunetixScan WITH
    Jobs <- {"job"}, Owner <- "owner", owned <- FALSE,
    targets <- {"job"}, scans <- {"job"}, status <- OfJob("completed"),
    target <- OfJob("job"), created <- OfJob(TRUE),
    pc <- OfJob(JobPhase),
    emitted <- OfJob(returned = "ok" /\ AllSent), cancelled <- OfJob(ctxDone),
    outcome <- OfJob(IF returned = "ok" THEN "none" ELSE returned),
    troubled <- ctxDone \/ returned = "error"

(* Seen from the job around it nothing happens but what AcunetixScan says: *)
(* a list that fails or is cut short ends the job with an error, only a    *)
(* context that has ended makes it return early, and it goes on to clean up*)
(* after all was sent and not before.                                      *)
CollectsForItsJob ==
    /\ JobPhase = "collect"
    /\ [][Job!ListVulnerabilities("job") \/ Job!EmitFindings("job") \/ Job!Cancel("job")]_(Job!vars)
=============================================================================
