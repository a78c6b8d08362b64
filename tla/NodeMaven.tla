----------------------------- MODULE NodeMaven -----------------------------
(***************************************************************************)
(* FetchAllNodeMaven (internal/sources/nodemaven.go): one request for the  *)
(* number of proxies, then a goroutine per page, which shares a semaphore, *)
(* sends its page on a channel and is waited for by the goroutine that     *)
(* closes it.  A page lists proxies in the spelling of the API: protocol   *)
(* in either case, port as a number or as a string.                        *)
(***************************************************************************)
EXTENDS Naturals, Sequences, FiniteSets, SequencesExt

CONSTANTS
    Listing,        \* the pages of the API: sequences of [key, spelling]
    PerPage,        \* NODEMAVEN_PER_PAGE
    MaxPages,       \* NODEMAVEN_MAX_PAGES
    MavenSlots      \* NODEMAVEN_CONCURRENCY

MavenItems == UNION {Range(Listing[p]) : p \in DOMAIN Listing}

ASSUME NodeMavenAssumption ==
    /\ {PerPage, MaxPages, MavenSlots} \subseteq Nat \ {0}
    /\ Listing \in Seq(Seq(MavenItems))
    /\ \A p \in DOMAIN Listing : Len(Listing[p]) <= PerPage

PageNumbers == DOMAIN Listing

VARIABLES
    mpc,        \* where FetchAllNodeMaven is
    pages,      \* totalPages
    ppc,        \* where the goroutine of each page is
    page,       \* what it was answered
    outCh,      \* the channel, buffered for every page, and whether it is closed
    closed,
    merged      \* out: the proxies returned so far

mavenVars == <<mpc, pages, ppc, page, outCh, closed, merged>>

FailedPage == [ok |-> FALSE, items |-> <<>>]
Page(items) == [ok |-> TRUE, items |-> items]

MavenInit ==
    /\ mpc = "probe" /\ pages = 0
    /\ ppc = [p \in PageNumbers |-> "none"]
    /\ page = [p \in PageNumbers |-> FailedPage]
    /\ outCh = <<>> /\ closed = FALSE
    /\ merged = <<>>

PagesFor(total) ==
    LET all == (total + PerPage - 1) \div PerPage
    IN IF all > MaxPages THEN MaxPages ELSE all

\* FetchPage(1, 1): an error or an empty list is the answer, else the pages are
\* asked for.  The list may since have changed.
ProbeTotal ==
    /\ mpc = "probe"
    /\ \/ mpc' = "failed" /\ UNCHANGED <<pages, ppc>>
       \/ \E total \in 0 .. PerPage * Len(Listing) :
             /\ pages' = PagesFor(total)
             /\ mpc' = IF total = 0 THEN "returned" ELSE "collect"
             /\ ppc' = [p \in PageNumbers |-> IF p <= PagesFor(total) THEN "started" ELSE "none"]
    /\ UNCHANGED <<page, outCh, closed, merged>>

SlotsHeldLeaked ==      \* mutant: a page that failed keeps its slot
    {p \in PageNumbers : ppc[p] = "fetching"
                         \/ (ppc[p] \in {"fetched", "sent", "done"} /\ ~page[p].ok)}
SlotsHeld == {p \in PageNumbers : ppc[p] \in {"fetching", "fetched", "sent"}}

PageGoes(p, where) == ppc' = [ppc EXCEPT ![p] = where]

Acquire(p) ==
    /\ ppc[p] = "started"
    /\ Cardinality(SlotsHeld) < MavenSlots
    /\ PageGoes(p, "fetching")
    /\ UNCHANGED <<mpc, pages, page, outCh, closed, merged>>

FetchPage(p) ==
    /\ ppc[p] = "fetching"
    /\ page' \in {page, [page EXCEPT ![p] = Page(Listing[p])]}
    /\ PageGoes(p, "fetched")
    /\ UNCHANGED <<mpc, pages, outCh, closed, merged>>

SendPage(p) ==
    /\ ppc[p] = "fetched"
    /\ outCh' = Append(outCh, page[p])
    /\ PageGoes(p, "sent")
    /\ UNCHANGED <<mpc, pages, page, closed, merged>>

\* The deferred calls: the slot, and wg.Done.
PageDone(p) ==
    /\ ppc[p] = "sent"
    /\ PageGoes(p, "done")
    /\ UNCHANGED <<mpc, pages, page, outCh, closed, merged>>

AllDone == \A p \in 1 .. pages : ppc[p] = "done"

CloseChannel ==
    /\ mpc = "collect" /\ ~closed
    /\ AllDone
    /\ closed' = TRUE
    /\ UNCHANGED <<mpc, pages, ppc, page, outCh, merged>>

KeyOf(item) == item.key         \* the protocol in upper case, and the port as a number
SeenAsSpelt(item, out) == \E i \in DOMAIN out : out[i] = item   \* mutant: the spelling is part of the key
Seen(item, out) == \E i \in DOMAIN out : KeyOf(out[i]) = KeyOf(item)

Merge(out, items) ==
    FoldLeft(LAMBDA acc, item : IF Seen(item, acc) THEN acc ELSE Append(acc, item), out, items)

\* The range over the channel: a page that failed is skipped.
ReceivePage ==
    /\ mpc = "collect" /\ outCh # <<>>
    /\ merged' = Merge(merged, Head(outCh).items)
    /\ outCh' = Tail(outCh)
    /\ UNCHANGED <<mpc, pages, ppc, page, closed>>

ChannelDrained ==
    /\ mpc = "collect" /\ outCh = <<>> /\ closed
    /\ mpc' = "returned"
    /\ UNCHANGED <<pages, ppc, page, outCh, closed, merged>>

MavenNext ==
    \/ ProbeTotal
    \/ \E p \in PageNumbers : Acquire(p) \/ FetchPage(p) \/ SendPage(p) \/ PageDone(p)
    \/ CloseChannel \/ ReceivePage \/ ChannelDrained

\* Every request has a timeout.
MavenFairness == WF_mavenVars(MavenNext)

MavenSpec == MavenInit /\ [][MavenNext]_mavenVars /\ MavenFairness

-----------------------------------------------------------------------------
Keys(items) == {KeyOf(items[i]) : i \in DOMAIN items}

\* Every proxy of every page that was answered is returned once, in whatever
\* order the pages come, and however the API spells it on two of them.
PagesMerged ==
    mpc = "returned" =>
        /\ Keys(merged) = UNION {Keys(Listing[p]) : p \in {q \in 1 .. pages : page[q].ok}}
        /\ \A i, j \in DOMAIN merged : KeyOf(merged[i]) = KeyOf(merged[j]) => i = j

\* A fetch of pages returns, although some fail and all share few slots.
MavenReturns == mpc = "collect" ~> mpc = "returned"
=============================================================================
