----------------------------- MODULE PageRefresh -----------------------------
(***************************************************************************)
(* internal/server/server_revalidate.go: requests that find a cached page  *)
(* stale serve it and schedule a refresh behind it, one per page and a     *)
(* bounded number over all.  The pages are those of one domain; what the   *)
(* cache tiers do with an entry is the subject of CacheTiers.              *)
(***************************************************************************)
EXTENDS Naturals, FiniteSets

CONSTANTS Pages,        \* cache keys
          Readers,      \* concurrent requests
          MaxRefreshes  \* maxConcurrentRevalidations

ASSUME PageRefreshAssumption ==
    MaxRefreshes \in Nat \ {0} /\ IsFiniteSet(Pages) /\ IsFiniteSet(Readers)

VARIABLES page,          \* cache entry of each key: "none", "fresh" or "stale"
          revalidating,  \* s.revalidating: keys whose refresh is guarded
          revalActive,   \* s.revalActive
          reader,        \* reader -> [pc, page]
          refresh        \* key -> goroutines refreshing it, by what they do next

refreshVars == <<page, revalidating, revalActive, reader, refresh>>

ReaderTo(r, pc) == reader' = [reader EXCEPT ![r].pc = pc]
PageOf(r)       == reader[r].page

RefreshInit ==
    /\ page = [k \in Pages |-> "none"]
    /\ revalidating = {} /\ revalActive = 0
    /\ reader \in [Readers -> [pc : {"rest"}, page : Pages]]
    /\ refresh = [k \in Pages |-> [run |-> 0, uncount |-> 0, unmark |-> 0]]

Handover(k, from, to) ==
    refresh' = [refresh EXCEPT ![k][from] = @ - 1, ![k][to] = @ + 1]

-----------------------------------------------------------------------------
(* handleRequest, from the cache lookup on *)

\* A request the cache is bypassed for is no concern of this module.
ReadPage(r, k) ==
    /\ reader[r].pc = "rest"
    /\ reader' = [reader EXCEPT ![r] = [pc |-> CASE page[k] = "fresh" -> "rest"
                                                 [] page[k] = "stale" -> "mark"
                                                 [] OTHER             -> "fetch", page |-> k]]
    /\ UNCHANGED <<page, revalidating, revalActive, refresh>>

\* The handler answers, and the answer is stored when it is cacheable.
FetchPage(r, cacheable) ==
    /\ reader[r].pc = "fetch"
    /\ page' = IF cacheable THEN [page EXCEPT ![PageOf(r)] = "fresh"] ELSE page
    /\ ReaderTo(r, "rest")
    /\ UNCHANGED <<revalidating, revalActive, refresh>>

-----------------------------------------------------------------------------
(* scheduleRevalidate *)

\* LoadOrStore
Mark(r) ==
    /\ reader[r].pc = "mark"
    /\ ReaderTo(r, IF PageOf(r) \in revalidating THEN "rest" ELSE "count")
    /\ revalidating' = revalidating \cup {PageOf(r)}
    /\ UNCHANGED <<page, revalActive, refresh>>

CountRefresh(r) ==
    /\ reader[r].pc = "count"
    /\ revalActive' = revalActive + 1
    /\ ReaderTo(r, IF revalActive + 1 > MaxRefreshes THEN "uncount" ELSE "recheck")
    /\ UNCHANGED <<page, revalidating, refresh>>

\* The entry may have become fresh since the request looked it up.
Recheck(r) ==
    /\ reader[r].pc = "recheck"
    /\ IF page[PageOf(r)] # "stale"
       THEN ReaderTo(r, "uncount") /\ UNCHANGED refresh
       ELSE /\ refresh' = [refresh EXCEPT ![PageOf(r)].run = @ + 1]
            /\ ReaderTo(r, "rest")
    /\ UNCHANGED <<page, revalidating, revalActive>>

\* Mutant: a request over the cap gives back its count and keeps the mark.
UncountKeepsMark(r) ==
    /\ reader[r].pc = "uncount"
    /\ revalActive' = revalActive - 1
    /\ ReaderTo(r, "rest")
    /\ UNCHANGED <<page, revalidating, refresh>>

Uncount(r) ==
    /\ reader[r].pc = "uncount"
    /\ revalActive' = revalActive - 1
    /\ ReaderTo(r, "unmark")
    /\ UNCHANGED <<page, revalidating, refresh>>

Unmark(r) ==
    /\ reader[r].pc = "unmark"
    /\ revalidating' = revalidating \ {PageOf(r)}
    /\ ReaderTo(r, "rest")
    /\ UNCHANGED <<page, revalActive, refresh>>

-----------------------------------------------------------------------------
(* runRevalidate and its deferred clean-up *)

\* The answer is stored, or it cannot be and the entry is dropped; without
\* an answer, or after a panic, the entry is left.
RefreshEnds(k, outcome) ==
    /\ refresh[k].run > 0
    /\ page' = [page EXCEPT ![k] = IF outcome = "left" THEN @ ELSE outcome]
    /\ Handover(k, "run", "uncount")
    /\ UNCHANGED <<revalidating, revalActive, reader>>

RefreshUncounts(k) ==
    /\ refresh[k].uncount > 0
    /\ revalActive' = revalActive - 1
    /\ Handover(k, "uncount", "unmark")
    /\ UNCHANGED <<page, revalidating, reader>>

RefreshUnmarks(k) ==
    /\ refresh[k].unmark > 0
    /\ revalidating' = revalidating \ {k}
    /\ refresh' = [refresh EXCEPT ![k].unmark = @ - 1]
    /\ UNCHANGED <<page, revalActive, reader>>

\* Its TTL or its grace period ends, or it is purged.
PageAges(k, to) ==
    /\ page[k] # "none" /\ page[k] # to
    /\ page' = [page EXCEPT ![k] = to]
    /\ UNCHANGED <<revalidating, revalActive, reader, refresh>>

-----------------------------------------------------------------------------
RefreshNext ==
    \/ \E r \in Readers :
          \/ Mark(r) \/ CountRefresh(r) \/ Recheck(r) \/ Uncount(r) \/ Unmark(r)
          \/ \E k \in Pages : ReadPage(r, k)
          \/ \E c \in BOOLEAN : FetchPage(r, c)
    \/ \E k \in Pages :
          \/ RefreshUncounts(k) \/ RefreshUnmarks(k)
          \/ \E o \in {"fresh", "none", "left"} : RefreshEnds(k, o)
          \/ \E to \in {"stale", "none"} : PageAges(k, to)

RefreshSpec == RefreshInit /\ [][RefreshNext]_refreshVars

-----------------------------------------------------------------------------
(* Properties *)

RefreshTypeOK ==
    /\ page \in [Pages -> {"none", "fresh", "stale"}]
    /\ revalidating \in SUBSET Pages
    /\ revalActive \in 0..(Cardinality(Readers) + Cardinality(Pages))
    /\ reader \in [Readers -> [pc : {"rest", "fetch", "mark", "count", "recheck", "uncount", "unmark"},
                               page : Pages]]
    /\ refresh \in [Pages -> [run : 0..1, uncount : 0..1, unmark : 0..1]]

\* Requests past the guard for key k, and goroutines that hold it
Holders(k) == Cardinality({r \in Readers : PageOf(r) = k
                              /\ reader[r].pc \in {"count", "recheck", "uncount", "unmark"}})
              + refresh[k].run + refresh[k].uncount + refresh[k].unmark

\* The guard of a key is held exactly while one request or goroutine holds
\* it, and revalActive counts those that hold it and were counted: the path
\* over the cap, the page found fresh and the refresh that failed or panicked
\* all give back both, and no page is refreshed twice at once.  A guard left
\* behind would keep its page stale until it expires.
GuardHeldByOne ==
    /\ \A k \in Pages : Holders(k) = IF k \in revalidating THEN 1 ELSE 0
    /\ Cardinality({k \in Pages : refresh[k].run > 0}) <= MaxRefreshes
    /\ revalActive = Cardinality({r \in Readers : reader[r].pc \in {"recheck", "uncount"}})
                     + Cardinality({k \in Pages : refresh[k].run + refresh[k].uncount > 0})
=============================================================================
