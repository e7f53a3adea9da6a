------------------------------ MODULE Bandwidth ------------------------------
(***************************************************************************)
(* internal/bandwidth and its place in handleRequest: a request of one     *)
(* domain takes a connection slot, meets the domain's traffic quota before *)
(* it is handled and is billed when it ends, refused or not.  A reload or  *)
(* an admin write first changes the routed domain and then the quota.  The *)
(* limits have the action "block"; "throttle" only sets a status field.    *)
(***************************************************************************)
EXTENDS Naturals, FiniteSets, FiniteSetsExt

CONSTANTS Visits,          \* concurrent requests of the domain
          MaxConnections,  \* global.max_connections
          Quotas,          \* limits a configuration may set, see Windows; NoQuota is one
          MaxChanges       \* bound: configuration changes

Windows == {"day", "month"}
NoQuota == [w \in Windows |-> 0]

\* Counters stop at the largest limit: what lies above is the same to all.
CountCap == Max({q[w] : q \in Quotas, w \in Windows})

ASSUME BandwidthAssumption ==
    /\ MaxConnections \in Nat \ {0} /\ MaxChanges \in Nat /\ IsFiniteSet(Visits)
    /\ NoQuota \in Quotas /\ Quotas \subseteq [Windows -> Nat]
    /\ CountCap \in Nat   \* there is a largest one

Sites == [on : BOOLEAN, quota : Quotas]
Gone  == [on |-> FALSE, quota |-> NoQuota]   \* the domain is not configured

VARIABLES slots,     \* tokens in s.connLimiter
          site,      \* what s.vhosts has for the domain: whether, and its quota
          limits,    \* m.limits[host], NoQuota when absent
          ledger,    \* m.usage[host]: [used, over, blocked, id]; over: windows that ended
          visit,     \* visit -> [pc, quota, limit, id]
          changes,   \* configuration changes so far
          outdated   \* history: `blocked' was last set from limits since replaced

bandwidthVars == <<slots, site, limits, ledger, visit, changes, outdated>>

\* A limit of 0 is none.
Exceeded(used, quota) == \E w \in Windows : quota[w] > 0 /\ used[w] >= quota[w]

Unused  == [w \in Windows |-> 0]
NewUsage(id) == [used |-> Unused, over |-> {}, blocked |-> FALSE, id |-> id]
Away    == [pc |-> "away", quota |-> NoQuota, limit |-> NoQuota, id |-> 0]

BandwidthInit ==
    /\ slots = 0
    /\ site \in {[on |-> TRUE, quota |-> q] : q \in Quotas} /\ limits = site.quota
    /\ ledger = NewUsage(0)
    /\ visit = [v \in Visits |-> Away]
    /\ changes = 0
    /\ outdated = FALSE

VisitTo(v, pc) == visit' = [visit EXCEPT ![v].pc = pc]

-----------------------------------------------------------------------------
(* handleRequest *)

\* A full connLimiter answers 503 before anything is recorded.
TakeSlot(v) ==
    /\ visit[v].pc = "away"
    /\ slots < MaxConnections
    /\ slots' = slots + 1
    /\ VisitTo(v, "lookup")
    /\ UNCHANGED <<site, limits, ledger, changes, outdated>>

\* The vhost lookup.  A request that no domain serves, and one answered
\* before the quota (client certificate, canonical host, Cloudflare origin,
\* maintenance), goes straight to the accounting.
LookupHost(v, answered) ==
    /\ visit[v].pc = "lookup"
    /\ visit' = [visit EXCEPT ![v].pc = IF answered \/ ~site.on THEN "record" ELSE "quota",
                              ![v].quota = site.quota]
    /\ UNCHANGED <<slots, site, limits, ledger, changes, outdated>>

\* IsBlocked, for a domain whose own configuration enables the quota
CheckQuota(v) ==
    /\ visit[v].pc = "quota"
    /\ VisitTo(v, IF visit[v].quota # NoQuota /\ ledger.blocked THEN "record" ELSE "handle")
    /\ UNCHANGED <<slots, site, limits, ledger, changes, outdated>>

\* The guards, the cache and the handler answer.
HandleVisit(v) ==
    /\ visit[v].pc = "handle"
    /\ VisitTo(v, "record")
    /\ UNCHANGED <<slots, site, limits, ledger, changes, outdated>>

\* Record, under m.mu: the limit and the ledger to bill
ReadLimit(v) ==
    /\ visit[v].pc = "record"
    /\ visit' = [visit EXCEPT ![v] = [@ EXCEPT !.pc = IF limits = NoQuota THEN "leave" ELSE "bill",
                                               !.limit = limits, !.id = ledger.id]]
    /\ UNCHANGED <<slots, site, limits, ledger, changes, outdated>>

\* Record, under usage.mu; a HEAD request bills no bytes.  A ledger dropped
\* meanwhile is billed to no effect.
Bill(v, bytes) ==
    /\ visit[v].pc = "bill"
    /\ VisitTo(v, "leave")
    /\ IF visit[v].id # ledger.id THEN UNCHANGED <<ledger, outdated>>
       ELSE LET added(w) == (IF w \in ledger.over THEN 0 ELSE ledger.used[w]) + bytes
                used     == [w \in Windows |-> IF added(w) > CountCap THEN CountCap ELSE added(w)]
            IN /\ ledger' = [ledger EXCEPT !.used = used, !.over = {},
                                           !.blocked = Exceeded(used, visit[v].limit)]
               /\ outdated' = (visit[v].limit # limits)
    /\ UNCHANGED <<slots, site, limits, changes>>

\* Mutant: the slot is not given back.
LeaveKeepsSlot(v) ==
    /\ visit[v].pc = "leave"
    /\ visit' = [visit EXCEPT ![v] = Away]
    /\ UNCHANGED <<slots, site, limits, ledger, changes, outdated>>

\* The deferred receive from connLimiter
LeaveSlot(v) ==
    /\ visit[v].pc = "leave"
    /\ slots' = slots - 1
    /\ visit' = [visit EXCEPT ![v] = Away]
    /\ UNCHANGED <<site, limits, ledger, changes, outdated>>

-----------------------------------------------------------------------------
(* Time, the admin API and configuration changes *)

WindowEnds(w) ==
    /\ w \notin ledger.over
    /\ ledger' = [ledger EXCEPT !.over = @ \cup {w}]
    /\ UNCHANGED <<slots, site, limits, visit, changes, outdated>>

ResetUsage ==
    /\ ledger' = NewUsage(ledger.id)
    /\ outdated' = FALSE
    /\ UNCHANGED <<slots, site, limits, visit, changes>>

RouteDomain(new) ==
    /\ changes < MaxChanges
    /\ site # new /\ site' = new
    /\ changes' = changes + 1
    /\ UNCHANGED <<slots, limits, ledger, visit, outdated>>

\* Mutant: new limits wait for the next request.
UpdateLimitsOnly ==
    /\ limits' = site.quota
    /\ ledger' = IF site.on THEN ledger ELSE NewUsage(changes)
    /\ outdated' = FALSE
    /\ UNCHANGED <<slots, site, visit, changes>>

\* UpdateDomains: an unconfigured domain loses its ledger, a quota is applied
\* at once, and without one the ledger stays as it is.
UpdateLimits ==
    /\ limits' = site.quota
    /\ ledger' = IF ~site.on THEN NewUsage(changes)
                 ELSE IF site.quota = NoQuota THEN ledger
                 ELSE [ledger EXCEPT !.blocked = Exceeded(ledger.used, site.quota)]
    /\ outdated' = FALSE
    /\ UNCHANGED <<slots, site, visit, changes>>

-----------------------------------------------------------------------------
VisitStep(v) ==
    \/ TakeSlot(v) \/ CheckQuota(v) \/ HandleVisit(v) \/ ReadLimit(v) \/ LeaveSlot(v)
    \/ \E answered \in BOOLEAN : LookupHost(v, answered)
    \/ \E bytes \in 0..1 : Bill(v, bytes)

BandwidthNext ==
    \/ \E v \in Visits : VisitStep(v)
    \/ \E w \in Windows : WindowEnds(w)
    \/ \E q \in Quotas : RouteDomain([on |-> TRUE, quota |-> q])
    \/ RouteDomain(Gone)
    \/ ResetUsage \/ UpdateLimits

BandwidthSpec == BandwidthInit /\ [][BandwidthNext]_bandwidthVars

-----------------------------------------------------------------------------
(* Properties *)

BandwidthTypeOK ==
    /\ slots = Cardinality({v \in Visits : visit[v].pc # "away"}) /\ slots <= MaxConnections
    /\ site \in Sites /\ limits \in Quotas
    /\ ledger \in [used : [Windows -> 0..CountCap], over : SUBSET Windows,
                   blocked : BOOLEAN, id : 0..MaxChanges]
    /\ visit \in [Visits -> [pc : {"away", "lookup", "quota", "handle", "record", "bill", "leave"},
                             quota : Quotas, limit : Quotas, id : 0..MaxChanges]]
    /\ changes \in 0..MaxChanges /\ outdated \in BOOLEAN

\* A domain with a quota is refused exactly while its counters reach one of
\* the limits in force: a raised or lowered limit, a reset, a window that
\* ends, a limit switched off and on again, or a domain removed and added
\* again never leave the flag behind.  The one exception is a Record that
\* read its limits before they were replaced and set the flag after; the next
\* request of the domain, even one refused by that flag, sets it right.
BlockFollowsQuota ==
    (limits # NoQuota /\ ~outdated) => (ledger.blocked <=> Exceeded(ledger.used, limits))
=============================================================================
