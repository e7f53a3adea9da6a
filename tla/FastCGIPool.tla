----------------------------- MODULE FastCGIPool -----------------------------
(***************************************************************************)
(* pkg/fastcgi: the bounded pool of connections to one PHP-FPM socket, and *)
(* the requests of handler/fastcgi that draw from it.  A connection has no *)
(* identity: the pool counts them, a request holds one.  Age and a peer    *)
(* that hung up are choices of the step that would notice.                 *)
(***************************************************************************)
EXTENDS Naturals, FiniteSets

CONSTANTS PhpRequests,
          MaxOpen,      \* 64
          MaxIdle       \* 10

ASSUME FastCGIPoolAssumption ==
    MaxOpen \in Nat \ {0} /\ MaxIdle \in Nat \ {0} /\ IsFiniteSet(PhpRequests)

VARIABLES idle,      \* connections in the channel p.idle
          active,    \* p.active
          freed,     \* tokens in the channel p.freed
          closing,   \* progress of Close
          php        \* request -> [pc, reused, mayRetry, then]

poolVars == <<idle, active, freed, closing, php>>

\* holds or is getting a connection slot
Holding == {"dial", "exec", "put", "free"}
PhpPcs  == Holding \cup {"rest", "get", "reserve", "wait", "woken", "wake"}

\* mayRetry: a request without a body that was not retried yet
Rest == [pc |-> "rest", reused |-> FALSE, mayRetry |-> FALSE, then |-> "rest"]

At(pcs)      == {r \in PhpRequests : php[r].pc \in pcs}
GoTo(r, pc)  == php' = [php EXCEPT ![r] = IF pc = "rest" THEN Rest
                                           ELSE [@ EXCEPT !.pc = pc, !.then = "rest"]]
IdleClosed   == closing \in {"drain", "held", "drained"}  \* close(p.idle) was called

PoolInit ==
    /\ idle = 0 /\ active = 0 /\ freed = 0
    /\ closing = "open"
    /\ php = [r \in PhpRequests |-> Rest]

-----------------------------------------------------------------------------
(* release: the slot, then a token for a waiter *)

\* Mutant: the slot is given back and nobody is told.
FreeSlotSilently(r) ==
    /\ php[r].pc = "free"
    /\ active' = active - 1
    /\ GoTo(r, php[r].then)
    /\ UNCHANGED <<idle, freed, closing>>

FreeSlot(r) ==
    /\ php[r].pc = "free"
    /\ active' = active - 1
    /\ php' = [php EXCEPT ![r].pc = "wake"]
    /\ UNCHANGED <<idle, freed, closing>>

WakeWaiter(r) ==
    /\ php[r].pc = "wake"
    /\ freed' = IF freed < MaxOpen THEN freed + 1 ELSE freed
    /\ GoTo(r, php[r].then)
    /\ UNCHANGED <<idle, active, closing>>

\* Close the connection, release its slot and go on at pc.
Release(r, pc) ==
    php' = [php EXCEPT ![r] = [@ EXCEPT !.pc = "free", !.then = pc, !.reused = FALSE,
                                        !.mayRetry = php[r].mayRetry /\ pc # "rest"]]

-----------------------------------------------------------------------------
(* Get *)

AskPhp(r, bodyless) ==
    /\ php[r].pc = "rest"
    /\ php' = [php EXCEPT ![r].pc = "get", ![r].mayRetry = bodyless]
    /\ UNCHANGED <<idle, active, freed, closing>>

\* From either loop of Get: an idle connection too old is closed and the loop
\* goes round again.
TakeIdle(r, old) ==
    /\ php[r].pc \in {"get", "wait"}
    /\ idle > 0
    /\ idle' = idle - 1
    /\ IF old THEN Release(r, php[r].pc)
       ELSE php' = [php EXCEPT ![r].pc = "exec", ![r].reused = TRUE]
    /\ UNCHANGED <<active, freed, closing>>

\* ErrPoolClosed, once Close or the other requests have emptied the channel
RefusedClosed(r) ==
    /\ php[r].pc \in {"get", "wait"}
    /\ IdleClosed /\ idle = 0
    /\ GoTo(r, "rest")
    /\ UNCHANGED <<idle, active, freed, closing>>

NoneIdle(r) ==
    /\ php[r].pc = "get"
    /\ idle = 0 /\ ~IdleClosed
    /\ GoTo(r, "reserve")
    /\ UNCHANGED <<idle, active, freed, closing>>

Reserve(r) ==
    /\ php[r].pc \in {"reserve", "woken"}
    /\ IF active < MaxOpen
       THEN active' = active + 1 /\ GoTo(r, "dial")
       ELSE UNCHANGED active /\ GoTo(r, "wait")
    /\ UNCHANGED <<idle, freed, closing>>

Woken(r) ==
    /\ php[r].pc = "wait"
    /\ freed > 0
    /\ freed' = freed - 1
    /\ GoTo(r, "woken")
    /\ UNCHANGED <<idle, active, closing>>

\* The 30 s timer, or the client is gone.
GiveUpWaiting(r) ==
    /\ php[r].pc = "wait"
    /\ GoTo(r, "rest")
    /\ UNCHANGED <<idle, active, freed, closing>>

\* create
DialPhp(r, ok) ==
    /\ php[r].pc = "dial"
    /\ IF ok THEN GoTo(r, "exec")
       ELSE Release(r, "rest")
    /\ UNCHANGED <<idle, active, freed, closing>>

-----------------------------------------------------------------------------
(* Execute and ServeWith *)

\* Answered, and the body was sent in full
Answered(r) ==
    /\ php[r].pc = "exec"
    /\ GoTo(r, "put")
    /\ UNCHANGED <<idle, active, freed, closing>>

\* A read or write failed, the application answered early or too much, or the
\* client left.  The deferred Discard runs before ServeWith looks at the
\* error; silent: no record was received and the client is still there.
Broken(r, silent) ==
    /\ php[r].pc = "exec"
    /\ IF php[r].reused /\ silent /\ php[r].mayRetry
       THEN php' = [php EXCEPT ![r] = [Rest EXCEPT !.pc = "free", !.then = "get"]]
       ELSE Release(r, "rest")
    /\ UNCHANGED <<idle, active, freed, closing>>

\* Mutant: a connection the idle list has no room for is closed, its slot kept.
PutKeepsSlot(r) ==
    /\ php[r].pc = "put"
    /\ IF closing = "open" /\ idle < MaxIdle THEN idle' = idle + 1 ELSE UNCHANGED idle
    /\ GoTo(r, "rest")
    /\ UNCHANGED <<active, freed, closing>>

\* Put, under p.mu
PutBack(r) ==
    /\ php[r].pc = "put"
    /\ IF closing = "open" /\ idle < MaxIdle
       THEN idle' = idle + 1 /\ GoTo(r, "rest")
       ELSE UNCHANGED idle /\ Release(r, "rest")
    /\ UNCHANGED <<active, freed, closing>>

-----------------------------------------------------------------------------
(* Close: the flag under p.mu, then the channel, then what it still holds *)

CloseStep(from, to) == closing = from /\ closing' = to

ClosePool ==
    /\ \/ CloseStep("open", "closed") /\ UNCHANGED <<idle, active>>
       \/ CloseStep("closed", "drain") /\ UNCHANGED <<idle, active>>
       \/ CloseStep("drain", "held") /\ idle > 0 /\ idle' = idle - 1 /\ UNCHANGED active
       \/ CloseStep("held", "drain") /\ active' = active - 1 /\ UNCHANGED idle
       \/ CloseStep("drain", "drained") /\ idle = 0 /\ UNCHANGED <<idle, active>>
    /\ UNCHANGED <<freed, php>>

-----------------------------------------------------------------------------
PhpStep(r) ==
    \/ \E b \in BOOLEAN : AskPhp(r, b) \/ TakeIdle(r, b) \/ DialPhp(r, b) \/ Broken(r, b)
    \/ RefusedClosed(r) \/ NoneIdle(r) \/ Reserve(r) \/ Woken(r) \/ GiveUpWaiting(r)
    \/ Answered(r) \/ PutBack(r) \/ FreeSlot(r) \/ WakeWaiter(r)

PoolNext == (\E r \in PhpRequests : PhpStep(r)) \/ ClosePool

PoolSpec == PoolInit /\ [][PoolNext]_poolVars

-----------------------------------------------------------------------------
(* Properties *)

PoolTypeOK ==
    /\ idle \in 0..MaxIdle /\ active \in 0..MaxOpen /\ freed \in 0..MaxOpen
    /\ closing \in {"open", "closed", "drain", "held", "drained"}
    /\ php \in [PhpRequests -> [pc : PhpPcs, reused : BOOLEAN, mayRetry : BOOLEAN,
                               then : {"rest", "get", "wait"}]]

\* Every slot p.active counts is a connection somebody holds or one in the
\* idle list, on every path by which Get, create, Execute, Put and Close part
\* with one: a slot lost on any of them would starve the domain for good.
SlotsMatchConnections ==
    active = idle + Cardinality(At(Holding)) + (IF closing = "held" THEN 1 ELSE 0)

\* A Get that waits for a slot cannot sleep beside a free one: while it waits
\* there is, for each free slot, a token in p.freed, a release about to send
\* one, or another waiter that took one and is about to reserve.  (Once the
\* channel p.idle is closed, its closing wakes everyone.)
NoLostWakeup ==
    (At({"wait"}) # {} /\ ~IdleClosed)
        => MaxOpen - active <= freed + Cardinality(At({"wake", "woken"}))
=============================================================================
