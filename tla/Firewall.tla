------------------------------ MODULE Firewall ------------------------------
(***************************************************************************)
(* internal/firewall: the ufw rule list the panel and the automatic        *)
(* blocking edit, and the enable that undoes itself unless the operator    *)
(* confirms.  rbMu guards the timer only; ufw commands run outside it and  *)
(* nothing orders two of them.                                             *)
(*                                                                         *)
(* The list is the IPv4 one: ufw keeps a twin of each row for IPv6.  ufw   *)
(* skips a rule it already has, so DeduplicateRules finds nothing to do.   *)
(***************************************************************************)
EXTENDS Naturals, Sequences, SequencesExt

CONSTANTS Ports,       \* ports of rules
          Protected,   \* protectedPorts: those that are never denied
          MaxRules,    \* bound: rows of the list
          MaxEnables   \* bound: enables with a rollback

ASSUME FirewallAssumption ==
    Protected \subseteq Ports /\ MaxRules \in Nat /\ MaxEnables \in Nat

VARIABLES ufwRules,    \* rows in the order ufw evaluates them
          ufwActive,   \* ufw denies what no row allows
          listening,   \* ports UWAS listens on, from the configuration
          enabler,     \* the EnableWithRollback under way
          mover,       \* the MoveRule under way
          rbTimer,     \* the current rollback timer, or 0
          timers,      \* rollbacks scheduled so far
          fired,       \* timers that fired and whose callback waits for rbMu
          disabling,   \* those past rbMu and about to run "ufw disable": the
                       \* callbacks by their timer, an operator's Disable as 0
          confirmed,   \* the operator confirmed the last enable
          overrun      \* history: an earlier "ufw disable" ran, or was still to run,
                       \* when the last enable set its timer

firewallVars == <<ufwRules, ufwActive, listening, enabler, mover, rbTimer, timers,
                  fired, disabling, confirmed, overrun>>
timerVars    == <<rbTimer, timers, fired, disabling, confirmed, overrun>>

Allow(p)    == [act |-> "allow", port |-> p, from |-> "any"]
Deny(p)     == [act |-> "deny", port |-> p, from |-> "any"]
DefaultDeny == Deny("any")
DenySource  == [act |-> "deny", port |-> "any", from |-> "source"]
FwRules     == {Allow(p) : p \in Ports} \cup {Deny(p) : p \in Ports} \cup {DefaultDeny, DenySource}
Resting     == [at |-> "idle"]

FirewallInit ==
    /\ ufwRules = <<>> /\ ufwActive = FALSE
    /\ listening \in {Protected, Ports}
    /\ enabler = Resting /\ mover = Resting
    /\ rbTimer = 0 /\ timers = 0 /\ fired = {} /\ disabling = {}
    /\ confirmed = FALSE /\ overrun = FALSE

-----------------------------------------------------------------------------
(* The rule list *)

Rows(P(_)) == {i \in 1 .. Len(ufwRules) : P(ufwRules[i])}
Least(S)   == CHOOSE i \in S : \A j \in S : i <= j
Has(r)     == r \in ToSet(ufwRules)

\* The row an allow is inserted at: the first that denies a port, else the
\* default deny, else none (0).  An inactive ufw lists its rows unnumbered.
AllowRow ==
    LET PortDeny(r) == r.act = "deny" /\ r.port # "any"
        Blanket(r)  == r = DefaultDeny
    IN IF ~ufwActive THEN 0
       ELSE IF Rows(PortDeny) # {} THEN Least(Rows(PortDeny))
       ELSE IF Rows(Blanket) # {} THEN Least(Rows(Blanket)) ELSE 0

\* "ufw insert n rule", or without a row the rule is appended.
Inserted(n, r) ==
    IF Has(r) THEN ufwRules
    ELSE IF n = 0 THEN Append(ufwRules, r) ELSE InsertAt(ufwRules, n, r)

\* addPortRule
WithAllow(p) == Inserted(AllowRow, Allow(p))

AllowPort(p) ==
    /\ Len(ufwRules) < MaxRules
    /\ ufwRules' = WithAllow(p)
    /\ UNCHANGED <<ufwActive, listening, enabler, mover, timerVars>>

DenyPort(p) ==
    /\ p \notin Protected /\ Len(ufwRules) < MaxRules
    /\ ufwRules' = Inserted(0, Deny(p))
    /\ UNCHANGED <<ufwActive, listening, enabler, mover, timerVars>>

DeleteRow(n) ==
    /\ ufwRules' = RemoveAt(ufwRules, n)
    /\ UNCHANGED <<ufwActive, listening, enabler, mover, timerVars>>

\* BlockIP inserts above everything; UnblockIP deletes by content the one row
\* there can be.
BlockSource ==
    /\ ufwRules # <<>> /\ Len(ufwRules) < MaxRules
    /\ ufwRules' = Inserted(1, DenySource)
    /\ UNCHANGED <<ufwActive, listening, enabler, mover, timerVars>>

UnblockSource ==
    /\ Has(DenySource)
    /\ LET IsSource(r) == r = DenySource IN ufwRules' = RemoveAt(ufwRules, Least(Rows(IsSource)))
    /\ UNCHANGED <<ufwActive, listening, enabler, mover, timerVars>>

\* MoveRule reads the numbered list ...
MoveReads(n, to) ==
    /\ mover = Resting /\ ufwActive
    /\ to \in {n - 1, n + 1} \cap (1 .. Len(ufwRules))
    /\ DefaultDeny \notin {ufwRules[n], ufwRules[to]}
    /\ mover' = [at |-> "delete", row |-> n, up |-> to < n,
                 rule |-> ufwRules[n], neighbor |-> ufwRules[to]]
    /\ UNCHANGED <<ufwRules, ufwActive, listening, enabler, timerVars>>

\* ... deletes by number, which may have changed meanwhile, or fails ...
MoveDeletes ==
    /\ mover.at = "delete"
    /\ \/ /\ mover.row <= Len(ufwRules) /\ ufwRules' = RemoveAt(ufwRules, mover.row)
          /\ mover' = [mover EXCEPT !.at = "insert"]
       \/ mover' = Resting /\ UNCHANGED ufwRules
    /\ UNCHANGED <<ufwActive, listening, enabler, timerVars>>

\* ... and puts the rule beside its neighbour, or back where it was.  Then
\* ensureDefaultDenyAtBottom.
MoveInserts ==
    LET IsNeighbor(r) == r = mover.neighbor
        beside == IF Rows(IsNeighbor) = {} \/ ~ufwActive THEN 0
                  ELSE Least(Rows(IsNeighbor)) + IF mover.up THEN 0 ELSE 1
        placed == IF beside \in 1 .. Len(ufwRules) THEN Inserted(beside, mover.rule)
                  ELSE Inserted(IF mover.row <= Len(ufwRules) /\ ufwActive THEN mover.row ELSE 0,
                                mover.rule)
    IN /\ mover.at = "insert"
       /\ ufwRules' = IF DefaultDeny \in ToSet(placed) THEN placed ELSE Append(placed, DefaultDeny)
       /\ mover' = Resting
       /\ UNCHANGED <<ufwActive, listening, enabler, timerVars>>

\* The listen addresses change with the configuration.
SetListen(s) ==
    /\ listening # s /\ listening' = s
    /\ UNCHANGED <<ufwRules, ufwActive, enabler, mover, timerVars>>

-----------------------------------------------------------------------------
(* Enable, confirm, disable *)

\* EnableWithRollback: the ports UWAS needs first,
StartEnable ==
    /\ enabler = Resting /\ timers < MaxEnables
    /\ enabler' = [at |-> "allow", todo |-> listening]
    /\ UNCHANGED <<ufwRules, ufwActive, listening, mover, timerVars>>

EnableAllows(p) ==
    /\ enabler.at = "allow" /\ p \in enabler.todo /\ Len(ufwRules) < MaxRules
    /\ ufwRules' = WithAllow(p)
    /\ enabler' = [enabler EXCEPT !.todo = @ \ {p}]
    /\ UNCHANGED <<ufwActive, listening, mover, timerVars>>

\* then the default deny at the bottom,
EnableDenies ==
    /\ enabler.at = "allow" /\ enabler.todo = {} /\ Len(ufwRules) < MaxRules
    /\ ufwRules' = Inserted(0, DefaultDeny)
    /\ enabler' = [at |-> "enable"]
    /\ UNCHANGED <<ufwActive, listening, mover, timerVars>>

\* then ufw, which may fail,
EnableUfw ==
    /\ enabler.at = "enable"
    /\ \/ ufwActive' = TRUE /\ enabler' = [at |-> "schedule"]
       \/ enabler' = Resting /\ UNCHANGED ufwActive
    /\ UNCHANGED <<ufwRules, listening, mover, timerVars>>

\* and last the timer, which replaces an earlier one.
ScheduleRollback ==
    /\ enabler.at = "schedule"
    /\ timers' = timers + 1 /\ rbTimer' = timers + 1 /\ confirmed' = FALSE
    /\ enabler' = Resting
    /\ overrun' = (~ufwActive \/ disabling # {})
    /\ UNCHANGED <<ufwRules, ufwActive, listening, mover, fired, disabling>>

\* A timer that was not stopped in time fires.
TimerFires ==
    /\ rbTimer # 0 /\ rbTimer \notin fired
    /\ fired' = fired \cup {rbTimer}
    /\ UNCHANGED <<ufwRules, ufwActive, listening, enabler, mover, rbTimer, timers,
                   disabling, confirmed, overrun>>

\* Mutant: the callback does not look whether its timer is still the current one.
CallbackOfAnyTimer(t) ==
    /\ t \in fired /\ fired' = fired \ {t}
    /\ rbTimer' = 0 /\ disabling' = disabling \cup {t}
    /\ UNCHANGED <<ufwRules, ufwActive, listening, enabler, mover, timers, confirmed, overrun>>

Callback(t) ==
    /\ t \in fired /\ fired' = fired \ {t}
    /\ IF rbTimer = t THEN rbTimer' = 0 /\ disabling' = disabling \cup {t}
       ELSE UNCHANGED <<rbTimer, disabling>>
    /\ UNCHANGED <<ufwRules, ufwActive, listening, enabler, mover, timers, confirmed, overrun>>

\* The command at the end of a callback or of Disable, which may fail; a
\* callback does not look whether it did.
RunDisable(t) ==
    /\ t \in disabling /\ disabling' = disabling \ {t}
    /\ ufwActive' \in {FALSE, ufwActive}
    /\ UNCHANGED <<ufwRules, listening, enabler, mover, rbTimer, timers, fired, confirmed, overrun>>

ConfirmEnable ==
    /\ rbTimer # 0 /\ rbTimer' = 0 /\ confirmed' = TRUE
    /\ UNCHANGED <<ufwRules, ufwActive, listening, enabler, mover, timers, fired, disabling, overrun>>

\* Disable, one at a time: cancelRollback, and after rbMu the command.
Disable ==
    /\ 0 \notin disabling /\ disabling' = disabling \cup {0}
    /\ rbTimer' = 0 /\ confirmed' = FALSE
    /\ UNCHANGED <<ufwRules, ufwActive, listening, enabler, mover, timers, fired, overrun>>

FirewallNext ==
    \/ \E p \in Ports : AllowPort(p) \/ DenyPort(p) \/ EnableAllows(p)
    \/ \E n \in 1 .. Len(ufwRules) : DeleteRow(n) \/ \E to \in 1 .. Len(ufwRules) : MoveReads(n, to)
    \/ BlockSource \/ UnblockSource \/ MoveDeletes \/ MoveInserts
    \/ \E s \in {Protected, Ports} : SetListen(s)
    \/ StartEnable \/ EnableDenies \/ EnableUfw \/ ScheduleRollback
    \/ TimerFires \/ ConfirmEnable \/ Disable
    \/ \E t \in 1 .. MaxEnables : Callback(t)
    \/ \E t \in 0 .. MaxEnables : RunDisable(t)

FirewallSpec == FirewallInit /\ [][FirewallNext]_firewallVars

-----------------------------------------------------------------------------
(* Properties *)

FirewallTypeOK ==
    /\ ufwRules \in Seq(FwRules) /\ ufwActive \in BOOLEAN /\ listening \subseteq Ports
    /\ enabler.at \in {"idle", "allow", "enable", "schedule"}
    /\ mover.at \in {"idle", "delete", "insert"}
    /\ timers \in 0 .. MaxEnables /\ rbTimer \in 0 .. timers
    /\ fired \subseteq 1 .. timers /\ disabling \subseteq 0 .. timers
    /\ confirmed \in BOOLEAN /\ overrun \in BOOLEAN

\* An enable the operator confirmed stays on until somebody calls Disable: no
\* timer of it, or of an earlier enable, that fired while it was being confirmed,
\* cancelled or replaced turns the firewall off (the callback's check,
\* rollback.go:67), and no Disable that began later runs unseen, for it takes the
\* confirmation back first.  The exception, of each enable alone, is a "ufw
\* disable" already on its way when the enable set its timer: an operator's,
\* between cancelRollback and its command (manager.go:408-409), or that of an
\* earlier enable's callback.  It may still come, and the Confirm does not see it.
ConfirmedStaysOn == confirmed /\ ~overrun => ufwActive
=============================================================================
