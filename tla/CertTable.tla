------------------------------ MODULE CertTable ------------------------------
(***************************************************************************)
(* internal/tls: the certificate table of one host while the domain list   *)
(* is reloaded.  LoadManualCerts puts the operator's certificate in and    *)
(* takes it out again, ACME orders (CertIssuance) store theirs, and the    *)
(* OCSP pass swaps in copies with a fresh staple.  A process that starts   *)
(* with no domain configured serves every pair it finds.  Certificates are *)
(* compared as pointers: every load and every order makes a new one.       *)
(***************************************************************************)
EXTENDS Naturals

CONSTANTS MaxLoads,    \* bound: certificates loaded or issued
          MaxReloads   \* bound: reloads and restarts

ASSUME CertTableAssumption == MaxLoads \in Nat /\ MaxReloads \in Nat

VARIABLES mode,        \* ssl.mode of the host in m.domains
          bare,        \* the process started with no domain configured
          applying,    \* UpdateDomains has yet to run LoadManualCerts
          served,         \* m.certs[host]
          manual,      \* m.manualCerts[host]
          refreshing,  \* the certificate whose staple is being fetched
          loaded,      \* certificates loaded or issued so far
          reloads

tableVars == <<mode, bare, applying, served, manual, refreshing, loaded, reloads>>

Modes  == {"auto", "manual", "off"}
Sources == {"none", "acme", "manual", "uploaded", "given"}
Pointer   == [src : Sources, id : 0 .. MaxLoads, staple : BOOLEAN]
NoPointer == [src |-> "none", id |-> 0, staple |-> FALSE]

TableInit ==
    /\ mode \in Modes /\ bare = FALSE /\ applying = TRUE
    /\ served = NoPointer /\ manual = NoPointer /\ refreshing = NoPointer
    /\ loaded = 0 /\ reloads = 0

NextPointer == loaded + 1
NewPointer == loaded < MaxLoads /\ loaded' = NextPointer

-----------------------------------------------------------------------------
(* Actions *)

\* An order ends, one begun before the last reload included.
AcmeStores ==
    /\ NewPointer
    /\ served' = [src |-> "acme", id |-> NextPointer, staple |-> FALSE]
    /\ UNCHANGED <<mode, bare, applying, manual, refreshing, reloads>>

\* RegisterCert: m.certs alone learns of the certificate.
RegisterCert ==
    /\ NewPointer
    /\ served' = [src |-> "given", id |-> NextPointer, staple |-> FALSE]
    /\ UNCHANGED <<mode, bare, applying, manual, refreshing, reloads>>

\* UpdateDomains publishes the new domain list ...
Reconfigure(m) ==
    /\ reloads < MaxReloads /\ reloads' = reloads + 1
    /\ mode' = m /\ applying' = TRUE
    /\ UNCHANGED <<bare, served, manual, refreshing, loaded>>

\* ... then LoadManualCerts brings the table in line with it, under manualMu:
\* a pair that does not parse keeps the previous certificate, and only the
\* certificate an earlier pass stored is taken out.
LoadManualCerts ==
    /\ applying /\ applying' = FALSE
    /\ CASE mode = "manual" ->
              \/ /\ NewPointer
                 /\ served' = [src |-> "manual", id |-> NextPointer, staple |-> FALSE]
                 /\ manual' = served'
              \/ UNCHANGED <<served, manual, loaded>>
         [] mode = "auto" -> UNCHANGED <<served, manual, loaded>>
         [] OTHER ->
              /\ served' = IF manual # NoPointer /\ served = manual THEN NoPointer ELSE served
              /\ manual' = NoPointer
              /\ UNCHANGED loaded
    /\ UNCHANGED <<mode, bare, refreshing, reloads>>

RefreshStart ==
    /\ refreshing = NoPointer /\ served # NoPointer /\ ~served.staple
    /\ refreshing' = served
    /\ UNCHANGED <<mode, bare, applying, served, manual, loaded, reloads>>

\* Mutant: the copy is put in m.certs alone.
RefreshSwapInCerts ==
    /\ refreshing # NoPointer
    /\ served' = IF served = refreshing THEN [refreshing EXCEPT !.staple = TRUE] ELSE served
    /\ refreshing' = NoPointer
    /\ UNCHANGED <<mode, bare, applying, manual, loaded, reloads>>

\* The responder answered: swap the copy in, in both tables, under manualMu,
\* unless the certificate was replaced; or it did not answer.
RefreshSwap ==
    /\ refreshing # NoPointer
    /\ \/ LET fresh == [refreshing EXCEPT !.staple = TRUE] IN
          /\ served' = IF served = refreshing THEN fresh ELSE served
          /\ manual' = IF served = refreshing /\ manual = refreshing THEN fresh ELSE manual
       \/ UNCHANGED <<served, manual>>
    /\ refreshing' = NoPointer
    /\ UNCHANGED <<mode, bare, applying, loaded, reloads>>

\* The process restarts: LoadExistingCerts may find a saved order, or, with no
\* domain at all configured, an uploaded pair; then LoadManualCerts runs.
TableRestart ==
    /\ reloads < MaxReloads /\ reloads' = reloads + 1
    /\ bare' \in BOOLEAN /\ (bare' => mode = "off")
    /\ \/ /\ NewPointer
          /\ \E src \in {"acme", "uploaded"} :
               /\ src = "uploaded" => bare'
               /\ served' = [src |-> src, id |-> NextPointer, staple |-> FALSE]
       \/ served' = NoPointer /\ UNCHANGED loaded
    /\ manual' = NoPointer /\ refreshing' = NoPointer /\ applying' = TRUE
    /\ UNCHANGED mode

TableNext ==
    \/ AcmeStores \/ RegisterCert
    \/ \E m \in Modes : Reconfigure(m)
    \/ LoadManualCerts \/ RefreshStart \/ RefreshSwap \/ TableRestart

TableSpec == TableInit /\ [][TableNext]_tableVars

-----------------------------------------------------------------------------
(* Properties *)

TableTypeOK ==
    /\ mode \in Modes /\ bare \in BOOLEAN /\ applying \in BOOLEAN
    /\ {served, manual, refreshing} \subseteq Pointer
    /\ loaded \in 0 .. MaxLoads /\ reloads \in 0 .. MaxReloads

\* An operator's certificate is served only while the configuration names it, or
\* has handed the host to ACME: no order of reloads, staple refreshes, orders
\* and restarts leaves the previous owner's certificate behind
\* (LoadManualCerts, manager.go:248), and a restart picks an uploaded pair up
\* again only in a process that finds no domain configured (manager.go:190),
\* which goes on serving it when domains are added.
ManualCertFollowsConfig ==
    /\ ~applying /\ served.src = "manual" => mode \in {"manual", "auto"}
    /\ "uploaded" \in {served.src, refreshing.src} => bare
=============================================================================
