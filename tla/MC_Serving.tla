----------------------------- MODULE MC_Serving -----------------------------
(***************************************************************************)
(* Components that the request of a visitor meets.  They share no state,   *)
(* so one run explores them one after the other: focus, chosen at the      *)
(* start, is the component that moves while the others stay at rest.       *)
(***************************************************************************)
EXTENDS ProxyServe, CertIssuance, CertTable, FastCGIPool, Bandwidth, PageRefresh,
        LocationLimits, TLC

VARIABLE focus

Focuses == {"proxy", "issuance", "table", "fastcgi", "bandwidth", "refresh", "limits"}

servingVars == <<focus, serveVars, certVars, tableVars, poolVars, bandwidthVars, refreshVars, limitVars>>

\* A component at rest is in one of its initial states, always the same.
AtRest ==
  /\ focus # "table" => mode = CHOOSE m \in Modes : TRUE
  /\ focus # "bandwidth" => site.quota = CHOOSE q \in Quotas : TRUE
  /\ focus # "refresh" => \A r \in Readers : reader[r].page = CHOOSE k \in Pages : TRUE

ServingInit ==
  /\ focus \in Focuses
  /\ ServeInit /\ CertInit /\ TableInit /\ PoolInit /\ BandwidthInit /\ RefreshInit /\ LimitInit
  /\ AtRest

ServingNext ==
  \/ /\ focus = "proxy" /\ ServeNext
     /\ UNCHANGED <<focus, certVars, tableVars, poolVars, bandwidthVars, refreshVars, limitVars>>
  \/ /\ focus = "issuance" /\ CertNext
     /\ UNCHANGED <<focus, serveVars, tableVars, poolVars, bandwidthVars, refreshVars, limitVars>>
  \/ /\ focus = "table" /\ TableNext
     /\ UNCHANGED <<focus, serveVars, certVars, poolVars, bandwidthVars, refreshVars, limitVars>>
  \/ /\ focus = "fastcgi" /\ PoolNext
     /\ UNCHANGED <<focus, serveVars, certVars, tableVars, bandwidthVars, refreshVars, limitVars>>
  \/ /\ focus = "bandwidth" /\ BandwidthNext
     /\ UNCHANGED <<focus, serveVars, certVars, tableVars, poolVars, refreshVars, limitVars>>
  \/ /\ focus = "refresh" /\ RefreshNext
     /\ UNCHANGED <<focus, serveVars, certVars, tableVars, poolVars, bandwidthVars, limitVars>>
  \/ /\ focus = "limits" /\ LimitNext
     /\ UNCHANGED <<focus, serveVars, certVars, tableVars, poolVars, bandwidthVars, refreshVars>>

ServingSpec == ServingInit /\ [][ServingNext]_servingVars

\* The component that moves keeps its types and its bounds.
ServingTypeOK ==
  /\ focus = "proxy" => ServeTypeOK
  /\ focus = "issuance" => CertTypeOK
  /\ focus = "table" => TableTypeOK
  /\ focus = "fastcgi" => PoolTypeOK
  /\ focus = "bandwidth" => BandwidthTypeOK
  /\ focus = "refresh" => RefreshTypeOK
  /\ focus = "limits" => LimitTypeOK

\* No limit; one unit a day and two a month; one unit a month only.
ThreeQuotas == {[day |-> 0, month |-> 0], [day |-> 1, month |-> 2], [day |-> 0, month |-> 1]}

\* Backends, visits, readers, hits and PHP requests are the same three values.
Symmetric == Permutations(Visits)
=============================================================================
