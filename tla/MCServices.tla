----------------------------- MODULE MCServices -----------------------------
(***************************************************************************)
(* Small instances for TLC of the services around the review delivery.     *)
(* They share no state that their properties depend on, so one of them     *)
(* runs in each behaviour.                                                 *)
(***************************************************************************)
EXTENDS WebhookHost, DateRequests, Evidence, TLC

CONSTANT Machines

VARIABLE machine

services == <<machine, hostVars, requestVars, evidenceVars>>

Alone(m) ==
  /\ machine = m /\ UNCHANGED machine
  /\ IF m = "host"    THEN TRUE ELSE UNCHANGED hostVars
  /\ IF m = "request" THEN TRUE ELSE UNCHANGED requestVars
  /\ IF m = "fetch"   THEN TRUE ELSE UNCHANGED evidenceVars

ServicesInit ==
  /\ machine \in Machines
  /\ HostInit /\ RequestInit /\ EvidenceInit
  /\ daily => machine = "request"

ServicesNext ==
  \/ Alone("host") /\ HostNext
  \/ Alone("request") /\ RequestNext
  \/ Alone("fetch") /\ EvidenceNext

(* The fairness of each machine while it is the one that runs.             *)
ServicesFairness ==
  /\ WF_services(Alone("host") /\ ProcessStep) /\ WF_services(Alone("host") /\ RunnerStep)
  /\ SF_services(Alone("host") /\ Receive) /\ SF_services(Alone("host") /\ BeginPass)
  /\ WF_services(Alone("request") /\ RetryTime) /\ WF_services(Alone("request") /\ JobStep)
  /\ WF_services(Alone("request") /\ DeliverDaily)
  /\ WF_services(Alone("fetch") /\ ReadingStep)

ServicesSpec == ServicesInit /\ [][ServicesNext]_services
FairServices == ServicesSpec /\ ServicesFairness

(* Every variable has its type.                                            *)
ServicesTypes == HostTypes /\ RequestTypes /\ EvidenceTypes

(* The day requested: a post, its author's answer, and another source's.   *)
DayAuthors == <<"a", "a", "b">>
DayParents == <<0, 1, 0>>
(* One job for both sources, one for the first of them.                    *)
DayScopes == <<{"a", "b"}, {"a"}>>

PairAuthors == <<"a", "b">>
PairParents == <<0, 0>>
=============================================================================
