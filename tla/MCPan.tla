------------------------------- MODULE MCPan -------------------------------
(***************************************************************************)
(* Services of a network for TLC, as instances of one run that share       *)
(* nothing.  PAN leases come twice.  In "table" the master is alone with   *)
(* whatever requests come, and the shell clears; either there are more     *)
(* nodes than the table holds, or two whose low 16 bits agree, with both   *)
(* roles and deletions.  In "air" two nodes and the master talk over a     *)
(* lossy link.  "ota" is the broadcast of firmware images.                 *)
(***************************************************************************)
EXTENDS PanLease, BcastOta

MCZeroLease == [e \in Euids |-> 0]

VARIABLE instance

\* 667 asks for more than fits into lease_us
MCLeaseOf == [e \in Euids |-> IF e = 667 THEN 4 ELSE 0]

vars == <<masterVars, panVars, otaVars, instance>>

\* 666 and 66202 have their low 16 bits in common
MCInit ==
    /\ Init /\ PanInit /\ OtaInit
    /\ \/ instance = "table" /\ population \in {{666, 66202}, Euids}
       \/ instance \in {"air", "ota"} /\ population = {666, 667}

Crowded == population = Euids

TableNext ==
    \/ \E e \in population, r \in Roles, l \in Leases :
          /\ Crowded => r = NetworkRole /\ l = 0
          /\ RenewLease(e, r, l) \/ NewLease(e, r, l)
    \/ \E e \in population : TableFull(e)
    \/ ~Crowded /\ \E e \in population : Delete(e)
    \/ PostProcess \/ Clear \/ Restart \/ Tick

Pan(A) == A /\ UNCHANGED <<otaVars, instance>>
Ota(A) == instance = "ota" /\ A /\ UNCHANGED <<masterVars, panVars, instance>>

MCNext ==
    \/ instance = "table" /\ Pan(TableNext /\ UNCHANGED panVars)
    \/ instance = "air" /\ Pan(PanNext)
    \/ Ota(OtaNext)

MCSpec == MCInit /\ [][MCNext]_vars

\* the operator repeats txim, the sender's callout runs, the nodes are served
MCFairSpec ==
    /\ MCSpec
    /\ WF_vars(Ota(Operator)) /\ WF_vars(Ota(SendNext \/ SendEnd))
    /\ \A n \in Receivers : WF_vars(Ota(Upload(n))) /\ WF_vars(Ota(Reboot(n)))

\* Type correctness of the instances.
TypesOK == PanTypeOK /\ OtaTypeOK
=============================================================================
