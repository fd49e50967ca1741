----------------------------- MODULE MCSchedule -----------------------------
(***************************************************************************)
(* uwb_ccp and tdma for TLC, as instances of one run: a master and a relay *)
(* that is a slave too, each with the stops and restarts of uwb_ccp, and   *)
(* a tdma whose slots are released and assigned while it runs.             *)
(***************************************************************************)
EXTENDS UwbCcp, Tdma

VARIABLE instance

vars == <<ccpVars, tdmaVars, instance>>

MCInit ==
    /\ CcpInit /\ TdmaInit
    /\ \/ instance = "ccp" /\ role \in {"master", "relay"} /\ assigned = {}
       \/ instance = "tdma" /\ role = "master"

\* Bounds on the relay: a reset of another thread overlaps neither uwb_ccp_stop nor
\* a callback, and a callback has ended when the task has started the next listen.
\* The master has none.
CcpBound ==
    role = "relay" =>
        /\ resetter' = "none" \/ (stop' = "done" /\ irq' = "none")
        /\ pc # "wait" /\ pc' = "wait" => irq = "none"

Ccp(A) == instance = "ccp" /\ A /\ CcpBound /\ UNCHANGED <<tdmaVars, instance>>

MCNext ==
    \/ Ccp(CcpNext)
    \/ instance = "tdma" /\ TdmaNext /\ UNCHANGED <<ccpVars, instance>>

\* The role never changes: one fairness for what a master does and a slave does not
\* serves both
MasterOrSlave(M, S) == Ccp((role = "master" /\ M) \/ (role # "master" /\ S))

\* Threads, callbacks, timer and radio go on; time passes while they wait.  Strongly:
\* a master's starts are in time, beacons heard, and no callback always hits between
\* the last two steps of ccp_listen.  The other services leave the radio alone in the
\* end: a reset before every start would leave a surplus release that ends every
\* wait at once.
MCSpec ==
    /\ MCInit /\ [][MCNext]_vars
    /\ <>[](resetter = "none")
    /\ WF_vars(Ccp(TimerIrq)) /\ WF_vars(Ccp(CcpTask)) /\ WF_vars(Ccp(SemTimeout))
    /\ WF_vars(Ccp(RxTimeout)) /\ WF_vars(Ccp(IrqStep))
    /\ SF_vars(MasterOrSlave(StartRadio, sem = 0 /\ GiveBack))
    /\ SF_vars(MasterOrSlave(radio = "tx" /\ Beat, Beat))
    /\ SF_vars(MasterOrSlave(TxComplete, sem = 0 /\ \E same \in BOOLEAN : RxBeacon(same)))

\* Type correctness of uwb_ccp and of tdma.
TypesOK == CcpTypeOK /\ TdmaTypeOK
=============================================================================
