------------------------------- MODULE MCTwr -------------------------------
(***************************************************************************)
(* Ranging for TLC: TwrSs and TwrDs as instances of one run that share     *)
(* nothing.  In MCSpec an initiator, a responder and a node that is both;  *)
(* in MCResetSpec everything that disturbs an exchange.                    *)
(***************************************************************************)
EXTENDS TwrDs

VARIABLE instance

rangingVars == <<vars, instance>>

MCInit ==
    /\ instance \in {"ss", "ds"}
    /\ IF instance = "ds" THEN DsInit ELSE Init

\* Bound: in "ds" a node that may request does not listen
DsBound == \A n \in Requesters : task'[n].pc # "ls_pend"

MCNext ==
    \/ instance = "ss" /\ Next /\ UNCHANGED instance
    \/ instance = "ds" /\ DsNext /\ DsBound /\ UNCHANGED instance

MCTask(n) == (instance = "ss" /\ Task(n)) \/ (instance # "ss" /\ DsTask(n))
MCIrq(n) == (instance = "ss" /\ Irq(n)) \/ (instance # "ss" /\ DsIrq(n))

\* Tasks are scheduled, a started frame goes out, a received one is handled
\* and a window that was opened with a time-out closes, as in TwrSs.
MCFairness ==
    \A n \in Nodes :
        WF_vars(MCTask(n)) /\ WF_vars(MCIrq(n)) /\ WF_vars(RxTimeout(n))

MCSpec == MCInit /\ [][MCNext]_rangingVars /\ MCFairness

\* Two frames of the ring make one result of double-sided ranging
DsPairKept == instance = "ds" => PairKept

-----------------------------------------------------------------------------
MCResetInit ==
    instance \in {"ss"} \cup Nodes /\ IF instance = "ss" THEN Init ELSE DsInit

\* Bound: in an instance of TwrDs it is one node that receives malformed and
\* foreign frames and superframes; each is reset
DsResetNext == \E n \in Nodes : DsStep(n) \/ (n = instance /\ DsDisturbed(n))

MCResetNext ==
    \/ instance = "ss" /\ Next /\ UNCHANGED instance
    \/ instance # "ss" /\ DsResetNext /\ UNCHANGED instance

\* A service keeps calling uwb_phy_forcetrxoff on the nodes that request and
\* their tasks are scheduled; nothing is assumed of the radio.
MCResetSpec ==
    /\ MCResetInit /\ [][MCResetNext]_rangingVars
    /\ \A n \in Requesters : WF_vars(MCTask(n)) /\ WF_vars(Reset(n))

\* Type correctness of the instances; frames of TwrDs have fields of their own.
TypesOK == IF instance = "ss" THEN TypeOK ELSE DsTypeOK
=============================================================================
