------------------------------- MODULE MCData -------------------------------
(***************************************************************************)
(* The data path for TLC, as instances of one run that share nothing: the  *)
(* sender of uwb_transport without acknowledgements, its receiver, the     *)
(* queue of mbufs between threads, and the chains of buffers a packet is.  *)
(***************************************************************************)
EXTENDS UwbTransportTx, UwbTransportRx, DplMqueue, MbufChains

VARIABLE instance

dataVars == <<vars, rxVars, mqVars, mbufVars, instance>>

MCInit ==
    /\ Init /\ RxInit /\ MqInit /\ MbufInit
    /\ instance \in {"sender", "receiver", "queue", "chains"}

Sender == instance = "sender" /\ Next
             /\ UNCHANGED <<rxVars, mqVars, mbufVars, instance>>
Receiver == instance = "receiver" /\ RxNext
             /\ UNCHANGED <<vars, mqVars, mbufVars, instance>>
Queue(A) == instance = "queue" /\ A /\ UNCHANGED <<vars, rxVars, mbufVars, instance>>
Chains == instance = "chains" /\ MbufNext
             /\ UNCHANGED <<vars, rxVars, mqVars, instance>>

MCNext == Sender \/ Receiver \/ Queue(MqNext) \/ Chains

\* MqFairSpec's fairness
MCSpec ==
    /\ MCInit /\ [][MCNext]_dataVars
    /\ WF_dataVars(Queue(Consumer))
    /\ \A p \in Producers : WF_dataVars(Queue(Producer(p)))
=============================================================================
