------------------------------ MODULE MCAnswers ------------------------------
(***************************************************************************)
(* Services that wait for the answers of other nodes, for TLC, as          *)
(* instances of one run that share nothing: the acknowledged sender of     *)
(* uwb_transport, N-to-1 ranging, and differences of arrival.              *)
(***************************************************************************)
EXTENDS UwbTransportTx, Nrng, Rtdoa

VARIABLE instance

answersVars == <<vars, nrngVars, rtdoaVars, instance>>

MCInit ==
    /\ Init /\ NrngInit /\ RtdoaInit
    /\ instance \in {"sender", "nrng", "rtdoa"}

\* Bound: in "rtdoa" the requester only requests, the listens of the other anchors
\* start and do not block, and no anchor has more than one token
RtdoaBound ==
    /\ unit'[Requester].radio # "rx"
    /\ \A a \in Anchors : unit'[a].sem < 2
    /\ \A a \in Anchors \ {Requester} : unit'[a].caller = "idle"

MCNext ==
    \/ instance = "sender" /\ Next /\ UNCHANGED <<nrngVars, rtdoaVars, instance>>
    \/ instance = "nrng" /\ NrngNext /\ UNCHANGED <<vars, rtdoaVars, instance>>
    \/ instance = "rtdoa" /\ RtdoaNext /\ RtdoaBound /\ UNCHANGED <<vars, nrngVars, instance>>

MCSpec == MCInit /\ [][MCNext]_answersVars

\* What is read after an exchange of many nodes belongs to that exchange
ReadingsTrue == RangesTrue /\ TdoaTrue
=============================================================================
