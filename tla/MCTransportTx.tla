--------------------------- MODULE MCTransportTx ---------------------------
(* Instances of UwbTransportTx for TLC. *)
EXTENDS UwbTransportTx, TLC

\* Packets are interchangeable; used in runs without liveness only.
PacketSymmetry == Permutations(Packets)

\* Bound: no slot is spent on listening once every packet is resolved.
ListenBound ==
    pc = "idle" /\ pc' = "rx_pend"
      => \E p \in Packets : outcome[p] \in {"new", "queued"}

\* ResetSpec within that bound
BoundedSpec ==
    /\ Init /\ [][Next /\ ListenBound]_vars /\ Fairness
    /\ \A t \in Resetters : WF_vars(Resetter(t))
=============================================================================
