---------------------------- MODULE PacketService ----------------------------
(***************************************************************************)
(* What a user of uwb_transport with acknowledgements may rely on: packets *)
(* are served strictly in the order they were accepted, nothing but the    *)
(* packet at the head reaches the peer, and a packet leaves the queue      *)
(* either as sent, after the peer received it, or as dropped.  There are   *)
(* no slots, frames, sequence numbers, buffers or semaphores here.         *)
(***************************************************************************)
EXTENDS Sequences

CONSTANT Packets

VARIABLES
    pending,        \* accepted packets, oldest first
    outcome,        \* what the user was told of each packet
    delivered       \* packets the peer received

svcVars == <<pending, outcome, delivered>>

SvcInit ==
    /\ pending = <<>>
    /\ outcome = [p \in Packets |-> "new"]
    /\ delivered = {}

Accept(p) ==
    /\ outcome[p] = "new"
    /\ outcome' = [outcome EXCEPT ![p] = "queued"]
    /\ pending' = Append(pending, p)
    /\ UNCHANGED delivered

Refuse(p) ==
    /\ outcome[p] = "new"
    /\ outcome' = [outcome EXCEPT ![p] = "rejected"]
    /\ UNCHANGED <<pending, delivered>>

Deliver ==
    /\ pending # <<>>
    /\ delivered' = delivered \cup {Head(pending)}
    /\ UNCHANGED <<pending, outcome>>

Confirm ==
    /\ pending # <<>> /\ Head(pending) \in delivered
    /\ outcome' = [outcome EXCEPT ![Head(pending)] = "confirmed"]
    /\ pending' = Tail(pending)
    /\ UNCHANGED delivered

Drop ==
    /\ pending # <<>>
    /\ outcome' = [outcome EXCEPT ![Head(pending)] = "dropped"]
    /\ pending' = Tail(pending)
    /\ UNCHANGED delivered

SvcNext ==
    \/ \E p \in Packets : Accept(p) \/ Refuse(p)
    \/ Deliver \/ Confirm \/ Drop

SvcSpec == SvcInit /\ [][SvcNext]_svcVars
=============================================================================
