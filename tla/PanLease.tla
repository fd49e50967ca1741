------------------------------ MODULE PanLease ------------------------------
(***************************************************************************)
(* lib/uwb_pan: the nodes of a PAN and its master share a time slot in     *)
(* which a node either asks for a lease or listens for resets, and the     *)
(* master, after broadcasting resets when it starts, listens for requests. *)
(* The master's table is PanMaster.                                        *)
(*                                                                         *)
(* pan->sem is lock, completion and "was this frame asked for" at once:    *)
(* count 0 is "wait".  At 1 the task sleeps, or is about to take and give  *)
(* back what a callback released: the same to all others, "idle".  A frame *)
(* on the air reaches any set of those who wait.  Frames and the events    *)
(* that callbacks and callouts queue are short against a tick, and all     *)
(* clocks run at the same rate.  Relays are left out.                      *)
(***************************************************************************)
EXTENDS PanMaster

CONSTANTS
    NetworkRole,    \* config->network_role of the nodes
    LeaseOf,        \* node: config->lease_time
    Margin,         \* UWB_PAN_LEASE_EXP_MARGIN
    UsWrap,         \* ticks in the 2^32 us of lease_us
    Turn,           \* ticks in a turn of the 40-bit clock of the radio (17)
    ResetCycles,    \* resets the master broadcasts when it starts (8)
    NoFrame

ASSUME LeaseConstants ==
    /\ NetworkRole \in Roles /\ LeaseOf \in [Euids -> Leases] /\ Margin \in Nat
    /\ UsWrap \in Nat \ {0} /\ Turn \in Nat \ {0} /\ ResetCycles \in Nat

VARIABLES
    pc,             \* node: the pan slot of its tdma task
    valid,          \* node: status.valid
    my_slot,        \* node: inst->slot_id
    left,           \* node: ticks left on pan_lease_callout_expiry, -1 stopped
    excess,         \* history: ticks by which a node may overstay its lease
    mpc,            \* master: the pan slot of its tdma task
    pan_cycles,     \* master: resets sent
    air,            \* the frame on the air
    agreed          \* history: the node heard the master's last word on it

nodeVars == <<pc, valid, my_slot, left, excess>>
panVars == <<nodeVars, mpc, pan_cycles, air, agreed>>

Frames == [kind : {"req", "resp"}, node : Euids, slot : 0..NoSlot, lease : Nat]
          \cup [kind : {"reset"}]

PanTypeOK ==
    /\ TypeOK
    /\ pc \in [Euids -> {"idle", "wait"}]
    /\ valid \in [Euids -> BOOLEAN]
    /\ my_slot \in [Euids -> 0..NoSlot]
    /\ left \in [Euids -> Nat \cup {-1}]
    /\ excess \in [Euids -> {0, Turn, UsWrap}]
    /\ mpc \in {"idle", "wait"} /\ pan_cycles \in 0..ResetCycles
    /\ air \in Frames \cup {NoFrame}
    /\ agreed \in [Euids -> BOOLEAN]

\* uwb_pan_init, uwb_pan_start
PanInit ==
    /\ pc = [n \in Euids |-> "idle"]
    /\ valid = [n \in Euids |-> FALSE] /\ my_slot = [n \in Euids |-> NoSlot]
    /\ left = [n \in Euids |-> -1] /\ excess = [n \in Euids |-> 0]
    /\ mpc = "idle" /\ pan_cycles = 0
    /\ air = NoFrame
    /\ agreed = [n \in Euids |-> FALSE]

-----------------------------------------------------------------------------
(* uwb_pan_slot_timer_cb; a start that fails changes nothing *)

Listen(n) ==
    /\ pc[n] = "idle" /\ valid[n] /\ left[n] > Margin
    /\ pc' = [pc EXCEPT ![n] = "wait"]
    /\ UNCHANGED <<masterVars, valid, my_slot, left, excess, mpc, pan_cycles, air, agreed>>

Blink(n) ==
    /\ pc[n] = "idle" /\ ~(valid[n] /\ left[n] > Margin)
    /\ air = NoFrame
    /\ pc' = [pc EXCEPT ![n] = "wait"]
    /\ air' = [kind |-> "req", node |-> n, slot |-> NoSlot, lease |-> LeaseOf[n]]
    /\ UNCHANGED <<masterVars, valid, my_slot, left, excess, mpc, pan_cycles, agreed>>

\* Mutant: one reset too many
BroadcastResetOnceMore ==
    /\ mpc = "idle" /\ pan_cycles <= ResetCycles /\ air = NoFrame
    /\ pan_cycles' = pan_cycles + 1
    /\ air' \in {[kind |-> "reset"], NoFrame}
    /\ UNCHANGED <<masterVars, nodeVars, mpc, agreed>>

\* uwb_pan_reset in one of the master's first slots; it may fail to start
BroadcastReset ==
    /\ mpc = "idle" /\ pan_cycles < ResetCycles /\ air = NoFrame
    /\ pan_cycles' = pan_cycles + 1
    /\ air' \in {[kind |-> "reset"], NoFrame}
    /\ UNCHANGED <<masterVars, nodeVars, mpc, agreed>>

MasterListen ==
    /\ mpc = "idle" /\ pan_cycles = ResetCycles
    /\ mpc' = "wait"
    /\ UNCHANGED <<masterVars, nodeVars, pan_cycles, air, agreed>>

-----------------------------------------------------------------------------
(* rx_complete_cb: the frame on the air is heard by R; a semaphore at 1    *)
(* means that nobody asked for it                                          *)

Waiting == {n \in Euids : pc[n] = "wait"}

\* a request at the master; the answer may fail to start
HearRequest ==
    /\ air # NoFrame /\ air.kind = "req" /\ mpc = "wait"
    /\ LET e == air.node IN
       \/ /\ Answered(e, NetworkRole, air.lease)
          /\ LET answer == [kind |-> "resp", node |-> e,
                            slot |-> slot_id'[RecordFor(e)],
                            lease |-> LeaseTime(air.lease)]
             IN  air' \in {answer, NoFrame}
          /\ agreed' = [agreed EXCEPT ![e] = FALSE]
       \/ /\ TableFull(e)
          /\ air' = NoFrame /\ UNCHANGED agreed
    /\ mpc' = "idle"
    /\ UNCHANGED <<nodeVars, pan_cycles>>

\* lease_us: the lease less the time since the epoch of uwb_ccp.  That is the
\* difference of two readings of the radio's clock, of any age, which is negative
\* if the clock came round in between; and it may exceed the lease.
LeaseLeft(lease, age) == (lease - age) % UsWrap

Excess(lease, age) ==
    CASE age < 0 -> Turn
      [] age > lease -> UsWrap
      [] OTHER -> 0

\* Mutant: the callout of the lease before is not stopped and restarted
HearResponseKeepsTimer ==
    /\ air # NoFrame /\ air.kind = "resp" /\ pc[air.node] = "wait"
    /\ \E rx, epoch \in 0..(Turn - 1) :
          LET n == air.node
              age == rx - epoch
          IN  /\ left' = [left EXCEPT ![n] = LeaseLeft(air.lease, age) + 1]
              /\ excess' = [excess EXCEPT ![n] = Excess(air.lease, age)]
              /\ valid' = [valid EXCEPT ![n] = TRUE]
              /\ my_slot' = [my_slot EXCEPT ![n] = air.slot]
              /\ pc' = [pc EXCEPT ![n] = "idle"]
              /\ agreed' = [agreed EXCEPT ![n] = TRUE]
    /\ air' = NoFrame
    /\ UNCHANGED <<masterVars, mpc, pan_cycles>>

\* the answer: pan_id, slot and the callout of the lease
HearResponse ==
    /\ air # NoFrame /\ air.kind = "resp" /\ pc[air.node] = "wait"
    /\ \E rx, epoch \in 0..(Turn - 1) :
          LET n == air.node
              age == rx - epoch
          IN  /\ left' = [left EXCEPT ![n] = LeaseLeft(air.lease, age)]
              /\ excess' = [excess EXCEPT ![n] = Excess(air.lease, age)]
              /\ valid' = [valid EXCEPT ![n] = TRUE]
              /\ my_slot' = [my_slot EXCEPT ![n] = air.slot]
              /\ pc' = [pc EXCEPT ![n] = "idle"]
              /\ agreed' = [agreed EXCEPT ![n] = TRUE]
    /\ air' = NoFrame
    /\ UNCHANGED <<masterVars, mpc, pan_cycles>>

\* a reset: the lease is given up, but the case falls through to the return
\* that releases nothing
HearReset ==
    /\ air # NoFrame /\ air.kind = "reset"
    /\ \E R \in SUBSET Waiting :
          /\ valid' = [n \in Euids |-> valid[n] /\ n \notin R]
          /\ my_slot' = [n \in Euids |-> IF n \in R THEN NoSlot ELSE my_slot[n]]
          /\ left' = [n \in Euids |-> IF n \in R THEN -1 ELSE left[n]]
          /\ excess' = [n \in Euids |-> IF n \in R THEN 0 ELSE excess[n]]
    /\ air' = NoFrame
    /\ UNCHANGED <<masterVars, pc, mpc, pan_cycles, agreed>>

\* nobody who would act on it hears the frame
Lost ==
    /\ air # NoFrame
    /\ air' = NoFrame
    /\ UNCHANGED <<masterVars, nodeVars, mpc, pan_cycles, agreed>>

-----------------------------------------------------------------------------
(* What else ends a wait *)

Released(n) ==
    /\ pc[n] = "wait"
    /\ pc' = [pc EXCEPT ![n] = "idle"]
    /\ UNCHANGED <<masterVars, valid, my_slot, left, excess, mpc, pan_cycles, air, agreed>>

OtherFrame(n) == Released(n)
RxTimeout(n) == Released(n)
ResetCb(n) == Released(n)

MasterReleased ==
    /\ mpc = "wait"
    /\ mpc' = "idle"
    /\ UNCHANGED <<masterVars, nodeVars, pan_cycles, air, agreed>>

-----------------------------------------------------------------------------
(* Time *)

\* lease_expiry_cb
LeaseExpiry(n) ==
    /\ left[n] = 0
    /\ valid' = [valid EXCEPT ![n] = FALSE]
    /\ my_slot' = [my_slot EXCEPT ![n] = NoSlot]
    /\ left' = [left EXCEPT ![n] = -1] /\ excess' = [excess EXCEPT ![n] = 0]
    /\ UNCHANGED <<masterVars, pc, mpc, pan_cycles, air, agreed>>

PanTick ==
    /\ air = NoFrame /\ toSave = NoEntry /\ \A n \in Euids : left[n] # 0
    /\ Tick
    /\ left' = [n \in Euids |-> IF left[n] > 0 THEN left[n] - 1 ELSE left[n]]
    /\ UNCHANGED <<pc, valid, my_slot, excess, mpc, pan_cycles, air, agreed>>

MasterPostProcess == PostProcess /\ UNCHANGED panVars

\* what the master was sending is lost with it
MasterRestart ==
    /\ Restart
    /\ mpc' = "idle" /\ pan_cycles' = 0 /\ air' = NoFrame
    /\ agreed' = [n \in Euids |-> FALSE]
    /\ UNCHANGED nodeVars

PanNext ==
    \/ \E n \in population :
          \/ Listen(n) \/ Blink(n)
          \/ OtherFrame(n) \/ RxTimeout(n) \/ ResetCb(n) \/ LeaseExpiry(n)
    \/ BroadcastReset \/ MasterListen \/ MasterReleased
    \/ HearRequest \/ HearResponse \/ HearReset \/ Lost
    \/ PanTick \/ MasterPostProcess \/ MasterRestart

PanSpec == Init /\ PanInit /\ [][PanNext]_<<masterVars, panVars>>

-----------------------------------------------------------------------------
(* Properties *)

Holds(n) == valid[n] /\ my_slot[n] # NoSlot

\* A lease a node counts on is on the master's books, for the same slot and
\* for at least as long (rx_complete_cb, lease_expiry_cb against
\* panrequest_cb), if the node has heard the master's last word on it.  Only if
\* the radio's clock came round between epoch and answer may it end later, by a
\* turn at most, or if the epoch was older than the lease is long, by what
\* lease_us holds.
HoldersCovered ==
    \A n \in population : Holds(n) /\ agreed[n] =>
        \E i \in RecordsOf(n) :
            slot_id[i] = my_slot[n] /\ up + left[n] <= until[i] + excess[n]
=============================================================================
