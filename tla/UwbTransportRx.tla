--------------------------- MODULE UwbTransportRx ---------------------------
(***************************************************************************)
(* The receiving half of lib/uwb_transport: rx_complete_cb copies a data   *)
(* frame into an mbuf on rx_q, the task of the event queue runs            *)
(* uwb_transport_process_rx_queue and hands each mbuf to the extension     *)
(* registered for its code, and uwb_transport_pkg_down takes it all apart. *)
(*                                                                         *)
(* A header is a sender and a sequence number.  The environment: every     *)
(* sender repeats the frame of its current packet (the acknowledgement was *)
(* lost) or goes on to the next one.  Time is counted in ticks of which    *)
(* Window make the 10 ms of the duplicate filter.  The mbuf queue is       *)
(* atomic here, its implementation is the subject of DplMqueue; what the   *)
(* callbacks do to the semaphores is the subject of UwbTransportTx.        *)
(***************************************************************************)
EXTENDS Naturals, Sequences, FiniteSets

CONSTANTS
    Senders,        \* peers that send to this node
    Codes,          \* tsp_codes
    NoFrame,        \* last_frame before the first frame
    RxSeqMod,         \* number of sequence numbers (256: an uint8_t)
    PoolSize,       \* mbufs in the pool
    Window,         \* ticks in the 10 ms of the duplicate filter
    MaxPackets,     \* bound: packets per sender
    MayShutDown     \* whether uwb_transport_pkg_down may be called

ASSUME RxConstants ==
    /\ RxSeqMod \in Nat \ {0} /\ PoolSize \in Nat /\ Window \in Nat \ {0}
    /\ MaxPackets \in Nat /\ MayShutDown \in BOOLEAN /\ Codes # {}
    /\ NoFrame \notin Senders \X (0..(RxSeqMod - 1))

VARIABLES
    cur,            \* environment: number of the packet each sender sends
    last_frame, last_age,   \* header accepted last, ticks since then
    free,           \* mbufs in the pool
    rx_q,           \* tsp_codes of the queued mbufs
    rpc, held,      \* uwb_transport_process_rx_queue and the mbuf it got
    user,           \* mbufs owned by the extensions
    extension_list, \* registered codes, in order
    has_init,       \* status.has_init
    dpc,            \* where uwb_transport_pkg_down is
    recent,         \* history: headers accepted in the last Window ticks
    repeated        \* history: a header was accepted twice within Window

rxVars == <<cur, last_frame, last_age, free, rx_q, rpc, held, user,
          extension_list, has_init, dpc, recent, repeated>>

Headers == Senders \X (0..(RxSeqMod - 1))
Header(s) == <<s, cur[s] % RxSeqMod>>
Aged(a) == IF a < Window THEN a + 1 ELSE a
Registered == {extension_list[i] : i \in DOMAIN extension_list}

RxTypeOK ==
    /\ cur \in [Senders -> 0..MaxPackets]
    /\ last_frame \in Headers \cup {NoFrame} /\ last_age \in 0..Window
    /\ free \in 0..PoolSize /\ user \in 0..PoolSize
    /\ rx_q \in Seq(Codes)
    /\ rpc \in {"wait", "got"} /\ held \in Codes
    /\ extension_list \in Seq(Codes)
    /\ has_init \in BOOLEAN
    /\ dpc \in {"up", "removed", "draining", "freed"}
    /\ recent \subseteq (Headers \X (0..(Window - 1)))
    /\ repeated \in BOOLEAN

\* uwb_transport_init; last_frame_time is 0 and the clock is long past it
RxInit ==
    /\ cur = [s \in Senders |-> 0]
    /\ last_frame = NoFrame /\ last_age = Window
    /\ free = PoolSize /\ rx_q = <<>>
    /\ rpc = "wait" /\ held = (CHOOSE c \in Codes : TRUE) /\ user = 0
    /\ extension_list = <<>>
    /\ has_init = TRUE /\ dpc = "up"
    /\ recent = {} /\ repeated = FALSE

-----------------------------------------------------------------------------
(* The environment *)

NextPacket(s) ==
    /\ cur[s] < MaxPackets
    /\ cur' = [cur EXCEPT ![s] = @ + 1]
    /\ UNCHANGED <<last_frame, last_age, free, rx_q, rpc, held, user,
                   extension_list, has_init, dpc, recent, repeated>>

RxTick ==
    /\ last_age' = Aged(last_age)
    /\ recent' = {<<r[1], r[2] + 1>> : r \in {x \in recent : x[2] + 1 < Window}}
    /\ UNCHANGED <<cur, last_frame, free, rx_q, rpc, held, user,
                   extension_list, has_init, dpc, repeated>>

-----------------------------------------------------------------------------
(* rx_complete_cb, with a data frame for this node *)

IsRepeat(s) == last_age < Window /\ last_frame = Header(s)

\* The same header as the last one accepted, within 10 ms: early_ret.
RxDuplicate(s) == dpc = "up" /\ IsRepeat(s) /\ UNCHANGED rxVars

\* Mutant: the header of the accepted frame is not kept.
RememberNothing(s) ==
    /\ last_age' = 0 /\ UNCHANGED last_frame
    /\ recent' = recent \cup {<<Header(s), 0>>}
    /\ repeated' = (repeated \/ \E r \in recent : r[1] = Header(s))

Remember(s) ==
    /\ last_frame' = Header(s) /\ last_age' = 0
    /\ recent' = recent \cup {<<Header(s), 0>>}
    /\ repeated' = (repeated \/ \E r \in recent : r[1] = Header(s))

\* Accepted: an mbuf is allocated and the payload copied into it.
RxAccept(s, c) ==
    /\ dpc = "up" /\ ~IsRepeat(s) /\ Remember(s)
    /\ free > 0 /\ free' = free - 1 /\ rx_q' = Append(rx_q, c)
    /\ UNCHANGED <<cur, rpc, held, user, extension_list, has_init, dpc>>

\* Accepted, but there is no mbuf (rx_err), or the payload does not fit and
\* the mbuf is freed again.  The hardware has acknowledged the frame.
RxDrop(s) ==
    /\ dpc = "up" /\ ~IsRepeat(s) /\ Remember(s)
    /\ UNCHANGED <<cur, free, rx_q, rpc, held, user, extension_list, has_init,
                   dpc>>

-----------------------------------------------------------------------------
(* uwb_transport_process_rx_queue *)

\* mbuf = dpl_mqueue_get(...)
ProcessGet ==
    /\ rpc = "wait" /\ rx_q # <<>> /\ dpc # "freed"
    /\ held' = Head(rx_q) /\ rx_q' = Tail(rx_q) /\ rpc' = "got"
    /\ UNCHANGED <<cur, last_frame, last_age, free, user, extension_list,
                   has_init, dpc, recent, repeated>>

\* ... && has_init: the first extension with this code owns the mbuf now;
\* without one it is freed.
ProcessDeliver ==
    /\ rpc = "got" /\ has_init /\ rpc' = "wait"
    /\ IF held \in Registered
         THEN user' = user + 1 /\ UNCHANGED free
         ELSE free' = free + 1 /\ UNCHANGED user
    /\ UNCHANGED <<cur, last_frame, last_age, rx_q, held, extension_list,
                   has_init, dpc, recent, repeated>>

\* has_init was cleared: the loop ends, with the mbuf in the local variable.
ProcessStop ==
    /\ rpc = "got" /\ ~has_init /\ rpc' = "wait"
    /\ UNCHANGED <<cur, last_frame, last_age, free, rx_q, held, user,
                   extension_list, has_init, dpc, recent, repeated>>

\* An extension frees an mbuf it was given.
UserFree ==
    /\ user > 0 /\ user' = user - 1 /\ free' = free + 1
    /\ UNCHANGED <<cur, last_frame, last_age, rx_q, rpc, held, extension_list,
                   has_init, dpc, recent, repeated>>

-----------------------------------------------------------------------------
(* Extensions *)

\* uwb_transport_append_extension, for an extension that is not on the list
AppendExtension(c) ==
    /\ c \notin Registered /\ dpc = "up"
    /\ extension_list' = Append(extension_list, c)
    /\ UNCHANGED <<cur, last_frame, last_age, free, rx_q, rpc, held, user,
                   has_init, dpc, recent, repeated>>

\* uwb_transport_remove_extension
RemoveExtension(c) ==
    /\ dpc = "up"
    /\ \E i \in DOMAIN extension_list :
          /\ extension_list[i] = c
          /\ extension_list' = SubSeq(extension_list, 1, i - 1)
                                \o SubSeq(extension_list, i + 1, Len(extension_list))
    /\ UNCHANGED <<cur, last_frame, last_age, free, rx_q, rpc, held, user,
                   has_init, dpc, recent, repeated>>

-----------------------------------------------------------------------------
(* uwb_transport_pkg_down *)

\* uwb_mac_remove_interface: no callback comes after this
DownRemove ==
    /\ MayShutDown /\ dpc = "up" /\ dpc' = "removed"
    /\ UNCHANGED <<cur, last_frame, last_age, free, rx_q, rpc, held, user,
                   extension_list, has_init, recent, repeated>>

\* uwb_transport_free
DownClear ==
    /\ dpc = "removed" /\ dpc' = "draining" /\ has_init' = FALSE
    /\ UNCHANGED <<cur, last_frame, last_age, free, rx_q, rpc, held, user,
                   extension_list, recent, repeated>>

\* Mutant: the mbuf is freed and stays on the queue.
DownDrainKeeps ==
    /\ dpc = "draining" /\ rx_q # <<>> /\ free' = free + 1
    /\ UNCHANGED <<cur, last_frame, last_age, rx_q, rpc, held, user,
                   extension_list, has_init, dpc, recent, repeated>>

DownDrain ==
    /\ dpc = "draining" /\ rx_q # <<>>
    /\ rx_q' = Tail(rx_q) /\ free' = free + 1
    /\ UNCHANGED <<cur, last_frame, last_age, rpc, held, user, extension_list,
                   has_init, dpc, recent, repeated>>

DownFree ==
    /\ dpc = "draining" /\ rx_q = <<>> /\ dpc' = "freed"
    /\ UNCHANGED <<cur, last_frame, last_age, free, rx_q, rpc, held, user,
                   extension_list, has_init, recent, repeated>>

-----------------------------------------------------------------------------
RxNext ==
    \/ \E s \in Senders : \/ NextPacket(s) \/ RxDuplicate(s) \/ RxDrop(s)
                          \/ \E c \in Codes : RxAccept(s, c)
    \/ RxTick \/ ProcessGet \/ ProcessDeliver \/ ProcessStop \/ UserFree
    \/ \E c \in Codes : AppendExtension(c) \/ RemoveExtension(c)
    \/ DownRemove \/ DownClear \/ DownDrain \/ DownFree

RxSpec == RxInit /\ [][RxNext]_rxVars

-----------------------------------------------------------------------------
(* Properties *)

\* Every mbuf of the pool is free, queued, in the hands of the task or owned
\* by an extension: no path of the receiver loses one, whatever is registered,
\* fails to be allocated or copied.  During the shutdown, when the task and
\* uwb_transport_free empty the queue together, still none is freed twice;
\* but the one the task has just taken when has_init is cleared is lost, see
\* ProcessStop.
MbufsAccounted ==
    LET known == free + Len(rx_q) + user + (IF rpc = "got" THEN 1 ELSE 0)
    IN  known <= PoolSize /\ (has_init => known = PoolSize)

\* "Reject the same package received within 10ms".
RejectsRepeats == ~repeated
=============================================================================
