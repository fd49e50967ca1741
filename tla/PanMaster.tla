----------------------------- MODULE PanMaster -----------------------------
(***************************************************************************)
(* lib/panmaster: the master's table of nodes, from which it hands out     *)
(* short addresses and time slots on lease, and the copy in flash it       *)
(* starts from.                                                            *)
(*                                                                         *)
(* panrequest_cb runs in the interrupt task.  It fills an entry of         *)
(* nodes_to_save, and the event that writes that entry to flash is in the  *)
(* same queue as the interrupts and ahead of the next request: the master  *)
(* stops its receiver before it answers.  One entry is therefore enough.   *)
(* Delete and Clear are commands of the shell task.  Nothing keeps them    *)
(* from coming between a request and its event, which would then store a   *)
(* node the table has forgotten; the model assumes they do not.            *)
(*                                                                         *)
(* The flash is a log.  Both its readers let the last entry win, by index  *)
(* (node_idx_load_cb) or by euid (find_node_load_cb), so it is two maps.   *)
(* Request and answer share a frame buffer, so the default lease time goes *)
(* into both.  One tick of the clock is a second.  Permanent slots, which  *)
(* only the shell assigns, firmware versions and PAN identifiers are left  *)
(* out.                                                                    *)
(***************************************************************************)
EXTENDS Naturals, Integers, FiniteSets, FiniteSetsExt

CONSTANTS
    Euids,          \* identifiers of the nodes there may be, 64-bit numbers
    MaxNodes,       \* PANMASTER_MAXNUM_NODES
    Roles,          \* network roles asked for, not 0
    Leases,         \* lease times asked for, 0 for the default
    DefaultLease,   \* PANMASTER_DEFAULT_LEASE_TIME
    WordMod,        \* ticks in the 2^32 ms of lease_ends
    MaxUp,          \* bound: uptime
    NoEntry         \* free entry of nodes_to_save, no entry in flash

FreeAddr == 65535   \* 0xffff: the record is free
NoSlot == 65535
Index == 0..(MaxNodes - 1)

ASSUME PanConstants ==
    /\ Euids \subseteq Nat \ {0} /\ IsFiniteSet(Euids)
    /\ MaxNodes \in Nat \ {0} /\ MaxNodes < NoSlot
    /\ Roles \subseteq Nat \ {0}
    /\ Leases \subseteq Nat /\ DefaultLease \in Nat \ {0}
    /\ WordMod \in Nat \ {0} /\ MaxUp \in Nat

Nodes == [euid : Euids, addr : 0..FreeAddr, role : Roles \cup {0},
          index : Index, seen : BOOLEAN]

ASSUME NoEntryFresh == NoEntry \notin Nodes

VARIABLES
    population,     \* environment: the nodes there are
    up,             \* uptime
    addr, euid, role, slot_id, lease_ends,  \* node_idx, field by field
    toSave,         \* the claimed entry of nodes_to_save
    byIndex, byEuid,    \* flash: last entry of an index, of a euid
    until,          \* history: uptime at which the lease of a record ends
    asked           \* history: role the node of a record asked for last

table == <<addr, euid, role, slot_id, lease_ends>>
flash == <<byIndex, byEuid>>
masterVars == <<population, up, table, toSave, flash, until, asked>>

TypeOK ==
    /\ population \subseteq Euids
    /\ up \in 0..MaxUp
    /\ addr \in [Index -> 0..FreeAddr]
    /\ euid \in [Index -> Euids \cup {0}]
    /\ role \in [Index -> Roles \cup {0}]
    /\ slot_id \in [Index -> 0..NoSlot]
    /\ lease_ends \in [Index -> 0..(WordMod - 1)]
    /\ toSave \in Nodes \cup {NoEntry}
    /\ byIndex \in [Index -> Nodes \cup {NoEntry}]
    /\ byEuid \in [Euids -> Nodes \cup {NoEntry}]
    /\ until \in [Index -> Int]
    /\ asked \in [Index -> Roles \cup {0}]

\* panmaster_pkg_init with an empty flash
Init ==
    /\ population \in SUBSET Euids \ {{}}
    /\ up = 0
    /\ addr = [i \in Index |-> FreeAddr] /\ euid = [i \in Index |-> 0]
    /\ role = [i \in Index |-> 0] /\ slot_id = [i \in Index |-> NoSlot]
    /\ lease_ends = [i \in Index |-> 0]
    /\ toSave = NoEntry
    /\ byIndex = [i \in Index |-> NoEntry] /\ byEuid = [e \in Euids |-> NoEntry]
    /\ until = [i \in Index |-> -1] /\ asked = [i \in Index |-> 0]

-----------------------------------------------------------------------------
(* Finding a place *)

Used == {i \in Index : addr[i] # FreeAddr}
RecordsOf(e) == {i \in Used : euid[i] = e}
RecordFor(e) ==
    IF RecordsOf(e) # {} THEN Min(RecordsOf(e)) ELSE Min(Index \ Used)

\* int32_t of an uint32_t
Signed(x) == IF x < WordMod \div 2 THEN x ELSE x - WordMod

LeaseExpired(i) ==
    /\ lease_ends[i] # 0
    /\ Signed(up % WordMod) > Signed(lease_ends[i])

\* the 16 bit addresses tried for a node, in the order of i
Low12(e) == e % 4096
Candidate(e, i) == IF i = 0 THEN e % 65536 ELSE (i % 16) * 4096 + Low12(e)

FirstFreeAddr(e) ==
    LET good == {i \in Index : /\ Candidate(e, i) # 0
                               /\ \A j \in Index : addr[j] # Candidate(e, i)}
    IN  IF good = {} THEN 0 ELSE Candidate(e, Min(good))

\* slots that a node with address a and role r may not have
TakenSlots(a, r) ==
    {slot_id[j] : j \in {k \in Used : /\ role[k] = r /\ addr[k] # a
                                      /\ ~LeaseExpired(k)}}

FirstFreeSlot(a, r) ==
    Min({s \in 0..MaxNodes : s \notin TakenSlots(a, r)})

LeaseTime(l) == IF l = 0 THEN DefaultLease ELSE l

-----------------------------------------------------------------------------
(* panrequest_cb *)

Entry(e, i, a, r, new) ==
    [euid |-> e, addr |-> a, role |-> r, index |-> i, seen |-> new]

StartLease(i, r, l) ==
    /\ lease_ends' = [lease_ends EXCEPT ![i] = (up + LeaseTime(l)) % WordMod]
    /\ until' = [until EXCEPT ![i] = up + LeaseTime(l)]
    /\ asked' = [asked EXCEPT ![i] = r]

\* Mutant: the slot of a known node is chosen without looking at the table
RenewLeaseBlind(e, r, l) ==
    /\ toSave = NoEntry /\ RecordsOf(e) # {}
    /\ LET i == RecordFor(e) IN
       /\ slot_id' = [slot_id EXCEPT ![i] = 0]
       /\ toSave' = Entry(e, i, addr[i], r, FALSE)
       /\ StartLease(i, r, l)
    /\ UNCHANGED <<population, up, addr, euid, role, flash>>

\* a node of the table: its slot is chosen anew; a changed role is
\* only noted in the entry to save
RenewLease(e, r, l) ==
    /\ toSave = NoEntry /\ RecordsOf(e) # {}
    /\ LET i == RecordFor(e) IN
       /\ slot_id' = [slot_id EXCEPT ![i] = FirstFreeSlot(addr[i], r)]
       /\ toSave' = Entry(e, i, addr[i], r, FALSE)
       /\ StartLease(i, r, l)
    /\ UNCHANGED <<population, up, addr, euid, role, flash>>

\* Mutant: the address is not compared with those of the table
NewLeaseAnyAddr(e, r, l) ==
    /\ toSave = NoEntry /\ RecordsOf(e) = {} /\ Used # Index
    /\ LET i == RecordFor(e)
           a == Candidate(e, 0)
       IN  /\ addr' = [addr EXCEPT ![i] = a]
           /\ euid' = [euid EXCEPT ![i] = e]
           /\ role' = [role EXCEPT ![i] = r]
           /\ slot_id' = [slot_id EXCEPT ![i] = FirstFreeSlot(a, r)]
           /\ toSave' = Entry(e, i, a, r, TRUE)
           /\ StartLease(i, r, l)
    /\ UNCHANGED <<population, up, flash>>

NewLease(e, r, l) ==
    /\ toSave = NoEntry /\ RecordsOf(e) = {} /\ Used # Index
    /\ LET i == RecordFor(e)
           a == FirstFreeAddr(e)
       IN  /\ addr' = [addr EXCEPT ![i] = a]
           /\ euid' = [euid EXCEPT ![i] = e]
           /\ role' = [role EXCEPT ![i] = r]
           /\ slot_id' = [slot_id EXCEPT ![i] = FirstFreeSlot(a, r)]
           /\ toSave' = Entry(e, i, a, r, TRUE)
           /\ StartLease(i, r, l)
    /\ UNCHANGED <<population, up, flash>>

\* the table is full: no answer, but the entry stays claimed, with nothing
\* in it but the euid
TableFull(e) ==
    /\ toSave = NoEntry /\ RecordsOf(e) = {} /\ Used = Index
    /\ toSave' = Entry(e, 0, 0, 0, FALSE)
    /\ UNCHANGED <<population, up, table, flash, until, asked>>

Answered(e, r, l) == RenewLease(e, r, l) \/ NewLease(e, r, l)

-----------------------------------------------------------------------------
(* Flash *)

\* panmaster_save_node
SaveNode(n) ==
    /\ role' = [role EXCEPT ![n.index] = n.role]
    /\ byIndex' = [byIndex EXCEPT ![n.index] = n]
    /\ byEuid' = [byEuid EXCEPT ![n.euid] = n]

\* Mutant: a record found in flash is taken to be up to date
PostProcessFound ==
    /\ toSave # NoEntry
    /\ toSave' = NoEntry
    /\ IF byEuid[toSave.euid] # NoEntry
       THEN UNCHANGED <<role, flash>>
       ELSE SaveNode(toSave)
    /\ UNCHANGED <<population, up, addr, euid, slot_id, lease_ends, until, asked>>

\* panmaster_postprocess: save the entry if flash has nothing like it; the
\* entry of a new node has a first_seen_utc of its own
PostProcess ==
    /\ toSave # NoEntry
    /\ toSave' = NoEntry
    /\ IF ~toSave.seen /\ byEuid[toSave.euid] = toSave
       THEN UNCHANGED <<role, flash>>
       ELSE SaveNode(toSave)
    /\ UNCHANGED <<population, up, addr, euid, slot_id, lease_ends, until, asked>>

\* panmaster_delete_node, from the shell
Delete(e) ==
    LET n == byEuid[e] IN
    /\ toSave = NoEntry /\ n # NoEntry /\ addr[n.index] = n.addr
    /\ addr' = [addr EXCEPT ![n.index] = FreeAddr]
    /\ euid' = [euid EXCEPT ![n.index] = 0]
    /\ slot_id' = [slot_id EXCEPT ![n.index] = NoSlot]
    /\ SaveNode([n EXCEPT !.addr = FreeAddr])
    /\ until' = [until EXCEPT ![n.index] = -1]
    /\ asked' = [asked EXCEPT ![n.index] = 0]
    /\ UNCHANGED <<population, up, lease_ends, toSave>>

\* panmaster_clear_list, from the shell
Clear ==
    /\ toSave = NoEntry
    /\ addr' = [i \in Index |-> FreeAddr]
    /\ slot_id' = [i \in Index |-> NoSlot] /\ role' = [i \in Index |-> 0]
    /\ byIndex' = [i \in Index |-> NoEntry]
    /\ byEuid' = [e \in Euids |-> NoEntry]
    /\ until' = [i \in Index |-> -1] /\ asked' = [i \in Index |-> 0]
    /\ UNCHANGED <<population, up, euid, lease_ends, toSave>>

\* what panm_fcb_sort leaves in flash: the records in use, by address
Stored == {i \in Index : byIndex[i] # NoEntry /\ byIndex[i].addr # FreeAddr}
Position(i) ==
    Cardinality({j \in Stored : \/ byIndex[j].addr < byIndex[i].addr
                                \/ byIndex[j].addr = byIndex[i].addr /\ j < i})
Sorted ==
    [k \in Index |->
        IF \E i \in Stored : Position(i) = k
        THEN [byIndex[CHOOSE i \in Stored : Position(i) = k] EXCEPT !.index = k]
        ELSE NoEntry]

\* a reset and panmaster_pkg_init: the table is loaded from the sorted flash
Restart ==
    /\ up' = 0
    /\ byIndex' = Sorted
    /\ byEuid' = [e \in Euids |->
          LET own == {k \in Index : Sorted[k] # NoEntry /\ Sorted[k].euid = e}
          IN  IF own = {} THEN NoEntry ELSE Sorted[Max(own)]]
    /\ addr' = [k \in Index |-> IF Sorted[k] = NoEntry THEN FreeAddr
                                ELSE Sorted[k].addr]
    /\ euid' = [k \in Index |-> IF Sorted[k] = NoEntry THEN 0 ELSE Sorted[k].euid]
    /\ role' = [k \in Index |-> IF Sorted[k] = NoEntry THEN 0 ELSE Sorted[k].role]
    /\ slot_id' = [k \in Index |-> NoSlot]
    /\ lease_ends' = [k \in Index |-> 0]
    /\ toSave' = NoEntry
    /\ until' = [k \in Index |-> -1] /\ asked' = role'
    /\ UNCHANGED population

Tick ==
    /\ up < MaxUp
    /\ up' = up + 1
    /\ UNCHANGED <<population, table, toSave, flash, until, asked>>

MasterNext ==
    \/ \E e \in population :
          \/ \E r \in Roles, l \in Leases : RenewLease(e, r, l) \/ NewLease(e, r, l)
          \/ TableFull(e) \/ Delete(e)
    \/ PostProcess \/ Clear \/ Restart \/ Tick

MasterSpec == Init /\ [][MasterNext]_masterVars

-----------------------------------------------------------------------------
(* Properties *)

Running(i) == i \in Used /\ up <= until[i]

\* Neither the record nor the entry about to be saved has the role asked for.
\* Saving the entry of a request that found the table full does this to record 0.
Overwritten(i) ==
    /\ role[i] # asked[i]
    /\ ~(toSave # NoEntry /\ toSave.index = i /\ toSave.role = asked[i])

\* Two running leases that were asked for with the same role name different
\* slots (first_free_slot_id), whatever was deleted, forgotten or renewed, except
\* where the record of one lost its role: first_free_slot_id passes such a record
\* over, and its slot is given away while its lease runs.
SlotsExclusive ==
    \A i, j \in Index :
        Running(i) /\ Running(j) /\ i # j /\ asked[i] = asked[j]
            => slot_id[i] # slot_id[j] \/ Overwritten(i) \/ Overwritten(j)

\* No more nodes than the table holds, and than the addresses with their low
\* bits: with 15 of them alike, the address 0 may be handed out twice.
Alike(e) == {f \in population : Low12(f) = Low12(e)}
Supported ==
    /\ Cardinality(population) <= MaxNodes
    /\ MaxNodes < 16 \/ \A e \in population : Cardinality(Alike(e)) < 15

\* A node has one record, and no two records have the same address
\* (panmaster_idx_find_node, first_free_short_addr), also across restarts.
OneRecordPerNode ==
    Supported =>
        \A i, j \in Used : i # j => euid[i] # euid[j] /\ addr[i] # addr[j]

\* What the master would lose by a restart is what it is about to save
\* (panmaster_postprocess).
FlashAgrees ==
    Supported =>
        \A i \in Used :
            \/ toSave # NoEntry /\ toSave.index = i
            \/ /\ byIndex[i] # NoEntry
               /\ byIndex[i].euid = euid[i] /\ byIndex[i].addr = addr[i]
               /\ byIndex[i].role = role[i]
=============================================================================
