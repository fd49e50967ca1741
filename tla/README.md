# A TLA+ model of uwb-core

uwb-core is Decawave's middleware for ultra-wideband nodes: ranging protocols,
clock calibration, a TDMA schedule, PAN membership, firmware broadcast and a
small packet transport, written against a portability layer (dpl) and an
abstract radio (`struct uwb_dev`). Every service registers a table of MAC
callbacks (`struct uwb_mac_interface`) that the interrupt task of the device
runs, while tasks, timers and the shell call the service's own API. What makes
this code hard to test is where these meet: nearly every service uses a counting
semaphore as lock, completion signal and flag at once ("release it if its count
is zero"), several services share one transceiver, any of them may switch it off
under the others, frames get lost and nodes restart.

This directory holds the models of the parts that carry that logic, the TLC runs
on small instances, and TLAPS proofs for every instance.

## 1. Inventory

### Threads and shared state

| who runs | what it calls | shared with |
|---|---|---|
| application tasks | `uwb_transport_enqueue_tx`, `_dequeue_tx`, `_listen`, `uwb_rng_request`, `uwb_rng_listen`, `nrng_request`, `uwb_ccp_start`, `_stop`, `tdma_assign_slot`, `_release_slot` | the callbacks, through semaphores and the instance |
| interrupt task of the device | the callbacks of every registered interface, one interrupt at a time | every service of the device |
| `uwb_ccp` task | timer event, `ccp_send`, `ccp_listen`, `uwb_phy_forcetrxoff`, which runs `reset_cb` of every service; superframe announcements | every service of the device |
| tdma task | the superframe's event and the slots' events: callbacks of any length | slot timers, `superframe_cb`, release |
| default event queue | mbuf queues, deferred events, saving to flash | producers, shutdown |
| shell | deletion and clearing of leases, `txim` | the tables |

### Components and what makes them correct

| component | state | operations | hard | correct when |
|---|---|---|---|---|
| `uwb_transport` | `tx_q`, `rx_q`, three semaphores, sequence numbers, header of the last frame | enqueue, dequeue in a slot, listen, callbacks, receive queue, extensions, shutdown | two threads that check and release the same semaphores; writing the next packet while the last goes out; retries over slots; lost, late or foreign acknowledgements; resets | a count never runs away, frames neither overlap nor get overwritten, a packet is tried as often as asked, "sent" means received, every packet is resolved, no mbuf is lost, repeats are rejected |
| dpl mqueue, eventq | mbuf list, event list, `ev_queued` | put, get, run | the flag is used outside the mutex | no wake-up is lost |
| dpl mbufs | chains of buffers of one pool, length in the head | all operations on a chain | the pool runs out half-way; empty buffers; headers that move | bytes are kept, lengths true, no buffer lost |
| `uwb_rng` with `twr_ss`, `twr_ds` | one semaphore, ring of frames, code received last, `complete_after_tx` | request, listen, callbacks, 3 or 4 frames | two nodes run the code against each other; overheard, lost, foreign, malformed frames; resets | a node reports its own exchanges with their own times, both ends agree, requests return, results stay readable |
| `nrng` with `twr_ss_nrng` | ring of frames, slot mask, sequence number | request, listen, callbacks, reading of results | many answers to one request; what earlier and foreign requests left in the ring | what is read are the slots that answered this request |
| `uwb_ccp` | epochs, `missed_frames`, timer, semaphore | start, stop, timer handlers, send, listen, callbacks | timed pends against late callbacks; resets; wrap of an 8 bit counter and of the 40 bit clock | superframes are true, the timer chain never breaks, slaves find the master again |
| `tdma` | slots, their timers and events | superframe, slot timers, task, assign, release, stop | events queued behind a new superframe; long callbacks | slots run in their time, once, and are served |
| `uwb_pan`, `panmaster` | table of nodes, flash log, leases of nodes | request, renewal, post-processing, deletion, restart; blink, listen, reset, expiry | a full table, restarts, lost answers, two clocks | a slot or address has one owner, nobody is forgotten, a node's lease is on the master's books |
| `bcast_ota` | flash area, offset and version of upload and sender | command, its callout, upload, restart | lost packets, crashes in erasing and writing | an image is never a mixture, everybody gets the new one |
| `rtdoa`, `rtdoa_node`, `rtdoa_tag` | one semaphore, ring of frames, request frame in it | request, listen, callbacks, pairing of frames | a tag that hears some of many anchors; lost requests; frames of other services that end | a difference of arrival belongs to the request that was answered |
| `nmgr_uwb`, `nmgr_cmds`, `survey`, `tofdb`, `uwb_wcs`, ... | | | | not modelled, see section 6 |

## 2. Modules

| module | models | lines of |
|---|---|---|
| `UwbTransportTx` | the sending half of uwb_transport | `lib/uwb_transport` |
| `PacketService` | the abstract service an acknowledged sender promises | |
| `UwbTransportRx` | the receiving half, with shutdown | `lib/uwb_transport` |
| `DplMqueue` | mbuf queue and event queue of the Linux port | `porting/dpl_lib`, `porting/dpl/linux` |
| `MbufChains` | packets as chains of buffers from a pool that runs out | `porting/dpl_lib` |
| `TwrSs` | uwb_rng with twr_ss on a set of nodes that share the air | `lib/uwb_rng`, `lib/twr_ss` |
| `TwrDs` | twr_ds on the engine, the variables and the disturbances of `TwrSs` | `lib/twr_ds` |
| `Nrng` | one node of N-to-1 ranging and its peers | `lib/nrng`, `lib/twr_ss_nrng`, `lib/uwb_rng/slots.c` |
| `Rtdoa` | requester, anchors and a tag that listens | `lib/rtdoa`, `lib/rtdoa_node`, `lib/rtdoa_tag` |
| `UwbCcp` | the clock calibration service of one node | `lib/uwb_ccp` |
| `Tdma` | the slots of a superframe | `lib/tdma` |
| `PanMaster` | the master's table of leases and its flash | `lib/panmaster` |
| `PanLease` | EXTENDS `PanMaster`: nodes and master over the air | `lib/uwb_pan` |
| `BcastOta` | a sender and the receivers of firmware images | `mgmt/bcast_ota` |
| `MCTransportTx`, `MCAnswers`, `MCData`, `MCTwr`, `MCPan`, `MCSchedule` | the instances that TLC checks | |
| `UwbTransportTxProofs`, `ReceivePathProofs`, `TwrSsProofs`, `TwrDsProofs`, `AnswersProofs`, `ScheduleProofs`, `PanMasterProofs`, `MbufChainsProofs` | theorems | |

`TwrSs`, `TwrDs` and `PanLease` are compositions: nodes that run the same code
share the air. Between services the coupling is kept as the interface the code
has: the resets that `uwb_ccp` inflicts are the action `Reset` of the others,
its superframes the `Report` of `Tdma` (whose ticks are true because of
`EpochTrue`), its missing ones `MaxAge`.

The MC modules put several modules side by side in one run. A variable
`instance` chooses which of them moves, the others stand still, so such a run is
the sum of its instances and nothing is assumed of how they interact.

### UwbTransportTx

The three semaphores are the function `sems`. `pc` follows
`uwb_transport_dequeue_tx` from the pend of `write_tx_lock` over the write, the
pends of `sem` and `ack_sem`, the start, the wait for the acknowledgement and its
verdict. A step ends wherever the interrupt task can get in: at each pend, at
each call of the radio, and between the `dpl_sem_get_count` and the
`dpl_sem_release` of every "release it if it is zero". Those places are the table
`Site`; `ReadCount` and `ReleaseSeen` are the two halves.

The callbacks have the same places, in the table `Duty`: `cbAt[t]` is the one at
which thread `t` is, `cbStep[t]` whether it is about to look (`CbLook`), to write
`ack_seq_num` (`CbName`) or to release (`CbGive`). The interrupt task (`"irq"`) runs
one callback after the other: `TxBegins`, `TxComplete`, `AckReceived`, `RxTimeout`,
`ForeignFrame`, `ListenEvent`. `reset_cb` (`Reset`) runs on the task of whoever called
`uwb_phy_forcetrxoff`, one of `Resetters`, and goes through its three pairs one after
the other while the other two threads go on.

`Enqueue` includes the failing append (`rejected`). The retry
counter lives in the mbuf, as in the code, and survives the slot. `outcome`,
`granted`, `attempts` and `rcvd` are history. Frame durations are reduced to
`room`: how many frames still fit in the slot; each call starts with any room, so
every split of packets over slots happens.

### UwbTransportRx

`rx_complete_cb` with a data frame is `RxDuplicate`, `RxAccept` or `RxDrop`. Time
advances in ticks of which `Window` make the filter's 10 ms; `last_age`
saturates there, since older is all the same to the filter. The wrap of the
32-bit cputime, after which a header that is 71 minutes old looks fresh, is left
out. `ProcessGet` and `ProcessDeliver`/`ProcessStop` are two steps because the
mbuf is taken before `has_init` is tested. `pkg_down` is four steps. A callback
that is already running while `pkg_down` frees the instance is not modelled
(nothing in the code prevents it).

### DplMqueue and MbufChains

Every access to `ev_queued` is a step, the locked sections are one step each. The
accesses of a producer follow its release of the mbuf mutex and each clear by
the reader follows an acquisition of the event mutex and precedes one of the
mbuf mutex; with those edges the interleavings of whole accesses cover what the
build can produce for the property at stake. The race does allow the event to be
queued twice, which is harmless: the second run finds the queue empty.

A chain is the sequence of its mbufs, each with its data, the offset of the data
and a flag for the packet header; the pool is a count. Every operation is an
operator from chain and pool to chain and pool (`Appended`, `TrimmedTail`,
`PulledUp`, ...) that takes the same buffers as the code and stops where an
allocation fails. The actions apply them in any order, so that the chains on
which `BytesKept` compares each operator with what it should do to a plain
sequence of bytes are those that sequences of calls leave behind.

### TwrSs and TwrDs

`rng[n]`, `task[n]` and `phy[n]` are a node's instance, task and radio. An
exchange is named by its initiator and number. In `TwrSs` a frame carries the
exchange its times belong to (`ex`) and, for FINAL, the request it was combined
with (`req`). In `TwrDs` each of the four times of a frame is a pair of frame and
exchange, and a received frame is copied over the entry of the ring only as far
as it is long (`Over`, `Carried`), so that what an entry held before shows. The
answer of a double-sided exchange is made in the entry after the current one, as
in the code. `TxEnd(n, R)` ends a transmission and delivers the frame to any set
`R` of nodes that can hear it: losses are the nodes left out. `RxMisfit` and
`DsMisfit` are frames too short or too long: uwb_rng returns early and the
protocol acts on the code and ring entry of the frame before.

The index `idx` is kept modulo `NFrames`. In the code it is a `uint16_t` starting
at 0xFFFF and the modulus is applied at each use, which agrees as long as
`nframes` divides 65536; the applications use four frames.

### Nrng

The ring, the request with its slot mask, answers that arrive in any slots or
not at all, also late ones of the request before, and requests of others that
are answered (`ForeignRequest`). A frame in the ring has its sequence number
modulo `NrngSeqMod` as in the code and, as history, the slot of the peer and how
many requests ago it came. `Read` is what `survey_request` does with the results.

### Rtdoa

The requester, other anchors and a tag share the air. `unit[n]` is a node's
semaphore, caller and radio; of an anchor's ring only the code at `idx` and the
sequence of `req_frame` matter, the tag's ring is kept whole. A received frame
waits in `got` for `rx_complete_cb`. `tx_complete_cb` is one operator
(`RtdoaTxComplete`), used for the service's own frames (`RtdoaSent`) and for those
of others (`OtherSent`), since the code tells them apart only by `frames[idx]`. With
ideal clocks a conversion is right if it is based on a request, so times are
reduced to sequences. `ring_idx` is the tag's index as the code counts it, a word
that comes round at `IdxMod`, with the modulus of the ring applied at each use
(`Last`). `Usable` is the test of `rtdoa_tdoa_between_frames`; nothing in
the repository calls it, so it may be called for any entry at any moment.

### UwbCcp and Tdma

`late` counts the beats of the master since the one that the believed epochs
stand for, modulo the wrap of the 40 bit clock: that is all the properties
tell apart. The ccp task is stepped through `ccp_send` and `ccp_listen` at each pend,
radio call and count test; the timer, both of its handlers, stop and restart from
another thread, and every callback are actions. Four threads look at the count of
`ccp->sem` and release it: the ccp task (`pc`), the interrupt task (`irq`),
`uwb_ccp_stop` (`stop`) and the `reset_cb` of another service's reset (`resetter`).
In each of them look and release are two steps. `missed_frames` keeps its width.

Times in `Tdma` are ticks from the last superframe reported; the event queue is a
sequence, as order decides which event finds which start. `Release` does what
`tdma_release_slot` and `tdma_stop` do and does not look whether the slot's event is
queued. If it was, the queue holds freed memory (`Freed`), what follows is
undefined, and the model ends there: the properties of tdma are about runs up to
that state.

### PanMaster and PanLease

The table is kept field by field as in `node_idx`. The flash log is two maps,
because its two readers look for the last entry by index or by euid. A request
is `RenewLease`, `NewLease` or `TableFull` with the address and slot allocators as
operators; `PostProcess` saves; `Restart` loads what `panm_fcb_sort` leaves.
`lease_ends` keeps the width of its word and the signed comparison. Two histories
say what was meant: `until` is when the lease ends in truth, `asked` the role that the
record's node asked for last, which post-processing may not alter. `SlotsExclusive`
compares by `asked`. Its one excuse is `Overwritten`: neither the record nor the entry
about to be saved has the role asked for, which is what a full table does to record 0.

In `PanLease` a frame on the air reaches any set of those who wait; the node's lease
is a callout that runs down while the master's is a time. Between them is `lease_us`
(`LeaseLeft`): the lease less the difference of two readings of the radio's clock,
each any of the `Turn` values of that clock, not masked, modulo the 32 bits of
`lease_us`. The history `excess` is what this may add to the node's lease
(`Excess`): a turn of the clock if it came round between epoch and answer, the range
of `lease_us` if the epoch was older than the lease is long.

### BcastOta

A flash area is a few cells, each erased, of a version, or mixed. The sender's
callout sends header, blocks and end; a node covers the block, erases or goes on
by the version in the header alone, and reboots when its image is whole. Faults
are lost packets, failed allocations, transfers cut short, crashes also inside
erasing and writing (`CrashInUpload`), and a newer image at the sender.

## 3. Runs

Twelve runs, one for each question. Times are with two workers.

| run | properties | shows | size |
|---|---|---|---|
| `Answers` | `ImplementsService`; `ReadingsTrue` | acknowledged and undisturbed, the sender implements `PacketService`; N-to-1 ranging and differences of arrival read what belongs to the exchange | 528 000 states, 45 s |
| `TxDisturbed` | `TypeOK`, `RetryContract`, `SemBound`, `QueuedResolved` | with resets of another task, foreign frames, stray acknowledgements and listening slots | 708 000 states, 130 s |
| `Data` | `NoOverlap`, `ErrataSafe`, `FrameIntact`; `MbufsAccounted`, `RejectsRepeats`; `NoLostWakeup`, `AllHandled`; `BytesKept`, `ChainsSound` | the data path: sender without acknowledgements; receiver; mbuf queue; mbuf chains | 1 107 000 states, 145 s |
| `TwrSafe` | `RangeCurrent`, `ResultKept`, `TokenOK`, `RequestReturns`; `DsPairKept` | undisturbed ranging of three nodes, single- and double-sided | 319 000 states, 140 s |
| `TwrDisturbed` | `TypesOK`, `EndsAgree`, `RequestReturns` | both protocols with resets, superframes, foreign and malformed frames | 814 000 states, 200 s |
| `Pan` | `TypesOK`, `SlotsExclusive`, `OneRecordPerNode`, `FlashAgrees`; `HoldersCovered`; `ContinuesClean`, `Updates` | the master's table alone; nodes and master over the air; broadcast of images | 943 000 states, 190 s |
| `Schedule` | `TypesOK`, `EpochTrue`, `NeverIdle`, `Resyncs`, `Beacons`; `SlotOnce`, `SlotServed`, `SlotOnTime` | uwb_ccp as master and relay; tdma | 380 000 states, 180 s |

Five runs check what a comment, a document or a test of the code says, and find
it violated:

* `TxResetErrata`. The comment before the pend of `write_tx_lock` says "DW1000
  Errata 1.1, inhibit overlapping writes until transmission begins". The task has
  taken the lock and written the first packet when another task's `reset_cb` runs.
  It finds `ack_sem` and `sem` free; before it comes to the lock, the task takes
  `sem`, starts the frame and waits for the lock to write the second packet. Now
  `reset_cb` reads the lock's zero and releases it, and the task writes the buffer
  before the transmission of the first frame has begun. (`NoOverlap` fails with
  resets as well.)
* `MbufHeader`. `dpl_mbuf.h` says of `dpl_mbuf_copyinto` that "the header length
  is updated". It is computed from what is left of the length after the bytes
  overwritten, so the header of a chain of several buffers counts too few.
* `TwrResetStale`. "Set by ranging state machine to say that exchange is
  complete after next tx": a reset while FINAL is being sent leaves
  `complete_after_tx` set, and the end of the next request frame is reported as a
  completed exchange.
* `PanRollover`. The selftest waits for "tick rollover" and asserts that another
  node gets another slot. Ends of leases are compared as signed words: a lease
  granted over the change of sign counts as expired at once.
* `CcpMissed`. "The number of missed ccp frames we can tolerate before stopping
  tdma": `missed_frames` is a byte that a hunting slave counts on, so after 256
  misses superframes are reported again.

### Bounds

*Transport.* `Packets` 1 to 3: a head, a follower and a change of head; 3 where a
third packet must be written while the second is behind the first on the air.
`MaxRetries` 1 distinguishes none, some and used up. `TxSeqMod` 2 or 3: with 2 the
number before last already collides. `SlotRoom` 1 or 2: a call that sends nothing,
one frame, or a frame and a follower. `PoolSize` 3: the pool runs empty with mbufs
queued, held and owned. `Window` 2: inside, at the edge, outside. One other task
resets (`Resetters`), as on a node with one clock service; the bound of three
threads that `SemBound` then states is reached. The run with resets has one packet,
since every step of the other task multiplies the states; `TypeCorrect`,
`SemaphoresBounded` and `RetriesRespected` are for any number of packets and of
resetting tasks. `ListenBound`: no slot is spent on listening once every packet is
resolved. `MaxPackets` 3 with `RxSeqMod` 4 keeps numbers of one sender distinct
within the window, as 256 numbers do. Three producers: two race for the flag while a
third inserts.

*Mbufs.* Three buffers of two bytes, one of which a header takes, and operations
of up to three bytes: an operation crosses two buffers, starts inside one, and the
pool runs out at each of them. After `dpl_mbuf_copyinto` has left a header short,
the packet is only freed (`short`): `dpl_mbuf_adj` from the tail would wrap its
16-bit length.

*Ranging.* Three nodes in the roles initiator, responder and both. `NFrames` is 2,
the tightest ring, in `TwrDisturbed`, and 3, the tightest for `DsPairKept`, in
`TwrSafe`. `MaxRequests` 1 with three nodes or with disturbances, 2 in
`TwrResetStale`, where the second request is the one misreported. In the
double-sided instance of `TwrSafe` a node that may request does not listen
(`DsBound`), in that of `TwrDisturbed` malformed and foreign frames and superframes
hit one node of either role, resets hit both. `SemCap` 2 stops a node whose
semaphore has run away from listening again; it binds only with resets or
superframes. `RingSize` 2 with two slots: every request overwrites the last one's
frames or leaves them; `NrngSeqMod` 3 makes the number of the frame come round. Two
anchors and a tag with `TagFrames` 4, the number of anchors and two more, as the
default 18 is for 16; with `MaxSeqs` 2 the second request and its responses wrap
over the first's, and `IdxMod` 4 makes `ring_idx` come round too. `RtdoaBound`: the
requester only requests, the other anchor's listens start and do not block, and only
the tag, whose listens may fail or block, gets surplus tokens.

*Schedule.* `Tolerate` 1 and `MissedMod` 3: tolerated, one too many, wrapped; `Half`
2: an epoch ahead, behind and wrapped. Two slots of three ticks with latency and
allowed delay of one: in time, late, and late by a slot. `MaxAge` is a period and a
tick: a missing superframe. The count of `ccp->sem` needs no bound: it never exceeds
4 (`CcpTypeCorrect`), and reaches it on the master. `CcpBound` restricts the relay
only: there another service's reset overlaps neither `uwb_ccp_stop` nor a callback,
and a callback has ended when the task has started the next listen.

*PAN.* Two records, three possible nodes (a full table), of which 666 and 66202
agree in the low 16 bits their addresses start from; lease times of one tick, of
more than fits into the node's microseconds (`UsWrap`), and the default. `MaxUp` 2
ticks outlast the default lease. `Turn` 3: the age of an epoch is negative, within the
lease, or above it.

*Images.* Three versions, an area of four cells in packets of two, each repeat
twice, three faults among them all kinds. Receivers do not interact; the theorem
is for any number.

### Fairness

*Transport.* Weak for the task, for the steps of a started frame and for an open
window. Strong for slots with room and for a start that succeeds: slots recur,
each with the room the application configured. Nothing is assumed of
acknowledgements. A callback that was entered is finished: it is part of the weak
fairness of the interrupt task. `ResetSpec` (`BoundedSpec` in the run) adds that
`uwb_phy_forcetrxoff` keeps being called; `uwb_ccp.c:939` and `:1026` do so in every
period.

*Queue.* Weak for the reader and each producer: threads.

*Ranging.* `TwrSafe`: tasks are scheduled, a started frame goes out, a received one
is handled, and a window opened with a time-out closes. `TwrDisturbed`: only the
task of the requester is scheduled and its node is reset again and again, by
`uwb_ccp`; the radio may fail in any way.

*Schedule.* Weak for the timer, the ccp task, the interrupt task and the time-outs.
Strong where chance decides and the code retries: time passes while threads wait, a
master's starts are in time and its transmissions come to their end, a slave hears
beacons when it listens, and no callback always falls between the last two steps of
its `ccp_listen`. The resets of other services cease in the end (`<>[](resetter =
"none")`). Without that the two liveness properties fail: a reset that comes before
every start leaves a surplus release behind, which ends the wait of every operation
at once, so that the next one takes the radio from it. In the repository no service
but `uwb_ccp` resets the radio periodically; the other calls are `rng_sysfs.c`,
`uwb_ccp_stop` and applications.

*PAN and images.* Nothing is assumed of the PAN, whose properties are all safety.
The operator repeats `txim`, the sender's callout runs, the nodes' upload and reboot
happen; faults are finitely many.

`CHECK_DEADLOCK FALSE` appears where the bounded system may really stop: all mbufs
handled, uptime used up, no more packets.

### Mutants

Each property of each passing run has a definition marked "Mutant" in the module:
the action with a dropped guard, a missing reset or release, a wrong index. With
it in place TLC refutes the property on the same instance.

## 4. Proofs

All for arbitrary constants that satisfy the named assumptions; no bound of the
runs is used except those that the actions themselves name.

**Sender, whatever disturbs it** (`UwbTransportTxProofs`). `TypeCorrect` needs
`Inv0`: the types together with `HeadThere`, that between the slot's start and its
end the queue is not empty. `SemaphoresBounded`: `SemBound` is already the count
together with the releases that are still to come (`Releasers`), which is what makes
it inductive: a thread joins the releasers of a semaphore only when it has read a
zero or taken a token, and by its release it leaves them. `SemInv` adds that the
task remembers a zero it read (`saw0`) only where it is about to release, `IdleInv`
that a thread in no callback starts the next one with a look. The bound is the
number of threads, any number of resetting tasks included. `RetriesRespected`:
`RetryInv` ties the retries left in each mbuf to the starts made so far, with the
one start that is `Counted` but not yet written back.

**Sender without resets and listening** (`Calm`). `CalmSafe` and `BuffersUntouched`
give `NoOverlap` and `ErrataSafe` from `HoldInv` (each of `sem` and `write_tx_lock`
is free exactly when neither the task, nor the radio, nor a callback that is yet to
release it has it), `AckInv` (who releases `ack_sem`) and `NoListen`. `FramesIntact`
adds `BufInv`: while a frame is in flight the next write goes to the other half, or
the write comes after `Drain`.

**Refinement** (same module). `SenderImplementsService`: acknowledged, and disturbed
at most by foreign frames, the sender implements `PacketService`. `ServiceInv` says
that the frame awaiting its acknowledgement is the head of the queue and that a
matching `ack_seq_num` implies the peer has it. The mapping drops retries from the
queue and takes `rcvd` for `delivered`.

**Receiver** (`ReceivePathProofs`). `RxTypeCorrect` and `MbufsNeverLost` from
`RxInv`: the types, and that the mbufs in known places are as many as the pool
while `has_init` is set, and no more afterwards. `RepeatsRejected` is for one sender
whose numbers do not come round: `Seen` says that what was accepted within the
window is of an earlier packet, or is the header that is remembered.

**Queue** (same module). `WakeupsKept`: `WakeInv` says that a non-empty queue
with an idle reader has a producer still in `put`, or the event in the list, and
that a set flag has an event behind it, queued or about to be. `MqTypeCorrect`.

**Single-sided ranging** (`TwrSsProofs`). `TwrTypeCorrect` and `TwrEndsAgree` hold
under every disturbance. The latter rests on `AgreeInv`: a FINAL in a radio buffer,
in the ring at `idx` or in a report belongs to an exchange whose T1 its initiator
used, and in the ring and the report of a node that node is one of its two ends.
`TwrOneToken` and `TwrRangeCurrent` assume no resets, superframes or malformed
frames (`Calm`); `NodeInv` states the token and, for a node that sends FINAL, that
the ring entry at `idx` is the frame in the radio and that `complete_after_tx` is
set only then. `TwrResultKept` assumes blocking calls too (`Quiet`); `KeptInv` says
that the entry a waiting request has chosen is the one after `idx`, which only a
node whose task is not at work moves.

**Double-sided ranging** (`TwrDsProofs`). Every action is first described by what it
does to its node (the lemmas named `...Does`), from any state of the right types.
`DsTypeCorrect` and `DsEndsAgree` hold under every disturbance, `DsOneToken`,
`DsRangeCurrent` and `DsResultKept` under the conditions above, on invariants like
those of `TwrSs`. `DsPairsKept` assumes blocking calls without resets, superframes
and malformed frames (`Quiet`), and a ring of three frames or more, without which it
fails (section 5). It needs to know where each of the eight times comes from.
`AirInv`: at most one frame of an exchange is on its way (`Unique`), because a
request is of an exchange that no frame was ever in (`Dated`) and a frame that has
reached its node is gone from the air; so what both ends of it have sent last is the
frame that it answers, and itself (`SentLast`), and the times it carries are of its
exchange (`Content`). `RingNode`: as long as the window for an answer is open
nothing was received since the last transmission, so that the entry at `idx` still
holds what that frame left there, which is half of the first round trip at the
responder and all of it at the initiator. `PairNode` is the property. The arithmetic
of the ring is `Neighbours`: among three entries a request or an overheard frame,
which go after `idx`, miss both `idx` and the one before. `MCOneToken`,
`MCResultKept`, `MCPairKept`, `MCTypes` and `MCEndsAgree` carry all of it over to
the two compositions of `MCTwr`, either protocol, for any constants.

**tdma** (`ScheduleProofs`). `TdmaInv`: `AllAssigned` (timers only of assigned
slots), `StartsTrue` (the starts of armed and queued slots are those of the last
superframe handled), `NoneLate` (no timer is overdue), `OneLeft` (a slot that can
still run has not run, `SlotsRunOnce`) and `NoneMissed` (a slot that has not run
still can, `SlotsServed`). It is kept by every step up to the one that frees a slot
with its event queued, where the model ends; that an event is of an assigned slot is
`~Freed` in the guard of `TdmaNext`, not a result. `SlotsOnTime` is an action
property: `RunSlot`'s test against the start is a test against the slot's time.

**uwb_ccp** (same module). `CcpInv` holds whatever callbacks, time-outs, resets,
stop and restart come between the steps of the task and of the two handlers.
`CcpTypeCorrect`: `CcpSemInv` adds to the count of `ccp->sem` what the task holds and
what a callback, `uwb_ccp_stop` and a reset of another thread have found zero and not
yet released; the sum never exceeds the number of threads, so the count is at 4 or
below without a bound. `RoleInv` says which handler, operation
and radio state belong to which role. `NeverIdles`: `AwakeInv` adds to the property
that a master whose `tx_complete_cb` has restarted the timer still has it armed or
its event queued, so that its handler may go without. `EpochsTrue`: `MasterNear`
and `SlaveNear` say that the beat a node stands for is the one that runs now or the
one before, and that a slave which listens without a window has passed its beat;
`MissInv` ties `missed_frames` to the beats lost, which decides whether a slave still
follows its own epochs. `ScheduleTypes` carries the types over to the composition.

**Many answers** (`AnswersProofs`). `RangesRead`, for any ring at least as large as
the cell: `AgesTrue` says that the sequence number of a frame tells how many
requests ago it came, up to a turn of the number; `ComingTrue` that an answer on its
way with the number of now is of the slots of now; `HeardTrue` that the slots heard
have their frames where `nrng_get_ranges` looks for them and that no other entry is
of this request. `BitIndexes` and `Ats` are the arithmetic of the slots: slots asked
have different positions, and positions different entries.
`DifferencesOfOneSequence`, for any number of anchors, assumes `RingWhole`: the size
of the ring divides the range of its index, so that the place after the last entry
is also the next one when the index comes round (`NextStored`). The default of 18
frames does not satisfy that, and without it the theorem is false (section 5).
`RingRoom` counts what the tag has stored since its request, what is arriving, and
the anchors that may still respond; the sum is at most the number of anchors,
because each responds once, so a ring of more than NNODES+1 entries never comes
round to the request. `SeqsTrue` says that nobody has anything of a request not yet
sent, `RequestNew` that a request the tag is about to hear is newer than all it has.
`ReadingsOfOneExchange` is both of them in the composition. `ReadingsTrue` excuses a
request that shared its time with a foreign one (`joined`) and sequences whose
request the tag missed (`strays`).

**Images** (in `PanMasterProofs`). `OtaContinuesClean` for any number of nodes,
versions and blocks: `OtaInv` is `NoneNewer` (nothing in a node is newer than what
the sender has), `NewestOnAir` (a packet on the air that is not of the current
version comes before anything of that version), `BlankAtFirst` and the property.
It is an invariant only because versions grow.

**panmaster** (`PanMasterProofs`). `PanTypeCorrect`; `PanOneRecord` and
`PanFlashAgrees` for any table and any nodes the master can serve (`Supported`),
under any requests, deletions, clearings and restarts. `Table` is `Unique` (the
property), `Known` (records are of nodes there are) and `LowBits` (an address has
the low 12 bits of its node, or is 0): they make an address that is handed out
nobody's (`FreshAddr`, which counts the records that would hold the candidates), and
the table never full (`NeverFull`). `Copy` says that flash holds no record in use
that the table has not (`StoredUsed`), that the entry to save is of a record in use
(`Pending`), and that flash agrees by index and by euid but for a new entry that
waits (`Kept`, `RoleKept`). The full table and the compaction of the log are outside
these theorems. `PanSlotsExclusive`, under `Supported`, needs `NoWrap` too: no lease
ends past half the range of the clock, which the run `PanRollover` shows to be
necessary. It proves `NoneOverwritten` along with the property: a record in use, or
its entry about to be saved, has the role that was asked for (`AskedTrue`), so for
nodes the master can serve the excuse in `SlotsExclusive` is never used. With a full
table it is (section 5). `LeaseTrue` then makes a running lease one that
`LeaseExpired` does not take for expired, and `FreeSlot` finds a slot among one more
than there are records.

**The PAN** (same module). `PanImplementsMaster`: over the air the master takes only
steps of `MasterSpec`, so all of the above holds there; `PanSpec` has no shell, so
deletions and clearings of leases are not among them. `PanHoldersCovered`, with no
assumption on the number of nodes or either clock, and with what `excess` grants to
a node whose radio clock came round or whose epoch was old: `AirTrue` says that an
answer on the air is what the table says, `TimerRuns` that the callout of a valid
lease runs. Together they give `PanNoSlotShared`, under `Supported` and `NoWrap`:
two nodes that are `UpToDate`, that is, heard the master's last word on their leases
and have no `excess`, never share a slot. `NetworkTypes` is the types of table,
nodes, frames and images in the composition of `MCPan`.

**Mbuf chains** (`MbufChainsProofs`). `MbufChainsSound` and `MbufBytesKept`, for
any pool, any number of chains, buffers of any size and packets of any content.
Assumed are `MbufConstants` (finitely many handles, a header that leaves room in
its buffer) and `SmallPool`: all bytes of the pool can be counted in the 16 bits of
`omp_len`, as those of `uwb_transport` can (16 buffers of 512 bytes). Without it
the length in the header would come round; nothing else needs it.

`MbufInvariant` is that of the inductive invariant `MbufInv`, in three parts:

* `Balanced`: the free buffers and those of all chains are the pool's. `ChainsSound`
  sums the lengths with `FoldFunction`; the invariant counts pairs of a handle and a
  number instead (`Total`), so that a step changes the count by what it changes in
  one chain or two (`TotalChangesOne`, `TotalChanges`). `FoldIsTotal` proves that
  both are the same number.
* every buffer of a chain is in `Buffer`: its data lies in its block, behind the
  header if it has one. Without the room that the header takes, neither
  `dpl_mbuf_prepend` nor `dpl_mbuf_pullup` keeps the data where it belongs.
* `omp_len` is the chain's length, unless `dpl_mbuf_copyinto` left it short
  (`MbufHeader`); such a chain is only freed. Every operation adds to the length or
  takes from it, and `mem_split_frag` decides by it whether to cut at all, so one
  wrong length makes others wrong.

For each operation a lemma `...Flat` says what becomes of the bytes and buffers of
the chain (`AppendedFlat`, `AppendedFromFlat`, `TrimmedTailFlat`, `PrependedFlat`,
`PulledUpFlat`, `OverwrittenFlat`, ...). They hold for every string of bytes, not
only for those in which neighbours differ, to which the actions keep the search
small. `BytesKept` is those lemmas on the chains of a state; for `MbufInvariant` the
lemmas `...Keeps` add that no buffer is lost between operator and action.

The bytes of a chain are `FlattenSeq` of its buffers' data, so all of this goes by
induction over chains. The library's induction theorems take an operator and cannot
be used; `Induction` (over the naturals) and `FiniteInduction` (over the subsets of
a finite set) state the principle of sets, and follow from
`NatLessThanWellFounded` and `WFMin`, which are about relations. What a recursive
definition computes is reached the same way: a function equal to its own right-hand
side is shown to exist (`JoinExists`, `UptoExists`, `TotalIsSum`) and to be the only
one (`JoinAgrees`, `SumUnique`), hence to be what CHOOSE chose.

**Only model-checked.** Liveness: `QueuedResolved`, `AllHandled`, `RequestReturns`
(in two runs), `Resyncs`, `Beacons`, `Updates`. It needs fairness,
and with it ENABLED, which the prover does not know. Every invariant and action
property of the passing runs is proved.

## 5. Observations on the code

What the models excuse, assume or leave out because of how the code behaves.

### uwb_transport

* A good frame that is not the acknowledgement ends the reception without a
  time-out; `uwb_transport.c:772` waits without a limit, until a reset.
* `NoOverlap` and `FrameIntact` do not hold with resets, nor when slots are spent on
  `uwb_transport_listen`: a callback that found `sem` at zero while the task
  listened may release it when the task has given it back, so that it counts 2.
  `ErrataSafe` fails with resets, `ImplementsService` with either. The runs and
  theorems that state these four exclude resets and listening slots.
* Three threads can find one count zero before any of them releases: a semaphore
  that is meant as a lock may then count 3, and lets three through.
* An acknowledgement has no address (`:386`): one meant for another node with the
  same number confirms.
* The duplicate filter (`:412`) remembers one header: with two senders in turn a
  repeat within 10 ms is accepted. `RejectsRepeats` is stated for one.
* `:356`: the mbuf taken off `rx_q` just before `has_init` is cleared is neither
  delivered nor freed. `:234`: `uwb_transport_pkg_down` waits for nobody: the
  queue's event, a callback or the task may still be at work on what it frees.
* `awaiting_ack_tx` is never read; `dpl_eventq_is_empty` of the Linux port returns
  the opposite of its name.

### mbufs

* `dpl_msys_register` (`dpl_mbuf.c:142`) does not sort the pools, so the search
  that `dpl_mbuf.h` calls best fit takes the first that fits, and does not fall
  back on another when that is empty.
* After `dpl_mbuf_copyinto` left a header short, `dpl_mbuf_adj` can wrap its 16-bit
  length and `mem_split_frag` return a fragment longer than asked for.

### uwb_rng, twr_ss, twr_ds

* `ResultKept` depends on blocking calls: `uwb_rng_request` picks the ring entry
  before it takes the semaphore, so with a non-blocking listen or a reset it may
  write over the result reported in between. For the same reason `:621` sets
  `delay_start_enabled` for whoever starts next.
* After a reset the unconditional release of an error path or of `uwb_rng_listen`
  makes `rng->sem` 2 or more for good; the test for unsolicited frames
  (`count == 1`) then fails in both directions.
* T1 and FINAL of a wrong length, or with an LDE error, end twr_ss and twr_ds
  without a release: the request stays blocked until a reset. twr_ds does not look
  at the length of FINAL: a short or overlong one reports what the ring entry held.
* The result of twr_ds takes two entries of the ring: with a ring of two the next
  request writes over the first. The default is four.
* The completion event reads `idx_current` when the default task runs it (`:993`);
  an exchange that completes before replaces it.
* twr_ds_ext calls the final callbacks for T2 while `idx` still names T1, so
  `tx_final_cb` fills `frames[idx]` while `frames[idx+1]` is sent.

### nrng

* A foreign request answered during an own one moves `idx` and releases the
  semaphore: the request returns early and each range is read one entry off.
  `RangesTrue`, half of `ReadingsTrue`, excuses it (`joined`).
* The sequence number has 8 bits: a slot silent for 256 requests reports its old
  range (excused by `age` = `NrngSeqMod`).
* `NRNG_VERBOSE`'s event zeroes the slot mask; without `CELL_ENABLED` the mask is
  never set.

### rtdoa

* `idx` has 16 bits and the default `RTDOA_NFRAMES` 18 does not divide 2^16: when it
  wraps, position 15 is followed by 0, and a full sequence that began at 0 has its
  last response written over its request, although `syscfg.yml:19` asks only for more
  than NNODES+1. The model counts as the code does; with `TagFrames` 4, `IdxMod` 5 and
  three sequences TLC finds `ReadingsTrue` violated. The run and the theorem are for a
  number that divides the range (`RingWhole`).
* A tag that misses a request but hears the responses stores them after, and in
  the end over, the last request it has (excused by `strays`).
* `tx_complete_cb` looks at `frames[idx]` only: after a request whose start has
  failed, the end of any other service's frame makes the node send a response.
* A start of the receiver that fails and the timed wait of a blocking listen give
  the semaphore a surplus token; the node then takes requests for unsolicited.
* With relays (off by default, not modelled) `rtdoa_node.c:371` delays by
  `rpt_count` hold-offs from its own reception, so two relays add three of them and
  the receiver subtracts two; `rtdoa_tag.c:233` subtracts microseconds from device
  time.
* Nothing in the repository calls `rtdoa_request` or `rtdoa_tdoa_between_frames`.

### uwb_ccp and tdma

* A callback between the time-out and the release of `ccp_listen` leaves a surplus
  token, `uwb_ccp_stop` another; the next operation uses it up and takes its
  callback for somebody else's. Resets may delay a listen by a period.
* `status.valid` is never cleared on loss of sync; the timer's handler is that of
  the first role (`uwb_ccp.c:132`); the timer may be armed after a stop; the
  antenna delay of a relay accumulates (`:954`); the assignment at `:971` is dead.
* Slot 0 of tdma is exempt from the drop of late slots and may run twice. Another
  slot may run twice when a superframe is early or the task stalled.
* `tdma_release_slot` frees a slot whose event may be queued, `tdma_assign_slot`
  clears one whose timer may run; `tdma_stop` and `tdma_free` leave the superframe's
  timer armed. The model takes such a release and ends there, so what is said of tdma
  is for callers whose slot has no event queued when they release it.
* `ccp->sem` can count 4: task, callback, `uwb_ccp_stop` and a reset by another
  service may each find it zero before any of them releases.

### uwb_pan and panmaster

* `uwb_pan.c:439` takes the time since the epoch from the lease as a difference of two
  40 bit readings that is not masked. If the clock came round in between, it is
  negative and the node's lease ends up to some 16.8 s (`Turn`) after the master's,
  which gives the slot away meanwhile; if the epoch is older than the lease is long,
  the difference runs below zero and the node keeps the slot for up to 4294 s
  (`UsWrap`). `HoldersCovered` holds up to that `excess` and no further.
* Request and answer share one frame buffer, so the default lease goes into both.
  A renewal may choose another slot; when its answer is lost the node goes on in
  the old one, which the master thinks free.
* With a full table, the claimed entry of `nodes_to_save` overwrites role and flash
  entry of record 0. `first_free_slot_id` (`panmaster.c:305`) passes over a record
  whose role is not the one asked for, so another node asking for that role is given
  the slot of record 0 while both leases run. `SlotsExclusive` excuses this case by
  name (`Overwritten`) and no other; without the excuse TLC finds it.
* The addresses tried for a node share its low 12 bits, and from the seventeenth on
  they repeat: with 15 nodes alike in those bits and a table of 16 or more (the
  applications configure 64), the address 0 can be handed out twice. `Supported`
  excludes that.
* The reset message falls through into the default case without a release
  (`uwb_pan.c:450`): the node stays in its wait until a time-out, a foreign frame or
  the next reset of the radio. That the wait ends is one step of one of these, so
  there is no property of it. The lease in microseconds wraps above 4294 s, to a
  shorter one.
* A deletion by the shell between a request and its event stores a node the table
  has forgotten (excluded); `pslot` rewrites the slot of a running lease.
* `load_idx` reads one record too many (`<=`); the sort clears the flash before it
  saves; compaction (`panmaster_fcb.c:189`) reorders entries, so that a deleted
  node may come back in the place of another. `panmaster_add_node` does not set
  the euid of its index and has no caller.

### bcast_ota

* A failed allocation in the middle is taken for the end of the image; one in
  `RESEND_END` passes NULL to `uwb_nmgr_queue_tx`.
* Blocks carry no version: those of a newer image whose header was lost are
  written over the older one, and going back to an older version, or to the same
  version with other contents, never erases and gets stuck.
* `nmgr_uwb.c:278` has `=` for `==` in the test for repeating, so repeaters may send
  late copies; they are not modelled.

### nmgr_uwb and nmgr_cmds (read, not modelled)

* `uwb_nmgr_queue_tx` frees the mbuf when it fails, and `nmgr_resp_cb` frees it
  again.
* `nmgr_uwb_img_upload` returns with `cmd_sem` taken when it gets no mbuf, and
  waits for ever when the request could not be queued. An answer releases
  `cmd_sem` without a look and is not matched to its request: one that arrives
  after an upload makes the next upload end at once. `rx_post_process` reads
  `rxbuf` after the interrupt that filled it.
* `rx_timeout_cb` of `nmgr_cmds` asks for a frame that starts with "NM", while
  `NMGR_UWB_FCTRL` is a standard data frame: time-outs are not seen, the retries
  that the upload provides for do not happen, and a lost block or answer blocks
  it for good.
* `rx_post_process` has the parser write the answer's `rc` into the variable that
  then takes the parser's own result, so that an error reported by the peer
  reads as an answer with offset 0 and the upload starts over.
* `nmgr_uwb` has no `reset_cb`: a reset during its send or listen is only ended by
  the callback of some other frame. Nothing in the repository calls
  `uwb_nmgr_process_tx_queue` or `nmgr_uwb_listen`; an application's slot has to.

## 6. Not modelled

* `twr_ss_ext`, `twr_ds_ext`, `twr_ss_ack` and the extended N-to-1 protocols: the
  frames of `TwrSs`, `TwrDs` and `Nrng` with a payload copied along.
* `nmgr_uwb`, `nmgr_cmds`: built for Mynewt only, and the retries, the error
  answers and the slot task that would make them worth a model are never reached
  in this commit (section 5).
* `survey` is unfinished in this commit: its results are never allocated.
* Floating point (`uwb_wcs`, `rng_math`, softfloat, `dsp`, `euclid`, the averages of
  `tofdb`, the range from the eight times), text (JSON, `uwbcfg`, shell, console),
  the configuration store, drivers of other chips, board support, the wrappers of
  other operating systems, applications.

The repository counts 88 000 lines of implementation. The state machines that this
project models are a few thousand of them; most of the rest is arithmetic,
headers, text, copies of an operating system's services (twice: Linux and its
kernel), register access and start-up code, which has no states worth exploring.
Mapping it would widen the definitions beyond what they translate. The share of
mapped lines is therefore small, and grows only with the protocols listed first.

## 7. Plan

1. `UwbTransportLink`: both halves of the transport on two nodes, with the
   hardware acknowledgement.
2. The extended ranging protocols; delayed starts and the deferred completion.
3. Compaction of the panmaster log; relays of `rtdoa` and of `uwb_pan`.
