------------------------------- MODULE UwbCcp -------------------------------
(***************************************************************************)
(* lib/uwb_ccp/src/uwb_ccp.c on one node: the ccp task that blinks (master)*)
(* or waits for the blinks of a master (slave, relay), the callbacks of the*)
(* radio, the timer, uwb_ccp_start and uwb_ccp_stop in another thread.     *)
(*                                                                         *)
(* Time is what the epochs tell apart: "late" counts the beats of the      *)
(* master since the one that local_epoch and os_epoch stand for, modulo    *)
(* the wrap of the 40 bit clock.  A listen with a window waits for the     *)
(* next beat of the believed epoch, a long one for any.  A listen, and a   *)
(* handler whose last beacon was heard, take less than a period.           *)
(***************************************************************************)
EXTENDS Naturals

CONSTANTS
    Tolerate,       \* UWB_CCP_TOLERATE_MISSED_FRAMES
    Threshold,      \* UWB_CCP_VALID_THRESHOLD
    MissedMod,      \* 2^8 of missed_frames
    Half,           \* beats in half a turn of the clock of the device
    NoReport

ASSUME CcpConstants ==
    /\ Tolerate \in Nat /\ Threshold \in Nat \ {0}
    /\ MissedMod \in Nat /\ MissedMod > Tolerate + 1
    /\ Half \in Nat /\ Half > 1

CcpRoles == {"master", "slave", "relay"}

VARIABLES
    role,           \* config.role
    handler,        \* what timer_event calls: "none" before the first start
    enabled,        \* status.enabled
    valid, valid_count, rx_timeout_error, timer_restarted,
    missed_frames,
    followed,       \* a beacon of master_euid was heard since the start
    late,           \* beats since the one of the epochs
    timer, queued,  \* the timer is armed; timer_event is queued
    sem,            \* count of ccp->sem
    irq,            \* the callback of the radio that runs
    resetter,       \* another thread in the reset_cb of ccp
    pc, op,         \* the ccp task, and the operation it is in
    radio,
    stop,           \* uwb_ccp_stop
    lost,           \* history: beacons missed in a row, up to Tolerate + 1
    wrapped,        \* history: missed_frames wrapped while valid, since the last beacon
    aborted,        \* history: a listen gave no answer since the last beacon
    report          \* the superframe the last step reported

ccpVars == <<role, handler, enabled, valid, valid_count, rx_timeout_error,
             timer_restarted, missed_frames, followed, late, timer, queued, sem,
             irq, resetter, pc, op, radio, stop, lost, wrapped, aborted,
             report>>

Clock == 2 * Half

\* how many threads release ccp->sem: the ccp task, the interrupt task with the
\* callbacks, uwb_ccp_stop, and one more in uwb_phy_forcetrxoff
Threads == 4

CcpTypeOK ==
    /\ role \in CcpRoles /\ handler \in {"none", "master", "slave"}
    /\ enabled \in BOOLEAN /\ valid \in BOOLEAN /\ valid_count \in 0..Threshold - 1
    /\ rx_timeout_error \in BOOLEAN /\ timer_restarted \in BOOLEAN
    /\ missed_frames \in 0..MissedMod - 1 /\ followed \in BOOLEAN
    /\ late \in 0..Clock - 1
    /\ timer \in BOOLEAN /\ queued \in BOOLEAN
    /\ sem \in 0..Threads
    /\ irq \in {"none", "look", "give"} /\ resetter \in {"none", "look", "give"}
    /\ pc \in {"idle", "off", "give", "pend", "start", "wait", "check", "release", "reset",
              "rearm"}
    /\ op \in {"send", "window", "long"}
    /\ radio \in {"off", "tx", "window", "long", "relay"}
    /\ stop \in {"done", "look", "off", "reset", "give", "again", "release"}
    /\ lost \in 0..Tolerate + 1 /\ wrapped \in BOOLEAN /\ aborted \in BOOLEAN
    /\ report \in {NoReport} \cup [late : 0..Clock - 1, lost : 0..Tolerate + 1]

\* uwb_ccp_init
CcpInit ==
    /\ role \in CcpRoles /\ handler = "none"
    /\ enabled = FALSE /\ valid = FALSE /\ valid_count = 0
    /\ rx_timeout_error = FALSE /\ timer_restarted = FALSE
    /\ missed_frames = 0 /\ followed = FALSE /\ late = 0
    /\ timer = FALSE /\ queued = FALSE
    /\ sem = 1 /\ irq = "none" /\ resetter = "none"
    /\ pc = "idle" /\ op = "send" /\ radio = "off" /\ stop = "done"
    /\ lost = Tolerate + 1 /\ wrapped = FALSE /\ aborted = FALSE
    /\ report = NoReport

\* the superframe callbacks: epochs at beat l, n beacons missed
Superframe(l, n) == report' = [late |-> l, lost |-> n]
Quiet == report' = NoReport

\* Mutant: the semaphore is released whatever its count
LookBlind(give, leave) == give

\* dpl_sem_get_count, and what is done when nobody has released the semaphore yet;
\* the release is a step of its own, and others may come in between
Look(give, leave) == IF sem = 0 THEN give ELSE leave

stateVars == <<role, handler, enabled, valid, valid_count, missed_frames,
               followed, late, lost, wrapped>>

\* the threads but the ccp task
others == <<irq, resetter, stop>>

-----------------------------------------------------------------------------
(* ccp_timer_irq, and the ccp task taking timer_event *)

TimerIrq ==
    /\ timer
    /\ timer' = FALSE /\ queued' = TRUE
    /\ Quiet
    /\ UNCHANGED <<stateVars, rx_timeout_error, timer_restarted, sem, pc, op, radio,
                   others, aborted>>

MasterTimer ==
    /\ pc = "idle" /\ queued /\ handler = "master"
    /\ queued' = FALSE
    /\ IF enabled
       THEN timer_restarted' = FALSE /\ op' = "send" /\ pc' = "off"
       ELSE UNCHANGED <<timer_restarted, op, pc>>
    /\ Quiet
    /\ UNCHANGED <<stateVars, rx_timeout_error, timer, sem, radio, others, aborted>>

SlaveTimer ==
    /\ pc = "idle" /\ queued /\ handler = "slave"
    /\ queued' = FALSE
    /\ IF enabled
       THEN /\ op' = IF rx_timeout_error THEN "long" ELSE "window"
            /\ pc' = "off"
       ELSE UNCHANGED <<op, pc>>
    /\ Quiet
    /\ UNCHANGED <<stateVars, rx_timeout_error, timer_restarted, timer, sem, radio,
                   others, aborted>>

\* both handlers return when the node was disabled meanwhile
EndDisabled ==
    /\ pc = "reset" /\ ~enabled
    /\ pc' = "idle"
    /\ Quiet
    /\ UNCHANGED <<stateVars, rx_timeout_error, timer_restarted, timer, queued, sem,
                   op, radio, others, aborted>>

EndEnabled ==
    /\ pc = "reset" /\ enabled
    /\ pc' = "rearm"
    /\ Quiet
    /\ UNCHANGED <<stateVars, rx_timeout_error, timer_restarted, timer, queued, sem,
                   op, radio, others, aborted>>

\* Mutant: the master relies on tx_complete_cb to restart the timer
MasterRearmNever ==
    /\ pc = "rearm" /\ op = "send"
    /\ pc' = "idle"
    /\ Quiet
    /\ UNCHANGED <<stateVars, rx_timeout_error, timer, timer_restarted, queued, sem, op,
                   radio, others, aborted>>

\* tx_complete_cb has restarted it, unless the transmission was cut off
MasterRearm ==
    /\ pc = "rearm" /\ op = "send"
    /\ pc' = "idle"
    /\ timer' = (timer \/ ~timer_restarted)
    /\ timer_restarted' = TRUE
    /\ Quiet
    /\ UNCHANGED <<stateVars, rx_timeout_error, queued, sem, op, radio, others, aborted>>

SlaveRearm ==
    /\ pc = "rearm" /\ op # "send"
    /\ pc' = "idle"
    /\ timer' = TRUE /\ timer_restarted' = TRUE
    /\ rx_timeout_error' = (rx_timeout_error /\ missed_frames > Tolerate)
    /\ Quiet
    /\ UNCHANGED <<stateVars, queued, sem, op, radio, others, aborted>>

-----------------------------------------------------------------------------
(* ccp_send and ccp_listen *)

\* uwb_phy_forcetrxoff with reset_cb of ccp itself; only this task takes the semaphore
ForceOff ==
    /\ pc = "off"
    /\ radio' = "off" /\ pc' = Look("give", "pend")
    /\ Quiet
    /\ UNCHANGED <<stateVars, rx_timeout_error, timer_restarted, timer, queued, sem, op,
                   others, aborted>>

Pend ==
    /\ pc = "pend" /\ sem > 0
    /\ pc' = "start" /\ sem' = sem - 1
    /\ rx_timeout_error' = (rx_timeout_error /\ op = "send")
    /\ Quiet
    /\ UNCHANGED <<stateVars, timer_restarted, timer, queued, op, radio, others, aborted>>

\* the beat after the epoch is less than half a turn ahead
Ahead == late = 0 \/ late > Half

StartRadio ==
    /\ pc = "start"
    /\ op # "long" => Ahead
    /\ pc' = "wait" /\ radio' = IF op = "send" THEN "tx" ELSE op
    /\ Quiet
    /\ UNCHANGED <<stateVars, rx_timeout_error, timer_restarted, timer, queued, sem, op,
                   others, aborted>>

\* Mutant: a listen that cannot be started is given up until the next timer
StartErrorGivesUp ==
    /\ pc = "start" /\ op = "window" /\ ~Ahead
    /\ pc' = "reset" /\ sem' = sem + 1
    /\ Quiet
    /\ UNCHANGED <<stateVars, rx_timeout_error, timer_restarted, timer, queued, op, radio,
                   others, aborted>>

\* start_rx_error: the beat has passed, listen for any
StartError ==
    /\ pc = "start" /\ op = "window" /\ ~Ahead
    /\ pc' = "off" /\ op' = "long" /\ sem' = sem + 1
    /\ Quiet
    /\ UNCHANGED <<stateVars, rx_timeout_error, timer_restarted, timer, queued, radio,
                   others, aborted>>

\* start_tx_error: the beacon of this beat is skipped
StartTxError ==
    /\ pc = "start" /\ op = "send" /\ ~Ahead
    /\ late' = late - 1
    /\ sem' = sem + 1 /\ pc' = "reset"
    /\ IF Tolerate > 0 THEN Superframe(late', lost) ELSE Quiet
    /\ UNCHANGED <<role, handler, enabled, valid, valid_count, missed_frames, followed,
                   lost, wrapped, rx_timeout_error, timer_restarted, timer, queued, op,
                   radio, others, aborted>>

Completed ==
    /\ pc = "wait" /\ sem > 0
    /\ sem' = sem - 1 /\ pc' = IF op = "send" THEN "release" ELSE "check"
    /\ Quiet
    /\ UNCHANGED <<stateVars, rx_timeout_error, timer_restarted, timer, queued, op, radio,
                   others, aborted>>

\* the timed pend of ccp_listen, when no callback comes in time; one may be about to
\* release what is waited for
SemTimeout ==
    /\ pc = "wait" /\ op # "send" /\ sem = 0
    /\ radio \in {"off", "long"} \/ (radio = "window" /\ late \notin {0, 1})
    /\ pc' = "check" /\ aborted' = (aborted \/ irq = "none")
    /\ Quiet
    /\ UNCHANGED <<stateVars, rx_timeout_error, timer_restarted, timer, queued, sem, op,
                   radio, others>>

Check ==
    /\ pc = "check"
    /\ pc' = Look("release", "reset")
    /\ Quiet
    /\ UNCHANGED <<stateVars, rx_timeout_error, timer_restarted, timer, queued, sem, op,
                   radio, others, aborted>>

GiveBack ==
    /\ pc \in {"release", "give"}
    /\ sem' = sem + 1 /\ pc' = IF pc = "give" THEN "pend" ELSE "reset"
    /\ Quiet
    /\ UNCHANGED <<stateVars, rx_timeout_error, timer_restarted, timer, queued, op, radio,
                   others, aborted>>

-----------------------------------------------------------------------------
(* The radio: a beat, and the callbacks, one at a time *)

\* a beat nothing is received at, where it is noticed: before the radio is started
\* or while it is on.  A second one only passes while the task waits, and only when
\* the believed epoch is lost or a listen gave no answer
Beat ==
    /\ \/ late = 0 /\ (pc = "start" \/ radio # "off")
       \/ pc = "wait" /\ sem = 0 /\ (aborted \/ (role # "master" /\ lost > Tolerate))
    /\ ~(radio \in {"window", "tx"} /\ late = 1)
    /\ late' = (late + 1) % Clock
    /\ Quiet
    /\ UNCHANGED <<role, handler, enabled, valid, valid_count, missed_frames, followed,
                   lost, wrapped, rx_timeout_error, timer_restarted, timer, queued, sem,
                   others, pc, op, radio, aborted>>

\* tx_complete_cb; it leaves when the semaphore counts 1
TxComplete ==
    /\ irq = "none" /\ radio = "tx" /\ late = 1
    /\ radio' = "off"
    /\ IF sem # 1 /\ role = "master"
       THEN /\ late' = 0 /\ timer' = TRUE /\ timer_restarted' = TRUE
            /\ aborted' = FALSE /\ irq' = "look"
            /\ Superframe(0, lost)
       ELSE Quiet /\ UNCHANGED <<late, timer, timer_restarted, aborted, irq>>
    /\ UNCHANGED <<role, handler, enabled, valid, valid_count, missed_frames, followed,
                   lost, wrapped, rx_timeout_error, queued, sem, resetter, pc, op, stop>>

\* rx_complete_cb, a beacon of this beat; from the master followed and later than
\* the last one, or from another one or one that was restarted
RxBeacon(same) ==
    /\ irq = "none"
    /\ radio = "long" \/ (radio = "window" /\ late = 0)
    /\ same => followed
    /\ IF sem = 0 /\ role # "master"
       THEN /\ valid_count' = IF ~same THEN 0
                              ELSE IF valid_count < Threshold - 1 THEN valid_count + 1
                              ELSE valid_count
            /\ valid' = (same /\ (valid \/ valid_count' = Threshold - 1))
            /\ followed' = TRUE
            /\ missed_frames' = 0 /\ rx_timeout_error' = FALSE
            /\ late' = 0 /\ lost' = 0 /\ wrapped' = FALSE /\ aborted' = FALSE
            /\ radio' \in IF role = "relay" /\ valid' THEN {"off", "relay"} ELSE {"off"}
            /\ Superframe(0, 0)
            /\ irq' = "give"
       ELSE /\ radio' = "off"   \* unsolicited
            /\ late' = (late + 1) % Clock
            /\ aborted' = TRUE
            /\ Quiet
            /\ UNCHANGED <<valid, valid_count, followed, missed_frames, rx_timeout_error,
                           lost, wrapped, irq>>
    /\ UNCHANGED <<role, handler, enabled, timer_restarted, timer, queued, sem, resetter,
                   pc, op, stop>>

\* a relayed beacon is on the air; tx_complete_cb does nothing for it
RelayComplete ==
    /\ irq = "none" /\ radio = "relay"
    /\ radio' = "off"
    /\ Quiet
    /\ UNCHANGED <<stateVars, rx_timeout_error, timer_restarted, timer, queued, sem,
                   others, pc, op, aborted>>

\* the receiver is on, in a window from the beat, and no callback runs
Listening == irq = "none" /\ (radio = "long" \/ (radio = "window" /\ late = 1))

\* another frame: listen on with the long timeout while the task waits
RxOther ==
    /\ Listening
    /\ radio' = IF sem = 0 THEN "long" ELSE "off"
    /\ Quiet
    /\ UNCHANGED <<stateVars, rx_timeout_error, timer_restarted, timer, queued, sem,
                   others, pc, op, aborted>>

\* a beacon of a wrong length or without a timestamp; nobody wakes the task
RxMalformed ==
    /\ Listening
    /\ radio' = "off"
    /\ Quiet
    /\ UNCHANGED <<stateVars, rx_timeout_error, timer_restarted, timer, queued, sem,
                   others, pc, op, aborted>>

\* Mutant: the epochs stay those of the last beacon
IssueSuperframeStale ==
    IF Tolerate > 0 /\ valid /\ missed_frames' <= Tolerate
    THEN UNCHANGED late /\ Superframe(late', lost')
    ELSE Quiet /\ UNCHANGED late

\* issue_superframe, compiled in when some are tolerated
IssueSuperframe ==
    IF Tolerate > 0 /\ valid /\ missed_frames' <= Tolerate
    THEN late' = (late + Clock - 1) % Clock /\ Superframe(late', lost')
    ELSE Quiet /\ UNCHANGED late

Miss ==
    /\ missed_frames' = (missed_frames + 1) % MissedMod
    /\ lost' = IF lost <= Tolerate THEN lost + 1 ELSE lost
    /\ wrapped' = (valid /\ (wrapped \/ missed_frames' = 0))

\* error_cb and rx_timeout_cb, up to the release; they leave when the semaphore is
\* not taken
Error ==
    /\ Listening \/ (irq = "none" /\ radio = "tx" /\ late = 1)
    /\ radio' = "off" /\ irq' = Look("give", "none")
    /\ IF sem = 0 /\ role # "master"
       THEN Miss /\ IssueSuperframe
       ELSE Quiet /\ UNCHANGED <<missed_frames, lost, wrapped, late>>
    /\ UNCHANGED <<role, handler, enabled, valid, valid_count, followed, rx_timeout_error,
                   timer_restarted, timer, queued, sem, resetter, pc, op, stop, aborted>>

RxTimeout ==
    /\ Listening
    /\ radio' = "off" /\ irq' = Look("give", "none")
    /\ IF sem = 0
       THEN Miss /\ IssueSuperframe /\ rx_timeout_error' = TRUE
       ELSE Quiet /\ UNCHANGED <<missed_frames, lost, wrapped, late, rx_timeout_error>>
    /\ UNCHANGED <<role, handler, enabled, valid, valid_count, followed, timer_restarted,
                   timer, queued, sem, resetter, pc, op, stop, aborted>>

\* the end of a callback: the last look of tx_complete_cb, and the release
IrqStep ==
    /\ \/ irq = "look" /\ irq' = Look("give", "none") /\ UNCHANGED sem
       \/ irq = "give" /\ irq' = "none" /\ sem' = sem + 1
    /\ Quiet
    /\ UNCHANGED <<stateVars, rx_timeout_error, timer_restarted, timer, queued, resetter,
                   pc, op, radio, stop, aborted>>

-----------------------------------------------------------------------------
(* uwb_phy_forcetrxoff of another thread, and uwb_ccp_start and uwb_ccp_stop *)

\* what a listen or a transmission that is cut off leaves behind
CutOff ==
    /\ radio' = "off"
    /\ aborted' = (aborted \/ radio \in {"tx", "window", "long"})

\* Mutant: reset_cb leaves the semaphore to the other callbacks
ForeignResetSilent ==
    /\ resetter = "none" /\ CutOff
    /\ Quiet
    /\ UNCHANGED <<stateVars, rx_timeout_error, timer_restarted, timer, queued, sem,
                   others, pc, op>>

\* another service takes the radio, whenever it likes
ForeignReset ==
    /\ \/ resetter = "none" /\ resetter' = "look" /\ CutOff /\ UNCHANGED sem
       \/ /\ resetter = "look" /\ resetter' = Look("give", "none")
          /\ UNCHANGED <<sem, radio, aborted>>
       \/ /\ resetter = "give" /\ resetter' = "none" /\ sem' = sem + 1
          /\ UNCHANGED <<radio, aborted>>
    /\ Quiet
    /\ UNCHANGED <<stateVars, rx_timeout_error, timer_restarted, timer, queued, irq, pc,
                   op, stop>>

\* timer_event is set up only once
Start(r) ==
    /\ ~enabled /\ stop = "done"
    /\ enabled' = TRUE /\ role' = r /\ valid' = FALSE /\ followed' = FALSE
    /\ handler' = IF handler # "none" THEN handler
                  ELSE IF r = "master" THEN "master" ELSE "slave"
    /\ timer' = TRUE
    /\ late' = 0 /\ lost' = Tolerate + 1 /\ aborted' = FALSE /\ wrapped' = FALSE
    /\ Quiet
    /\ UNCHANGED <<valid_count, rx_timeout_error, timer_restarted, missed_frames, queued,
                   sem, others, pc, op, radio>>

Disable ==
    /\ enabled /\ stop = "done"
    /\ enabled' = FALSE /\ timer' = FALSE /\ stop' = "look"
    /\ Quiet
    /\ UNCHANGED <<role, handler, valid, valid_count, missed_frames, followed, late, lost,
                   wrapped, rx_timeout_error, timer_restarted, queued, sem, irq, resetter, pc, op,
                   radio, aborted>>

StopStep(from, to) ==
    /\ stop = from /\ stop' = to
    /\ Quiet
    /\ UNCHANGED <<stateVars, rx_timeout_error, timer_restarted, timer, queued, irq,
                   resetter, pc, op>>

\* look at the count, force the radio off with its reset_cb, look again, release
Stop ==
    \/ StopStep("look", Look("off", "done")) /\ UNCHANGED <<sem, radio, aborted>>
    \/ StopStep("off", "reset") /\ CutOff /\ UNCHANGED sem
    \/ StopStep("reset", Look("give", "again")) /\ UNCHANGED <<sem, radio, aborted>>
    \/ StopStep("give", "again") /\ sem' = sem + 1 /\ UNCHANGED <<radio, aborted>>
    \/ StopStep("again", Look("release", "done")) /\ UNCHANGED <<sem, radio, aborted>>
    \/ StopStep("release", "done") /\ sem' = sem + 1 /\ UNCHANGED <<radio, aborted>>

CcpTask ==
    \/ MasterTimer \/ SlaveTimer \/ EndDisabled \/ EndEnabled \/ MasterRearm \/ SlaveRearm
    \/ ForceOff \/ Pend \/ StartRadio \/ StartError \/ StartTxError \/ Completed
    \/ Check \/ GiveBack

CcpRadio ==
    \/ TxComplete \/ RelayComplete \/ RxOther \/ RxMalformed \/ Error \/ RxTimeout
    \/ IrqStep \/ \E same \in BOOLEAN : RxBeacon(same)

CcpNext ==
    \/ TimerIrq \/ CcpTask \/ SemTimeout \/ Beat \/ CcpRadio
    \/ ForeignReset \/ Start(role) \/ Disable \/ Stop

CcpSpec == CcpInit /\ [][CcpNext]_ccpVars

-----------------------------------------------------------------------------
(* Properties *)

\* A superframe that uwb_ccp reports to tdma and the other services starts at a
\* beat of the master that is running now, although the slave runs on its own
\* epochs while it misses beacons.  Excused: a listen that a reset or a malformed
\* frame ended without counting a miss, and missed_frames beyond its width.
EpochTrue == report # NoReport => report.late = 0 \/ aborted \/ wrapped

\* "The number of missed ccp frames we can tolerate before stopping tdma"
\* (lib/uwb_ccp/syscfg.yml): a slave reports no superframe after more in a row.
\* It does: missed_frames wraps while it hunts, and status.valid is still set.
ToleratesFew ==
    report # NoReport /\ role # "master" => report.lost <= Tolerate

\* A node that is enabled always has its timer armed, its event queued or its task
\* at work, whatever resets and stops cut a beacon or a listen off: nothing else
\* would ever start it again.
NeverIdle == enabled /\ stop = "done" => timer \/ queued \/ pc # "idle"

\* A slave that lost the master, hunts, or believes in a stale epoch that the wrap
\* of the clock puts ahead hears a beacon again, if beacons are heard at all when
\* it listens.
Resyncs == (enabled /\ role # "master") ~> (lost = 0 \/ ~enabled)

\* A master goes on to complete beacons (tx_complete_cb has reported one and looks at
\* the semaphore), whatever starts come too late, whatever releases other services'
\* resets left behind and however uwb_ccp_stop raced the task before.
Beacons == (enabled /\ role = "master") ~> (irq = "look" \/ ~enabled)
=============================================================================
