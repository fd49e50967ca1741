--------------------------- MODULE ScheduleProofs ---------------------------
(***************************************************************************)
(* Proofs about UwbCcp and Tdma and about the specification MCSchedule     *)
(* makes of them, for any widths, tolerances, numbers and lengths of       *)
(* slots.                                                                  *)
(*                                                                         *)
(* uwb_ccp.  Who has the semaphore is settled by its count, what the task  *)
(* owes it and what a stop is about to give; so a callback finds it taken  *)
(* only while the task waits or gives up waiting, and a listen that is not *)
(* answered or missed is noted by "aborted".  A slave that has heard the   *)
(* master then stands for the beat it listens at or the one before, and    *)
(* makes up for exactly one.                                               *)
(*                                                                         *)
(* tdma.  Timers run for assigned slots, and as long as no freed slot is   *)
(* queued so do events; when the report of a superframe has been handled,  *)
(* their starts are those of this superframe; and as long as nothing stalls, no timer and no event        *)
(* outlives the delay allowed after its start, so that none is left when   *)
(* the next superframe comes a period later.                               *)
(***************************************************************************)
EXTENDS MCSchedule, TLAPS

-----------------------------------------------------------------------------
(* uwb_ccp: counters *)

(* Counting around a wrap: one up, and one down as the source of uwb_ccp      *)
(* writes it, adding the modulus first.                                       *)
LEMMA AroundWrap ==
    ASSUME NEW n \in Nat \ {0}, NEW x \in Nat, x < n
    PROVE  /\ (x + 1) % n = IF x + 1 = n THEN 0 ELSE x + 1
           /\ (x + n - 1) % n = IF x = 0 THEN n - 1 ELSE x - 1
<1>1. \A y \in Nat : y < n => y % n = y
  OBVIOUS
<1>2. n % n = 0
  OBVIOUS
<1>3. \A y \in Nat : y < n => (y + n) % n = y
  OBVIOUS
<1>4. (x + 1) % n = IF x + 1 = n THEN 0 ELSE x + 1
  BY <1>1, <1>2
<1>5. (x + n - 1) % n = IF x = 0 THEN n - 1 ELSE x - 1
  <2>1. CASE x = 0
    BY <1>1, <2>1
  <2>2. CASE x # 0
    <3>1. x - 1 \in Nat /\ x + n - 1 = (x - 1) + n
      BY <2>2
    <3>. QED BY <1>3, <2>2, <3>1
  <2>. QED BY <2>1, <2>2
<1>. QED BY <1>4, <1>5

(* One miss more, and one beat more or less, stay within their widths and     *)
(* change by one unless they wrap.                                            *)
LEMMA CcpCounters ==
    ASSUME CcpTypeOK
    PROVE  /\ Clock \in Nat /\ Clock > 3
           /\ (missed_frames + 1) % MissedMod =
                 IF missed_frames + 1 = MissedMod THEN 0 ELSE missed_frames + 1
           /\ (late + 1) % Clock = IF late + 1 = Clock THEN 0 ELSE late + 1
           /\ (late + Clock - 1) % Clock = IF late = 0 THEN Clock - 1 ELSE late - 1
<1>1. Clock \in Nat /\ Clock > 3
  BY CcpConstants DEF Clock
<1>2. MissedMod \in Nat \ {0} /\ missed_frames \in Nat /\ missed_frames < MissedMod
  BY CcpConstants DEF CcpTypeOK
<1>3. Clock \in Nat \ {0} /\ late \in Nat /\ late < Clock
  BY <1>1 DEF CcpTypeOK
<1>4. (missed_frames + 1) % MissedMod =
         IF missed_frames + 1 = MissedMod THEN 0 ELSE missed_frames + 1
  BY <1>2, AroundWrap
<1>5. /\ (late + 1) % Clock = IF late + 1 = Clock THEN 0 ELSE late + 1
      /\ (late + Clock - 1) % Clock = IF late = 0 THEN Clock - 1 ELSE late - 1
  BY <1>3, AroundWrap
<1>. QED BY <1>1, <1>4, <1>5

-----------------------------------------------------------------------------
(* The semaphore of uwb_ccp *)

\* the task is between a pend and the release it owes
Held == IF pc \in {"start", "wait", "check", "release", "give"} THEN 1 ELSE 0

\* a callback, uwb_ccp_stop or a reset has seen a zero count and is about to release
IrqOwes == IF irq = "give" THEN 1 ELSE 0
StopOwes == IF stop \in {"give", "release"} THEN 1 ELSE 0
ResetOwes == IF resetter = "give" THEN 1 ELSE 0

\* Tokens there are and to come are at most as many as threads that release, since
\* each owes one at most; and the task that holds none finds one
CcpSemInv ==
    /\ sem + Held + IrqOwes + StopOwes + ResetOwes <= Threads
    /\ pc \in {"idle", "off", "pend", "reset", "rearm"} => sem >= 1

\* A role has one handler, one operation (or two for a slave) and its radio states
RoleInv ==
    /\ handler # "none" => (handler = "master" <=> role = "master")
    /\ handler = "none" => pc = "idle" /\ ~enabled
    /\ pc # "idle" => (op = "send" <=> role = "master")
    /\ radio = "tx" => role = "master"
    /\ radio \in {"window", "long", "relay"} => role # "master"
    /\ pc \in {"give", "pend", "start"} => radio = "off"
    /\ role = "master" => ~wrapped

\* NeverIdle, with what MasterRearm needs of tx_complete_cb
AwakeInv ==
    /\ enabled => stop = "done"
    /\ enabled => timer \/ queued \/ pc # "idle"
    /\ (enabled /\ pc # "idle" /\ op = "send" /\ timer_restarted) => timer \/ queued

\* missed_frames counts what was lost since the last beacon, until it wraps
MissInv ==
    (valid /\ ~wrapped) =>
        lost = IF missed_frames <= Tolerate THEN missed_frames ELSE Tolerate + 1

\* the beat a master stands for is the one it is to send, or the next
MasterNear == (role = "master" /\ ~aborted) => late \in {0, 1}

\* A slave follows its epochs: nothing ended a listen without an answer, the
\* misses are counted and tolerated
Follows == role # "master" /\ valid /\ ~aborted /\ ~wrapped /\ lost <= Tolerate

\* A slave that follows stands for this beat or the one before; it listens without
\* a window only after the beat, and starts so only when it has failed to start
\* before the beat
SlaveNear == Follows =>
    /\ late \in {0, 1}
    /\ radio = "long" => late = 1
    /\ (op = "long" /\ pc \in {"off", "give", "pend", "start"}) => late = 1
    /\ (enabled /\ rx_timeout_error) => pc # "idle"

CcpInv == CcpTypeOK /\ CcpSemInv /\ RoleInv /\ AwakeInv /\ MissInv /\ MasterNear /\ SlaveNear

LEMMA CcpInvInit == CcpInit => CcpInv
<1>. USE CcpConstants DEF Clock, Threads
<1>1. CcpInit => CcpTypeOK
  <2>1. 0 \in 0..Threshold - 1 /\ 0 \in 0..MissedMod - 1 /\ 0 \in 0..Clock - 1
        /\ Tolerate + 1 \in 0..Tolerate + 1
    OBVIOUS
  <2>2. CcpInit => report \in {NoReport} \cup [late : 0..Clock - 1, lost : 0..Tolerate + 1]
    BY DEF CcpInit
  <2>3. 1 \in 0..Threads
    OBVIOUS
  <2>. HIDE DEF Clock, Threads
  <2>. QED BY <2>1, <2>2, <2>3, Zenon DEF CcpInit, CcpTypeOK
<1>2. CcpInit => CcpSemInv /\ RoleInv /\ AwakeInv /\ MissInv
  BY DEF CcpInit, CcpSemInv, Held, IrqOwes, StopOwes, ResetOwes, Threads, RoleInv, AwakeInv, MissInv
<1>3. CcpInit => MasterNear /\ SlaveNear
  BY DEF CcpInit, MasterNear, SlaveNear, Follows
<1>. QED BY <1>1, <1>2, <1>3 DEF CcpInv

LEMMA RoleKept == CcpInv /\ [CcpNext]_ccpVars => RoleInv'
<1>. SUFFICES ASSUME CcpInv, [CcpNext]_ccpVars PROVE RoleInv'
  OBVIOUS
<1>. USE DEF stateVars, others, Look, CutOff, Quiet, Superframe
<1>0. CcpTypeOK /\ CcpSemInv /\ RoleInv
  BY DEF CcpInv
<1>1. CASE CcpTask
  BY <1>0, <1>1 DEF CcpTask, MasterTimer, SlaveTimer, EndDisabled, EndEnabled, MasterRearm,
     SlaveRearm, ForceOff, Pend, StartRadio, StartError, StartTxError, Completed, Check, GiveBack,
     RoleInv, CcpTypeOK
<1>2. CASE CcpRadio
  <2>1. CASE TxComplete \/ RelayComplete \/ RxOther \/ RxMalformed \/ IrqStep
    BY <1>0, <2>1 DEF TxComplete, RelayComplete, RxOther, RxMalformed, IrqStep, Listening, RoleInv
  <2>2. CASE Error \/ RxTimeout
    <3>1. /\ radio' = "off" /\ UNCHANGED <<role, handler, enabled, pc, op>>
          /\ role = "master" => UNCHANGED wrapped
      BY <1>0, <2>2 DEF Error, RxTimeout, Listening, RoleInv
    <3>. QED BY <1>0, <3>1 DEF RoleInv
  <2>3. CASE \E same \in BOOLEAN : RxBeacon(same)
    BY <1>0, <2>3 DEF RxBeacon, RoleInv
  <2>. QED BY <1>2, <2>1, <2>2, <2>3 DEF CcpRadio
<1>3. CASE TimerIrq \/ SemTimeout \/ Beat \/ ForeignReset \/ Disable \/ UNCHANGED ccpVars
  BY <1>0, <1>3 DEF TimerIrq, SemTimeout, Beat, ForeignReset, Disable, ccpVars, RoleInv, CcpTypeOK
<1>4. CASE Start(role) \/ Stop
  BY <1>0, <1>4 DEF Start, Stop, StopStep, RoleInv, CcpTypeOK
<1>. QED BY <1>1, <1>2, <1>3, <1>4 DEF CcpNext

LEMMA AwakeKept == CcpInv /\ [CcpNext]_ccpVars => AwakeInv'
<1>. SUFFICES ASSUME CcpInv, [CcpNext]_ccpVars PROVE AwakeInv'
  OBVIOUS
<1>. USE DEF stateVars, others, Look, CutOff, Quiet, Superframe
<1>0. CcpTypeOK /\ RoleInv /\ AwakeInv
  BY DEF CcpInv
<1>1. CASE CcpTask
  BY <1>0, <1>1 DEF CcpTask, MasterTimer, SlaveTimer, EndDisabled, EndEnabled, MasterRearm,
     SlaveRearm, ForceOff, Pend, StartRadio, StartError, StartTxError, Completed, Check, GiveBack,
     RoleInv, AwakeInv, CcpTypeOK
<1>2. CASE CcpRadio
  BY <1>0, <1>2 DEF CcpRadio, TxComplete, RelayComplete, RxOther, RxMalformed, Error, RxTimeout,
     IrqStep, RxBeacon, Listening, Miss, RoleInv, AwakeInv, CcpTypeOK
<1>3. CASE TimerIrq \/ SemTimeout \/ Beat \/ ForeignReset \/ Disable \/ UNCHANGED ccpVars
  BY <1>0, <1>3 DEF TimerIrq, SemTimeout, Beat, ForeignReset, Disable, ccpVars, RoleInv, AwakeInv, CcpTypeOK
<1>4. CASE Start(role) \/ Stop
  BY <1>0, <1>4 DEF Start, Stop, StopStep, RoleInv, AwakeInv, CcpTypeOK
<1>. QED BY <1>1, <1>2, <1>3, <1>4 DEF CcpNext

LEMMA SemKept == CcpInv /\ [CcpNext]_ccpVars => CcpSemInv'
<1>. SUFFICES ASSUME CcpInv, [CcpNext]_ccpVars PROVE CcpSemInv'
  OBVIOUS
<1>. USE DEF stateVars, others, Look, CutOff, Quiet, Superframe, Held, IrqOwes, StopOwes, ResetOwes, Threads
<1>0. CcpTypeOK /\ RoleInv /\ CcpSemInv
  BY DEF CcpInv
<1>1. CASE CcpTask
  <2>1. CASE MasterTimer \/ SlaveTimer \/ EndDisabled \/ EndEnabled \/ MasterRearm \/ SlaveRearm
    BY <1>0, <2>1 DEF MasterTimer, SlaveTimer, EndDisabled, EndEnabled, MasterRearm, SlaveRearm,
       CcpSemInv, CcpTypeOK
  <2>2. CASE ForceOff \/ Pend \/ StartRadio
    BY <1>0, <2>2 DEF ForceOff, Pend, StartRadio, CcpSemInv, CcpTypeOK
  <2>3. CASE StartError \/ StartTxError
    BY <1>0, <2>3 DEF StartError, StartTxError, CcpSemInv, CcpTypeOK
  <2>4. CASE Completed \/ Check \/ GiveBack
    BY <1>0, <2>4 DEF Completed, Check, GiveBack, CcpSemInv, CcpTypeOK
  <2>. QED BY <1>1, <2>1, <2>2, <2>3, <2>4 DEF CcpTask
<1>2. CASE CcpRadio
  <2>1. CASE TxComplete \/ RelayComplete \/ RxOther \/ RxMalformed
    BY <1>0, <2>1 DEF TxComplete, RelayComplete, RxOther, RxMalformed, CcpSemInv, CcpTypeOK
  <2>2. CASE Error \/ RxTimeout \/ IrqStep
    BY <1>0, <2>2 DEF Error, RxTimeout, IrqStep, CcpSemInv, CcpTypeOK
  <2>3. CASE \E same \in BOOLEAN : RxBeacon(same)
    BY <1>0, <2>3 DEF RxBeacon, CcpSemInv, CcpTypeOK
  <2>. QED BY <1>2, <2>1, <2>2, <2>3 DEF CcpRadio
<1>3. CASE TimerIrq \/ SemTimeout \/ Beat \/ ForeignReset \/ Disable \/ UNCHANGED ccpVars
  BY <1>0, <1>3 DEF TimerIrq, SemTimeout, Beat, ForeignReset, Disable, ccpVars, CcpSemInv, CcpTypeOK
<1>4. CASE Start(role)
  BY <1>0, <1>4 DEF Start, CcpSemInv, CcpTypeOK
<1>5. CASE Stop
  BY <1>0, <1>5 DEF Stop, StopStep, CcpSemInv, CcpTypeOK
<1>. QED BY <1>1, <1>2, <1>3, <1>4, <1>5 DEF CcpNext

-----------------------------------------------------------------------------
(* Missed beacons and the beats of the epochs *)

LEMMA MissKept == CcpInv /\ [CcpNext]_ccpVars => MissInv'
<1>. SUFFICES ASSUME CcpInv, [CcpNext]_ccpVars PROVE MissInv'
  OBVIOUS
<1>. USE CcpConstants DEF stateVars, others, Look, CutOff
<1>0. CcpTypeOK /\ MissInv
  BY DEF CcpInv
<1>1. ASSUME UNCHANGED <<missed_frames, lost, wrapped>>, valid' => valid PROVE MissInv'
  BY <1>0, <1>1 DEF MissInv
<1>2. CASE CcpTask
  BY <1>1, <1>2 DEF CcpTask, MasterTimer, SlaveTimer, EndDisabled, EndEnabled, MasterRearm,
     SlaveRearm, ForceOff, Pend, StartRadio, StartError, StartTxError, Completed, Check, GiveBack
<1>3. CASE TxComplete \/ RelayComplete \/ RxOther \/ RxMalformed \/ ForeignReset \/ IrqStep
  BY <1>1, <1>3 DEF TxComplete, RelayComplete, RxOther, RxMalformed, ForeignReset, IrqStep
<1>4. CASE Error \/ RxTimeout
  <2>1. UNCHANGED valid /\ (Miss \/ UNCHANGED <<missed_frames, lost, wrapped>>)
    BY <1>4 DEF Error, RxTimeout
  <2>2. CASE Miss
    <3>1. /\ lost \in Nat /\ missed_frames \in Nat /\ valid \in BOOLEAN /\ wrapped \in BOOLEAN
          /\ Tolerate \in Nat
      BY <1>0 DEF CcpTypeOK
    <3>2. /\ missed_frames' = 0 \/ missed_frames' = missed_frames + 1
          /\ lost' = IF lost <= Tolerate THEN lost + 1 ELSE lost
          /\ wrapped' = (valid /\ (wrapped \/ missed_frames' = 0))
      BY <1>0, <2>2, CcpCounters DEF Miss
    <3>3. CASE valid' /\ ~wrapped'
      <4>1. /\ missed_frames' = missed_frames + 1
            /\ lost = IF missed_frames <= Tolerate THEN missed_frames ELSE Tolerate + 1
        BY <1>0, <2>1, <3>1, <3>2, <3>3 DEF MissInv
      <4>. QED BY <3>1, <3>2, <4>1 DEF MissInv
    <3>. QED BY <3>3 DEF MissInv
  <2>. QED BY <1>1, <2>1, <2>2
<1>5. CASE \E same \in BOOLEAN : RxBeacon(same)
  <2>1. \/ missed_frames' = 0 /\ lost' = 0
        \/ UNCHANGED <<missed_frames, lost, wrapped, valid>>
    BY <1>5 DEF RxBeacon
  <2>2. CASE missed_frames' = 0 /\ lost' = 0
    BY <2>2 DEF MissInv
  <2>. QED BY <1>0, <1>1, <2>1, <2>2 DEF CcpTypeOK
<1>6. CASE TimerIrq \/ SemTimeout \/ Beat \/ Disable \/ UNCHANGED ccpVars
  BY <1>1, <1>6 DEF TimerIrq, SemTimeout, Beat, Disable, ccpVars
<1>7. CASE Start(role)
  BY <1>7 DEF Start, MissInv
<1>8. CASE Stop
  BY <1>1, <1>8 DEF Stop, StopStep
<1>. QED BY <1>2, <1>3, <1>4, <1>5, <1>6, <1>7, <1>8 DEF CcpNext, CcpRadio

LEMMA MasterNearKept == CcpInv /\ [CcpNext]_ccpVars => MasterNear'
<1>. SUFFICES ASSUME CcpInv, [CcpNext]_ccpVars PROVE MasterNear'
  OBVIOUS
<1>. USE DEF stateVars, others, Look, CutOff
<1>0. CcpTypeOK /\ RoleInv /\ MasterNear
  BY DEF CcpInv
<1>1. ASSUME UNCHANGED <<late, role>>, aborted => aborted' PROVE MasterNear'
  BY <1>0, <1>1 DEF MasterNear
<1>2. CASE CcpTask
  <2>1. CASE StartTxError
    <3>1. late' = late - 1 /\ late # 0 /\ UNCHANGED <<role, aborted>>
      BY <2>1 DEF StartTxError, Ahead
    <3>. QED BY <1>0, <3>1 DEF MasterNear
  <2>. QED BY <1>1, <1>2, <2>1 DEF CcpTask, MasterTimer, SlaveTimer, EndDisabled, EndEnabled,
       MasterRearm, SlaveRearm, ForceOff, Pend, StartRadio, StartError, Completed, Check, GiveBack
<1>3. CASE TxComplete
  BY <1>1, <1>3 DEF TxComplete, MasterNear
<1>4. CASE RelayComplete \/ RxOther \/ RxMalformed \/ ForeignReset \/ IrqStep
  BY <1>1, <1>4 DEF RelayComplete, RxOther, RxMalformed, ForeignReset, IrqStep
<1>5. CASE Error \/ RxTimeout
  <2>1. role # "master" \/ UNCHANGED late
    BY <1>0, <1>5 DEF Error, RxTimeout, Listening, RoleInv
  <2>. QED BY <1>1, <1>5, <2>1 DEF Error, RxTimeout, MasterNear
<1>6. CASE \E same \in BOOLEAN : RxBeacon(same)
  BY <1>0, <1>6 DEF RxBeacon, RoleInv, MasterNear
<1>7. CASE Beat
  <2>1. aborted \/ role # "master" \/ late = 0
    BY <1>7 DEF Beat
  <2>2. late = 0 => late' = 1
    BY <1>0, <1>7, CcpCounters DEF Beat
  <2>. QED BY <1>7, <2>1, <2>2 DEF Beat, MasterNear
<1>8. CASE TimerIrq \/ SemTimeout \/ Disable \/ UNCHANGED ccpVars
  <2>1. UNCHANGED <<late, role>>
    BY <1>8 DEF TimerIrq, SemTimeout, Disable, ccpVars
  <2>2. aborted => aborted'
    BY <1>8, Zenon DEF TimerIrq, SemTimeout, Disable, ccpVars
  <2>. QED BY <1>1, <2>1, <2>2
<1>9. CASE Start(role)
  BY <1>9 DEF Start, MasterNear
<1>10. CASE Stop
  BY <1>1, <1>10 DEF Stop, StopStep
<1>. QED BY <1>2, <1>3, <1>4, <1>5, <1>6, <1>7, <1>8, <1>9, <1>10 DEF CcpNext, CcpRadio

(* A miss that is counted: when issue_superframe makes up for the beat, the   *)
(* slave followed; it stands for this beat again.  When it does not, the      *)
(* slave follows no more.                                                     *)
LEMMA MadeUp ==
    ASSUME CcpInv, Listening, Miss, IssueSuperframe, UNCHANGED <<role, valid, aborted>>
    PROVE  /\ Follows' => Follows /\ late = 1 /\ late' = 0
           /\ EpochTrue'
<1>. USE CcpConstants
<1>1. /\ CcpTypeOK /\ RoleInv /\ MissInv /\ SlaveNear /\ role # "master"
      /\ lost \in Nat /\ missed_frames \in Nat /\ Tolerate \in Nat
      /\ valid \in BOOLEAN /\ wrapped \in BOOLEAN /\ aborted \in BOOLEAN
  BY DEF CcpInv, CcpTypeOK, RoleInv, Listening
<1>2. /\ missed_frames' = 0 \/ missed_frames' = missed_frames + 1
      /\ lost' = IF lost <= Tolerate THEN lost + 1 ELSE lost
      /\ wrapped' = (valid /\ (wrapped \/ missed_frames' = 0))
  BY <1>1, CcpCounters DEF Miss
<1>3. CASE valid /\ ~aborted /\ ~wrapped' /\ missed_frames' <= Tolerate
  <2>0. ~wrapped /\ missed_frames' = missed_frames + 1
    BY <1>2, <1>3
  <2>1. missed_frames <= Tolerate /\ lost = missed_frames /\ missed_frames < Tolerate
    BY <1>1, <1>3, <2>0 DEF MissInv
  <2>2. Follows /\ late = 1
    BY <1>1, <1>3, <2>0, <2>1 DEF Follows, SlaveNear, Listening
  <2>3. late' = 0 /\ report' = [late |-> late', lost |-> lost']
    <3>1. Tolerate > 0
      BY <1>1, <2>1
    <3>2. (late + Clock - 1) % Clock = 0
      BY <1>1, <2>2, CcpCounters
    <3>. QED BY <1>3, <3>1, <3>2 DEF IssueSuperframe, Superframe
  <2>. QED BY <2>2, <2>3 DEF EpochTrue
<1>4. CASE ~(valid /\ ~aborted /\ ~wrapped') /\ missed_frames' <= Tolerate
  <2>1. ~Follows'
    BY <1>4 DEF Follows
  <2>2. EpochTrue'
    BY <1>4 DEF EpochTrue, IssueSuperframe, Quiet
  <2>. QED BY <2>1, <2>2
<1>5. CASE ~(missed_frames' <= Tolerate)
  <2>1. ~Follows'
    <3>1. CASE valid /\ ~wrapped'
      <4>1. lost = IF missed_frames <= Tolerate THEN missed_frames ELSE Tolerate + 1
        BY <1>1, <1>2, <3>1 DEF MissInv
      <4>. QED BY <1>1, <1>2, <1>5, <4>1 DEF Follows
    <3>. QED BY <3>1 DEF Follows
  <2>2. report' = NoReport
    BY <1>5 DEF IssueSuperframe, Quiet
  <2>. QED BY <2>1, <2>2 DEF EpochTrue
<1>. QED BY <1>3, <1>4, <1>5

LEMMA SlaveNearKept == CcpInv /\ [CcpNext]_ccpVars => SlaveNear'
<1>. SUFFICES ASSUME CcpInv, [CcpNext]_ccpVars PROVE SlaveNear'
  OBVIOUS
<1>. USE DEF stateVars, others, Look, CutOff
<1>0. CcpTypeOK /\ CcpSemInv /\ RoleInv /\ SlaveNear
  BY DEF CcpInv
<1>1. ASSUME UNCHANGED <<role, valid, wrapped, lost>>, aborted => aborted'
      PROVE  Follows' => Follows
  BY <1>0, <1>1 DEF Follows, CcpTypeOK
<1>2. CASE CcpTask
  <2>1. CASE MasterTimer \/ MasterRearm \/ StartTxError
    <3>1. role' = "master"
      BY <1>0, <2>1 DEF MasterTimer, MasterRearm, StartTxError, RoleInv
    <3>. QED BY <3>1 DEF SlaveNear, Follows
  <2>2. CASE SlaveTimer
    BY <1>0, <1>1, <2>2 DEF SlaveTimer, SlaveNear
  <2>3. CASE EndDisabled \/ EndEnabled
    BY <1>0, <1>1, <2>3 DEF EndDisabled, EndEnabled, SlaveNear
  <2>4. CASE SlaveRearm
    <3>1. Follows' /\ rx_timeout_error' => FALSE
      BY <1>0, <2>4, CcpConstants DEF SlaveRearm, Follows, CcpInv, MissInv, CcpTypeOK
    <3>. QED BY <1>0, <1>1, <2>4, <3>1 DEF SlaveRearm, SlaveNear
  <2>5. CASE ForceOff \/ Pend \/ StartRadio
    BY <1>0, <1>1, <2>5 DEF ForceOff, Pend, StartRadio, SlaveNear, RoleInv
  <2>6. CASE StartError
    <3>1. late # 0 /\ UNCHANGED late
      BY <2>6 DEF StartError, Ahead
    <3>. QED BY <1>0, <1>1, <2>6, <3>1 DEF StartError, SlaveNear
  <2>7. CASE Completed \/ Check \/ GiveBack
    BY <1>0, <1>1, <2>7 DEF Completed, Check, GiveBack, SlaveNear
  <2>. QED BY <1>2, <2>1, <2>2, <2>3, <2>4, <2>5, <2>6, <2>7 DEF CcpTask
<1>3. CASE TxComplete
  <2>1. role' = "master"
    BY <1>0, <1>3 DEF TxComplete, RoleInv
  <2>. QED BY <2>1 DEF SlaveNear, Follows
<1>4. CASE RelayComplete \/ RxOther \/ RxMalformed \/ ForeignReset \/ IrqStep
  BY <1>0, <1>1, <1>4 DEF RelayComplete, RxOther, RxMalformed, ForeignReset, IrqStep, SlaveNear, Listening
<1>5. CASE Error
  <2>1. CASE sem = 0 /\ role # "master"
    <3>1. Listening /\ Miss /\ IssueSuperframe /\ UNCHANGED <<role, valid, aborted>>
      BY <1>0, <1>5, <2>1 DEF Error, RoleInv
    <3>2. Follows' => Follows /\ late' = 0
      BY <3>1, MadeUp
    <3>3. pc \notin {"idle", "off", "give", "pend", "start"} /\ pc' = pc /\ radio' = "off"
      BY <1>0, <1>5, <2>1, <3>1 DEF Error, CcpSemInv, RoleInv, Listening
    <3>. QED BY <3>2, <3>3 DEF SlaveNear
  <2>2. CASE ~(sem = 0 /\ role # "master")
    BY <1>0, <1>1, <1>5, <2>2 DEF Error, SlaveNear
  <2>. QED BY <2>1, <2>2
<1>6. CASE RxTimeout
  <2>1. CASE sem = 0
    <3>1. Listening /\ Miss /\ IssueSuperframe /\ UNCHANGED <<role, valid, aborted>>
      BY <1>6, <2>1 DEF RxTimeout
    <3>2. Follows' => Follows /\ late' = 0
      BY <3>1, MadeUp
    <3>3. pc \notin {"idle", "off", "give", "pend", "start"} /\ pc' = pc /\ radio' = "off"
      BY <1>0, <1>6, <2>1, <3>1 DEF RxTimeout, CcpSemInv, RoleInv, Listening
    <3>. QED BY <3>2, <3>3 DEF SlaveNear
  <2>2. CASE sem # 0
    BY <1>0, <1>1, <1>6, <2>2 DEF RxTimeout, SlaveNear
  <2>. QED BY <2>1, <2>2
<1>7. CASE \E same \in BOOLEAN : RxBeacon(same)
  <2>1. CASE sem = 0 /\ role # "master"
    <3>1. late' = 0 /\ rx_timeout_error' = FALSE /\ radio' # "long" /\ UNCHANGED <<pc, op>>
      BY <1>7, <2>1 DEF RxBeacon
    <3>2. pc \notin {"idle", "off", "give", "pend", "start"}
      BY <1>0, <1>7, <2>1 DEF RxBeacon, CcpSemInv, RoleInv
    <3>. QED BY <3>1, <3>2 DEF SlaveNear
  <2>2. CASE ~(sem = 0 /\ role # "master")
    <3>1. aborted'
      BY <1>7, <2>2 DEF RxBeacon
    <3>. QED BY <3>1 DEF SlaveNear, Follows
  <2>. QED BY <2>1, <2>2
<1>8. CASE Beat
  <2>1. late = 0 \/ aborted \/ lost > Tolerate
    BY <1>8 DEF Beat
  <2>2. late = 0 => late' = 1
    BY <1>0, <1>8, CcpCounters DEF Beat
  <2>3. Follows' => Follows /\ late = 0
    BY <1>0, <1>8, <2>1, CcpConstants DEF Beat, Follows, CcpTypeOK
  <2>. QED BY <1>0, <1>8, <2>2, <2>3 DEF Beat, SlaveNear
<1>9. CASE TimerIrq \/ SemTimeout \/ Disable \/ UNCHANGED ccpVars
  <2>1. /\ UNCHANGED <<role, valid, wrapped, lost, late, radio, op, rx_timeout_error>>
        /\ pc' = pc \/ pc' = "check"
        /\ enabled' => enabled
    BY <1>9 DEF TimerIrq, SemTimeout, Disable, ccpVars
  <2>2. aborted => aborted'
    BY <1>9, Zenon DEF TimerIrq, SemTimeout, Disable, ccpVars
  <2>. QED BY <1>0, <1>1, <2>1, <2>2 DEF SlaveNear
<1>10. CASE Start(role)
  BY <1>10 DEF Start, SlaveNear, Follows
<1>11. CASE Stop
  BY <1>0, <1>1, <1>11 DEF Stop, StopStep, SlaveNear
<1>. QED BY <1>2, <1>3, <1>4, <1>5, <1>6, <1>7, <1>8, <1>9, <1>10, <1>11 DEF CcpNext, CcpRadio

-----------------------------------------------------------------------------
(* Types *)

(* Only the end of a transmission or a listen, and a start that failed, call  *)
(* the superframe callbacks.                                                  *)
LEMMA Reporters ==
    ASSUME [CcpNext]_ccpVars
    PROVE  \/ TxComplete \/ (\E same \in BOOLEAN : RxBeacon(same))
           \/ StartTxError \/ Error \/ RxTimeout
           \/ report' = NoReport
           \/ UNCHANGED ccpVars
  BY DEF CcpNext, CcpTask, MasterTimer, SlaveTimer, EndDisabled, EndEnabled, MasterRearm,
     SlaveRearm, ForceOff, Pend, StartRadio, StartError, Completed, Check, GiveBack, CcpRadio,
     RelayComplete, RxOther, RxMalformed, ForeignReset, IrqStep, TimerIrq, SemTimeout, Beat, Disable,
     Start, Stop, StopStep, Quiet

(* A superframe is reported with the epochs and misses the step leaves.       *)
LEMMA ReportShape ==
    ASSUME [CcpNext]_ccpVars
    PROVE  report' \in {NoReport, [late |-> late', lost |-> lost'], report}
<1>1. CASE TxComplete \/ StartTxError
  BY <1>1 DEF TxComplete, StartTxError, Superframe, Quiet
<1>2. CASE \E same \in BOOLEAN : RxBeacon(same)
  BY <1>2 DEF RxBeacon, Superframe, Quiet
<1>3. CASE Error \/ RxTimeout
  BY <1>3 DEF Error, RxTimeout, IssueSuperframe, Superframe, Quiet
<1>. QED BY <1>1, <1>2, <1>3, Reporters DEF ccpVars

LEMMA CcpTypeKept == CcpInv /\ [CcpNext]_ccpVars => CcpTypeOK'
<1>. SUFFICES ASSUME CcpInv, [CcpNext]_ccpVars PROVE CcpTypeOK'
  OBVIOUS
<1>. USE DEF stateVars, others, Look, CutOff
<1>0. CcpTypeOK /\ CcpSemInv
  BY DEF CcpInv
<1>1. sem' \in 0..Threads
  <2>1. CcpSemInv'
    BY SemKept
  <2>2. sem' \in Nat
    BY <1>0 DEF CcpNext, CcpTask, MasterTimer, SlaveTimer, EndDisabled, EndEnabled, MasterRearm,
       SlaveRearm, ForceOff, Pend, StartRadio, StartError, StartTxError, Completed, Check,
       GiveBack, CcpRadio, TxComplete, RelayComplete, RxOther, RxMalformed, Error, RxTimeout,
       ForeignReset, IrqStep, RxBeacon, TimerIrq, SemTimeout, Beat, Disable, ccpVars, Start, Stop, StopStep,
       CcpTypeOK
  <2>3. /\ Held' \in Nat /\ IrqOwes' \in Nat /\ StopOwes' \in Nat /\ ResetOwes' \in Nat
        /\ Threads \in Nat /\ Threads' = Threads
    BY DEF Held, IrqOwes, StopOwes, ResetOwes, Threads
  <2>4. sem' + Held' + IrqOwes' + StopOwes' + ResetOwes' <= Threads
    BY <2>1, <2>3 DEF CcpSemInv
  <2>5. \A x, h, i, p, r \in Nat : x + h + i + p + r <= Threads => x \in 0..Threads
    BY <2>3
  <2>. QED BY <2>2, <2>3, <2>4, <2>5
<1>2. missed_frames' \in 0..MissedMod - 1 /\ lost' \in 0..Tolerate + 1
  <2>1. /\ 0 \in 0..MissedMod - 1 /\ 0 \in 0..Tolerate + 1 /\ Tolerate + 1 \in 0..Tolerate + 1
        /\ (missed_frames + 1) % MissedMod \in 0..MissedMod - 1
        /\ lost <= Tolerate => lost + 1 \in 0..Tolerate + 1
    BY <1>0, CcpConstants, CcpCounters DEF CcpTypeOK
  <2>. QED
    BY <1>0, <2>1 DEF CcpNext, CcpTask, MasterTimer, SlaveTimer, EndDisabled, EndEnabled,
       MasterRearm, SlaveRearm, ForceOff, Pend, StartRadio, StartError, StartTxError, Completed,
       Check, GiveBack, CcpRadio, TxComplete, RelayComplete, RxOther, RxMalformed, Error, RxTimeout,
       ForeignReset, IrqStep, RxBeacon, TimerIrq, SemTimeout, Beat, Disable, ccpVars, Start, Stop, StopStep,
       Miss, CcpTypeOK
<1>3. late' \in 0..Clock - 1
  <2>1. /\ 0 \in 0..Clock - 1 /\ (late + 1) % Clock \in 0..Clock - 1
        /\ (late + Clock - 1) % Clock \in 0..Clock - 1
        /\ late # 0 => late - 1 \in 0..Clock - 1
    BY <1>0, CcpCounters DEF CcpTypeOK
  <2>2. CASE Error \/ RxTimeout
    BY <1>0, <2>1, <2>2 DEF Error, RxTimeout, IssueSuperframe, CcpTypeOK
  <2>3. CASE StartTxError
    BY <2>1, <2>3 DEF StartTxError, Ahead
  <2>4. CASE Beat \/ Start(role) \/ Stop
    BY <1>0, <2>1, <2>4 DEF Beat, Start, Stop, StopStep, CcpTypeOK
  <2>5. CASE TxComplete \/ \E same \in BOOLEAN : RxBeacon(same)
    BY <1>0, <2>1, <2>5 DEF TxComplete, RxBeacon, CcpTypeOK
  <2>6. \/ Error \/ RxTimeout \/ StartTxError \/ Beat \/ Start(role) \/ Stop \/ TxComplete
        \/ \E same \in BOOLEAN : RxBeacon(same)
        \/ late' = late
    BY DEF CcpNext, CcpTask, MasterTimer, SlaveTimer, EndDisabled, EndEnabled,
       MasterRearm, SlaveRearm, ForceOff, Pend, StartRadio, StartError, Completed,
       Check, GiveBack, CcpRadio, RelayComplete, RxOther, RxMalformed,
       ForeignReset, IrqStep, TimerIrq, SemTimeout, Disable, ccpVars
  <2>. QED BY <1>0, <2>2, <2>3, <2>4, <2>5, <2>6 DEF CcpTypeOK
<1>4. valid_count' \in 0..Threshold - 1
  <2>1. /\ 0 \in 0..Threshold - 1
        /\ valid_count < Threshold - 1 => valid_count + 1 \in 0..Threshold - 1
    BY <1>0, CcpConstants DEF CcpTypeOK
  <2>. QED
    BY <1>0, <2>1 DEF CcpNext, CcpTask, MasterTimer, SlaveTimer, EndDisabled, EndEnabled,
       MasterRearm, SlaveRearm, ForceOff, Pend, StartRadio, StartError, StartTxError, Completed,
       Check, GiveBack, CcpRadio, TxComplete, RelayComplete, RxOther, RxMalformed, Error, RxTimeout,
       ForeignReset, IrqStep, RxBeacon, TimerIrq, SemTimeout, Beat, Disable, ccpVars, Start, Stop, StopStep,
       CcpTypeOK
<1>5. report' \in {NoReport} \cup [late : 0..Clock - 1, lost : 0..Tolerate + 1]
  <2>1. [late |-> late', lost |-> lost'] \in [late : 0..Clock - 1, lost : 0..Tolerate + 1]
    BY <1>2, <1>3
  <2>. QED BY <1>0, <2>1, ReportShape DEF CcpTypeOK
<1>6. /\ role' \in CcpRoles /\ handler' \in {"none", "master", "slave"}
      /\ enabled' \in BOOLEAN /\ valid' \in BOOLEAN /\ followed' \in BOOLEAN
      /\ wrapped' \in BOOLEAN /\ aborted' \in BOOLEAN
  <2>1. CASE \E same \in BOOLEAN : RxBeacon(same)
    <3>1. /\ UNCHANGED <<role, handler, enabled>>
          /\ followed' = TRUE \/ followed' = followed
          /\ wrapped' = FALSE \/ wrapped' = wrapped
          /\ aborted' = FALSE \/ aborted' = TRUE
      BY <2>1 DEF RxBeacon
    <3>2. PICK same \in BOOLEAN : RxBeacon(same)
      BY <2>1
    <3>3. valid' = valid \/ valid' = (same /\ (valid \/ valid_count' = Threshold - 1))
      BY <3>2 DEF RxBeacon
    <3>4. valid' \in BOOLEAN
      BY <1>0, <3>3, Zenon DEF CcpTypeOK
    <3>. QED BY <1>0, <3>1, <3>4 DEF CcpTypeOK
  <2>2. CASE Error \/ RxTimeout
    BY <1>0, <2>2 DEF Error, RxTimeout, Miss, CcpTypeOK
  <2>3. CASE Start(role)
    BY <1>0, <2>3 DEF Start, CcpTypeOK
  <2>4. CASE CcpTask \/ Beat \/ Disable \/ SemTimeout \/ TimerIrq
    BY <1>0, <2>4 DEF CcpTask, MasterTimer, SlaveTimer, EndDisabled, EndEnabled, MasterRearm,
       SlaveRearm, ForceOff, Pend, StartRadio, StartError, StartTxError, Completed, Check,
       GiveBack, Beat, Disable, SemTimeout, TimerIrq, CcpTypeOK
  <2>5. CASE TxComplete \/ RelayComplete \/ RxOther \/ RxMalformed \/ ForeignReset \/ IrqStep
    BY <1>0, <2>5 DEF TxComplete, RelayComplete, RxOther, RxMalformed, ForeignReset, IrqStep, CcpTypeOK
  <2>6. CASE Stop
    BY <1>0, <2>6 DEF Stop, StopStep, CcpTypeOK
  <2>7. CASE UNCHANGED ccpVars
    BY <1>0, <2>7 DEF ccpVars, CcpTypeOK
  <2>. QED BY <2>1, <2>2, <2>3, <2>4, <2>5, <2>6, <2>7 DEF CcpNext, CcpRadio
<1>7. /\ rx_timeout_error' \in BOOLEAN /\ timer_restarted' \in BOOLEAN
      /\ timer' \in BOOLEAN /\ queued' \in BOOLEAN
  BY <1>0 DEF CcpNext, CcpTask, MasterTimer, SlaveTimer, EndDisabled, EndEnabled,
       MasterRearm, SlaveRearm, ForceOff, Pend, StartRadio, StartError, StartTxError, Completed,
       Check, GiveBack, CcpRadio, TxComplete, RelayComplete, RxOther, RxMalformed, Error, RxTimeout,
       ForeignReset, IrqStep, RxBeacon, TimerIrq, SemTimeout, Beat, Disable, ccpVars, Start, Stop, StopStep,
       CcpTypeOK
<1>8. /\ pc' \in {"idle", "off", "give", "pend", "start", "wait", "check", "release", "reset",
              "rearm"}
      /\ irq' \in {"none", "look", "give"} /\ resetter' \in {"none", "look", "give"}
      /\ op' \in {"send", "window", "long"}
      /\ radio' \in {"off", "tx", "window", "long", "relay"}
      /\ stop' \in {"done", "look", "off", "reset", "give", "again", "release"}
  BY <1>0 DEF CcpNext, CcpTask, MasterTimer, SlaveTimer, EndDisabled, EndEnabled,
       MasterRearm, SlaveRearm, ForceOff, Pend, StartRadio, StartError, StartTxError, Completed,
       Check, GiveBack, CcpRadio, TxComplete, RelayComplete, RxOther, RxMalformed, Error, RxTimeout,
       ForeignReset, IrqStep, RxBeacon, TimerIrq, SemTimeout, Beat, Disable, ccpVars, Start, Stop, StopStep,
       CcpTypeOK
<1>. QED BY <1>1, <1>2, <1>3, <1>4, <1>5, <1>6, <1>7, <1>8 DEF CcpTypeOK

-----------------------------------------------------------------------------
(* Theorems *)

LEMMA CcpStep == CcpInv /\ [CcpNext]_ccpVars => CcpInv'
  BY CcpTypeKept, SemKept, RoleKept, AwakeKept, MissKept, MasterNearKept, SlaveNearKept DEF CcpInv

THEOREM CcpInvariant == CcpSpec => []CcpInv
<1>. QED BY CcpInvInit, CcpStep, PTL DEF CcpSpec

(* Whatever the callbacks, resets, timeouts and stops do to the semaphore of  *)
(* uwb_ccp, whose releases are steps after unprotected looks at its count, it *)
(* counts at most as many as there are threads that release it, for any       *)
(* widths and tolerances; the epochs and counters stay within their widths.   *)
THEOREM CcpTypeCorrect == CcpSpec => []CcpTypeOK
<1>. QED BY CcpInvariant, PTL DEF CcpInv

(* An enabled node has a timer armed, an event queued or its task at work, in *)
(* whatever state a stop, a reset or a failure left it (MasterRearm counts on *)
(* timer_restarted only for a beacon of its own).                             *)
THEOREM NeverIdles == CcpSpec => []NeverIdle
<1>1. CcpInv => NeverIdle
  BY DEF CcpInv, AwakeInv, NeverIdle
<1>. QED BY <1>1, CcpInvariant, PTL

(* For any number of tolerated misses and any widths: a superframe reported   *)
(* starts at a beat of the master that runs now, unless a listen was ended    *)
(* without an answer or missed_frames has wrapped.                            *)
THEOREM EpochsTrue == CcpSpec => []EpochTrue
<1>1. CcpInit => EpochTrue
  BY DEF CcpInit, EpochTrue
<1>2. CcpInv /\ CcpInv' /\ EpochTrue /\ [CcpNext]_ccpVars => EpochTrue'
  <2>. SUFFICES ASSUME CcpInv, CcpInv', EpochTrue, [CcpNext]_ccpVars PROVE EpochTrue'
    OBVIOUS
  <2>1. CASE UNCHANGED ccpVars
    BY <2>1 DEF ccpVars, EpochTrue
  <2>2. CASE report' = NoReport
    BY <2>2 DEF EpochTrue
  <2>3. CASE TxComplete
    BY <2>3 DEF TxComplete, Superframe, Quiet, EpochTrue
  <2>4. CASE \E same \in BOOLEAN : RxBeacon(same)
    BY <2>4 DEF RxBeacon, Superframe, Quiet, EpochTrue
  <2>5. CASE StartTxError
    <3>1. late = 1 \/ aborted
      BY <2>5 DEF StartTxError, Ahead, CcpInv, RoleInv, MasterNear
    <3>2. late' = late - 1 /\ aborted' = aborted /\ report' \in {NoReport, [late |-> late', lost |-> lost]}
      BY <2>5 DEF StartTxError, Superframe, Quiet
    <3>. QED BY <3>1, <3>2 DEF EpochTrue
  <2>6. CASE Error \/ RxTimeout
    <3>1. CASE report' # NoReport
      <4>1. Listening /\ Miss /\ IssueSuperframe /\ UNCHANGED <<role, valid, aborted>>
        BY <2>6, <3>1 DEF Error, RxTimeout, Quiet, CcpInv, RoleInv, stateVars
      <4>. QED BY <4>1, MadeUp
    <3>. QED BY <2>2, <3>1
  <2>. QED BY <2>1, <2>2, <2>3, <2>4, <2>5, <2>6, Reporters
<1>. QED BY <1>1, <1>2, CcpInvariant, PTL DEF CcpSpec

-----------------------------------------------------------------------------
(* tdma *)

Events == Slots \cup {Super}

-----------------------------------------------------------------------------
(* The times of slots *)

(* The start of a slot lies in the superframe, at or after that of the second *)
(* slot unless it is the first; and when the superframe is over, so is the    *)
(* delay allowed (cputime_slot_start, TDMA_MAX_SLOT_DELAY_US).                *)
LEMMA SlotTimes ==
    /\ Period \in Nat /\ Period > 0
    /\ SlotStart(1) \in Int /\ SlotStart(1) + MaxDelay \in Nat
    /\ \A i \in Slots :
          /\ SlotStart(i) \in -Latency..Period - 1
          /\ i # 0 => SlotStart(1) <= SlotStart(i)
          /\ SlotStart(i) + MaxDelay < Period
<1>. USE TdmaConstants
<1>1. \A a, b \in Nat : a * SlotTicks \in Nat /\ (a <= b => a * SlotTicks <= b * SlotTicks)
  <2>1. ASSUME NEW a \in Nat, NEW b \in Nat, a <= b PROVE a * SlotTicks <= b * SlotTicks
    <3>1. b - a \in Nat /\ b = a + (b - a)
      BY <2>1
    <3>2. (b - a) * SlotTicks \in Nat
      BY <3>1
    <3>3. b * SlotTicks = a * SlotTicks + (b - a) * SlotTicks
      BY <3>1
    <3>. QED BY <3>2, <3>3
  <2>. QED BY <2>1
<1>2. Period = (NSlots - 1) * SlotTicks + SlotTicks /\ NSlots - 1 \in Nat
  BY DEF Period
<1>3. SlotStart(1) = SlotTicks - Latency
  BY DEF SlotStart
<1>4. ASSUME NEW i \in Slots
      PROVE  /\ SlotStart(i) \in -Latency..Period - 1
             /\ i # 0 => SlotStart(1) <= SlotStart(i)
             /\ SlotStart(i) + MaxDelay < Period
  <2>1. i \in Nat /\ i <= NSlots - 1
    BY DEF Slots
  <2>2. i * SlotTicks \in Nat /\ i * SlotTicks <= (NSlots - 1) * SlotTicks
    BY <1>1, <1>2, <2>1
  <2>3. i # 0 => SlotTicks <= i * SlotTicks
    <3>1. 1 * SlotTicks = SlotTicks /\ 1 \in Nat
      OBVIOUS
    <3>. QED BY <1>1, <2>1, <3>1
  <2>. QED BY <1>1, <1>2, <1>3, <2>2, <2>3 DEF SlotStart
<1>. QED BY <1>1, <1>2, <1>3, <1>4

-----------------------------------------------------------------------------
(* The event queue *)

(* An event that is put waits once (dpl_eventq_put). *)
LEMMA PutQueue ==
    ASSUME queue \in Seq(Events), IsInjective(queue), NEW e \in Events, Put(e)
    PROVE  /\ queue' \in Seq(Events) /\ IsInjective(queue')
           /\ \A d : Queued(d)' <=> Queued(d) \/ d = e
<1>1. CASE Queued(e)
  BY <1>1 DEF Put, Queued
<1>2. CASE ~Queued(e)
  <2>1. queue' = Append(queue, e)
    BY <1>2 DEF Put
  <2>2. /\ queue' \in Seq(Events) /\ Len(queue') = Len(queue) + 1
        /\ \A k \in 1..Len(queue) : queue'[k] = queue[k]
        /\ queue'[Len(queue) + 1] = e
    BY <2>1
  <2>3. \A k \in 1..Len(queue) : queue[k] # e
    BY <1>2 DEF Queued, ToSet
  <2>4. DOMAIN queue = 1..Len(queue) /\ DOMAIN queue' = 1..Len(queue) + 1 /\ Len(queue) \in Nat
    BY <2>2
  <2>5. IsInjective(queue')
    BY <2>2, <2>3, <2>4 DEF IsInjective
  <2>6. \A d : Queued(d)' <=> Queued(d) \/ d = e
    BY <2>2, <2>4 DEF Queued, ToSet
  <2>. QED BY <2>2, <2>5, <2>6
<1>. QED BY <1>1, <1>2

(* An event that is taken waits no longer (dpl_eventq_get). *)
LEMMA TailQueue ==
    ASSUME queue \in Seq(Events), IsInjective(queue), queue # <<>>, queue' = Tail(queue)
    PROVE  /\ Head(queue) \in Events /\ Queued(Head(queue))
           /\ queue' \in Seq(Events) /\ IsInjective(queue')
           /\ \A d : Queued(d)' <=> Queued(d) /\ d # Head(queue)
<1>1. /\ Len(queue) \in Nat \ {0} /\ DOMAIN queue = 1..Len(queue)
      /\ Head(queue) = queue[1] /\ queue' \in Seq(Events) /\ Len(queue') = Len(queue) - 1
      /\ DOMAIN queue' = 1..Len(queue) - 1
      /\ \A k \in 1..Len(queue) - 1 : queue'[k] = queue[k + 1]
  OBVIOUS
<1>2. Head(queue) \in Events /\ Queued(Head(queue))
  BY <1>1 DEF Queued, ToSet
<1>3. IsInjective(queue')
  BY <1>1 DEF IsInjective
<1>4. \A d : Queued(d)' <=> Queued(d) /\ d # Head(queue)
  <2>1. ASSUME NEW d, Queued(d)' PROVE Queued(d) /\ d # Head(queue)
    <3>1. PICK k \in 1..Len(queue) - 1 : d = queue'[k]
      BY <1>1, <2>1 DEF Queued, ToSet
    <3>2. d = queue[k + 1] /\ k + 1 \in 1..Len(queue) /\ k + 1 # 1
      BY <1>1, <3>1
    <3>. QED BY <1>1, <3>2 DEF Queued, ToSet, IsInjective
  <2>2. ASSUME NEW d, Queued(d), d # Head(queue) PROVE Queued(d)'
    <3>1. PICK k \in 1..Len(queue) : d = queue[k]
      BY <1>1, <2>2 DEF Queued, ToSet
    <3>2. k - 1 \in 1..Len(queue) - 1 /\ queue'[k - 1] = d
      BY <1>1, <2>2, <3>1
    <3>. QED BY <1>1, <3>2 DEF Queued, ToSet
  <2>. QED BY <2>1, <2>2
<1>. QED BY <1>1, <1>2, <1>3, <1>4

-----------------------------------------------------------------------------
(* Types *)

LEMMA TdmaTypeInit == TdmaInit => TdmaTypeOK
<1>1. SUFFICES ASSUME TdmaInit PROVE TdmaTypeOK
  OBVIOUS
<1>2. Period \in 0..MaxAge /\ 0 \in -MaxStart..Period
  BY TdmaConstants, SlotTimes DEF Period
<1>3. queue \in Seq(Events) /\ IsInjective(queue)
  BY <1>1 DEF TdmaInit, IsInjective
<1>4. /\ age = Period /\ assigned \subseteq Slots /\ start = [i \in Slots |-> 0] /\ armed = {}
      /\ running = Idle /\ ran = [i \in Slots |-> 0] /\ changed = Slots
      /\ stalled = FALSE /\ disturbed = FALSE
  BY <1>1 DEF TdmaInit
<1>5. start \in [Slots -> -MaxStart..Period] /\ ran \in [Slots -> 0..2]
  BY <1>2, <1>4
<1>6. age \in 0..MaxAge /\ running \in Slots \cup {Idle} /\ queue \in Seq(Slots \cup {Super})
  BY <1>2, <1>3, <1>4 DEF Events
<1>7. armed \subseteq Slots /\ changed \subseteq Slots /\ stalled \in BOOLEAN /\ disturbed \in BOOLEAN
  BY <1>4
<1>. QED BY <1>3, <1>4, <1>5, <1>6, <1>7 DEF TdmaTypeOK

LEMMA TdmaTypeStep ==
    ASSUME TdmaTypeOK, [TdmaNext]_tdmaVars
    PROVE  TdmaTypeOK'
<1>q. queue \in Seq(Events) /\ IsInjective(queue)
  BY DEF TdmaTypeOK, Events
<1>s. \A i \in Slots : i \in Events /\ i # Super /\ SlotStart(i) \in -MaxStart..Period
  BY TdmaConstants, SlotTimes DEF Slots, Super, Events
<1>1. CASE Report
  <2>1. queue' \in Seq(Events) /\ IsInjective(queue')
    BY <1>1, <1>q, PutQueue DEF Report, Events
  <2>2. start' \in [Slots -> -MaxStart..Period]
    <3>1. age \in Nat /\ age > 0 /\ start' = [i \in Slots |->
             IF start[i] - age < -MaxStart THEN -MaxStart ELSE start[i] - age]
      BY <1>1 DEF Report, TdmaTypeOK
    <3>2. \A i \in Slots : start[i] \in -MaxStart..Period
      BY DEF TdmaTypeOK
    <3>3. \A x \in -MaxStart..Period :
             (IF x - age < -MaxStart THEN -MaxStart ELSE x - age) \in -MaxStart..Period
      BY <3>1, TdmaConstants, SlotTimes
    <3>. QED BY <3>1, <3>2, <3>3
  <2>3. age' \in 0..MaxAge
    BY <1>1, TdmaConstants DEF Report
  <2>4. stalled' \in BOOLEAN /\ disturbed' \in BOOLEAN
    BY <1>1 DEF Report
  <2>5. UNCHANGED <<assigned, armed, running, ran, changed>>
    BY <1>1 DEF Report
  <2>. QED BY <2>1, <2>2, <2>3, <2>4, <2>5 DEF TdmaTypeOK, Events
<1>2. CASE HandleSuperframe
  <2>1. queue' \in Seq(Events) /\ IsInjective(queue')
    BY <1>2, <1>q, TailQueue DEF HandleSuperframe
  <2>2. start' \in [Slots -> -MaxStart..Period]
    BY <1>2, <1>s DEF HandleSuperframe, TdmaTypeOK
  <2>. QED BY <1>2, <2>1, <2>2 DEF HandleSuperframe, TdmaTypeOK, Events
<1>3. CASE RunSlot
  <2>1. queue' \in Seq(Events) /\ IsInjective(queue') /\ Head(queue) \in Slots
    BY <1>3, <1>q, TailQueue DEF RunSlot, Events
  <2>2. running' \in Slots \cup {Idle} /\ ran' \in [Slots -> 0..2]
    BY <1>3, <2>1 DEF RunSlot, TdmaTypeOK
  <2>. QED BY <1>3, <2>1, <2>2 DEF RunSlot, TdmaTypeOK, Events
<1>4. CASE Done
  BY <1>4 DEF Done, TdmaTypeOK
<1>5. CASE Tick
  <2>1. age' \in 0..MaxAge /\ stalled' \in BOOLEAN
    BY <1>5, TdmaConstants DEF Tick, TdmaTypeOK
  <2>. QED BY <1>5, <2>1 DEF Tick, TdmaTypeOK
<1>6. ASSUME NEW i \in Slots, Fire(i) PROVE TdmaTypeOK'
  <2>1. queue' \in Seq(Events) /\ IsInjective(queue')
    BY <1>6, <1>q, <1>s, PutQueue DEF Fire
  <2>. QED BY <1>6, <2>1 DEF Fire, TdmaTypeOK, Events
<1>7. ASSUME NEW i \in Slots, Assign(i) PROVE TdmaTypeOK'
  <2>1. start' \in [Slots -> -MaxStart..Period]
    BY <1>7, TdmaConstants, SlotTimes DEF Assign, TdmaTypeOK
  <2>. QED BY <1>7, <2>1 DEF Assign, TdmaTypeOK
<1>8. ASSUME NEW S, Release(S) PROVE TdmaTypeOK'
  BY <1>8 DEF Release, TdmaTypeOK
<1>9. CASE UNCHANGED tdmaVars
  BY <1>9 DEF tdmaVars, TdmaTypeOK
<1>. QED BY <1>1, <1>2, <1>3, <1>4, <1>5, <1>6, <1>7, <1>8, <1>9 DEF TdmaNext

(* For any slots and delays every variable keeps its type; in particular no  *)
(* event is in tdma->eventq twice.                                           *)
THEOREM TdmaTypeCorrect == TdmaSpec => []TdmaTypeOK
BY TdmaTypeInit, TdmaTypeStep, PTL DEF TdmaSpec

-----------------------------------------------------------------------------
(* The invariant *)

Pending(i) == i \in armed \/ Queued(i)

(* A timer runs for an assigned slot. *)
AllAssigned == armed \subseteq assigned

(* When the report is handled, all that is pending starts in its superframe. *)
StartsTrue == ~Queued(Super) => \A i \in Slots : Pending(i) => start[i] = SlotStart(i)

(* Unless something stalls, nothing is pending after the delay allowed. *)
NoneLate ==
    ~stalled =>
        /\ Queued(Super) => age <= SlotStart(1) + MaxDelay
        /\ ~Queued(Super) => \A i \in Slots \ {0} : Pending(i) => age <= SlotStart(i) + MaxDelay

(* A slot is armed, queued or was run, and only one of these, unless something *)
(* was left by the superframe before.                                          *)
OneLeft ==
    ~disturbed =>
        /\ Queued(Super) => \A i \in Slots \ {0} : ~Pending(i)
        /\ ~Queued(Super) => \A i \in Slots \ {0} :
              /\ ran[i] = 0 \/ (ran[i] = 1 /\ ~Pending(i))
              /\ i \in armed => ~Queued(i)

(* A slot that is due to run is armed, queued in time, or was run. *)
NoneMissed ==
    ~stalled /\ ~Queued(Super) => \A i \in assigned \ (changed \cup {0}) :
        i \in armed \/ (Queued(i) /\ age >= start[i]) \/ ran[i] >= 1

TdmaInv == TdmaTypeOK /\ AllAssigned /\ StartsTrue /\ NoneLate /\ OneLeft /\ NoneMissed

LEMMA TdmaInvInit == TdmaInit => TdmaInv
<1>1. SUFFICES ASSUME TdmaInit PROVE TdmaInv
  OBVIOUS
<1>2. \A e : ~Queued(e)
  BY <1>1 DEF TdmaInit, Queued, ToSet
<1>3. \A i \in Slots : ~Pending(i) /\ i \notin armed /\ ran[i] = 0
  BY <1>1, <1>2 DEF TdmaInit, Pending
<1>. QED BY <1>1, <1>2, <1>3, TdmaTypeInit
         DEF TdmaInit, TdmaInv, AllAssigned, StartsTrue, NoneLate, OneLeft, NoneMissed

(* The report of a superframe. *)
LEMMA ReportKeeps ==
    ASSUME TdmaInv, TdmaTypeOK', Report
    PROVE  TdmaInv'
<1>. USE DEF TdmaInv
<1>1. /\ age > 0 /\ age' = 0 /\ stalled' = FALSE
      /\ disturbed' = (age < Period \/ stalled \/ (disturbed /\ Queued(Super)))
      /\ UNCHANGED <<assigned, armed, running, ran, changed>>
  BY DEF Report
<1>2. \A d : Queued(d)' <=> Queued(d) \/ d = Super
  BY PutQueue DEF Report, TdmaTypeOK, Events
<1>3. \A i \in Slots : i # Super /\ (Pending(i)' <=> Pending(i))
  BY <1>1, <1>2 DEF Pending, Slots, Super
<1>4. Queued(Super)'
  BY <1>2
<1>5. AllAssigned' /\ StartsTrue' /\ NoneMissed'
  BY <1>1, <1>3, <1>4 DEF AllAssigned, StartsTrue, NoneMissed
<1>6. NoneLate'
  BY <1>1, <1>4, SlotTimes DEF NoneLate
<1>7. OneLeft'
  <2>1. SUFFICES ASSUME ~disturbed', NEW i \in Slots \ {0} PROVE ~Pending(i)
    BY <1>3, <1>4 DEF OneLeft
  <2>2. ~(age < Period) /\ ~stalled /\ ~(disturbed /\ Queued(Super))
    BY <1>1, <2>1
  <2>3. CASE Queued(Super)
    BY <2>2, <2>3 DEF OneLeft
  <2>4. CASE ~Queued(Super)
    <3>1. Pending(i) => age <= SlotStart(i) + MaxDelay
      BY <2>2, <2>4 DEF NoneLate
    <3>2. SlotStart(i) + MaxDelay < Period /\ SlotStart(i) \in Int /\ Period \in Int /\ age \in Int
      BY SlotTimes DEF TdmaTypeOK
    <3>. QED BY <2>2, <3>1, <3>2, TdmaConstants
  <2>. QED BY <2>3, <2>4
<1>. QED BY <1>5, <1>6, <1>7

(* The report is handled. *)
LEMMA HandleKeeps ==
    ASSUME TdmaInv, TdmaTypeOK', ~Freed, HandleSuperframe
    PROVE  TdmaInv'
<1>. USE DEF TdmaInv
<1>1. /\ start' = [i \in Slots |-> IF i \in assigned THEN SlotStart(i) ELSE start[i]]
      /\ armed' = assigned /\ ran' = [i \in Slots |-> 0] /\ changed' = {}
      /\ UNCHANGED <<age, assigned, running, stalled, disturbed>>
  BY DEF HandleSuperframe
<1>2. Queued(Super) /\ ~Queued(Super)' /\ \A i \in Slots : Queued(i)' <=> Queued(i)
  <2>1. Queued(Super) /\ \A d : Queued(d)' <=> Queued(d) /\ d # Super
    BY TailQueue DEF HandleSuperframe, TdmaTypeOK, Events
  <2>. QED BY <2>1 DEF Slots, Super
<1>3. \A i \in Slots : Pending(i)' => i \in assigned
  BY <1>1, <1>2 DEF Pending, Freed
<1>4. AllAssigned' /\ StartsTrue' /\ NoneMissed'
  BY <1>1, <1>2, <1>3 DEF AllAssigned, StartsTrue, NoneMissed
<1>5. NoneLate'
  <2>1. SUFFICES ASSUME ~stalled, NEW i \in Slots \ {0} PROVE age <= SlotStart(i) + MaxDelay
    BY <1>1, <1>2 DEF NoneLate
  <2>2. age <= SlotStart(1) + MaxDelay /\ age \in Int
    BY <1>2, <2>1 DEF NoneLate, TdmaTypeOK
  <2>3. SlotStart(1) <= SlotStart(i) /\ SlotStart(1) \in Int /\ SlotStart(i) \in Int
    BY SlotTimes
  <2>. QED BY <2>2, <2>3, TdmaConstants
<1>6. OneLeft'
  BY <1>1, <1>2 DEF OneLeft, Pending
<1>. QED BY <1>4, <1>5, <1>6

(* The task runs the event of a slot, or drops it. *)
LEMMA RunKeeps ==
    ASSUME TdmaInv, TdmaTypeOK', RunSlot
    PROVE  TdmaInv'
<1>. USE DEF TdmaInv
<1>. DEFINE h == Head(queue)
<1>1. /\ h \in Slots /\ Queued(h) /\ \A d : Queued(d)' <=> Queued(d) /\ d # h
  BY TailQueue DEF RunSlot, TdmaTypeOK, Events
<1>2. /\ UNCHANGED <<age, assigned, start, armed, changed, stalled, disturbed>>
      /\ IF TooLate(h) THEN ran' = ran
         ELSE ran' = [ran EXCEPT ![h] = IF @ < 2 THEN @ + 1 ELSE @]
  BY DEF RunSlot
<1>. HIDE DEF h
<1>3. (Queued(Super)' <=> Queued(Super)) /\ \A i \in Slots : Pending(i)' => Pending(i)
  BY <1>1, <1>2 DEF Pending, Slots, Super
<1>4. AllAssigned' /\ StartsTrue' /\ NoneLate'
  BY <1>2, <1>3 DEF AllAssigned, StartsTrue, NoneLate
<1>r. ran \in [Slots -> 0..2]
  BY DEF TdmaTypeOK
<1>5. OneLeft'
  <2>1. SUFFICES ASSUME ~disturbed PROVE OneLeft'
    BY <1>2 DEF OneLeft
  <2>2. CASE Queued(Super)
    BY <1>2, <1>3, <2>1, <2>2 DEF OneLeft
  <2>3. ASSUME ~Queued(Super), NEW i \in Slots \ {0}
        PROVE  /\ ran'[i] = 0 \/ (ran'[i] = 1 /\ ~Pending(i)')
               /\ i \in armed' => ~Queued(i)'
    <3>1. ran[i] = 0 \/ (ran[i] = 1 /\ ~Pending(i))
      BY <2>1, <2>3 DEF OneLeft
    <3>2. i \in armed => ~Queued(i)
      BY <2>1, <2>3 DEF OneLeft
    <3>3. CASE i # h
      BY <1>1, <1>2, <1>3, <1>r, <3>1, <3>2, <3>3
    <3>4. CASE i = h
      <4>1. ran[i] = 0 /\ i \notin armed /\ ~Queued(i)'
        BY <1>1, <3>1, <3>2, <3>4 DEF Pending
      <4>2. ran'[i] = 0 \/ ran'[i] = 1
        BY <1>1, <1>2, <1>r, <3>4, <4>1
      <4>. QED BY <1>2, <4>1, <4>2 DEF Pending
    <3>. QED BY <3>3, <3>4
  <2>. QED BY <1>3, <2>2, <2>3 DEF OneLeft
<1>6. NoneMissed'
  <2>1. SUFFICES ASSUME ~stalled, ~Queued(Super), NEW i \in assigned \ (changed \cup {0})
                 PROVE  i \in armed \/ (Queued(i)' /\ age >= start[i]) \/ ran'[i] >= 1
    BY <1>2, <1>3 DEF NoneMissed
  <2>2. i \in Slots /\ age \in Int /\ start[i] \in Int
    BY DEF TdmaTypeOK
  <2>3. i \in armed \/ (Queued(i) /\ age >= start[i]) \/ ran[i] >= 1
    BY <2>1 DEF NoneMissed
  <2>4. CASE i = h /\ age >= start[i]
    <3>1. age <= start[i] + MaxDelay
      <4>1. Pending(i) /\ i \in Slots \ {0}
        BY <1>1, <2>1, <2>2, <2>4 DEF Pending
      <4>. QED BY <2>1, <4>1 DEF NoneLate, StartsTrue
    <3>2. ~TooLate(h)
      BY <2>2, <2>4, <3>1, TdmaConstants DEF TooLate, InTime
    <3>3. ran[h] \in 0..2 /\ ran'[h] = IF ran[h] < 2 THEN ran[h] + 1 ELSE ran[h]
      BY <1>1, <1>2, <1>r, <3>2
    <3>. QED BY <2>4, <3>3
  <2>5. ran'[i] >= ran[i] /\ ran[i] \in Nat /\ ran'[i] \in Nat
    BY <1>1, <1>2, <1>r, <2>2
  <2>. QED BY <1>1, <2>2, <2>3, <2>4, <2>5
<1>. QED BY <1>4, <1>5, <1>6

(* A timer fires. *)
LEMMA FireKeeps ==
    ASSUME TdmaInv, TdmaTypeOK', NEW i \in Slots, Fire(i)
    PROVE  TdmaInv'
<1>. USE DEF TdmaInv
<1>1. /\ i \in armed /\ age >= start[i] /\ armed' = armed \ {i}
      /\ UNCHANGED <<age, assigned, start, running, ran, changed, stalled, disturbed>>
  BY DEF Fire, Due
<1>2. \A d : Queued(d)' <=> Queued(d) \/ d = i
  BY PutQueue DEF Fire, TdmaTypeOK, Events
<1>3. (Queued(Super)' <=> Queued(Super)) /\ \A j \in Slots : Pending(j)' <=> Pending(j)
  BY <1>1, <1>2 DEF Pending, Slots, Super
<1>4. AllAssigned' /\ StartsTrue' /\ NoneLate'
  BY <1>1, <1>3 DEF AllAssigned, StartsTrue, NoneLate
<1>5. OneLeft'
  <2>1. SUFFICES ASSUME ~disturbed PROVE OneLeft'
    BY <1>1 DEF OneLeft
  <2>. QED BY <1>1, <1>2, <1>3, <2>1 DEF OneLeft
<1>6. NoneMissed'
  BY <1>1, <1>2, <1>3 DEF NoneMissed
<1>. QED BY <1>4, <1>5, <1>6

(* Time passes, while no timer is due. *)
LEMMA TickKeeps ==
    ASSUME TdmaInv, TdmaTypeOK', Tick
    PROVE  TdmaInv'
<1>. USE DEF TdmaInv
<1>1. /\ age' = age + 1 /\ age \in Int /\ \A i \in armed : i \in Slots /\ start[i] \in Int /\ age < start[i]
      /\ UNCHANGED <<assigned, start, armed, queue, running, ran, changed, disturbed>>
  BY DEF Tick, Due, TdmaTypeOK
<1>2. \A e : Queued(e)' <=> Queued(e)
  BY <1>1 DEF Queued
<1>3. \A i \in Slots : Pending(i)' <=> Pending(i)
  BY <1>1, <1>2 DEF Pending
<1>4. AllAssigned' /\ StartsTrue' /\ OneLeft'
  BY <1>1, <1>2, <1>3 DEF AllAssigned, StartsTrue, OneLeft
<1>5. ~stalled' => /\ ~stalled
                   /\ Queued(Super) => age' <= SlotStart(1) + MaxDelay
                   /\ \A i \in Slots : Queued(i) => age' <= start[i] + MaxDelay
  <2>1. start \in [Slots -> Int] /\ SlotStart(1) \in Int /\ MaxDelay \in Int
    BY SlotTimes, TdmaConstants DEF TdmaTypeOK
  <2>. QED BY <1>1, <2>1 DEF Tick
<1>6. NoneLate'
  <2>1. SUFFICES ASSUME ~stalled', ~Queued(Super), NEW i \in Slots \ {0}, Pending(i)
                 PROVE  age' <= SlotStart(i) + MaxDelay
    BY <1>2, <1>3, <1>5 DEF NoneLate
  <2>2. start[i] = SlotStart(i) /\ SlotStart(i) \in Int
    BY <2>1, SlotTimes DEF StartsTrue
  <2>. QED BY <1>1, <1>5, <2>1, <2>2, TdmaConstants DEF Pending
<1>7. NoneMissed'
  <2>1. SUFFICES ASSUME ~stalled', ~Queued(Super), NEW i \in assigned \ (changed \cup {0})
                 PROVE  i \in armed \/ (Queued(i) /\ age' >= start[i]) \/ ran[i] >= 1
    BY <1>1, <1>2 DEF NoneMissed
  <2>2. start[i] \in Int
    BY DEF TdmaTypeOK
  <2>. QED BY <1>1, <1>5, <2>1, <2>2 DEF NoneMissed
<1>. QED BY <1>4, <1>6, <1>7

(* Slots come and go. *)
LEMMA AssignKeeps ==
    ASSUME TdmaInv, TdmaTypeOK', ~Freed, NEW i \in Slots, Assign(i)
    PROVE  TdmaInv'
<1>. USE DEF TdmaInv
<1>1. /\ i \notin assigned /\ assigned' = assigned \cup {i} /\ changed' = changed \cup {i}
      /\ start' = [start EXCEPT ![i] = -MaxStart]
      /\ UNCHANGED <<age, armed, queue, running, ran, stalled, disturbed>>
  BY DEF Assign
<1>2. (\A e : Queued(e)' <=> Queued(e)) /\ \A j \in Slots : Pending(j)' <=> Pending(j)
  BY <1>1 DEF Queued, Pending
<1>3. ~Pending(i) /\ \A j \in Slots \ {i} : start'[j] = start[j]
  BY <1>1 DEF AllAssigned, Freed, Pending, TdmaTypeOK
<1>. QED BY <1>1, <1>2, <1>3 DEF AllAssigned, StartsTrue, NoneLate, OneLeft, NoneMissed, TdmaTypeOK

LEMMA ReleaseKeeps ==
    ASSUME TdmaInv, TdmaTypeOK', NEW S, Release(S)
    PROVE  TdmaInv'
<1>. USE DEF TdmaInv
<1>1. /\ assigned' = assigned \ S /\ armed' = armed \ S
      /\ UNCHANGED <<age, start, queue, running, ran, changed, stalled, disturbed>>
  BY DEF Release
<1>2. (\A e : Queued(e)' <=> Queued(e)) /\ \A j \in Slots : Pending(j)' => Pending(j)
  BY <1>1 DEF Queued, Pending
<1>. QED BY <1>1, <1>2 DEF AllAssigned, StartsTrue, NoneLate, OneLeft, NoneMissed, TdmaTypeOK

LEMMA TdmaStep ==
    ASSUME TdmaInv, [TdmaNext]_tdmaVars
    PROVE  TdmaInv'
<1>t. TdmaTypeOK'
  BY TdmaTypeStep DEF TdmaInv
<1>1. CASE Done
  <2>1. UNCHANGED <<age, assigned, start, armed, queue, ran, changed, stalled, disturbed>>
    BY <1>1 DEF Done
  <2>. QED BY <1>t, <2>1 DEF TdmaInv, AllAssigned, StartsTrue, NoneLate, OneLeft, NoneMissed, Pending, Queued
<1>2. CASE UNCHANGED tdmaVars
  BY <1>t, <1>2 DEF tdmaVars, TdmaInv, AllAssigned, StartsTrue, NoneLate, OneLeft, NoneMissed, Pending, Queued
<1>. QED BY <1>1, <1>2, <1>t, ReportKeeps, HandleKeeps, RunKeeps, FireKeeps, TickKeeps, AssignKeeps, ReleaseKeeps
         DEF TdmaNext

THEOREM TdmaInvariant == TdmaSpec => []TdmaInv
BY TdmaInvInit, TdmaStep, PTL DEF TdmaSpec

-----------------------------------------------------------------------------
(* What follows *)

(* For any times and lengths of slots, and task callbacks of any length: no   *)
(* slot but the first runs twice for a superframe that came in its time after *)
(* one that was not stalled.                                                  *)
THEOREM SlotsRunOnce == TdmaSpec => []SlotOnce
<1>1. TdmaInv => SlotOnce
  BY DEF TdmaInv, SlotOnce, OneLeft, TdmaTypeOK
<1>. QED BY <1>1, TdmaInvariant, PTL

(* A slot that was assigned in time has run when the superframe is over, if   *)
(* nothing held the task up for longer than tdma tolerates.                   *)
THEOREM SlotsServed == TdmaSpec => []SlotServed
<1>1. TdmaInv => SlotServed
  <2>1. SUFFICES ASSUME TdmaInv, age >= Period, ~stalled, ~Queued(Super),
                        NEW i \in assigned \ (changed \cup {0})
                 PROVE  ran[i] >= 1
    BY DEF SlotServed
  <2>2. i \in Slots \ {0} /\ age \in Int
    BY <2>1 DEF TdmaInv, TdmaTypeOK
  <2>3. ~Pending(i)
    <3>1. Pending(i) => age <= SlotStart(i) + MaxDelay
      BY <2>1, <2>2 DEF TdmaInv, NoneLate
    <3>. QED BY <2>1, <2>2, <3>1, SlotTimes, TdmaConstants
  <2>. QED BY <2>1, <2>3 DEF TdmaInv, NoneMissed, Pending
<1>. QED BY <1>1, TdmaInvariant, PTL

(* A slot but the first is started at most the delay allowed after its place  *)
(* in the superframe reported last, unless the report still waits.            *)
THEOREM SlotsOnTime == TdmaSpec => SlotOnTime
<1>1. ASSUME TdmaInv, [TdmaNext]_tdmaVars, NEW i \in Slots \ {0}, running' = i, running # i
      PROVE  Queued(Super) \/ age - SlotTicks * i + Latency \in 0..MaxDelay
  <2>1. RunSlot
    <3>1. i # Idle
      BY TdmaConstants DEF Slots, Idle
    <3>. QED BY <1>1, <3>1 DEF TdmaNext, Report, HandleSuperframe, Done, Tick, Fire, Assign, Release, tdmaVars
  <2>2. i = Head(queue) /\ ~TooLate(i) /\ Queued(i)
    <3>1. Queued(Head(queue))
      BY <1>1, <2>1, TailQueue DEF RunSlot, TdmaInv, TdmaTypeOK, Events
    <3>. QED BY <1>1, <2>1, <3>1 DEF RunSlot
  <2>3. age - start[i] \in 0..MaxDelay
    BY <2>2 DEF TooLate, InTime
  <2>4. CASE ~Queued(Super)
    <3>1. start[i] = SlotStart(i) /\ age \in Int
      BY <1>1, <2>2, <2>4 DEF TdmaInv, StartsTrue, Pending, TdmaTypeOK
    <3>2. SlotTicks * i \in Int /\ SlotStart(i) = SlotTicks * i - Latency
      BY TdmaConstants DEF SlotStart, Slots
    <3>. QED BY <2>3, <3>1, <3>2, TdmaConstants
  <2>. QED BY <2>4
<1>2. TdmaInv /\ [TdmaNext]_tdmaVars =>
        [\A i \in Slots \ {0} : running' = i /\ running # i
             => Queued(Super) \/ age - SlotTicks * i + Latency \in 0..MaxDelay]_tdmaVars
  BY <1>1
<1>. QED BY <1>2, TdmaInvariant, PTL DEF TdmaSpec, SlotOnTime

-----------------------------------------------------------------------------
(* The two as one run *)

(* A step of MCSchedule is a step of uwb_ccp or of tdma and leaves the other  *)
(* alone: all that holds of each holds there.                                 *)
LEMMA ScheduleSpecs == MCSpec => CcpSpec /\ TdmaSpec
<1>1. MCInit => CcpInit /\ TdmaInit
  BY DEF MCInit
<1>2. [MCNext]_vars => [CcpNext]_ccpVars /\ [TdmaNext]_tdmaVars
  BY DEF MCNext, Ccp, vars
<1>. QED BY <1>1, <1>2, PTL DEF MCSpec, CcpSpec, TdmaSpec

(* Whatever instance runs, the state of uwb_ccp and of tdma is of its type,   *)
(* the count of ccp->sem included, for all widths and numbers of slots.       *)
THEOREM ScheduleTypes == MCSpec => []TypesOK
<1>. QED BY ScheduleSpecs, CcpTypeCorrect, TdmaTypeCorrect, PTL DEF TypesOK
=============================================================================
