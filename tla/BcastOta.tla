------------------------------ MODULE BcastOta ------------------------------
(***************************************************************************)
(* mgmt/bcast_ota: firmware broadcast without answers.  The shell command  *)
(* txim of the sender reads its flash area and sends the header a few      *)
(* times, the blocks once and the end again a few times; what a node       *)
(* missed it gets when the command is repeated, because a node only erases *)
(* its flash area when the version in the header differs from the one it   *)
(* holds.  A node with a whole image reboots into it.                      *)
(*                                                                         *)
(* A flash area is Size cells, each erased, with the contents of a version,*)
(* or written over.  The header packet is cell 0; receivers do not know    *)
(* one another, and the sender does not hear them.                         *)
(***************************************************************************)
EXTENDS Integers

CONSTANTS
    Receivers,
    Newest,         \* versions are 0..Newest; nodes start with 0
    Size, Block,    \* cells of the flash area and of a packet
    Repeats,        \* of the header: tx_im_inst.reset (5)
    EndRepeats,     \* of the end: resend_end (5)
    MaxFaults,      \* bound: lost packets, failed allocations, crashes, transfers cut short
    NoPacket

ASSUME OtaConstants ==
    /\ Newest \in Nat /\ Size \in Nat \ {0, 1} /\ Block \in Nat \ {0}
    /\ Repeats \in Nat \ {0} /\ EndRepeats \in Nat \ {0} /\ MaxFaults \in Nat

Versions == 0..Newest
Cells == 0..Size - 1
erased == -1
mixed == -2

VARIABLES
    ver,        \* the version in the sender's flash area
    off,        \* bcast_ota_get_packet's offset
    reset, resend_end, armed,   \* tx_im_inst, and whether its callout runs
    packet, to, \* the packet on the air and the nodes that may still hear it
    area,       \* node: cells of the area of slot 1
    known,      \* node: the slot and the size of the upload are known
    up_off,     \* node: upload.off
    pending,    \* node: the image of slot 1 was made pending
    running,    \* node: the version it runs
    faults

sendVars == <<ver, off, reset, resend_end, armed>>
recvVars == <<area, known, up_off, pending, running>>
otaVars == <<sendVars, packet, to, recvVars, faults>>

Packet == {p \in [ver : Versions, off : Cells, len : 1..Size] : p.off + p.len <= Size}
ASSUME NoPacketAssumption == NoPacket \notin Packet
Whole(f) == f[0] \in Versions /\ \A c \in Cells : f[c] = f[0]
Blank == [c \in Cells |-> erased]

OtaTypeOK ==
    /\ ver \in Versions /\ off \in 0..Size /\ reset \in 0..Repeats
    /\ resend_end \in -1..EndRepeats /\ armed \in BOOLEAN
    /\ packet \in Packet \cup {NoPacket} /\ to \subseteq Receivers
    /\ area \in [Receivers -> [Cells -> {mixed, erased} \cup Versions]]
    /\ known \in [Receivers -> BOOLEAN] /\ up_off \in [Receivers -> 0..Size]
    /\ pending \in [Receivers -> BOOLEAN] /\ running \in [Receivers -> Versions]
    /\ faults \in 0..MaxFaults

OtaInit ==
    /\ ver = 0 /\ off = 0 /\ reset = 0 /\ resend_end = 0 /\ armed = FALSE
    /\ packet = NoPacket /\ to = {}
    /\ area = [n \in Receivers |-> Blank] /\ known = [n \in Receivers |-> FALSE]
    /\ up_off = [n \in Receivers |-> 0] /\ pending = [n \in Receivers |-> FALSE]
    /\ running = [n \in Receivers |-> 0] /\ faults = 0

Fault == faults < MaxFaults /\ faults' = faults + 1

-----------------------------------------------------------------------------
(* The sender *)

\* a newer image comes into the sender's flash area, even during a transfer
Load ==
    /\ ver < Newest /\ ver' = ver + 1
    /\ UNCHANGED <<off, reset, resend_end, armed, packet, to, recvVars, faults>>

\* bota txim; a transfer that runs is started over
Txim ==
    /\ ver > 0 /\ IF armed THEN Fault ELSE UNCHANGED faults
    /\ reset' = Repeats /\ armed' = TRUE
    /\ UNCHANGED <<ver, off, resend_end, packet, to, recvVars>>

\* Mutant: the offset is that of the last transfer
FromStale == off

\* where the next packet starts, and its length
From == IF reset > 0 THEN 0 ELSE off
Length == IF reset > 0 THEN 1 ELSE IF Size - off < Block THEN Size - off ELSE Block

\* txim_ev_cb: a packet in turn
SendNext ==
    /\ armed /\ to = {} /\ From < Size
    /\ packet' = [ver |-> ver, off |-> From, len |-> Length] /\ to' = Receivers
    /\ off' = From + Length
    /\ reset' = IF reset > 0 THEN reset - 1 ELSE 0
    /\ resend_end' = EndRepeats
    /\ UNCHANGED <<ver, armed, recvVars, faults>>

\* no packet, because all is sent or for want of memory: the end again, or the
\* transfer is over.  resend_end stays below 0 if it gets there
SendEnd ==
    /\ armed /\ to = {}
    /\ \/ From = Size /\ UNCHANGED faults
       \/ From < Size /\ Fault
    /\ resend_end' = IF resend_end > -1 THEN resend_end - 1 ELSE -1
    /\ IF resend_end' > 0
         THEN /\ packet' = [ver |-> ver, off |-> Size - 1, len |-> 1] /\ to' = Receivers
              /\ off' = Size /\ UNCHANGED armed
         ELSE armed' = FALSE /\ off' = From /\ UNCHANGED <<packet, to>>
    /\ UNCHANGED <<ver, reset, recvVars>>

-----------------------------------------------------------------------------
(* A node *)

Covered(p) == p.off..p.off + p.len - 1

\* flash cells can only be written once after they were erased
Written(f, p, cells) ==
    [c \in Cells |-> IF c \notin cells \/ f[c] = p.ver THEN f[c]
                     ELSE IF f[c] = erased THEN p.ver ELSE mixed]

\* "Only erase flash if new version is different to what we have"
Erases(n, p) == p.off = 0 /\ area[n][0] # p.ver

\* Mutant: only the cells of the packet are erased
ReadyShort(n, p) ==
    IF Erases(n, p) THEN [c \in Cells |-> IF c < p.len THEN erased ELSE area[n][c]]
    ELSE area[n]

Ready(n, p) == IF Erases(n, p) THEN Blank ELSE area[n]

\* after a restart nothing of the upload is known until the header comes again
Accepts(n, p) == p.off = 0 \/ known[n]

\* bota_upload; at the end of the image it is checked
Upload(n) ==
    /\ n \in to /\ ~pending[n] /\ to' = to \ {n}
    /\ LET f == Written(Ready(n, packet), packet, Covered(packet)) IN
       IF Accepts(n, packet)
         THEN /\ area' = [area EXCEPT ![n] = f]
              /\ known' = [known EXCEPT ![n] = TRUE]
              /\ up_off' = [up_off EXCEPT ![n] = packet.off + packet.len]
              /\ pending' = [pending EXCEPT ![n] = up_off'[n] = Size /\ Whole(f)]
         ELSE UNCHANGED <<area, known, up_off, pending>>
    /\ UNCHANGED <<sendVars, packet, running, faults>>

Lose(n) ==
    /\ n \in to /\ to' = to \ {n} /\ Fault
    /\ UNCHANGED <<sendVars, packet, recvVars>>

\* hal_system_reset and the boot loader, which swaps the images if that of slot 1
\* is pending and valid; f is what the reset finds in slot 1
Boot(n, f) ==
    /\ known' = [known EXCEPT ![n] = FALSE] /\ up_off' = [up_off EXCEPT ![n] = 0]
    /\ pending' = [pending EXCEPT ![n] = FALSE]
    /\ IF pending[n] /\ Whole(f)
         THEN /\ running' = [running EXCEPT ![n] = f[0]]
              /\ area' = [area EXCEPT ![n] = [c \in Cells |-> running[n]]]
         ELSE area' = [area EXCEPT ![n] = f] /\ UNCHANGED running

Reboot(n) == pending[n] /\ Boot(n, area[n]) /\ UNCHANGED <<sendVars, packet, to, faults>>

Crash(n) ==
    /\ ~pending[n] /\ Fault /\ Boot(n, area[n])
    /\ UNCHANGED <<sendVars, packet, to>>

\* the node crashes while it erases or writes
CrashInUpload(n) ==
    /\ n \in to /\ ~pending[n] /\ Accepts(n, packet) /\ Fault /\ to' = to \ {n}
    /\ \E k \in Cells :
          \/ /\ Erases(n, packet)
             /\ Boot(n, [c \in Cells |-> IF c <= k THEN erased ELSE area[n][c]])
          \/ Boot(n, Written(Ready(n, packet), packet, {c \in Covered(packet) : c <= k}))
    /\ UNCHANGED <<sendVars, packet>>

OtaNext ==
    \/ Load \/ Txim \/ SendNext \/ SendEnd
    \/ \E n \in Receivers : Upload(n) \/ Lose(n) \/ Reboot(n) \/ Crash(n) \/ CrashInUpload(n)

\* the operator repeats the command until every node has the image
Operator == ~armed /\ (\E n \in Receivers : running[n] # ver) /\ Txim

OtaSpec == OtaInit /\ [][OtaNext]_otaVars

-----------------------------------------------------------------------------
(* Properties *)

\* Only the version in the header decides whether an upload is continued without
\* erasing.  That is safe as long as versions only grow: a node whose header is of
\* the version now sent holds nothing of another one, however many headers it
\* missed, and wherever in erasing or writing it crashed.
ContinuesClean ==
    \A n \in Receivers : area[n][0] = ver => \A c \in Cells : area[n][c] \in {erased, ver}

\* After any faults, and however often a newer image comes, every node runs the
\* image that the sender has: repeating the command fills the holes.
Updates == \A n \in Receivers : []<>(running[n] = ver)
=============================================================================
