--------------------------- MODULE ShadowRegisters ---------------------------
(***************************************************************************)
(* What the shadow store promises about versions, with no document, lock,  *)
(* history or goroutine in sight.  Per device there are two registers, the *)
(* desired and the reported section, each holding the version that won it. *)
(*                                                                         *)
(*   - A version is issued once and spent once: it wins one register or is *)
(*     dropped, and never comes back.                                      *)
(*   - A desired write wins only over older desired writes.                *)
(*   - A report wins only when it is newer than both registers: the store  *)
(*     judges it by the whole document (shadow.go:45-49), where the        *)
(*     comments of conflict.go and report.go would have it judged by its   *)
(*     own register.                                                       *)
(*   - Deleting a shadow empties both registers and takes back nothing     *)
(*     that is still pending.                                              *)
(***************************************************************************)
EXTENDS Integers

CONSTANT Devices

VARIABLES
  issued,    \* the last version handed out, per device
  pending,   \* versions handed out whose operation has not settled
  desired,   \* the version in the desired register, 0 when it is empty
  reported   \* the version in the reported register

vars == <<issued, pending, desired, reported>>

Init ==
  /\ issued = [d \in Devices |-> 0]
  /\ pending = [d \in Devices |-> {}]
  /\ desired = [d \in Devices |-> 0]
  /\ reported = [d \in Devices |-> 0]

Issue(d) ==
  /\ issued' = [issued EXCEPT ![d] = @ + 1]
  /\ pending' = [pending EXCEPT ![d] = @ \cup {issued[d] + 1}]
  /\ UNCHANGED <<desired, reported>>

Spend(d, v) ==
  /\ v \in pending[d]
  /\ pending' = [pending EXCEPT ![d] = @ \ {v}]
  /\ UNCHANGED issued

Drop(d, v) == Spend(d, v) /\ UNCHANGED <<desired, reported>>

WinDesired(d, v) ==
  /\ Spend(d, v)
  /\ v > desired[d]
  /\ desired' = [desired EXCEPT ![d] = v]
  /\ UNCHANGED reported

WinReported(d, v) ==
  /\ Spend(d, v)
  /\ v > reported[d] /\ v > desired[d]
  /\ reported' = [reported EXCEPT ![d] = v]
  /\ UNCHANGED desired

Remove(d) ==
  /\ desired' = [desired EXCEPT ![d] = 0]
  /\ reported' = [reported EXCEPT ![d] = 0]
  /\ UNCHANGED <<issued, pending>>

Next ==
  \E d \in Devices :
    \/ Issue(d)
    \/ \E v \in pending[d] : Drop(d, v) \/ WinDesired(d, v) \/ WinReported(d, v)
    \/ Remove(d)

Spec == Init /\ [][Next]_vars
=============================================================================
