--------------------------- MODULE AlertLifecycle ---------------------------
(***************************************************************************)
(* What the alert store promises its users, without counters that wrap,    *)
(* map entries or time: an incident of a check opens with a failure, is    *)
(* escalated once when the failures after the first reach the threshold,   *)
(* and closes with a pass; each of the three is announced exactly once and *)
(* nothing else is.  The threshold is the code's: Threshold failures after *)
(* the first, so the (Threshold + 1)-th in a row escalates, where the      *)
(* documents say the Threshold-th (AlertHistory, EscalatesOnThreshold).    *)
(***************************************************************************)
EXTENDS Integers

CONSTANTS Policies, CheckIDs, Threshold

VARIABLES
  phase,  \* phase[p][c]: "quiet", "firing" or "escalated"
  fails,  \* failures of the open incident, counted up to the escalation
  heard   \* heard[p][c]: the last announcement about the check

vars == <<phase, fails, heard>>

Update(f, p, c, value) == f' = [f EXCEPT ![p][c] = value]

Init ==
  /\ phase = [p \in Policies |-> [c \in CheckIDs |-> "quiet"]]
  /\ fails = [p \in Policies |-> [c \in CheckIDs |-> 0]]
  /\ heard = [p \in Policies |-> [c \in CheckIDs |-> "none"]]

Open(p, c) ==
  /\ phase[p][c] = "quiet"
  /\ Update(phase, p, c, "firing")
  /\ Update(fails, p, c, 1)
  /\ Update(heard, p, c, "FIRING")

FailAgain(p, c) ==
  /\ phase[p][c] = "firing"
  /\ fails[p][c] < Threshold
  /\ Update(fails, p, c, fails[p][c] + 1)
  /\ UNCHANGED <<phase, heard>>

Escalate(p, c) ==
  /\ phase[p][c] = "firing"
  /\ fails[p][c] = Threshold
  /\ Update(phase, p, c, "escalated")
  /\ Update(fails, p, c, Threshold + 1)
  /\ Update(heard, p, c, "ESCALATED")

Close(p, c) ==
  /\ phase[p][c] /= "quiet"
  /\ Update(phase, p, c, "quiet")
  /\ Update(fails, p, c, 0)
  /\ Update(heard, p, c, "RESOLVED")

Next ==
  \E p \in Policies, c \in CheckIDs :
    Open(p, c) \/ FailAgain(p, c) \/ Escalate(p, c) \/ Close(p, c)

Spec == Init /\ [][Next]_vars
=============================================================================
