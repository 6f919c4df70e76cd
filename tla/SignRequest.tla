----------------------------- MODULE SignRequest -----------------------------
(***************************************************************************)
(* What Gnubby::sign promises PublicKey::sign and the rest of the host,    *)
(* whatever goes wrong on the way: a device serves one process at a time,  *)
(* a process uses one device at a time, a request ends as "signed" only    *)
(* from a device that holds the key asked for, and it ends as "failed"     *)
(* only when no device is held any more.                                   *)
(***************************************************************************)
CONSTANTS Proc, Device, KeyOf, Wanted, None

VARIABLES
  status,   \* status[p]: how far the request of p has got
  holder    \* holder[d]: the process that uses d

vars == <<status, holder>>

Holds(p) == {d \in Device : holder[d] = p}

Init ==
  /\ status = [p \in Proc |-> "idle"]
  /\ holder = [d \in Device |-> None]

Request(p) ==
  /\ status[p] = "idle"
  /\ status' = [status EXCEPT ![p] = "trying"]
  /\ UNCHANGED holder

Acquire(p, d) ==
  /\ status[p] = "trying"
  /\ holder[d] = None
  /\ Holds(p) = {}
  /\ holder' = [holder EXCEPT ![d] = p]
  /\ UNCHANGED status

\* The device did not sign; the next one may.
GiveBack(p, d) ==
  /\ holder[d] = p
  /\ holder' = [holder EXCEPT ![d] = None]
  /\ UNCHANGED status

Succeed(p, d) ==
  /\ status[p] = "trying"
  /\ holder[d] = p
  /\ KeyOf[d] = Wanted[p]
  /\ status' = [status EXCEPT ![p] = "signed"]
  /\ holder' = [holder EXCEPT ![d] = None]

Exhausted(p) ==
  /\ status[p] = "trying"
  /\ Holds(p) = {}
  /\ status' = [status EXCEPT ![p] = "failed"]
  /\ UNCHANGED holder

\* The caller has taken the answer, or the process was killed.
Leave(p) ==
  /\ status[p] # "idle"
  /\ status' = [status EXCEPT ![p] = "idle"]
  /\ holder' = [d \in Device |-> IF holder[d] = p THEN None ELSE holder[d]]

Next ==
  \E p \in Proc :
    \/ Request(p) \/ Exhausted(p) \/ Leave(p)
    \/ \E d \in Device : Acquire(p, d) \/ GiveBack(p, d) \/ Succeed(p, d)

Spec == Init /\ [][Next]_vars
=============================================================================
