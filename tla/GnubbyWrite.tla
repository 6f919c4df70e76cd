----------------------------- MODULE GnubbyWrite -----------------------------
(***************************************************************************)
(* Writing a key into a USB security key: Gnubby::open, Gnubby::write and  *)
(* Gnubby::write_bn, called by PublicKey::writeToGnubby, down to the       *)
(* frames of gnubby_exchange (util/signer/gnubby.cc).                      *)
(*                                                                         *)
(* The device takes the frames sent to it in order and puts its answers in *)
(* a queue.  A process that could not receive an answer leaves it there,   *)
(* for its next exchange or for another process.  What tells answers apart *)
(* is the channel (the process id) and the command in their headers; a     *)
(* lagging answer to the same command of the same process looks right.     *)
(***************************************************************************)
EXTENDS Integers, Sequences

CONSTANTS
  Proc,         \* processes that call writeToGnubby
  Key,          \* RSA private keys
  KeysOf,       \* KeysOf[p]: the keys p may be asked to write
  LastPart,     \* number of the last part of a key: 6, less in small instances
  Misfit,       \* Misfit[k]: the numbers of k that are not as long as expected
  Gone,         \* the channel of a process that has ended
  None,         \* no process, no key
  UnlockLost,   \* the request that gives the lock back may fail to be sent
  MaxFaults     \* BOUND: transfers that fail, and kills, in a behaviour

Part == 0..LastPart

ASSUME GnubbyWriteAssumption ==
  /\ KeysOf \in [Proc -> SUBSET Key]
  /\ Misfit \in [Key -> SUBSET Part]
  /\ {Gone, None} \cap Proc = {} /\ None \notin Key
  /\ LastPart \in Nat
  /\ UnlockLost \in BOOLEAN
  /\ MaxFaults \in Nat

VARIABLES
  pc,       \* pc[p]: where p is in write
  key,      \* key[p]: the key p writes
  step,     \* step[p]: the exchange p is at: Lock, Select, a part, or Unlock
  handle,   \* handle[p]: what handle_ is, "null", "open" or "closed"
  result,   \* result[p]: the variable result of write, 1 for all but 0
  claimed,  \* the process that has claimed the interface
  inbox,    \* requests the device has not taken yet
  outbox,   \* answers nobody has received yet
  locked,   \* the channel the device is locked to
  slot,     \* slot[k]: the key that part k in the device is of
  faults    \* transfers that have failed

procVars == <<pc, key, step, handle, result>>
deviceVars == <<inbox, outbox, locked, slot>>
vars == <<procVars, claimed, deviceVars, faults>>

\* The exchanges of write, in order; write_bn(k, ...) is step k.
Lock == -2
Select == -1
Unlock == LastPart + 1
Step == Lock..Unlock

Label == {"idle", "open", "send", "receive", "broken", "done"}
Goto(p, label) == pc' = [pc EXCEPT ![p] = label]

----------------------------------------------------------------------------
(* Frames.  Bytes 0 to 3 are the channel, 4 the command, 5 and 6 the length *)
(* of the payload.                                                          *)

Frame(chan, cmd, data) ==
  [chan |-> chan, cmd |-> cmd, len |-> Len(data), data |-> data]
CommandOf(n) == IF n \in {Lock, Unlock} THEN "LOCK" ELSE "APDU"

\* What a process sends: construct_usb_frame, of the command of a step.
Request(p, n) == [chan |-> p, cmd |-> CommandOf(n), step |-> n, key |-> key[p]]

\* How a frame may arrive: whole, or ending in the payload or in the length.
\* The rest of rcv is zeros.
Torsos(f) ==
  {[f EXCEPT !.len = 0, !.data = << >>]}
    \cup {[f EXCEPT !.data = SubSeq(f.data, 1, n)] : n \in 0..(Len(f.data) - 1)}

\* Mutant: rcv is not cleared, an earlier 9000 shows through.
PayloadStale(f) ==
  [i \in 1..f.len |-> IF i <= Len(f.data) THEN f.data[i] ELSE <<144, 0>>[i]]
\* The payload that gnubby_exchange copies out.
Payload(f) ==
  [i \in 1..f.len |-> IF i <= Len(f.data) THEN f.data[i] ELSE 0]

\* memcmp(buf, rcv, 5).
HeaderMatches(f, r) == f.chan = r.chan /\ f.cmd = r.cmd

\* The outcome of gnubby_lock, or of gnubby_apdu and getSW12.
Good(f, r) ==
  /\ HeaderMatches(f, r)
  /\ IF r.cmd = "LOCK"
     THEN Payload(f) \in {<< >>, <<0>>}
     ELSE LET n == f.len IN n >= 2 /\ SubSeq(Payload(f), n - 1, n) = <<144, 0>>

----------------------------------------------------------------------------
(* The device.                                                             *)

\* Answers: the status 9000 or another one (6985 stands for all), and for lock
\* 0 or something else; or, if another channel has the lock, an error frame.
ErrorFrame(r) == Frame(r.chan, "ERROR", <<6>>)
Refusal(r) ==
  IF r.cmd = "LOCK" THEN Frame(r.chan, "LOCK", <<1>>)
                    ELSE Frame(r.chan, "APDU", <<105, 133>>)
Agreement(r) ==
  IF r.cmd = "LOCK" THEN Frame(r.chan, "LOCK", <<0>>)
                    ELSE Frame(r.chan, "APDU", <<144, 0>>)

\* The device carries out a request, refuses it, or is locked to somebody else.
Carry(r) ==
  /\ locked' = CASE r.step = Lock -> r.chan
                 [] r.step = Unlock -> None
                 [] OTHER -> locked
  /\ slot' = IF r.step \in Part THEN [slot EXCEPT ![r.step] = r.key] ELSE slot
DeviceAnswers ==
  LET r == Head(inbox) IN
  /\ inbox # << >>
  /\ inbox' = Tail(inbox)
  /\ \/ /\ locked \in {None, r.chan}
        /\ Carry(r)
        /\ outbox' = Append(outbox, Agreement(r))
     \/ /\ locked \in {None, r.chan} /\ r.step # Unlock
        /\ outbox' = Append(outbox, Refusal(r))
        /\ UNCHANGED <<locked, slot>>
     \/ /\ locked \notin {None, r.chan}
        /\ outbox' = Append(outbox, ErrorFrame(r))
        /\ UNCHANGED <<locked, slot>>
  /\ UNCHANGED <<procVars, claimed, faults>>

\* The 100 seconds of a lock are over.
LockExpires ==
  /\ locked # None
  /\ locked' = None
  /\ UNCHANGED <<procVars, claimed, inbox, outbox, slot, faults>>

----------------------------------------------------------------------------
(* Gnubby::write.                                                          *)

\* writeToGnubby has a private key, builds a Gnubby and calls write.
Call(p) ==
  /\ pc[p] = "idle"
  /\ \E k \in KeysOf[p] : key' = [key EXCEPT ![p] = k]
  /\ Goto(p, "open")
  /\ UNCHANGED <<step, handle, result, claimed, deviceVars, faults>>

\* BN_dup fails, before there is a handle to give a lock back on.
DupFails(p) ==
  /\ pc[p] = "open"
  /\ faults < MaxFaults
  /\ faults' = faults + 1
  /\ result' = [result EXCEPT ![p] = 1]
  /\ Goto(p, "done")
  /\ UNCHANGED <<key, step, handle, claimed, deviceVars>>

\* open(): the device is opened and its interface claimed.
Open(p) ==
  /\ pc[p] = "open"
  /\ claimed = None
  /\ claimed' = p
  /\ handle' = [handle EXCEPT ![p] = "open"]
  /\ step' = [step EXCEPT ![p] = Lock]
  /\ Goto(p, "send")
  /\ UNCHANGED <<key, result, deviceVars, faults>>

\* open(): the claim fails.  handle_ is closed but not reset, and __fail sends
\* the unlock request on it.
OpenFails(p) ==
  /\ pc[p] = "open"
  /\ claimed # None \/ faults < MaxFaults
  /\ faults' = IF claimed # None THEN faults ELSE faults + 1
  /\ handle' = [handle EXCEPT ![p] = "closed"]
  /\ result' = [result EXCEPT ![p] = 1]
  /\ Goto(p, "broken")
  /\ UNCHANGED <<key, step, claimed, deviceVars>>

\* Use of the closed handle, if it does not end the process: an error, ignored.
UseClosedHandle(p) ==
  /\ pc[p] = "broken"
  /\ Goto(p, "done")
  /\ UNCHANGED <<key, step, handle, result, claimed, deviceVars, faults>>

\* Mutant: write returns without giving the lock back.
FailReturns(p) ==
  /\ result' = [result EXCEPT ![p] = 1]
  /\ step' = step
  /\ Goto(p, "done")

\* An exchange has failed: goto __fail, or, from the unlock request, return.
Fail(p) ==
  IF step[p] = Unlock
  THEN Goto(p, "done") /\ UNCHANGED <<step, result>>
  ELSE /\ result' = [result EXCEPT ![p] = 1]
       /\ step' = [step EXCEPT ![p] = Unlock]
       /\ Goto(p, "send")

\* Mutant: the exchange after the last one is looked for.
ProceedPastUnlock(p) ==
  IF step[p] > Unlock
  THEN Goto(p, "done") /\ UNCHANGED <<step, result>>
  ELSE /\ result' = [result EXCEPT ![p] = 0]
       /\ step' = [step EXCEPT ![p] = @ + 1]
       /\ Goto(p, "send")

\* An exchange has succeeded.
Proceed(p) ==
  IF step[p] = Unlock
  THEN Goto(p, "done") /\ UNCHANGED <<step, result>>
  ELSE /\ result' = [result EXCEPT ![p] = 0]
       /\ step' = [step EXCEPT ![p] = @ + 1]
       /\ Goto(p, "send")

\* libusb_bulk_transfer to the device.
Send(p) ==
  /\ pc[p] = "send"
  /\ step[p] \notin Misfit[key[p]]
  /\ inbox' = Append(inbox, Request(p, step[p]))
  /\ Goto(p, "receive")
  /\ UNCHANGED <<key, step, handle, result, claimed, outbox, locked, slot, faults>>

\* write_bn: the number is not as long as the slot wants it, nothing is sent.
MisfitFails(p) ==
  /\ pc[p] = "send"
  /\ step[p] \in Misfit[key[p]]
  /\ Fail(p)
  /\ UNCHANGED <<key, handle, claimed, deviceVars, faults>>

SendFails(p) ==
  /\ pc[p] = "send"
  /\ step[p] \notin Misfit[key[p]]
  /\ step[p] = Unlock => UnlockLost
  /\ faults < MaxFaults
  /\ faults' = faults + 1
  /\ Fail(p)
  /\ UNCHANGED <<key, handle, claimed, deviceVars>>

\* Mutant: an answer to something else is dropped, and the next one awaited.
ReceiveAgain(p) ==
  /\ pc[p] = "receive"
  /\ outbox # << >>
  /\ outbox' = Tail(outbox)
  /\ LET f == Head(outbox)
         r == Request(p, step[p])
     IN \/ Good(f, r) /\ Proceed(p)
        \/ ~Good(f, r) /\ HeaderMatches(f, r) /\ Fail(p)
        \/ ~HeaderMatches(f, r) /\ UNCHANGED <<pc, step, result>>
  /\ UNCHANGED <<key, handle, claimed, inbox, locked, slot, faults>>

\* libusb_bulk_transfer from the device, and the tests of gnubby_exchange and
\* its caller.  A frame may arrive in part.
Receive(p) ==
  /\ pc[p] = "receive"
  /\ outbox # << >>
  /\ outbox' = Tail(outbox)
  /\ \E f \in {Head(outbox)} \cup Torsos(Head(outbox)) :
       /\ faults' = IF f = Head(outbox) THEN faults ELSE faults + 1
       /\ faults' <= MaxFaults
       /\ \/ Good(f, Request(p, step[p])) /\ Proceed(p)
          \/ ~Good(f, Request(p, step[p])) /\ Fail(p)
  /\ UNCHANGED <<key, handle, claimed, inbox, locked, slot>>

\* The transfer fails; the answer, if there is one yet, stays or is lost.
ReceiveFails(p) ==
  /\ pc[p] = "receive"
  /\ faults < MaxFaults
  /\ faults' = faults + 1
  /\ outbox' = outbox \/ (outbox # << >> /\ outbox' = Tail(outbox))
  /\ Fail(p)
  /\ UNCHANGED <<key, handle, claimed, inbox, locked, slot>>

\* The caller has the result; the Gnubby is destroyed and its claim given back.
Return(p) ==
  /\ pc[p] = "done"
  /\ Goto(p, "idle")
  /\ handle' = [handle EXCEPT ![p] = "null"]
  /\ key' = [key EXCEPT ![p] = None]
  /\ step' = [step EXCEPT ![p] = Lock]
  /\ result' = [result EXCEPT ![p] = -1]
  /\ claimed' = IF claimed = p THEN None ELSE claimed
  /\ UNCHANGED <<deviceVars, faults>>

\* The process ends: after its calls; or killed anywhere, or by the use of a
\* null or closed handle.  Its channel is nobody's from then on.
Orphaned(queue, p) ==
  [i \in DOMAIN queue |->
     [queue[i] EXCEPT !.chan = IF @ = p THEN Gone ELSE @]]
End(p) ==
  /\ faults' = IF pc[p] = "idle" \/ handle[p] = "closed"
               THEN faults ELSE faults + 1
  /\ faults' <= MaxFaults
  /\ Goto(p, "idle")
  /\ handle' = [handle EXCEPT ![p] = "null"]
  /\ key' = [key EXCEPT ![p] = None]
  /\ step' = [step EXCEPT ![p] = Lock]
  /\ result' = [result EXCEPT ![p] = -1]
  /\ claimed' = IF claimed = p THEN None ELSE claimed
  /\ locked' = IF locked = p THEN Gone ELSE locked
  /\ inbox' = Orphaned(inbox, p)
  /\ outbox' = Orphaned(outbox, p)
  /\ UNCHANGED slot

----------------------------------------------------------------------------
Init ==
  /\ pc = [p \in Proc |-> "idle"]
  /\ key = [p \in Proc |-> None]
  /\ step = [p \in Proc |-> Lock]
  /\ handle = [p \in Proc |-> "null"]
  /\ result = [p \in Proc |-> -1]
  /\ claimed = None
  /\ inbox = << >>
  /\ outbox = << >>
  /\ locked = None
  /\ slot = [k \in Part |-> None]
  /\ faults = 0

Work(p) ==
  \/ DupFails(p) \/ Open(p) \/ OpenFails(p) \/ UseClosedHandle(p)
  \/ Send(p) \/ MisfitFails(p) \/ SendFails(p)
  \/ Receive(p) \/ ReceiveFails(p) \/ Return(p)

Next ==
  \/ \E p \in Proc : Call(p) \/ Work(p) \/ End(p)
  \/ DeviceAnswers \/ LockExpires

\* A process in a call goes on, and the device answers what it has received.
\* Transfers have no timeout: without an answer, write would wait for ever.
Fairness ==
  /\ \A p \in Proc : WF_vars(Work(p))
  /\ WF_vars(DeviceAnswers)

Spec == Init /\ [][Next]_vars /\ Fairness

----------------------------------------------------------------------------
IsRequest(r) ==
  /\ r.chan \in Proc \cup {Gone} /\ r.step \in Step /\ r.key \in Key
  /\ r.cmd = CommandOf(r.step)
IsAnswer(f) ==
  /\ f.chan \in Proc \cup {Gone} /\ f.cmd \in {"LOCK", "APDU", "ERROR"}
  /\ f.len = Len(f.data)
TypeOK ==
  /\ pc \in [Proc -> Label]
  /\ key \in [Proc -> Key \cup {None}]
  /\ step \in [Proc -> Step]
  /\ handle \in [Proc -> {"null", "open", "closed"}]
  /\ result \in [Proc -> {-1, 0, 1}]
  /\ claimed \in Proc \cup {None}
  /\ locked \in Proc \cup {Gone, None}
  /\ slot \in [Part -> Key \cup {None}]
  /\ \A i \in DOMAIN inbox : IsRequest(inbox[i])
  /\ \A i \in DOMAIN outbox : IsAnswer(outbox[i])
  /\ faults \in 0..MaxFaults

\* write returns 0 (publickey.cc:293 hands that on) only when the slot holds all
\* numbers of the key it was called with: not a mixture of two keys, and
\* not because an answer was cut short, or was meant for an earlier request or
\* another process.  A process that has missed as many answers as a call makes
\* exchanges may take all those of an earlier call for its own; the property
\* is about fewer.
Exchanges == Unlock - Lock + 1
WroteWhole ==
  faults < Exchanges =>
    \A p \in Proc : pc[p] = "done" /\ result[p] = 0 =>
      \A k \in Part : slot[k] = key[p]

\* "(always try to) unlock" (gnubby.cc:653): after write has returned, the
\* device is not locked to the process, unless the request that ends the lock
\* is still on its way.
LockGivenBack ==
  \A p \in Proc : pc[p] \in {"done", "idle"} /\ locked = p =>
    \E i \in DOMAIN inbox : inbox[i].chan = p /\ inbox[i].step = Unlock

\* Every call of write returns, whatever was lost: no exchange waits for an
\* answer that has been taken already, or that never comes.
WriteReturns == \A p \in Proc : pc[p] # "idle" ~> pc[p] = "idle"
=============================================================================
