-------------------------- MODULE GnubbyWriteProofs --------------------------
(***************************************************************************)
(* Proofs about writing a key into a security key: types, that write       *)
(* returns 0 only for a key that is whole in the device, and that the lock *)
(* of the device is always given back, for any number of processes, keys,  *)
(* parts and faults.                                                       *)
(***************************************************************************)
EXTENDS GnubbyWrite, SequenceTheorems, TLAPS

----------------------------------------------------------------------------
(* The inductive invariant.                                                *)

Channel == Proc \cup {Gone}
\* The requests and the answers that may be on their way.
Requests == {r \in [chan : Channel, cmd : {"LOCK", "APDU"}, step : Step, key : Key] :
               r.cmd = CommandOf(r.step)}
Answers ==
  {f \in [chan : Channel, cmd : {"LOCK", "APDU", "ERROR"}, len : Nat, data : Seq(Nat)] :
     f.len = Len(f.data)}

ProcOK ==
  /\ pc \in [Proc -> Label]
  /\ key \in [Proc -> Key \cup {None}]
  /\ step \in [Proc -> Step]
  /\ handle \in [Proc -> {"null", "open", "closed"}]
  /\ result \in [Proc -> {-1, 0, 1}]
  /\ \A p \in Proc : pc[p] # "idle" => key[p] \in Key

DeviceOK ==
  /\ claimed \in Proc \cup {None}
  /\ locked \in Channel \cup {None}
  /\ slot \in [Part -> Key \cup {None}]
  /\ inbox \in Seq(Requests)
  /\ outbox \in Seq(Answers)
  /\ faults \in 0..MaxFaults

\* Request i is one of p, for step n.
IsOf(i, p, n) == inbox[i].chan = p /\ inbox[i].step = n

\* A process that still has its unlock request to send.
Owes(p) ==
  /\ pc[p] \in {"send", "receive"}
  /\ ~(pc[p] = "receive" /\ step[p] = Unlock)

\* For a process that has not, the request is on its way: behind each of its
\* lock requests, and if the device is locked to it.
Unlocks(p) ==
  /\ locked = p => \E j \in DOMAIN inbox : IsOf(j, p, Unlock)
  /\ \A i \in DOMAIN inbox : IsOf(i, p, Lock) =>
       \E j \in DOMAIN inbox : i < j /\ IsOf(j, p, Unlock)

LockReturns == \A p \in Proc : ~Owes(p) => Unlocks(p)

WTypes == ProcOK /\ DeviceOK

\* What is on its way: the answers, and behind them the requests.
Pending == Len(outbox) + Len(inbox)
Item(j) == IF j <= Len(outbox) THEN outbox[j] ELSE inbox[j - Len(outbox)]
IsApdu(j, p) == Item(j).chan = p /\ Item(j).cmd = "APDU"
InCall(p) == pc[p] \in {"send", "receive"}

\* The interface is claimed by the process that uses it.
Claimed(p) ==
  /\ handle[p] = "open" <=> claimed = p
  /\ InCall(p) => handle[p] = "open"
  /\ pc[p] \in {"idle", "open"} => step[p] = Lock /\ result[p] = -1
  /\ pc[p] \in {"idle", "open", "broken"} => handle[p] # "open"
  /\ pc[p] = "broken" => result[p] = 1
  /\ pc[p] = "done" => result[p] \in {0, 1} /\ (result[p] = 0 => handle[p] = "open")
  /\ InCall(p) /\ result[p] = -1 => step[p] = Lock
  /\ InCall(p) /\ result[p] = 1 => step[p] = Unlock

\* Each answer that was not received is a fault.
Counted ==
  /\ \A p \in Proc : pc[p] = "receive" => 1 <= Pending /\ Pending - 1 <= faults
  /\ (\A p \in Proc : pc[p] # "receive") => Pending <= faults

\* A process that does not write leaves no APDU at the end of the queue, unless
\* its unlock request was lost.
Ended(p) == ~Owes(p) /\ Pending >= 1 /\ IsApdu(Pending, p) => Pending < faults

\* How many answers the next one to p lags behind, while p goes on.
Lag(p) == IF pc[p] = "receive" THEN Pending - 1 ELSE Pending
\* The item that was the last one when p began.
Before(p) == Lag(p) - (step[p] - Lock)

\* If there is none, what was agreed to is in the slot.
InTime(p) ==
  /\ \A k \in Part : k < step[p] => slot[k] = key[p]
  /\ pc[p] = "receive" /\ Len(inbox) = 1 => inbox[1] = Request(p, step[p])
  /\ pc[p] = "receive" /\ Len(inbox) = 0 /\ step[p] \in Part =>
       \/ slot[step[p]] = key[p]
       \/ outbox[1] \in {Refusal(Request(p, step[p])), ErrorFrame(Request(p, step[p]))}

\* Otherwise an item that is no APDU's is ahead of p, and will stop it.
Late(p) ==
  /\ 0 <= Before(p) /\ step[p] <= LastPart
  /\ 1 <= Before(p) => ~IsApdu(Before(p), p) \/ Lag(p) < faults
  /\ Before(p) < Pending => ~IsApdu(Before(p) + 1, p)

OnTrack(p) ==
  InCall(p) /\ result[p] # 1 => IF Lag(p) = 0 THEN InTime(p) ELSE Late(p)

\* A key that was written stays.
Written(p) ==
  pc[p] = "done" /\ result[p] = 0 =>
    /\ \A k \in Part : slot[k] = key[p]
    /\ \A i \in DOMAIN inbox : inbox[i].step \notin Part

WInv ==
  /\ WTypes /\ Counted
  /\ \A p \in Proc : Claimed(p) /\ Ended(p)
  /\ faults < Exchanges => \A p \in Proc : OnTrack(p) /\ Written(p)
  /\ ~UnlockLost => LockReturns

----------------------------------------------------------------------------
(* Types.                                                                  *)

\* The steps are numbers.
LEMMA StepsAreNumbers ==
  /\ Lock = -2 /\ Select = -1 /\ LastPart \in Nat /\ Unlock = LastPart + 1
  /\ Exchanges = LastPart + 4 /\ Exchanges \in Nat
  /\ Step = (-2)..(LastPart + 1)
  BY GnubbyWriteAssumption DEF Lock, Select, Unlock, Exchanges, Step

\* What a process sends is a request.
LEMMA RequestIsOne ==
  ASSUME NEW p \in Proc, NEW n \in Step, key[p] \in Key
  PROVE  /\ Request(p, n) \in Requests
         /\ Request(p, n).chan = p /\ Request(p, n).step = n
         /\ Request(p, n).key = key[p] /\ Request(p, n).cmd = CommandOf(n)
  BY DEF Request, Requests, Channel, CommandOf

\* What the device answers is an answer, to the channel of the request.
LEMMA AnswerIsOne ==
  ASSUME NEW r \in Requests
  PROVE  \A a \in {Agreement(r), Refusal(r), ErrorFrame(r)} :
           /\ a \in Answers
           /\ a.chan = r.chan /\ (a.cmd = r.cmd \/ a.cmd = "ERROR")
<1>1. r.chan \in Channel /\ r.cmd \in {"LOCK", "APDU"}  BY DEF Requests
<1>2. ASSUME NEW c \in {"LOCK", "APDU", "ERROR"}, NEW d \in Seq(Nat)
      PROVE  /\ Frame(r.chan, c, d) \in Answers
             /\ Frame(r.chan, c, d).chan = r.chan /\ Frame(r.chan, c, d).cmd = c
  <2>1. Len(d) \in Nat  BY LenProperties
  <2> QED  BY <1>1, <2>1 DEF Frame, Answers
<1>3. /\ <<0>> \in Seq(Nat) /\ <<1>> \in Seq(Nat) /\ <<6>> \in Seq(Nat)
      /\ <<105, 133>> \in Seq(Nat) /\ <<144, 0>> \in Seq(Nat)
  OBVIOUS
<1>4. /\ ErrorFrame(r) \in Answers /\ ErrorFrame(r).chan = r.chan
      /\ ErrorFrame(r).cmd = "ERROR"
  BY <1>2, <1>3 DEF ErrorFrame
<1>5. /\ Refusal(r) \in Answers /\ Refusal(r).chan = r.chan
      /\ Refusal(r).cmd = r.cmd
  BY <1>1, <1>2, <1>3 DEF Refusal
<1>6. /\ Agreement(r) \in Answers /\ Agreement(r).chan = r.chan
      /\ Agreement(r).cmd = r.cmd
  BY <1>1, <1>2, <1>3 DEF Agreement
<1> QED  BY <1>4, <1>5, <1>6

\* A queue whose items are given to nobody is one of the same length.
LEMMA OrphansTypes ==
  ASSUME NEW p \in Proc
  PROVE  /\ inbox \in Seq(Requests) =>
              /\ Orphaned(inbox, p) \in Seq(Requests)
              /\ Len(Orphaned(inbox, p)) = Len(inbox)
         /\ outbox \in Seq(Answers) =>
              /\ Orphaned(outbox, p) \in Seq(Answers)
              /\ Len(Orphaned(outbox, p)) = Len(outbox)
<1>1. ASSUME inbox \in Seq(Requests)
      PROVE  /\ Orphaned(inbox, p) \in Seq(Requests)
             /\ Len(Orphaned(inbox, p)) = Len(inbox)
  <2>1. DOMAIN inbox = 1..Len(inbox) /\ Len(inbox) \in Nat
        /\ \A i \in 1..Len(inbox) : inbox[i] \in Requests
    BY <1>1, LenProperties, ElementOfSeq
  <2>2. \A i \in 1..Len(inbox) :
          [inbox[i] EXCEPT !.chan = IF @ = p THEN Gone ELSE @] \in Requests
    BY <2>1 DEF Requests, Channel
  <2>3. Orphaned(inbox, p) \in [1..Len(inbox) -> Requests]
    BY <2>1, <2>2 DEF Orphaned
  <2> QED  BY <2>1, <2>3
<1>2. ASSUME outbox \in Seq(Answers)
      PROVE  /\ Orphaned(outbox, p) \in Seq(Answers)
             /\ Len(Orphaned(outbox, p)) = Len(outbox)
  <2>1. DOMAIN outbox = 1..Len(outbox) /\ Len(outbox) \in Nat
        /\ \A i \in 1..Len(outbox) : outbox[i] \in Answers
    BY <1>2, LenProperties, ElementOfSeq
  <2>2. \A i \in 1..Len(outbox) :
          [outbox[i] EXCEPT !.chan = IF @ = p THEN Gone ELSE @] \in Answers
    BY <2>1 DEF Answers, Channel
  <2>3. Orphaned(outbox, p) \in [1..Len(outbox) -> Answers]
    BY <2>1, <2>2 DEF Orphaned
  <2> QED  BY <2>1, <2>3
<1> QED  BY <1>1, <1>2

\* The first of a queue, and the rest.
LEMMA Heads ==
  ASSUME DeviceOK
  PROVE  /\ inbox # << >> => Head(inbox) \in Requests /\ Tail(inbox) \in Seq(Requests)
         /\ outbox # << >> => Head(outbox) \in Answers /\ Tail(outbox) \in Seq(Answers)
  BY HeadTailProperties DEF DeviceOK

\* A failing exchange, and one that succeeds, keep the variables of a process.
LEMMA FailTypes ==
  ASSUME ProcOK, NEW p \in Proc, pc[p] # "idle", Fail(p) \/ Proceed(p),
         UNCHANGED <<key, handle>>
  PROVE  ProcOK'
<1>1. step[p] \in Step  BY DEF ProcOK
<1>2. step[p] # Unlock => step[p] + 1 \in Step  BY <1>1, StepsAreNumbers
<1>3. Unlock \in Step  BY StepsAreNumbers
<1> QED  BY <1>2, <1>3 DEF Fail, Proceed, Goto, ProcOK, Label

\* A step of a process keeps the types.
LEMMA WorkTypes ==
  ASSUME WTypes, NEW p \in Proc, Call(p) \/ Work(p)
  PROVE  WTypes'
<1> USE DEF WTypes
<1>1. Lock \in Step /\ MaxFaults \in Nat  BY StepsAreNumbers, GnubbyWriteAssumption
<1>2. CASE Call(p)
  <2>1. KeysOf[p] \subseteq Key  BY GnubbyWriteAssumption
  <2> QED
    BY <1>2, <2>1 DEF Call, Goto, ProcOK, DeviceOK, deviceVars, Label
<1>3. CASE DupFails(p)
  BY <1>1, <1>3 DEF DupFails, Goto, ProcOK, DeviceOK, deviceVars, Label
<1>4. CASE Open(p) \/ UseClosedHandle(p) \/ Return(p)
  <2>1. CASE Open(p)
    BY <1>1, <2>1 DEF Open, Goto, ProcOK, DeviceOK, deviceVars, Label
  <2>2. CASE UseClosedHandle(p)
    BY <2>2 DEF UseClosedHandle, Goto, ProcOK, DeviceOK, deviceVars, Label
  <2>3. CASE Return(p)
    BY <1>1, <2>3 DEF Return, Goto, ProcOK, DeviceOK, deviceVars, Label
  <2> QED  BY <1>4, <2>1, <2>2, <2>3
<1>5. CASE OpenFails(p)
  BY <1>1, <1>5 DEF OpenFails, Goto, ProcOK, DeviceOK, deviceVars, Label
<1>6. CASE Send(p)
  <2>1. key[p] \in Key /\ step[p] \in Step  BY <1>6 DEF Send, ProcOK
  <2>2. Request(p, step[p]) \in Requests  BY <2>1, RequestIsOne
  <2>3. inbox' \in Seq(Requests)
    BY <1>6, <2>2, AppendProperties DEF Send, DeviceOK
  <2>4. ProcOK'  BY <1>6 DEF Send, Goto, ProcOK, Label
  <2> QED  BY <1>6, <2>3, <2>4 DEF Send, DeviceOK
<1>7. CASE MisfitFails(p) \/ SendFails(p)
  <2>1. ProcOK'  BY <1>7, FailTypes DEF MisfitFails, SendFails
  <2>2. DeviceOK'
    BY <1>1, <1>7 DEF MisfitFails, SendFails, DeviceOK, deviceVars
  <2> QED  BY <2>1, <2>2
<1>8. CASE Receive(p)
  <2>1. PICK f : /\ faults' = IF f = Head(outbox) THEN faults ELSE faults + 1
                 /\ faults' <= MaxFaults
                 /\ Proceed(p) \/ Fail(p)
    BY <1>8 DEF Receive
  <2>2. ProcOK'  BY <1>8, <2>1, FailTypes DEF Receive
  <2>3. outbox' \in Seq(Answers)  BY <1>8, Heads DEF Receive
  <2>4. faults' \in 0..MaxFaults  BY <1>1, <2>1 DEF DeviceOK
  <2> QED  BY <1>8, <2>2, <2>3, <2>4 DEF Receive, DeviceOK
<1>9. CASE ReceiveFails(p)
  <2>1. ProcOK'  BY <1>9, FailTypes DEF ReceiveFails
  <2>2. outbox' \in Seq(Answers)  BY <1>9, Heads DEF ReceiveFails, DeviceOK
  <2> QED  BY <1>1, <1>9, <2>1, <2>2 DEF ReceiveFails, DeviceOK
<1> QED  BY <1>2, <1>3, <1>4, <1>5, <1>6, <1>7, <1>8, <1>9 DEF Work

\* So does any other.
LEMMA NextTypes == WTypes /\ [Next]_vars => WTypes'
<1> SUFFICES ASSUME WTypes, [Next]_vars PROVE WTypes'  OBVIOUS
<1> USE DEF WTypes
<1>1. CASE \E p \in Proc : Call(p) \/ Work(p)  BY <1>1, WorkTypes
<1>2. CASE \E p \in Proc : End(p)
  <2>1. PICK p \in Proc : End(p)  BY <1>2
  <2>2. ProcOK'
    BY <2>1, StepsAreNumbers DEF End, Goto, ProcOK, Label
  <2>3. inbox' \in Seq(Requests) /\ outbox' \in Seq(Answers)
    BY <2>1, OrphansTypes DEF End, DeviceOK
  <2>4. faults' \in 0..MaxFaults
    BY <2>1, GnubbyWriteAssumption DEF End, DeviceOK
  <2>5. claimed' \in Proc \cup {None} /\ locked' \in Channel \cup {None}
    BY <2>1 DEF End, DeviceOK, Channel
  <2> QED  BY <2>1, <2>2, <2>3, <2>4, <2>5 DEF End, DeviceOK
<1>3. CASE DeviceAnswers
  <2> DEFINE r == Head(inbox)
  <2>1. r \in Requests /\ inbox' \in Seq(Requests)
    BY <1>3, Heads DEF DeviceAnswers
  <2>2. r.chan \in Channel /\ r.key \in Key  BY <2>1 DEF Requests
  <2>3. PICK a \in {Agreement(r), Refusal(r), ErrorFrame(r)} : outbox' = Append(outbox, a)
    BY <1>3 DEF DeviceAnswers
  <2>4. outbox' \in Seq(Answers)
    BY <2>1, <2>3, AnswerIsOne, AppendProperties DEF DeviceOK
  <2>5. Carry(r) \/ UNCHANGED <<locked, slot>>  BY <1>3 DEF DeviceAnswers
  <2> HIDE DEF r
  <2>6. /\ locked' \in Channel \cup {None}
        /\ slot' \in [Part -> Key \cup {None}]
    BY <2>2, <2>5 DEF Carry, DeviceOK
  <2>7. ProcOK'  BY <1>3 DEF DeviceAnswers, procVars, ProcOK
  <2> QED  BY <1>3, <2>1, <2>4, <2>6, <2>7 DEF DeviceAnswers, DeviceOK
<1>4. CASE LockExpires
  BY <1>4 DEF LockExpires, procVars, ProcOK, DeviceOK
<1>5. CASE UNCHANGED vars
  BY <1>5 DEF vars, procVars, deviceVars, ProcOK, DeviceOK
<1> QED  BY <1>1, <1>2, <1>3, <1>4, <1>5 DEF Next

----------------------------------------------------------------------------
(* The queue of what is on its way.                                        *)

\* Its length.
LEMMA PendingIsNat ==
  ASSUME DeviceOK
  PROVE  /\ Len(outbox) \in Nat /\ Len(inbox) \in Nat /\ Pending \in Nat
         /\ DOMAIN inbox = 1..Len(inbox) /\ DOMAIN outbox = 1..Len(outbox)
         /\ faults \in Nat
  BY LenProperties, GnubbyWriteAssumption DEF DeviceOK, Pending

\* Nothing in it has become an APDU's.
NoNewApdu ==
  /\ Pending' = Pending
  /\ \A j \in 1..Pending, q \in Proc : IsApdu(j, q)' => IsApdu(j, q)

\* It is as long, and every item where it was.
LEMMA QueueKept ==
  ASSUME DeviceOK, UNCHANGED <<inbox, outbox>>  PROVE NoNewApdu
  BY DEF NoNewApdu, Pending, IsApdu, Item

\* A request is sent: it is the last one.
Sent(r) ==
  /\ Pending' = Pending + 1
  /\ \A j \in 1..Pending, q \in Proc : IsApdu(j, q)' <=> IsApdu(j, q)
  /\ \A q \in Proc : IsApdu(Pending, q)' => r.chan = q /\ r.cmd = "APDU"

\* What a process sends goes to the end of the queue.
LEMMA QueueSent ==
  ASSUME DeviceOK, NEW r \in Requests, inbox' = Append(inbox, r), outbox' = outbox
  PROVE  Sent(r)
<1>1. Len(inbox) \in Nat /\ Len(outbox) \in Nat  BY PendingIsNat
<1>2. /\ Len(inbox') = Len(inbox) + 1
      /\ \A i \in 1..Len(inbox) : inbox'[i] = inbox[i]
      /\ inbox'[Len(inbox) + 1] = r
  BY AppendProperties DEF DeviceOK
<1>3. Pending' = Pending + 1 /\ Pending = Len(outbox) + Len(inbox)
  BY <1>1, <1>2 DEF Pending
<1>4. ASSUME NEW j \in 1..Pending  PROVE Item(j)' = Item(j)
  <2>1. CASE j <= Len(outbox)  BY <1>1, <1>3, <2>1 DEF Item
  <2>2. CASE j > Len(outbox)
    <3>1. j - Len(outbox) \in 1..Len(inbox)  BY <1>1, <1>3, <2>2
    <3> QED  BY <1>1, <1>2, <1>3, <2>2, <3>1 DEF Item
  <2> QED  BY <1>1, <1>3, <2>1, <2>2
<1>5. Item(Pending)' = r
  BY <1>1, <1>2, <1>3 DEF Item
<1> QED  BY <1>3, <1>4, <1>5 DEF Sent, IsApdu

\* An answer is taken from it: the others move up.
Taken ==
  /\ Pending >= 1 /\ Pending' = Pending - 1
  /\ \A j \in 1..(Pending - 1), q \in Proc : IsApdu(j, q)' <=> IsApdu(j + 1, q)

\* Receiving takes the first item.
LEMMA QueueTaken ==
  ASSUME DeviceOK, outbox # << >>, outbox' = Tail(outbox), inbox' = inbox
  PROVE  Taken /\ Item(1) = Head(outbox)
<1>1. Len(inbox) \in Nat /\ Len(outbox) \in Nat  BY PendingIsNat
<1>2. /\ Len(outbox) >= 1 /\ Len(outbox') = Len(outbox) - 1
      /\ \A i \in 1..Len(outbox') : outbox'[i] = outbox[i + 1]
      /\ Head(outbox) = outbox[1]
  BY HeadTailProperties, EmptySeq DEF DeviceOK
<1>3. Pending' = Pending - 1 /\ Pending >= 1 /\ Pending = Len(outbox) + Len(inbox)
  BY <1>1, <1>2 DEF Pending
<1>4. ASSUME NEW j \in 1..(Pending - 1)  PROVE Item(j)' = Item(j + 1)
  BY <1>1, <1>2, <1>3 DEF Item
<1>5. Item(1) = Head(outbox)  BY <1>2 DEF Item
<1> QED  BY <1>3, <1>4, <1>5 DEF Taken, IsApdu

\* The device answers: the answer takes the place of the request.
LEMMA QueueAnswered ==
  ASSUME DeviceOK, inbox # << >>, inbox' = Tail(inbox),
         NEW a \in {Agreement(Head(inbox)), Refusal(Head(inbox)), ErrorFrame(Head(inbox))},
         outbox' = Append(outbox, a)
  PROVE  NoNewApdu
<1> DEFINE r == Head(inbox)
<1>1. Len(inbox) \in Nat /\ Len(outbox) \in Nat  BY PendingIsNat
<1>2. /\ Len(inbox) >= 1 /\ Len(inbox') = Len(inbox) - 1
      /\ \A i \in 1..Len(inbox') : inbox'[i] = inbox[i + 1]
      /\ r = inbox[1] /\ r \in Requests
  BY HeadTailProperties, EmptySeq DEF DeviceOK
<1>3. a \in Answers /\ a.chan = r.chan /\ (a.cmd = r.cmd \/ a.cmd = "ERROR")
  BY <1>2, AnswerIsOne
<1>4. /\ Len(outbox') = Len(outbox) + 1
      /\ \A i \in 1..Len(outbox) : outbox'[i] = outbox[i]
      /\ outbox'[Len(outbox) + 1] = a
  BY <1>3, AppendProperties DEF DeviceOK
<1>5. Pending' = Pending /\ Pending = Len(outbox) + Len(inbox)
  BY <1>1, <1>2, <1>4 DEF Pending
<1> HIDE DEF r
<1>6. ASSUME NEW j \in 1..Pending, NEW q \in Proc, IsApdu(j, q)'
      PROVE  IsApdu(j, q)
  <2>1. CASE j <= Len(outbox)
    BY <1>1, <1>4, <2>1, <1>6 DEF IsApdu, Item
  <2>2. CASE j = Len(outbox) + 1
    <3>1. Item(j)' = a /\ Item(j) = r  BY <1>1, <1>2, <1>4, <2>2 DEF Item
    <3> QED  BY <1>3, <1>6, <3>1 DEF IsApdu
  <2>3. CASE j > Len(outbox) + 1
    <3>1. Item(j)' = inbox'[j - (Len(outbox) + 1)]
      BY <1>1, <1>4, <1>5, <2>3 DEF Item
    <3>2. Item(j)' = Item(j)
      BY <1>1, <1>2, <1>5, <2>3, <3>1 DEF Item
    <3> QED  BY <1>6, <3>2 DEF IsApdu
  <2> QED  BY <1>1, <1>5, <2>1, <2>2, <2>3
<1> QED  BY <1>5, <1>6 DEF NoNewApdu

\* An item of a process that ends is nobody's; the others are whose they were.
LEMMA OrphansItems ==
  ASSUME DeviceOK, NEW p \in Proc
  PROVE  /\ \A i \in 1..Len(inbox) :
              /\ Orphaned(inbox, p)[i].step = inbox[i].step
              /\ Orphaned(inbox, p)[i].cmd = inbox[i].cmd
              /\ inbox[i].chan = p => Orphaned(inbox, p)[i].chan = Gone
              /\ inbox[i].chan # p => Orphaned(inbox, p)[i] = inbox[i]
         /\ \A i \in 1..Len(outbox) :
              /\ Orphaned(outbox, p)[i].cmd = outbox[i].cmd
              /\ outbox[i].chan = p => Orphaned(outbox, p)[i].chan = Gone
              /\ outbox[i].chan # p => Orphaned(outbox, p)[i] = outbox[i]
<1>1. ASSUME NEW i \in 1..Len(inbox)
      PROVE  /\ Orphaned(inbox, p)[i].step = inbox[i].step
             /\ Orphaned(inbox, p)[i].cmd = inbox[i].cmd
             /\ inbox[i].chan = p => Orphaned(inbox, p)[i].chan = Gone
             /\ inbox[i].chan # p => Orphaned(inbox, p)[i] = inbox[i]
  <2>1. inbox[i] \in Requests /\ i \in DOMAIN inbox
    BY ElementOfSeq, PendingIsNat DEF DeviceOK
  <2>2. Orphaned(inbox, p)[i]
          = [inbox[i] EXCEPT !.chan = IF inbox[i].chan = p THEN Gone ELSE inbox[i].chan]
    BY <2>1 DEF Orphaned
  <2> QED  BY <2>1, <2>2 DEF Requests
<1>2. ASSUME NEW i \in 1..Len(outbox)
      PROVE  /\ Orphaned(outbox, p)[i].cmd = outbox[i].cmd
             /\ outbox[i].chan = p => Orphaned(outbox, p)[i].chan = Gone
             /\ outbox[i].chan # p => Orphaned(outbox, p)[i] = outbox[i]
  <2>1. outbox[i] \in Answers /\ i \in DOMAIN outbox
    BY ElementOfSeq, PendingIsNat DEF DeviceOK
  <2>2. Orphaned(outbox, p)[i]
          = [outbox[i] EXCEPT !.chan = IF outbox[i].chan = p THEN Gone ELSE outbox[i].chan]
    BY <2>1 DEF Orphaned
  <2> QED  BY <2>1, <2>2 DEF Answers
<1> QED  BY <1>1, <1>2

\* A process ends: its items are in the queue still, and nobody's.
LEMMA QueueOrphaned ==
  ASSUME DeviceOK, NEW p \in Proc,
         inbox' = Orphaned(inbox, p), outbox' = Orphaned(outbox, p)
  PROVE  NoNewApdu /\ \A j \in 1..Pending : ~IsApdu(j, p)'
<1>1. /\ Len(inbox) \in Nat /\ Len(outbox) \in Nat
      /\ Len(inbox') = Len(inbox) /\ Len(outbox') = Len(outbox)
  BY PendingIsNat, OrphansTypes DEF DeviceOK
<1>2. Pending' = Pending /\ Pending = Len(outbox) + Len(inbox)  BY <1>1 DEF Pending
<1>3. Gone \notin Proc  BY GnubbyWriteAssumption
<1>4. ASSUME NEW j \in 1..Pending
      PROVE  /\ Item(j)'.cmd = Item(j).cmd
             /\ Item(j).chan = p => Item(j)'.chan = Gone
             /\ Item(j).chan # p => Item(j)'.chan = Item(j).chan
  <2>1. CASE j <= Len(outbox)
    <3>1. j \in 1..Len(outbox) /\ Item(j) = outbox[j] /\ Item(j)' = outbox'[j]
      BY <1>1, <2>1 DEF Item
    <3> QED  BY <3>1, OrphansItems
  <2>2. CASE j > Len(outbox)
    <3> DEFINE i == j - Len(outbox)
    <3>1. i \in 1..Len(inbox) /\ Item(j) = inbox[i] /\ Item(j)' = inbox'[i]
      BY <1>1, <1>2, <2>2 DEF Item
    <3> HIDE DEF i
    <3> QED  BY <3>1, OrphansItems
  <2> QED  BY <1>1, <2>1, <2>2
<1> QED  BY <1>2, <1>3, <1>4 DEF NoNewApdu, IsApdu

----------------------------------------------------------------------------
(* Who uses the device.                                                    *)

\* What a step of one process leaves alone of another.
Untouched(q) ==
  /\ pc'[q] = pc[q] /\ key'[q] = key[q] /\ step'[q] = step[q]
  /\ handle'[q] = handle[q] /\ result'[q] = result[q]

\* Each process changes only its own variables.
LEMMA OthersUntouched ==
  ASSUME ProcOK, NEW p \in Proc, Call(p) \/ Work(p) \/ End(p), NEW q \in Proc \ {p}
  PROVE  Untouched(q)
<1> USE DEF Untouched, ProcOK, Goto
<1>1. CASE Call(p) \/ DupFails(p) \/ Open(p) \/ OpenFails(p) \/ UseClosedHandle(p)
  BY <1>1 DEF Call, DupFails, Open, OpenFails, UseClosedHandle
<1>2. CASE Send(p) \/ Return(p) \/ End(p)
  BY <1>2 DEF Send, Return, End
<1>3. CASE Fail(p) /\ UNCHANGED <<key, handle>>  BY <1>3 DEF Fail
<1>4. CASE Proceed(p) /\ UNCHANGED <<key, handle>>  BY <1>4 DEF Proceed
<1>5. CASE MisfitFails(p) \/ SendFails(p) \/ Receive(p) \/ ReceiveFails(p)
  BY <1>3, <1>4, <1>5 DEF MisfitFails, SendFails, Receive, ReceiveFails
<1> QED  BY <1>1, <1>2, <1>5 DEF Work

\* After an exchange the process goes on, or is done.
LEMMA FailClaimed ==
  ASSUME ProcOK, NEW p \in Proc, InCall(p), Claimed(p), Fail(p) \/ Proceed(p),
         UNCHANGED <<key, handle, claimed>>
  PROVE  Claimed(p)'
<1>1. result[p] \in {-1, 0, 1} /\ step[p] \in Step  BY DEF ProcOK
<1>2. CASE step[p] = Unlock
  <2>1. pc'[p] = "done" /\ UNCHANGED <<step, result>>
    BY <1>2 DEF Fail, Proceed, Goto, ProcOK
  <2>2. result[p] # -1  BY <1>2, StepsAreNumbers DEF Claimed
  <2> QED  BY <1>1, <2>1, <2>2 DEF Claimed, InCall
<1>3. CASE step[p] # Unlock
  <2>1. pc'[p] = "send" /\ result'[p] \in {0, 1}
        /\ (result'[p] = 1 => step'[p] = Unlock)
    BY <1>3 DEF Fail, Proceed, Goto, ProcOK
  <2> QED  BY <1>1, <2>1 DEF Claimed, InCall
<1> QED  BY <1>2, <1>3

\* Each process keeps to its claim.
LEMMA ClaimedStep ==
  ASSUME ProcOK, \A q \in Proc : Claimed(q),
         NEW p \in Proc, Call(p) \/ Work(p) \/ End(p)
  PROVE  \A q \in Proc : Claimed(q)'
<1>1. \A q \in Proc \ {p} : Untouched(q)  BY OthersUntouched
<1>2. Claimed(p)' /\ \A q \in Proc \ {p} : claimed' = q <=> claimed = q
  <2> USE DEF ProcOK, Goto
  <2>1. None \notin Proc  BY GnubbyWriteAssumption
  <2>2. CASE Call(p) \/ DupFails(p)
    BY <2>2 DEF Call, DupFails, Claimed, InCall
  <2>3. CASE Open(p)
    BY <2>1, <2>3 DEF Open, Claimed, InCall
  <2>4. CASE OpenFails(p) \/ UseClosedHandle(p)
    BY <2>4 DEF OpenFails, UseClosedHandle, Claimed, InCall
  <2>5. CASE Send(p)
    BY <2>5 DEF Send, Claimed, InCall
  <2>6. CASE MisfitFails(p) \/ SendFails(p) \/ Receive(p) \/ ReceiveFails(p)
    <3>1. /\ InCall(p) /\ UNCHANGED <<key, handle, claimed>>
          /\ Fail(p) \/ Proceed(p)
      BY <2>6 DEF MisfitFails, SendFails, Receive, ReceiveFails, InCall
    <3> QED  BY <3>1, FailClaimed
  <2>7. CASE Return(p) \/ End(p)
    BY <2>1, <2>7 DEF Return, End, Claimed, InCall
  <2> QED  BY <2>2, <2>3, <2>4, <2>5, <2>6, <2>7 DEF Work
<1> QED  BY <1>1, <1>2 DEF Claimed, Untouched, InCall

\* One process at a time uses the device, or has used it and may say so.
LEMMA OneCaller ==
  ASSUME \A q \in Proc : Claimed(q), NEW p \in Proc, InCall(p), NEW q \in Proc \ {p}
  PROVE  ~InCall(q) /\ ~(pc[q] = "done" /\ result[q] = 0)
  BY DEF Claimed

\* Steps that leave the queue alone.
Quietly(p) ==
  /\ UNCHANGED <<inbox, outbox, slot>>
  /\ pc[p] # "receive" /\ pc'[p] # "receive"

\* Every other step than sending and receiving is one of those.
LEMMA Effects ==
  ASSUME ProcOK, NEW p \in Proc, Call(p) \/ Work(p)
  PROVE  Quietly(p) \/ Send(p) \/ Receive(p) \/ ReceiveFails(p)
<1> USE DEF Quietly, Goto, ProcOK, deviceVars
<1>1. CASE Call(p) \/ DupFails(p) \/ Open(p) \/ OpenFails(p)
           \/ UseClosedHandle(p) \/ Return(p)
  BY <1>1 DEF Call, DupFails, Open, OpenFails, UseClosedHandle, Return
<1>2. CASE MisfitFails(p) \/ SendFails(p)
  BY <1>2 DEF MisfitFails, SendFails, Fail
<1> QED  BY <1>1, <1>2 DEF Work

\* Faults are not forgotten.
LEMMA FaultsGrow ==
  ASSUME DeviceOK, NEW p \in Proc, Call(p) \/ Work(p) \/ End(p)
  PROVE  faults' \in Nat /\ faults' >= faults
<1>1. faults \in Nat  BY PendingIsNat
<1>2. faults' \in {faults, faults + 1}
  <2>1. CASE Call(p) \/ DupFails(p) \/ Open(p) \/ OpenFails(p) \/ UseClosedHandle(p)
    BY <2>1 DEF Call, DupFails, Open, OpenFails, UseClosedHandle
  <2>2. CASE Send(p) \/ MisfitFails(p) \/ SendFails(p)
    BY <2>2 DEF Send, MisfitFails, SendFails
  <2>3. CASE Receive(p) \/ ReceiveFails(p) \/ Return(p) \/ End(p)
    BY <2>3 DEF Receive, ReceiveFails, Return, End
  <2> QED  BY <2>1, <2>2, <2>3 DEF Work
<1> QED  BY <1>1, <1>2

\* What an exchange that fails or succeeds does to a process.
LEMMA FailEffect ==
  ASSUME ProcOK, NEW p \in Proc, Fail(p) \/ Proceed(p)
  PROVE  /\ step[p] = Unlock =>
              pc'[p] = "done" /\ step'[p] = step[p] /\ result'[p] = result[p]
         /\ step[p] # Unlock => pc'[p] = "send"
         /\ step[p] # Unlock /\ ~Proceed(p) => result'[p] = 1
         /\ step[p] # Unlock /\ ~Fail(p) => result'[p] = 0 /\ step'[p] = step[p] + 1
  BY DEF Fail, Proceed, Goto, ProcOK

----------------------------------------------------------------------------
(* How much is on its way.                                                 *)

\* The count stands as long as the same process waits for an answer.
LEMMA CountedKept ==
  ASSUME Counted, Pending \in Nat, faults \in Nat, faults' \in Nat, faults' >= faults,
         Pending' = Pending, \A q \in Proc : pc'[q] = "receive" <=> pc[q] = "receive"
  PROVE  Counted'
<1>1. ASSUME NEW q \in Proc, pc'[q] = "receive"  PROVE 1 <= Pending' /\ Pending' - 1 <= faults'
  <2>1. 1 <= Pending /\ Pending - 1 <= faults  BY <1>1 DEF Counted
  <2> QED  BY <2>1
<1>2. ASSUME \A q \in Proc : pc'[q] # "receive"  PROVE Pending' <= faults'
  <2>1. Pending <= faults  BY <1>2 DEF Counted
  <2> QED  BY <2>1
<1> QED  BY <1>1, <1>2 DEF Counted

\* A process that works misses no answer without a fault.
LEMMA CountedStep ==
  ASSUME WTypes, \A q \in Proc : Claimed(q), Counted,
         NEW p \in Proc, Call(p) \/ Work(p) \/ End(p)
  PROVE  Counted'
<1>1. /\ ProcOK /\ DeviceOK /\ Pending \in Nat /\ faults \in Nat
      /\ faults' \in Nat /\ faults' >= faults
  BY PendingIsNat, FaultsGrow DEF WTypes
<1>2. \A q \in Proc \ {p} : pc'[q] = pc[q]  BY <1>1, OthersUntouched DEF Untouched
<1>3. InCall(p) => \A q \in Proc \ {p} : pc[q] # "receive"
  BY OneCaller DEF InCall
<1>4. CASE Quietly(p)
  <2>1. Pending' = Pending  BY <1>4 DEF Quietly, Pending
  <2>2. \A q \in Proc : pc'[q] = "receive" <=> pc[q] = "receive"
    BY <1>2, <1>4 DEF Quietly
  <2> QED  BY <1>1, <2>1, <2>2, CountedKept
<1>5. CASE Send(p)
  <2>1. pc[p] = "send" /\ pc'[p] = "receive"
    BY <1>1, <1>5 DEF Send, Goto, ProcOK
  <2>2. Request(p, step[p]) \in Requests
    BY <1>1, <2>1, RequestIsOne DEF ProcOK
  <2>3. Pending' = Pending + 1
    BY <1>1, <1>5, <2>2, QueueSent DEF Send, Sent
  <2>4. Pending <= faults
    BY <1>3, <2>1 DEF Counted, InCall
  <2>5. 1 <= Pending' /\ Pending' - 1 <= faults'  BY <1>1, <2>3, <2>4
  <2> QED  BY <2>1, <2>5 DEF Counted
<1>6. CASE Receive(p) \/ ReceiveFails(p)
  <2>1. pc[p] = "receive" /\ (Fail(p) \/ Proceed(p))
    BY <1>6 DEF Receive, ReceiveFails
  <2>2. pc'[p] # "receive"  BY <1>1, <2>1, FailEffect
  <2>3. 1 <= Pending /\ Pending - 1 <= faults  BY <2>1 DEF Counted
  <2>4. Pending' <= faults'
    <3>1. CASE outbox # << >> /\ outbox' = Tail(outbox) /\ inbox' = inbox
      <4>1. Pending' = Pending - 1  BY <1>1, <3>1, QueueTaken DEF Taken
      <4> QED  BY <1>1, <2>3, <4>1
    <3>2. CASE outbox' = outbox /\ inbox' = inbox /\ faults' = faults + 1
      BY <1>1, <2>3, <3>2 DEF Pending
    <3> QED  BY <1>6, <3>1, <3>2 DEF Receive, ReceiveFails
  <2> QED  BY <1>2, <1>3, <2>1, <2>2, <2>4 DEF Counted, InCall
<1>7. CASE End(p)
  <2>1. pc'[p] = "idle" /\ Pending' = Pending
    BY <1>1, <1>7, QueueOrphaned DEF End, Goto, ProcOK, NoNewApdu
  <2>2. CASE pc[p] = "receive"
    <3>1. handle[p] = "open"  BY <2>2 DEF Claimed, InCall
    <3>2. faults' = faults + 1  BY <1>7, <2>2, <3>1 DEF End
    <3>3. 1 <= Pending /\ Pending - 1 <= faults  BY <2>2 DEF Counted
    <3> QED  BY <1>1, <1>2, <1>3, <2>1, <2>2, <3>2, <3>3 DEF Counted, InCall
  <2>3. CASE pc[p] # "receive"
    <3>1. \A q \in Proc : pc'[q] = "receive" <=> pc[q] = "receive"
      BY <1>2, <2>1, <2>3
    <3> QED  BY <1>1, <2>1, <3>1, CountedKept
  <2> QED  BY <2>2, <2>3
<1> QED  BY <1>1, <1>4, <1>5, <1>6, <1>7, Effects

----------------------------------------------------------------------------
(* What a process leaves behind.                                           *)

\* A queue that is as long as it was, or shorter by its first item, ends as it did.
LEMMA EndedKept ==
  ASSUME DeviceOK, NEW q \in Proc, Ended(q), ~Owes(q)' => ~Owes(q),
         faults' \in Nat, faults' >= faults, NoNewApdu \/ Taken
  PROVE  Ended(q)'
<1> SUFFICES ASSUME ~Owes(q)', Pending' >= 1, IsApdu(Pending, q)'
             PROVE  Pending' < faults'
  BY DEF Ended
<1>1. Pending \in Nat /\ faults \in Nat /\ ~Owes(q)  BY PendingIsNat
<1>2. CASE NoNewApdu
  <2>1. Pending' = Pending /\ \A j \in 1..Pending : IsApdu(j, q)' => IsApdu(j, q)
    BY <1>2 DEF NoNewApdu
  <2>2. IsApdu(Pending, q)
    <3>1. PICK n \in 1..Pending : n = Pending'  BY <1>1, <2>1
    <3>2. IsApdu(n, q)'  BY <3>1 DEF IsApdu, Item
    <3> QED  BY <2>1, <3>1, <3>2
  <2>3. Pending < faults  BY <1>1, <2>1, <2>2 DEF Ended
  <2> QED  BY <1>1, <2>1, <2>3
<1>3. CASE Taken
  <2>1. /\ Pending' = Pending - 1 /\ Pending >= 1
        /\ \A j \in 1..(Pending - 1) : IsApdu(j, q)' <=> IsApdu(j + 1, q)
    BY <1>3 DEF Taken
  <2>2. IsApdu(Pending, q)
    <3>1. PICK n \in 1..(Pending - 1) : n = Pending'  BY <1>1, <2>1
    <3>2. IsApdu(n, q)'  BY <3>1 DEF IsApdu, Item
    <3>3. n + 1 = Pending  BY <1>1, <2>1, <3>1
    <3> QED  BY <2>1, <3>2, <3>3
  <2>3. Pending < faults  BY <1>1, <2>1, <2>2 DEF Ended
  <2> QED  BY <1>1, <2>1, <2>3
<1> QED  BY <1>2, <1>3

\* The last thing a process sends is its unlock request, or that is lost.
LEMMA EndedStep ==
  ASSUME WTypes, \A q \in Proc : Claimed(q) /\ Ended(q), Counted,
         NEW p \in Proc, Call(p) \/ Work(p) \/ End(p),
         NEW q \in Proc
  PROVE  Ended(q)'
<1>1. /\ ProcOK /\ DeviceOK /\ Pending \in Nat /\ faults \in Nat
      /\ faults' \in Nat /\ faults' >= faults
  BY PendingIsNat, FaultsGrow DEF WTypes
<1>2. q # p => (Owes(q)' <=> Owes(q))
  BY <1>1, OthersUntouched DEF Untouched, Owes
<1>3. CASE Send(p)
  <2>1. pc[p] = "send" /\ pc'[p] = "receive" /\ step'[p] = step[p]
    BY <1>1, <1>3 DEF Send, Goto, ProcOK
  <2>2. Request(p, step[p]) \in Requests /\ Request(p, step[p]).chan = p
        /\ Request(p, step[p]).cmd = CommandOf(step[p])
    BY <1>1, <2>1, RequestIsOne DEF ProcOK
  <2>3. IsApdu(Pending, q)' => p = q /\ CommandOf(step[p]) = "APDU"
    BY <1>1, <1>3, <2>2, QueueSent DEF Send, Sent
  <2>4. p = q /\ CommandOf(step[p]) = "APDU" => Owes(q)'
    BY <2>1 DEF CommandOf, Owes
  <2> QED  BY <2>3, <2>4 DEF Ended
<1>4. CASE End(p)
  <2>1. NoNewApdu /\ Pending' = Pending /\ \A j \in 1..Pending : ~IsApdu(j, p)'
    BY <1>1, <1>4, QueueOrphaned DEF End, NoNewApdu
  <2>2. CASE q = p
    <3>1. ASSUME Pending' >= 1 PROVE ~IsApdu(Pending, q)'
      <4>1. PICK n \in 1..Pending : n = Pending'  BY <1>1, <2>1, <3>1
      <4>2. ~IsApdu(n, q)'  BY <2>1, <2>2
      <4> QED  BY <4>1, <4>2 DEF IsApdu, Item
    <3> QED  BY <3>1 DEF Ended
  <2>3. CASE q # p  BY <1>1, <1>2, <2>1, <2>3, EndedKept
  <2> QED  BY <2>2, <2>3
<1>5. CASE Receive(p) \/ ReceiveFails(p)
  <2>1. pc[p] = "receive" /\ (Fail(p) \/ Proceed(p))
    BY <1>5 DEF Receive, ReceiveFails
  <2>2. ~Owes(p)' => ~Owes(p)
    BY <1>1, <2>1, FailEffect DEF Owes
  <2>3. NoNewApdu \/ Taken
    BY <1>1, <1>5, QueueTaken, QueueKept DEF Receive, ReceiveFails
  <2> QED  BY <1>1, <1>2, <2>2, <2>3, EndedKept
<1>6. CASE Quietly(p) /\ (Call(p) \/ Work(p))
  <2>1. NoNewApdu /\ Pending' = Pending
    BY <1>1, <1>6, QueueKept DEF Quietly, NoNewApdu
  <2>2. CASE q = p /\ Owes(p) /\ ~Owes(p)'
    <3>1. pc[p] = "send" /\ InCall(p)  BY <1>6, <2>2 DEF Quietly, Owes, InCall
    <3>2. CASE SendFails(p)
      <4>1. \A r \in Proc \ {p} : pc[r] # "receive"
        BY <3>1, OneCaller DEF InCall
      <4>2. Pending <= faults  BY <3>1, <4>1 DEF Counted
      <4>3. faults' = faults + 1  BY <3>2 DEF SendFails
      <4>4. Pending' < faults'  BY <1>1, <2>1, <4>2, <4>3
      <4> QED  BY <4>4 DEF Ended
    <3>3. CASE MisfitFails(p)
      <4>1. step[p] \in Part
        BY <1>1, <3>3, GnubbyWriteAssumption DEF MisfitFails, ProcOK
      <4>2. step[p] # Unlock  BY <4>1, StepsAreNumbers DEF Part
      <4>3. pc'[p] = "send"  BY <1>1, <3>3, <4>2, FailEffect DEF MisfitFails
      <4> QED  BY <2>2, <4>3 DEF Owes
    <3>4. SendFails(p) \/ MisfitFails(p)
      BY <1>1, <1>6, <3>1 DEF Quietly, Call, Work, DupFails, Open, OpenFails,
         UseClosedHandle, Send, Receive, ReceiveFails, Return, Goto, ProcOK
    <3> QED  BY <3>2, <3>3, <3>4
  <2>3. CASE ~(q = p /\ Owes(p) /\ ~Owes(p)')
    BY <1>1, <1>2, <2>1, <2>3, EndedKept
  <2> QED  BY <2>2, <2>3
<1> QED  BY <1>1, <1>3, <1>4, <1>5, <1>6, Effects

----------------------------------------------------------------------------
(* What an answer shows.                                                   *)

\* A frame that arrived in part has the header of the whole one.
LEMMA TorsoHeader ==
  ASSUME NEW a \in Answers, NEW f \in {a} \cup Torsos(a)
  PROVE  f.chan = a.chan /\ f.cmd = a.cmd
  BY DEF Torsos, Answers

\* A refused APDU, or one that was not carried out, is not taken for a good one.
LEMMA RefusalIsSeen ==
  ASSUME NEW r \in Requests, r.cmd = "APDU",
         NEW a \in {Refusal(r), ErrorFrame(r)}, NEW f \in {a} \cup Torsos(a)
  PROVE  ~Good(f, r)
<1>1. a \in Answers /\ f.cmd = a.cmd  BY AnswerIsOne, TorsoHeader
<1>2. CASE a = ErrorFrame(r)
  BY <1>1, <1>2 DEF ErrorFrame, Frame, Good, HeaderMatches
<1>3. CASE a = Refusal(r)
  <2> DEFINE d == <<105, 133>>
  <2>1. a.len = 2 /\ a.data = d  BY <1>3 DEF Refusal, Frame
  <2>2. f.len \in {0, 2}
        /\ (f.len = 2 => \E n \in 0..2 : f.data = SubSeq(d, 1, n))
    <3>1. CASE f = a
      <4>1. d = SubSeq(d, 1, 2)  OBVIOUS
      <4> QED  BY <2>1, <3>1, <4>1
    <3>2. CASE f = [a EXCEPT !.len = 0, !.data = << >>]
      BY <1>1, <3>2 DEF Answers
    <3>3. ASSUME NEW n \in 0..(Len(a.data) - 1),
                 f = [a EXCEPT !.data = SubSeq(a.data, 1, n)]
          PROVE  f.len = 2 /\ f.data = SubSeq(d, 1, n) /\ n \in 0..2
      <4>1. f.len = a.len /\ f.data = SubSeq(a.data, 1, n)
        BY <1>1, <3>3 DEF Answers
      <4>2. Len(d) = 2  OBVIOUS
      <4>3. n \in 0..2  BY <2>1, <4>2
      <4> QED  BY <2>1, <4>1, <4>3
    <3> QED  BY <3>1, <3>2, <3>3 DEF Torsos
  <2>3. CASE f.len = 0  BY <2>3, <1>3 DEF Good, Refusal, Frame
  <2>4. CASE f.len = 2
    <3>1. PICK n \in 0..2 : f.data = SubSeq(d, 1, n)  BY <2>2, <2>4
    <3>2. Len(f.data) \in Nat /\ (1 <= Len(f.data) => f.data[1] = 105)
      <4>1. d \in Seq(Nat) /\ Len(d) = 2  OBVIOUS
      <4>2. Len(f.data) = n /\ \A i \in 1..n : f.data[i] = d[i]
        BY <3>1, <4>1
      <4> QED  BY <4>2
    <3>3. Payload(f)[1] \in {0, 105} /\ Len(Payload(f)) = 2
      <4> DEFINE g == [i \in 1..2 |-> IF i <= Len(f.data) THEN f.data[i] ELSE 0]
      <4>1. Payload(f) = g  BY <2>4 DEF Payload
      <4>2. g[1] = IF 1 <= Len(f.data) THEN f.data[1] ELSE 0  OBVIOUS
      <4>3. Len(g) = 2  OBVIOUS
      <4> HIDE DEF g
      <4> QED  BY <3>2, <4>1, <4>2, <4>3
    <3>4. SubSeq(Payload(f), 1, 2) # <<144, 0>>
      <4>1. SubSeq(Payload(f), 1, 2)[1] = Payload(f)[1]  BY <3>3
      <4> DEFINE s == SubSeq(Payload(f), 1, 2)
                 t == <<144, 0>>
      <4>2. t[1] = 144 /\ s[1] # 144  BY <3>3, <4>1
      <4> HIDE DEF s, t
      <4>3. s # t  BY <4>2
      <4> QED  BY <4>3 DEF s, t
    <3>5. f.len - 1 = 1  BY <2>4
    <3> QED  BY <2>4, <3>4, <3>5 DEF Good
  <2> QED  BY <2>2, <2>3, <2>4
<1> QED  BY <1>2, <1>3

\* A good answer is to the command awaited, and from the channel.
LEMMA GoodHeader ==
  ASSUME DeviceOK, NEW p \in Proc, NEW n \in Step, outbox # << >>,
         NEW f \in {Head(outbox)} \cup Torsos(Head(outbox)), Good(f, Request(p, n))
  PROVE  n \notin {Lock, Unlock} => IsApdu(1, p)
<1>1. Head(outbox) \in Answers  BY Heads
<1>2. f.chan = Head(outbox).chan /\ f.cmd = Head(outbox).cmd
  BY <1>1, TorsoHeader
<1>3. f.chan = p /\ f.cmd = CommandOf(n)  BY DEF Good, HeaderMatches, Request
<1>4. Len(outbox) >= 1 /\ Head(outbox) = outbox[1]
  BY PendingIsNat, EmptySeq, HeadTailProperties DEF DeviceOK
<1>5. Item(1) = Head(outbox)  BY <1>4 DEF Item
<1> QED  BY <1>2, <1>3, <1>5 DEF IsApdu, CommandOf

----------------------------------------------------------------------------
(* A process that goes on has been answered in time.                       *)

\* How far behind a process may be.
LEMMA LagBounds ==
  ASSUME WTypes, NEW p \in Proc
  PROVE  /\ Lag(p) \in Int /\ Lag(p) <= Pending
         /\ Before(p) \in Int /\ Before(p) <= Lag(p)
         /\ step[p] \in (-2)..(LastPart + 1) /\ Before(p) = Lag(p) - step[p] - 2
<1>1. Pending \in Nat  BY PendingIsNat DEF WTypes
<1>2. step[p] \in (-2)..(LastPart + 1)  BY StepsAreNumbers DEF WTypes, ProcOK
<1>3. Lag(p) \in Int /\ Lag(p) <= Pending  BY <1>1 DEF Lag
<1> HIDE DEF Lag
<1> QED  BY <1>2, <1>3, StepsAreNumbers DEF Before

\* The item that stops it stays where it is.
LEMMA LateKept ==
  ASSUME WTypes, NEW q \in Proc, Late(q), Untouched(q), NoNewApdu,
         faults' \in Nat, faults' >= faults
  PROVE  Late(q)'
<1>1. Pending \in Nat /\ faults \in Nat /\ Pending' = Pending
  BY PendingIsNat DEF WTypes, NoNewApdu
<1>2. Lag(q)' = Lag(q) /\ Before(q)' = Before(q) /\ step'[q] = step[q]
  BY <1>1 DEF Lag, Before, Untouched
<1>3. Lag(q) \in Int /\ Before(q) \in Int /\ Before(q) <= Pending
  BY <1>1, LagBounds
<1>4. ASSUME 1 <= Before(q) PROVE ~IsApdu(Before(q), q)' \/ Lag(q) < faults'
  <2>1. CASE Lag(q) < faults  BY <1>1, <1>3, <2>1
  <2>2. CASE ~IsApdu(Before(q), q)
    <3>1. PICK j \in 1..Pending : j = Before(q)  BY <1>1, <1>3, <1>4
    <3>2. ~IsApdu(j, q)'  BY <2>2, <3>1 DEF NoNewApdu
    <3> QED  BY <1>2, <3>1, <3>2 DEF IsApdu, Item
  <2> QED  BY <1>4, <2>1, <2>2 DEF Late
<1>5. ASSUME Before(q) < Pending PROVE ~IsApdu(Before(q) + 1, q)'
  <2>1. ~IsApdu(Before(q) + 1, q) /\ 0 <= Before(q)  BY <1>5 DEF Late
  <2>2. PICK j \in 1..Pending : j = Before(q) + 1  BY <1>1, <1>3, <1>5, <2>1
  <2>3. ~IsApdu(j, q)'  BY <2>1, <2>2 DEF NoNewApdu
  <2> QED  BY <1>2, <2>2, <2>3 DEF IsApdu, Item
<1> QED  BY <1>1, <1>2, <1>4, <1>5 DEF Late

\* Somebody else's step does not get in its way.
LEMMA TrackKept ==
  ASSUME WTypes, NEW q \in Proc, OnTrack(q), Untouched(q), slot' = slot,
         faults' \in Nat, faults' >= faults,
         \/ UNCHANGED <<inbox, outbox>>
         \/ \E p \in Proc \ {q} : /\ inbox' = Orphaned(inbox, p)
                                  /\ outbox' = Orphaned(outbox, p)
  PROVE  OnTrack(q)'
<1> SUFFICES ASSUME InCall(q)', result'[q] # 1
             PROVE  IF Lag(q)' = 0 THEN InTime(q)' ELSE Late(q)'
  BY DEF OnTrack
<1>1. DeviceOK /\ ProcOK /\ Pending \in Nat /\ faults \in Nat
  BY PendingIsNat DEF WTypes
<1>2. InCall(q) /\ result[q] # 1 /\ pc'[q] = pc[q] /\ step'[q] = step[q]
      /\ key'[q] = key[q]
  BY DEF InCall, Untouched
<1>3. NoNewApdu /\ Pending' = Pending
  BY <1>1, QueueKept, QueueOrphaned DEF NoNewApdu
<1>4. Lag(q)' = Lag(q) /\ Before(q)' = Before(q)
  BY <1>2, <1>3 DEF Lag, Before
<1>5. CASE Lag(q) # 0
  <2>1. Late(q)  BY <1>2, <1>5 DEF OnTrack
  <2>2. Late(q)'  BY <1>3, <2>1, LateKept
  <2> QED  BY <1>4, <1>5, <2>2
<1>6. CASE Lag(q) = 0
  <2>1. InTime(q)  BY <1>2, <1>6 DEF OnTrack
  <2>2. CASE UNCHANGED <<inbox, outbox>>
    <3>1. InTime(q)'  BY <1>2, <2>1, <2>2 DEF InTime, Request
    <3> QED  BY <1>4, <1>6, <3>1
  <2>3. ASSUME NEW p \in Proc \ {q},
               inbox' = Orphaned(inbox, p), outbox' = Orphaned(outbox, p)
        PROVE  InTime(q)'
    <3>1. Len(inbox') = Len(inbox) /\ Len(outbox') = Len(outbox)
      BY <1>1, <2>3, OrphansTypes DEF DeviceOK
    <3>2. \A n \in Step : Request(q, n)' = Request(q, n)
      BY <1>2 DEF Request
    <3>3. step[q] \in Step /\ key[q] \in Key
      BY <1>1, <1>2 DEF ProcOK, InCall
    <3>4. Request(q, step[q]) \in Requests /\ Request(q, step[q]).chan = q
      BY <3>3, RequestIsOne
    <3>5. ASSUME pc[q] = "receive", Len(inbox) = 1
          PROVE  inbox'[1] = Request(q, step[q])
      <4>1. inbox[1] = Request(q, step[q])  BY <2>1, <3>5 DEF InTime
      <4> QED  BY <1>1, <2>3, <3>4, <3>5, <4>1, OrphansItems
    <3>6. ASSUME pc[q] = "receive", Len(inbox) = 0, step[q] \in Part,
                 slot[step[q]] # key[q]
          PROVE  outbox'[1] \in {Refusal(Request(q, step[q])),
                                 ErrorFrame(Request(q, step[q]))}
      <4>1. outbox[1] \in {Refusal(Request(q, step[q])),
                           ErrorFrame(Request(q, step[q]))}
        BY <2>1, <3>6 DEF InTime
      <4>2. outbox[1].chan = q  BY <3>4, <4>1, AnswerIsOne
      <4>3. Len(outbox) = 1
        BY <1>1, <1>6, <3>6, PendingIsNat DEF Lag, Pending
      <4>4. outbox'[1] = outbox[1]
        BY <1>1, <2>3, <4>2, <4>3, OrphansItems
      <4> QED  BY <4>1, <4>4
    <3>7. Request(q, step[q])' = Request(q, step[q])
      BY <1>2 DEF Request
    <3> QED
      BY <1>2, <2>1, <3>1, <3>5, <3>6, <3>7 DEF InTime, Refusal, ErrorFrame, Frame
  <2> QED  BY <1>4, <1>6, <2>2, <2>3
<1> QED  BY <1>5, <1>6

\* It begins behind what it left itself, which no APDU's answer ends.
LEMMA TrackOpen ==
  ASSUME WTypes, NEW p \in Proc, Ended(p), Open(p)
  PROVE  OnTrack(p)'
<1>1. ProcOK /\ DeviceOK /\ Pending \in Nat /\ faults \in Nat
  BY PendingIsNat DEF WTypes
<1>2. pc[p] = "open" /\ pc'[p] = "send" /\ step'[p] = Lock /\ faults' = faults
  BY <1>1 DEF Open, Goto, ProcOK
<1>3. Pending' = Pending /\ IsApdu(Pending, p)' = IsApdu(Pending, p)
  BY DEF Open, deviceVars, Pending, IsApdu, Item
<1>4. Lag(p)' = Pending  BY <1>2, <1>3 DEF Lag
<1>5. Before(p)' = Pending  BY <1>1, <1>2, <1>4, StepsAreNumbers DEF Before
<1>6. CASE Pending = 0
  <2>1. InTime(p)'
    BY <1>2, StepsAreNumbers DEF InTime, Part
  <2> QED  BY <1>4, <1>6, <2>1 DEF OnTrack
<1>7. CASE Pending # 0
  <2>1. ~IsApdu(Pending, p) \/ Pending < faults
    BY <1>1, <1>2, <1>7 DEF Ended, Owes
  <2>2. ~IsApdu(Before(p), p)' \/ Pending < faults'
    BY <1>2, <1>3, <1>5, <2>1 DEF IsApdu, Item
  <2>3. step'[p] <= LastPart  BY <1>2, StepsAreNumbers
  <2>4. Late(p)'  BY <1>1, <1>3, <1>4, <1>5, <2>2, <2>3 DEF Late
  <2> QED  BY <1>4, <1>7, <2>4 DEF OnTrack
<1> QED  BY <1>6, <1>7

\* It sends a request: that lags behind as far as it did itself.
LEMMA TrackSend ==
  ASSUME WTypes, NEW p \in Proc, OnTrack(p), Send(p)
  PROVE  OnTrack(p)'
<1>1. ProcOK /\ DeviceOK /\ Pending \in Nat /\ faults \in Nat
  BY PendingIsNat DEF WTypes
<1>2. /\ pc[p] = "send" /\ pc'[p] = "receive" /\ step' = step /\ key' = key
      /\ result' = result /\ faults' = faults /\ slot' = slot
  BY <1>1 DEF Send, Goto, ProcOK
<1> DEFINE r == Request(p, step[p])
<1>3. r \in Requests /\ r.chan = p /\ r.cmd = CommandOf(step[p])
  BY <1>1, <1>2, RequestIsOne DEF ProcOK
<1>4. Sent(r)  BY <1>1, <1>3, QueueSent DEF Send
<1>5. Request(p, step[p])' = r  BY <1>2 DEF Request
<1> HIDE DEF r
<1>6. Pending' = Pending + 1  BY <1>4 DEF Sent
<1>7. Lag(p) = Pending /\ Lag(p)' = Pending /\ Before(p)' = Before(p)
  BY <1>1, <1>2, <1>6 DEF Lag, Before
<1> SUFFICES ASSUME result[p] # 1  PROVE OnTrack(p)'
  BY <1>2 DEF OnTrack
<1>8. CASE Pending = 0
  <2>1. InTime(p)  BY <1>2, <1>7, <1>8 DEF OnTrack, InCall
  <2>2. Len(inbox) = 0  BY <1>1, <1>8, PendingIsNat DEF Pending
  <2>3. Len(inbox') = 1 /\ inbox'[1] = r
    BY <1>1, <1>3, <2>2, AppendProperties DEF Send, DeviceOK, r
  <2>4. InTime(p)'  BY <1>2, <1>5, <2>1, <2>3 DEF InTime
  <2> QED  BY <1>7, <1>8, <2>4 DEF OnTrack
<1>9. CASE Pending # 0
  <2>1. Late(p)  BY <1>2, <1>7, <1>9 DEF OnTrack, InCall
  <2>2. /\ Before(p) \in Int /\ 0 <= Before(p) /\ Before(p) <= Pending
        /\ step[p] \in Int /\ Before(p) = Pending - step[p] - 2
    BY <1>1, <1>7, <2>1, LagBounds DEF Late
  <2>3. ASSUME NEW j \in 1..Pending  PROVE IsApdu(j, p)' <=> IsApdu(j, p)
    BY <1>4 DEF Sent
  <2>4. ASSUME 1 <= Before(p)  PROVE ~IsApdu(Before(p), p)' \/ Pending < faults'
    <3>1. PICK j \in 1..Pending : j = Before(p)  BY <1>1, <2>2, <2>4
    <3>2. ~IsApdu(j, p) \/ Pending < faults
      BY <1>7, <2>1, <2>4, <3>1 DEF Late
    <3>3. ~IsApdu(j, p)' \/ Pending < faults  BY <2>3, <3>2
    <3> QED  BY <1>2, <1>7, <3>1, <3>3 DEF IsApdu, Item
  <2>5. ~IsApdu(Before(p) + 1, p)'
    <3>1. CASE Before(p) < Pending
      <4>1. PICK j \in 1..Pending : j = Before(p) + 1  BY <1>1, <2>2, <3>1
      <4>2. ~IsApdu(j, p)  BY <2>1, <3>1, <4>1 DEF Late
      <4>3. ~IsApdu(j, p)'  BY <2>3, <4>2
      <4> QED  BY <1>7, <4>1, <4>3 DEF IsApdu, Item
    <3>2. CASE Before(p) = Pending
      <4>1. step[p] = Lock  BY <1>1, <2>2, <3>2, StepsAreNumbers
      <4>2. r.cmd # "APDU"  BY <1>3, <4>1 DEF CommandOf
      <4>3. PICK n \in {Pending'} : n = Before(p) + 1  BY <1>6, <3>2
      <4>4. ~IsApdu(n, p)'  BY <1>4, <4>2, <4>3 DEF Sent, IsApdu, Item
      <4> QED  BY <1>7, <4>3, <4>4 DEF IsApdu, Item
    <3> QED  BY <1>1, <2>2, <3>1, <3>2
  <2>6. Late(p)'  BY <1>2, <1>7, <2>1, <2>2, <2>4, <2>5 DEF Late
  <2> QED  BY <1>7, <1>9, <2>6 DEF OnTrack
<1> QED  BY <1>8, <1>9
\* It takes an answer for a good one, and was right: a lagging one stops it.
LEMMA TrackReceive ==
  ASSUME WTypes, Counted, NEW p \in Proc, Claimed(p), OnTrack(p), Receive(p),
         faults' < Exchanges, faults' \in Nat, faults' >= faults
  PROVE  OnTrack(p)'
<1> SUFFICES ASSUME InCall(p)', result'[p] # 1
             PROVE  IF Lag(p)' = 0 THEN InTime(p)' ELSE Late(p)'
  BY DEF OnTrack
<1>1. ProcOK /\ DeviceOK /\ Pending \in Nat /\ faults \in Nat
  BY PendingIsNat DEF WTypes
<1>2. /\ pc[p] = "receive" /\ outbox # << >> /\ outbox' = Tail(outbox)
      /\ inbox' = inbox /\ slot' = slot /\ key' = key
  BY DEF Receive
<1>3. PICK f \in {Head(outbox)} \cup Torsos(Head(outbox)) :
        \/ Good(f, Request(p, step[p])) /\ Proceed(p)
        \/ ~Good(f, Request(p, step[p])) /\ Fail(p)
  BY DEF Receive
<1>4. step[p] # Unlock /\ ~Fail(p) /\ Good(f, Request(p, step[p]))
  <2>1. step[p] # Unlock
    BY <1>1, <1>3, FailEffect DEF InCall
  <2>2. ~Fail(p)  BY <1>1, <2>1 DEF Fail, ProcOK
  <2> QED  BY <1>3, <2>1, <2>2
<1>5. pc'[p] = "send" /\ step'[p] = step[p] + 1
  BY <1>1, <1>3, <1>4, FailEffect
<1>6. Taken /\ Item(1) = Head(outbox)  BY <1>1, <1>2, QueueTaken
<1>7. Pending' = Pending - 1 /\ Pending >= 1  BY <1>6 DEF Taken
<1>8. /\ step[p] \in (-2)..(LastPart + 1) /\ Lag(p) = Pending - 1
      /\ Lag(p)' = Lag(p) /\ Before(p) = Lag(p) - step[p] - 2
      /\ Before(p)' = Before(p) - 1
  <2>1. step[p] \in (-2)..(LastPart + 1) /\ Before(p) = Lag(p) - step[p] - 2
    BY LagBounds
  <2>2. Lag(p) = Pending - 1  BY <1>2 DEF Lag
  <2>3. Lag(p)' = Pending - 1  BY <1>5, <1>7 DEF Lag
  <2>4. Before(p)' = Lag(p)' - (step'[p] - Lock)  BY DEF Before
  <2>5. Before(p)' = Before(p) - 1
    BY <1>1, <1>5, <2>1, <2>2, <2>3, <2>4, StepsAreNumbers
  <2> QED  BY <2>1, <2>2, <2>3, <2>5
<1>9. InCall(p) /\ result[p] # 1  BY <1>2, <1>4 DEF InCall, Claimed
<1>10. CASE Lag(p) = 0
  <2>1. InTime(p)  BY <1>9, <1>10 DEF OnTrack
  <2>2. Len(inbox) = 0 /\ Head(outbox) = outbox[1]
    <3>1. Len(outbox) >= 1 /\ Head(outbox) = outbox[1]
      BY <1>1, <1>2, EmptySeq, HeadTailProperties, PendingIsNat DEF DeviceOK
    <3> QED  BY <1>1, <1>8, <1>10, <3>1, PendingIsNat DEF Pending
  <2>3. ASSUME step[p] \in Part  PROVE slot[step[p]] = key[p]
    <3> DEFINE r == Request(p, step[p])
    <3>1. r \in Requests /\ r.cmd = "APDU"
      <4>1. key[p] \in Key /\ step[p] \in Step
        BY <1>1, <1>2 DEF ProcOK
      <4>2. step[p] \notin {Lock, Unlock}  BY <2>3, StepsAreNumbers DEF Part
      <4> QED  BY <4>1, <4>2, RequestIsOne DEF CommandOf
    <3>2. outbox[1] \notin {Refusal(r), ErrorFrame(r)}
      BY <1>3, <1>4, <2>2, <3>1, RefusalIsSeen
    <3> QED  BY <1>2, <2>1, <2>2, <2>3, <3>2 DEF InTime
  <2>4. \A k \in Part : k < step'[p] => slot'[k] = key'[p]
    <3> TAKE k \in Part
    <3>1. k \in Int  BY StepsAreNumbers DEF Part
    <3> QED  BY <1>2, <1>5, <1>8, <2>1, <2>3, <3>1 DEF InTime
  <2>5. InTime(p)'  BY <1>5, <2>4 DEF InTime
  <2> QED  BY <1>8, <1>10, <2>5
<1>11. CASE Lag(p) # 0
  <2>1. Late(p)  BY <1>9, <1>11 DEF OnTrack
  <2>2. 0 <= Before(p) /\ step[p] <= LastPart /\ Lag(p) >= 1 /\ Before(p) \in Int
    BY <1>1, <1>7, <1>8, <1>11, <2>1, LagBounds DEF Late
  <2>3. step[p] \in Step /\ LastPart \in Nat /\ Exchanges = LastPart + 4
        /\ Lock = -2 /\ Unlock = LastPart + 1
    BY <1>8, StepsAreNumbers
  <2>4. step[p] # Lock => IsApdu(1, p)
    BY <1>1, <1>2, <1>3, <1>4, <2>3, GoodHeader
  <2>5. Before(p) >= 1
    <3>1. CASE Before(p) = 0
      <4>1. step[p] # Lock  BY <1>1, <1>8, <2>2, <2>3, <3>1
      <4>2. ~IsApdu(Before(p) + 1, p)  BY <1>1, <1>7, <2>1, <3>1 DEF Late
      <4>3. ~IsApdu(1, p)  BY <3>1, <4>2
      <4> QED  BY <2>4, <4>1, <4>3
    <3> QED  BY <2>2, <3>1
  <2>6. step[p] # LastPart
    <3> SUFFICES ASSUME step[p] = LastPart  PROVE FALSE  OBVIOUS
    <3>1. Lag(p) <= faults  BY <1>2, <1>8 DEF Counted
    <3>2. Before(p) = 1 /\ ~(Lag(p) < faults)
      BY <1>1, <1>8, <2>2, <2>3, <2>5, <3>1
    <3>3. ~IsApdu(1, p)
      <4>1. ~IsApdu(Before(p), p)  BY <2>1, <3>2 DEF Late
      <4> QED  BY <3>2, <4>1
    <3>4. step[p] # Lock  BY <2>3
    <3> QED  BY <2>4, <3>3, <3>4
  <2>7. /\ 0 <= Before(p)' /\ step'[p] <= LastPart
        /\ Before(p) - 1 \in Int /\ Before(p) <= Pending - 1
    BY <1>1, <1>5, <1>8, <2>2, <2>3, <2>5, <2>6
  <2>8. ASSUME NEW j \in 1..(Pending - 1)  PROVE IsApdu(j, p)' <=> IsApdu(j + 1, p)
    BY <1>6 DEF Taken
  <2>9. ASSUME 1 <= Before(p)'
        PROVE  ~IsApdu(Before(p), p)' \/ Lag(p)' < faults'
    <3>1. CASE Lag(p) < faults  BY <1>1, <1>8, <3>1
    <3>2. CASE ~IsApdu(Before(p), p)
      <4>1. PICK j \in 1..(Pending - 1) : j = Before(p) - 1
        BY <1>1, <1>8, <2>7, <2>9
      <4>2. j + 1 = Before(p)  BY <2>2, <4>1
      <4>3. ~IsApdu(j, p)'  BY <2>8, <3>2, <4>2
      <4>4. Before(p)' = j  BY <1>8, <4>1
      <4> QED  BY <4>3, <4>4 DEF IsApdu, Item
    <3> QED  BY <2>1, <2>5, <3>1, <3>2 DEF Late
  <2>10. ~IsApdu(Before(p) + 1, p)'
    <3>1. PICK j \in 1..(Pending - 1) : j = Before(p)
      BY <1>1, <2>2, <2>5, <2>7
    <3>2. ~IsApdu(j + 1, p)
      <4>1. Before(p) < Pending  BY <1>1, <2>2, <2>7
      <4> QED  BY <2>1, <3>1, <4>1 DEF Late
    <3>3. ~IsApdu(j, p)'  BY <2>8, <3>2
    <3>4. Before(p)' + 1 = j  BY <1>8, <2>2, <3>1
    <3> QED  BY <3>3, <3>4 DEF IsApdu, Item
  <2>11. Late(p)'  BY <2>7, <2>9, <2>10 DEF Late
  <2> QED  BY <1>8, <1>11, <2>11
<1> QED  BY <1>10, <1>11
\* Whatever it does, a process goes on only if it was answered in time.
LEMMA TrackActs ==
  ASSUME WTypes, Counted, NEW p \in Proc, Claimed(p), Ended(p), OnTrack(p),
         Call(p) \/ Work(p) \/ End(p), faults' < Exchanges
  PROVE  OnTrack(p)'
<1>1. ProcOK /\ DeviceOK /\ faults' \in Nat /\ faults' >= faults
  BY FaultsGrow DEF WTypes
<1>2. CASE Call(p) \/ DupFails(p) \/ OpenFails(p) \/ UseClosedHandle(p)
           \/ Return(p) \/ End(p)
  BY <1>1, <1>2 DEF Call, DupFails, OpenFails, UseClosedHandle, Return, End,
     Goto, ProcOK, OnTrack, InCall
<1>3. CASE MisfitFails(p) \/ SendFails(p) \/ ReceiveFails(p)
  <2>1. Fail(p)  BY <1>3 DEF MisfitFails, SendFails, ReceiveFails
  <2>2. pc'[p] = "done" \/ result'[p] = 1
    BY <1>1, <2>1 DEF Fail, Goto, ProcOK
  <2> QED  BY <2>2 DEF OnTrack, InCall
<1>4. CASE Open(p)  BY <1>4, TrackOpen
<1>5. CASE Send(p)  BY <1>5, TrackSend
<1>6. CASE Receive(p)  BY <1>1, <1>6, TrackReceive
<1> QED  BY <1>2, <1>3, <1>4, <1>5, <1>6 DEF Work

\* Another process goes on as before.
LEMMA TrackOthers ==
  ASSUME WTypes, \A r \in Proc : Claimed(r), NEW p \in Proc,
         Call(p) \/ Work(p) \/ End(p), NEW q \in Proc \ {p}, OnTrack(q)
  PROVE  OnTrack(q)'
<1>1. /\ ProcOK /\ DeviceOK /\ faults' \in Nat /\ faults' >= faults
      /\ Untouched(q)
  BY FaultsGrow, OthersUntouched DEF WTypes
<1> SUFFICES ASSUME InCall(q)'  PROVE OnTrack(q)'  BY DEF OnTrack
<1>2. InCall(q)  BY <1>1 DEF InCall, Untouched
<1>3. ~InCall(p)  BY <1>2, OneCaller
<1>4. CASE End(p)
  BY <1>1, <1>4, TrackKept DEF End
<1>5. CASE Call(p) \/ Work(p)
  <2>1. Quietly(p)
    BY <1>1, <1>3, <1>5, Effects DEF InCall, Send, Receive, ReceiveFails
  <2> QED  BY <1>1, <2>1, TrackKept DEF Quietly
<1> QED  BY <1>4, <1>5

\* What is agreed to in time is carried out.
LEMMA TrackAnswered ==
  ASSUME WTypes, DeviceAnswers, NEW q \in Proc, OnTrack(q)
  PROVE  OnTrack(q)'
<1> SUFFICES ASSUME InCall(q)', result'[q] # 1
             PROVE  IF Lag(q)' = 0 THEN InTime(q)' ELSE Late(q)'
  BY DEF OnTrack
<1> DEFINE r == Head(inbox)
<1>1. /\ ProcOK /\ DeviceOK /\ Pending \in Nat /\ faults \in Nat
      /\ Len(inbox) \in Nat /\ Len(outbox) \in Nat
  BY PendingIsNat DEF WTypes
<1>2. /\ UNCHANGED <<procVars, faults>>
      /\ inbox # << >> /\ inbox' = Tail(inbox)
  BY DEF DeviceAnswers
<1>3. PICK a \in {Agreement(r), Refusal(r), ErrorFrame(r)} :
        /\ outbox' = Append(outbox, a)
        /\ \/ Carry(r)
           \/ a \in {Refusal(r), ErrorFrame(r)} /\ slot' = slot
  BY DEF DeviceAnswers
<1>4. NoNewApdu  BY <1>1, <1>2, <1>3, QueueAnswered
<1>5. Untouched(q) /\ InCall(q) /\ result[q] # 1
  BY <1>2 DEF Untouched, procVars, InCall
<1>6. Lag(q)' = Lag(q)
  BY <1>4, <1>5 DEF Lag, NoNewApdu, Untouched
<1>7. CASE Lag(q) # 0
  <2>1. Late(q)  BY <1>5, <1>7 DEF OnTrack
  <2>2. Late(q)'  BY <1>1, <1>2, <1>4, <1>5, <2>1, LateKept
  <2> QED  BY <1>6, <1>7, <2>2
<1>8. CASE Lag(q) = 0
  <2>1. InTime(q)  BY <1>5, <1>8 DEF OnTrack
  <2>2. /\ Len(inbox) >= 1 /\ Len(inbox') = Len(inbox) - 1
        /\ r = inbox[1] /\ r \in Requests
    BY <1>1, <1>2, HeadTailProperties, EmptySeq DEF DeviceOK
  <2>3. pc[q] = "receive" /\ Len(inbox) = 1 /\ Len(outbox) = 0
    <3>1. Pending = Len(outbox) + Len(inbox)  BY DEF Pending
    <3>2. pc[q] = "receive"  BY <1>1, <1>8, <2>2, <3>1 DEF Lag
    <3>3. Pending = 1  BY <1>1, <1>8, <3>2 DEF Lag
    <3> QED  BY <1>1, <2>2, <3>1, <3>2, <3>3
  <2>4. r = Request(q, step[q])  BY <2>1, <2>2, <2>3 DEF InTime
  <2>5. a \in Answers  BY <1>3, <2>2, AnswerIsOne
  <2>6. outbox'[1] = a
    BY <1>1, <1>3, <2>3, <2>5, AppendProperties DEF DeviceOK
  <2>7. r.step = step[q] /\ r.key = key[q]  BY <2>4 DEF Request
  <2>8. slot \in [Part -> Key \cup {None}]  BY <1>1 DEF DeviceOK
  <2> HIDE DEF r
  <2>9. \A k \in Part : slot'[k] = slot[k] \/ slot'[k] = key[q]
    BY <1>3, <2>7, <2>8 DEF Carry
  <2>10. \A k \in Part : k < step[q] => slot'[k] = key[q]
    BY <2>1, <2>9 DEF InTime
  <2>11. step[q] \in Part =>
           \/ slot'[step[q]] = key[q]
           \/ outbox'[1] \in {Refusal(r), ErrorFrame(r)}
    BY <1>3, <2>6, <2>7, <2>8 DEF Carry
  <2>12. Request(q, step[q])' = r
    BY <1>5, <2>4 DEF Request, Untouched
  <2>13. Len(inbox') = 0  BY <2>2, <2>3
  <2>14. InTime(q)'
    BY <1>5, <2>10, <2>11, <2>12, <2>13 DEF InTime, Untouched, Refusal, ErrorFrame, Frame
  <2> QED  BY <1>6, <1>8, <2>14
<1> QED  BY <1>7, <1>8
----------------------------------------------------------------------------
(* What was written.                                                       *)

\* A process that has come to its unlock request in good order wrote its key.
LEMMA AtUnlock ==
  ASSUME WTypes, NEW p \in Proc, OnTrack(p), InCall(p),
         step[p] = Unlock, result[p] = 0
  PROVE  /\ \A k \in Part : slot[k] = key[p]
         /\ \A i \in DOMAIN inbox : inbox[i].step \notin Part
<1>1. /\ DeviceOK /\ Pending \in Nat /\ Len(inbox) \in Nat /\ Len(outbox) \in Nat
      /\ DOMAIN inbox = 1..Len(inbox) /\ Pending = Len(outbox) + Len(inbox)
  BY PendingIsNat DEF WTypes, Pending
<1>2. Lag(p) = 0 /\ InTime(p)
  <2>1. ~Late(p)  BY StepsAreNumbers DEF Late
  <2> QED  BY <2>1 DEF OnTrack
<1>3. \A k \in Part : slot[k] = key[p]
  <2> TAKE k \in Part
  <2>1. k < step[p]  BY StepsAreNumbers DEF Part
  <2> QED  BY <1>2, <2>1 DEF InTime
<1>4. ASSUME NEW i \in DOMAIN inbox  PROVE inbox[i].step \notin Part
  <2>1. pc[p] = "receive" /\ Len(inbox) = 1 /\ i = 1
    BY <1>1, <1>2 DEF Lag, InCall
  <2>2. inbox[1].step = Unlock  BY <1>2, <2>1 DEF InTime, Request
  <2> QED  BY <2>1, <2>2, StepsAreNumbers DEF Part
<1> QED  BY <1>3, <1>4

\* When it returns 0, it has.
LEMMA WrittenActs ==
  ASSUME WTypes, NEW p \in Proc, Claimed(p), OnTrack(p),
         Call(p) \/ Work(p) \/ End(p)
  PROVE  Written(p)'
<1> SUFFICES ASSUME pc'[p] = "done", result'[p] = 0
             PROVE  /\ \A k \in Part : slot'[k] = key'[p]
                    /\ \A i \in DOMAIN inbox' : inbox'[i].step \notin Part
  BY DEF Written
<1>1. ProcOK  BY DEF WTypes
<1>2. CASE Call(p) \/ DupFails(p) \/ Open(p) \/ OpenFails(p) \/ UseClosedHandle(p)
           \/ Send(p) \/ Return(p) \/ End(p)
  BY <1>1, <1>2 DEF Call, DupFails, Open, OpenFails, UseClosedHandle, Send, Return,
     End, Goto, ProcOK, Claimed
<1>3. CASE MisfitFails(p) \/ SendFails(p) \/ Receive(p) \/ ReceiveFails(p)
  <2>1. /\ InCall(p) /\ UNCHANGED <<key, inbox, slot>>
        /\ Fail(p) \/ Proceed(p)
    BY <1>3 DEF MisfitFails, SendFails, Receive, ReceiveFails, InCall, deviceVars
  <2>2. step[p] = Unlock /\ result[p] = 0
    BY <1>1, <2>1, FailEffect
  <2> QED  BY <2>1, <2>2, AtUnlock
<1> QED  BY <1>2, <1>3 DEF Work

\* Nobody writes over it while its claim stands.
LEMMA WrittenOthers ==
  ASSUME WTypes, \A r \in Proc : Claimed(r), NEW p \in Proc,
         Call(p) \/ Work(p) \/ End(p), NEW q \in Proc \ {p}, Written(q)
  PROVE  Written(q)'
<1>1. ProcOK /\ DeviceOK /\ Untouched(q)
  BY OthersUntouched DEF WTypes
<1> SUFFICES ASSUME pc[q] = "done", result[q] = 0
             PROVE  /\ \A k \in Part : slot'[k] = key'[q]
                    /\ \A i \in DOMAIN inbox' : inbox'[i].step \notin Part
  BY <1>1 DEF Written, Untouched
<1>2. key'[q] = key[q] /\ (\A k \in Part : slot[k] = key[q])
      /\ \A i \in DOMAIN inbox : inbox[i].step \notin Part
  BY <1>1 DEF Written, Untouched
<1>3. ~InCall(p)  BY OneCaller
<1>4. CASE End(p)
  <2>1. slot' = slot /\ inbox' = Orphaned(inbox, p)  BY <1>4 DEF End
  <2>2. DOMAIN inbox' = DOMAIN inbox  BY <2>1 DEF Orphaned
  <2>3. \A i \in DOMAIN inbox : inbox'[i].step = inbox[i].step
    BY <1>1, <2>1, OrphansItems, PendingIsNat
  <2> QED  BY <1>2, <2>1, <2>2, <2>3
<1>5. CASE Call(p) \/ Work(p)
  <2>1. Quietly(p)
    BY <1>1, <1>3, <1>5, Effects DEF InCall, Send, Receive, ReceiveFails
  <2> QED  BY <1>2, <2>1 DEF Quietly
<1> QED  BY <1>4, <1>5

\* The device has nothing left to write over it with.
LEMMA WrittenAnswered ==
  ASSUME WTypes, DeviceAnswers, NEW q \in Proc, Written(q)
  PROVE  Written(q)'
<1> SUFFICES ASSUME pc[q] = "done", result[q] = 0
             PROVE  /\ \A k \in Part : slot'[k] = key'[q]
                    /\ \A i \in DOMAIN inbox' : inbox'[i].step \notin Part
  BY DEF Written, DeviceAnswers, procVars
<1>1. /\ key' = key /\ (\A k \in Part : slot[k] = key[q])
      /\ \A i \in DOMAIN inbox : inbox[i].step \notin Part
  BY DEF Written, DeviceAnswers, procVars
<1>2. /\ DeviceOK /\ inbox # << >> /\ inbox' = Tail(inbox)
      /\ Len(inbox) \in Nat /\ DOMAIN inbox = 1..Len(inbox)
  BY PendingIsNat DEF WTypes, DeviceAnswers
<1>3. /\ Len(inbox) >= 1 /\ Head(inbox) = inbox[1]
      /\ DOMAIN inbox' = 1..(Len(inbox) - 1)
      /\ \A i \in 1..(Len(inbox) - 1) : inbox'[i] = inbox[i + 1]
  BY <1>2, HeadTailProperties, EmptySeq, LenProperties DEF DeviceOK
<1>4. Head(inbox).step \notin Part  BY <1>1, <1>2, <1>3
<1>5. slot' = slot  BY <1>4 DEF DeviceAnswers, Carry
<1>6. ASSUME NEW i \in DOMAIN inbox'  PROVE inbox'[i].step \notin Part
  <2>1. i + 1 \in DOMAIN inbox /\ inbox'[i] = inbox[i + 1]
    BY <1>2, <1>3
  <2> QED  BY <1>1, <2>1
<1> QED  BY <1>1, <1>5, <1>6
----------------------------------------------------------------------------
(* The lock.                                                               *)

\* What is on its way for a process stays there.
LEMMA UnlocksKept ==
  ASSUME NEW q \in Proc, Unlocks(q), locked' = q => locked = q,
         DOMAIN inbox' = DOMAIN inbox,
         \A j \in DOMAIN inbox, n \in {Lock, Unlock} :
           (inbox'[j].chan = q /\ inbox'[j].step = n) <=> IsOf(j, q, n)
  PROVE  Unlocks(q)'
  BY DEF Unlocks, IsOf

\* A process that sends its unlock request owes nothing more.
LEMMA UnlocksSent ==
  ASSUME WTypes, NEW p \in Proc, Send(p), step[p] = Unlock
  PROVE  Unlocks(p)'
<1>1. ProcOK /\ DeviceOK /\ Len(inbox) \in Nat  BY PendingIsNat DEF WTypes
<1>2. /\ Request(p, Unlock) \in Requests
      /\ Request(p, Unlock).chan = p /\ Request(p, Unlock).step = Unlock
  BY <1>1, RequestIsOne, StepsAreNumbers DEF Send, ProcOK
<1>3. /\ inbox' \in Seq(Requests) /\ Len(inbox') = Len(inbox) + 1
      /\ inbox'[Len(inbox) + 1] = Request(p, Unlock)
  BY <1>1, <1>2, AppendProperties DEF Send, DeviceOK
<1>4. DOMAIN inbox' = 1..(Len(inbox) + 1)  BY <1>1, <1>3, LenProperties
<1> DEFINE last == Len(inbox) + 1
<1>5. last \in DOMAIN inbox' /\ inbox'[last].chan = p /\ inbox'[last].step = Unlock
  BY <1>1, <1>2, <1>3, <1>4
<1>6. ASSUME NEW i \in DOMAIN inbox', inbox'[i].step = Lock
      PROVE  i < last
  BY <1>1, <1>4, <1>5, <1>6, StepsAreNumbers
<1> HIDE DEF last
<1> QED  BY <1>5, <1>6 DEF Unlocks, IsOf

\* A step of another process, or of one that owes nothing.
LEMMA UnlocksStep ==
  ASSUME WTypes, ~UnlockLost, NEW p \in Proc, Call(p) \/ Work(p) \/ End(p),
         NEW q \in Proc, ~Owes(q) => Unlocks(q)
  PROVE  ~Owes(q)' => Unlocks(q)'
<1>1. ProcOK /\ DeviceOK /\ DOMAIN inbox = 1..Len(inbox) /\ Len(inbox) \in Nat
  BY PendingIsNat DEF WTypes
<1>2. q # p => (Owes(q)' <=> Owes(q))
  BY <1>1, OthersUntouched DEF Untouched, Owes
<1> SUFFICES ASSUME ~Owes(q)'  PROVE Unlocks(q)'  OBVIOUS
<1>3. CASE End(p)
  <2>1. Gone # q  BY GnubbyWriteAssumption
  <2>2. inbox' = Orphaned(inbox, p) /\ locked' = (IF locked = p THEN Gone ELSE locked)
    BY <1>3 DEF End
  <2>3. DOMAIN inbox' = DOMAIN inbox  BY <2>2 DEF Orphaned
  <2>4. \A i \in DOMAIN inbox :
          /\ inbox'[i].step = inbox[i].step
          /\ inbox[i].chan = p => inbox'[i].chan = Gone
          /\ inbox[i].chan # p => inbox'[i] = inbox[i]
    BY <1>1, <2>2, OrphansItems
  <2>5. CASE q = p
    BY <2>1, <2>2, <2>3, <2>4, <2>5 DEF Unlocks, IsOf
  <2>6. CASE q # p
    <3>1. Unlocks(q)  BY <1>2, <2>6
    <3>2. \A j \in DOMAIN inbox, n \in {Lock, Unlock} :
            (inbox'[j].chan = q /\ inbox'[j].step = n) <=> IsOf(j, q, n)
      BY <2>1, <2>4, <2>6 DEF IsOf
    <3>3. locked' = q => locked = q  BY <2>1, <2>2
    <3> QED  BY <2>3, <3>1, <3>2, <3>3, UnlocksKept
  <2> QED  BY <2>5, <2>6
<1>4. CASE Send(p)
  <2>1. pc[p] = "send" /\ pc'[p] = "receive" /\ step'[p] = step[p]
    BY <1>1, <1>4 DEF Send, Goto, ProcOK
  <2>2. CASE q = p
    <3>1. step[p] = Unlock  BY <2>1, <2>2 DEF Owes
    <3> QED  BY <1>4, <2>2, <3>1, UnlocksSent
  <2>3. CASE q # p
    <3>1. Request(p, step[p]) \in Requests /\ Request(p, step[p]).chan = p
      BY <1>1, <2>1, RequestIsOne DEF ProcOK
    <3>2. /\ inbox' \in Seq(Requests) /\ Len(inbox') = Len(inbox) + 1
          /\ \A i \in 1..Len(inbox) : inbox'[i] = inbox[i]
          /\ inbox'[Len(inbox) + 1] = Request(p, step[p]) /\ locked' = locked
      BY <1>1, <1>4, <3>1, AppendProperties DEF Send, DeviceOK
    <3>3. DOMAIN inbox' = 1..(Len(inbox) + 1)  BY <1>1, <3>2, LenProperties
    <3>4. ASSUME NEW i \in DOMAIN inbox', inbox'[i].chan = q
          PROVE  i \in DOMAIN inbox
      BY <1>1, <2>3, <3>1, <3>2, <3>3, <3>4
    <3>5. \A i \in DOMAIN inbox : i \in DOMAIN inbox' /\ inbox'[i] = inbox[i]
      BY <1>1, <3>2, <3>3
    <3>6. Unlocks(q)  BY <1>2, <2>3
    <3> QED  BY <3>2, <3>4, <3>5, <3>6 DEF Unlocks, IsOf
  <2> QED  BY <2>2, <2>3
<1>5. CASE (Call(p) \/ Work(p)) /\ ~Send(p)
  <2>1. inbox' = inbox /\ locked' = locked
    BY <1>5 DEF Call, Work, DupFails, Open, OpenFails, UseClosedHandle,
       MisfitFails, SendFails, Receive, ReceiveFails, Return, deviceVars
  <2>2. ~Owes(q)
    <3> SUFFICES ASSUME q = p, Owes(p)  PROVE FALSE  BY <1>2
    <3>1. pc[p] \in {"send", "receive"} /\ ~(pc[p] = "receive" /\ step[p] = Unlock)
      BY DEF Owes
    <3>2. CASE Call(p) \/ DupFails(p) \/ Open(p) \/ OpenFails(p)
               \/ UseClosedHandle(p) \/ Return(p)
      BY <3>1, <3>2 DEF Call, DupFails, Open, OpenFails, UseClosedHandle, Return
    <3>3. CASE MisfitFails(p) \/ SendFails(p)
      <4>1. step[p] # Unlock
        <5>1. Unlock \notin Part  BY StepsAreNumbers DEF Part
        <5>2. key[p] \in Key  BY <1>1, <3>3 DEF MisfitFails, SendFails, ProcOK
        <5>3. Misfit[key[p]] \subseteq Part  BY <5>2, GnubbyWriteAssumption
        <5> QED  BY <3>3, <5>1, <5>3 DEF MisfitFails, SendFails
      <4>2. Fail(p)  BY <3>3 DEF MisfitFails, SendFails
      <4>3. pc'[p] = "send"  BY <1>1, <4>1, <4>2, FailEffect
      <4> QED  BY <4>3 DEF Owes
    <3>4. CASE Receive(p) \/ ReceiveFails(p)
      <4>1. pc[p] = "receive" /\ (Fail(p) \/ Proceed(p))
        BY <3>4 DEF Receive, ReceiveFails
      <4>2. pc'[p] = "send"  BY <1>1, <3>1, <4>1, FailEffect
      <4> QED  BY <4>2 DEF Owes
    <3> QED  BY <1>5, <3>2, <3>3, <3>4 DEF Work
  <2>3. Unlocks(q)  BY <2>2
  <2> QED  BY <2>1, <2>3 DEF Unlocks, IsOf
<1> QED  BY <1>3, <1>4, <1>5

\* The device takes a request: an unlock request is behind it or it is one.
LEMMA UnlocksAnswered ==
  ASSUME WTypes, DeviceAnswers, NEW q \in Proc, Unlocks(q)
  PROVE  Unlocks(q)'
<1> DEFINE r == Head(inbox)
<1>1. /\ DeviceOK /\ inbox # << >> /\ inbox' = Tail(inbox)
      /\ Len(inbox) \in Nat /\ DOMAIN inbox = 1..Len(inbox)
  BY PendingIsNat DEF WTypes, DeviceAnswers
<1>2. /\ Len(inbox) >= 1 /\ r = inbox[1]
      /\ DOMAIN inbox' = 1..(Len(inbox) - 1)
      /\ \A i \in 1..(Len(inbox) - 1) : inbox'[i] = inbox[i + 1]
  BY <1>1, HeadTailProperties, EmptySeq, LenProperties DEF DeviceOK
<1>3. None # q  BY GnubbyWriteAssumption
<1>4. ASSUME NEW j \in DOMAIN inbox, 1 < j
      PROVE  /\ j - 1 \in DOMAIN inbox' /\ inbox'[j - 1] = inbox[j]
             /\ j \in Int
  <2>1. j - 1 \in 1..(Len(inbox) - 1) /\ (j - 1) + 1 = j  BY <1>1, <1>4
  <2> QED  BY <1>2, <2>1
<1>5. ASSUME NEW i \in DOMAIN inbox'
      PROVE  i + 1 \in DOMAIN inbox /\ inbox'[i] = inbox[i + 1] /\ i \in Int /\ i >= 1
  BY <1>1, <1>2
<1>6. ASSUME locked' = q
      PROVE  \E j \in DOMAIN inbox' : inbox'[j].chan = q /\ inbox'[j].step = Unlock
  <2>1. PICK j \in DOMAIN inbox : 1 < j /\ IsOf(j, q, Unlock)
    <3>1. CASE locked # q
      <4>1. r.chan = q /\ r.step = Lock
        BY <1>3, <1>6, <3>1 DEF DeviceAnswers, Carry
      <4>2. IsOf(1, q, Lock) /\ 1 \in DOMAIN inbox
        BY <1>1, <1>2, <4>1 DEF IsOf
      <4> QED  BY <4>2 DEF Unlocks
    <3>2. CASE locked = q
      <4>1. PICK j \in DOMAIN inbox : IsOf(j, q, Unlock)  BY <3>2 DEF Unlocks
      <4>2. ~(r.chan = q /\ r.step = Unlock)
        BY <1>3, <1>6, <3>2, StepsAreNumbers DEF DeviceAnswers, Carry
      <4>3. j # 1  BY <1>2, <4>1, <4>2 DEF IsOf
      <4>4. 1 < j  BY <1>1, <4>3
      <4> QED  BY <4>1, <4>4
    <3> QED  BY <3>1, <3>2
  <2>2. j - 1 \in DOMAIN inbox' /\ inbox'[j - 1] = inbox[j]  BY <1>4, <2>1
  <2> QED  BY <2>1, <2>2 DEF IsOf
<1>7. ASSUME NEW i \in DOMAIN inbox', inbox'[i].chan = q, inbox'[i].step = Lock
      PROVE  \E j \in DOMAIN inbox' :
               i < j /\ inbox'[j].chan = q /\ inbox'[j].step = Unlock
  <2>1. i + 1 \in DOMAIN inbox /\ IsOf(i + 1, q, Lock) /\ i \in Int /\ i >= 1
    BY <1>5, <1>7 DEF IsOf
  <2>2. PICK j \in DOMAIN inbox : i + 1 < j /\ IsOf(j, q, Unlock)
    BY <2>1 DEF Unlocks
  <2>3. 1 < j  BY <1>1, <2>1, <2>2
  <2>4. j - 1 \in DOMAIN inbox' /\ inbox'[j - 1] = inbox[j] /\ j \in Int
    BY <1>4, <2>3
  <2>5. i < j - 1  BY <2>1, <2>2, <2>4
  <2> QED  BY <2>2, <2>4, <2>5 DEF IsOf
<1> QED  BY <1>6, <1>7 DEF Unlocks, IsOf
----------------------------------------------------------------------------
(* The theorems.                                                           *)

\* The invariant holds at first.
LEMMA InitWInv == Init => WInv
<1> SUFFICES ASSUME Init  PROVE WInv  OBVIOUS
<1> USE DEF Init
<1>1. Lock \in Step /\ MaxFaults \in Nat /\ 0 \in 0..MaxFaults /\ Exchanges >= 0
  BY StepsAreNumbers, GnubbyWriteAssumption
<1>2. Len(inbox) = 0 /\ Len(outbox) = 0 /\ Pending = 0
  <2>1. Len(inbox) = 0 /\ Len(outbox) = 0  OBVIOUS
  <2> QED  BY <2>1 DEF Pending
<1>3. WTypes
  <2>1. ProcOK  BY <1>1 DEF ProcOK, Label
  <2>2. inbox \in Seq(Requests) /\ outbox \in Seq(Answers)  OBVIOUS
  <2> QED  BY <1>1, <2>1, <2>2 DEF WTypes, DeviceOK
<1>4. Counted  BY <1>2 DEF Counted
<1>5. \A p \in Proc : Claimed(p)
  BY GnubbyWriteAssumption DEF Claimed, InCall
<1>6. \A p \in Proc : Ended(p)  BY <1>2 DEF Ended
<1>7. \A p \in Proc : OnTrack(p) /\ Written(p)
  BY DEF OnTrack, InCall, Written
<1>8. LockReturns
  <2>1. DOMAIN inbox = {}  OBVIOUS
  <2>2. \A p \in Proc : locked # p  BY GnubbyWriteAssumption
  <2> QED  BY <2>1, <2>2 DEF LockReturns, Unlocks
<1> QED  BY <1>3, <1>4, <1>5, <1>6, <1>7, <1>8 DEF WInv

\* What the device does keeps the invariant.
LEMMA DeviceWInv ==
  ASSUME WInv, DeviceAnswers \/ LockExpires \/ UNCHANGED vars, WTypes'
  PROVE  WInv'
<1>1. /\ WTypes /\ Counted /\ (\A q \in Proc : Claimed(q) /\ Ended(q))
      /\ DeviceOK /\ Pending \in Nat /\ faults \in Nat
  BY PendingIsNat DEF WInv, WTypes
<1>2. UNCHANGED <<procVars, claimed, faults>>
  BY DEF DeviceAnswers, LockExpires, vars
<1>3. NoNewApdu
  <2>1. CASE DeviceAnswers
    <3>1. PICK a \in {Agreement(Head(inbox)), Refusal(Head(inbox)),
                      ErrorFrame(Head(inbox))} : outbox' = Append(outbox, a)
      BY <2>1 DEF DeviceAnswers
    <3> QED  BY <1>1, <2>1, <3>1, QueueAnswered DEF DeviceAnswers
  <2>2. CASE LockExpires \/ UNCHANGED vars
    BY <1>1, <2>2, QueueKept DEF LockExpires, vars, deviceVars
  <2> QED  BY <2>1, <2>2
<1>4. Counted'
  <2>1. Pending' = Pending /\ \A q \in Proc : pc'[q] = "receive" <=> pc[q] = "receive"
    BY <1>2, <1>3 DEF NoNewApdu, procVars
  <2> QED  BY <1>1, <1>2, <2>1, CountedKept
<1>5. ASSUME NEW q \in Proc  PROVE Claimed(q)' /\ Ended(q)'
  <2>1. Claimed(q)'
    <3>1. Claimed(q)  BY <1>1
    <3> QED  BY <1>2, <3>1 DEF procVars, Claimed, InCall
  <2>2. Owes(q)' <=> Owes(q)  BY <1>2 DEF Owes, procVars
  <2>3. Ended(q)'  BY <1>1, <1>2, <1>3, <2>2, EndedKept
  <2> QED  BY <2>1, <2>3
<1>6. ASSUME faults' < Exchanges, NEW q \in Proc  PROVE OnTrack(q)' /\ Written(q)'
  <2>1. OnTrack(q) /\ Written(q)  BY <1>2, <1>6 DEF WInv
  <2>2. CASE DeviceAnswers
    BY <1>1, <2>1, <2>2, TrackAnswered, WrittenAnswered
  <2>3. CASE LockExpires \/ UNCHANGED vars
    <3>1. UNCHANGED <<inbox, outbox, slot>>
      BY <2>3 DEF LockExpires, vars, deviceVars
    <3>2. Untouched(q)  BY <1>2 DEF Untouched, procVars
    <3>3. OnTrack(q)'  BY <1>1, <1>2, <2>1, <3>1, <3>2, TrackKept
    <3>4. Written(q)'  BY <1>2, <2>1, <3>1 DEF Written, procVars
    <3> QED  BY <3>3, <3>4
  <2> QED  BY <2>2, <2>3
<1>7. ASSUME ~UnlockLost  PROVE LockReturns'
  <2> SUFFICES ASSUME NEW q \in Proc, ~Owes(q)'  PROVE Unlocks(q)'
    BY DEF LockReturns
  <2>1. Unlocks(q)  BY <1>2, <1>7 DEF WInv, LockReturns, Owes, procVars
  <2>2. CASE DeviceAnswers  BY <1>1, <2>1, <2>2, UnlocksAnswered
  <2>3. CASE LockExpires
    BY <2>1, <2>3, GnubbyWriteAssumption DEF LockExpires, Unlocks, IsOf
  <2>4. CASE UNCHANGED vars
    BY <2>1, <2>4 DEF vars, deviceVars, Unlocks, IsOf
  <2> QED  BY <2>2, <2>3, <2>4
<1> QED  BY <1>4, <1>5, <1>6, <1>7 DEF WInv

\* So does what a process does.
LEMMA ProcessWInv ==
  ASSUME WInv, NEW p \in Proc, Call(p) \/ Work(p) \/ End(p), WTypes'
  PROVE  WInv'
<1>1. /\ WTypes /\ Counted /\ (\A q \in Proc : Claimed(q) /\ Ended(q))
      /\ ProcOK /\ DeviceOK
  BY DEF WInv, WTypes
<1>2. faults \in Nat /\ faults' \in Nat /\ faults' >= faults /\ Exchanges \in Nat
  BY <1>1, FaultsGrow, PendingIsNat, StepsAreNumbers
<1>3. Counted'  BY <1>1, CountedStep
<1>4. \A q \in Proc : Claimed(q)'  BY <1>1, ClaimedStep
<1>5. \A q \in Proc : Ended(q)'  BY <1>1, EndedStep
<1>6. ASSUME faults' < Exchanges, NEW q \in Proc  PROVE OnTrack(q)' /\ Written(q)'
  <2>1. \A r \in Proc : OnTrack(r) /\ Written(r)
    <3>1. faults < Exchanges  BY <1>2, <1>6
    <3> QED  BY <3>1 DEF WInv
  <2>2. CASE q = p
    <3>1. OnTrack(p)'  BY <1>1, <1>6, <2>1, TrackActs
    <3>2. Written(p)'  BY <1>1, <2>1, WrittenActs
    <3> QED  BY <2>2, <3>1, <3>2
  <2>3. CASE q # p
    <3>1. OnTrack(q)'  BY <1>1, <2>1, <2>3, TrackOthers
    <3>2. Written(q)'  BY <1>1, <2>1, <2>3, WrittenOthers
    <3> QED  BY <3>1, <3>2
  <2> QED  BY <2>2, <2>3
<1>7. ASSUME ~UnlockLost  PROVE LockReturns'
  <2>1. \A q \in Proc : ~Owes(q) => Unlocks(q)  BY <1>7 DEF WInv, LockReturns
  <2>2. \A q \in Proc : ~Owes(q)' => Unlocks(q)'  BY <1>1, <1>7, <2>1, UnlocksStep
  <2> QED  BY <2>2 DEF LockReturns
<1> QED  BY <1>3, <1>4, <1>5, <1>6, <1>7 DEF WInv

\* So does every step.
LEMMA NextWInv == WInv /\ [Next]_vars => WInv'
<1> SUFFICES ASSUME WInv, [Next]_vars  PROVE WInv'  OBVIOUS
<1>1. WTypes'  BY NextTypes DEF WInv
<1> QED  BY <1>1, ProcessWInv, DeviceWInv DEF Next

\* The invariant: types, who holds the claim, how much is on its way, and, with
\* fewer faults than exchanges, that a process goes on only if answered in time.
THEOREM WriteInductive == Spec => []WInv
BY InitWInv, NextWInv, PTL DEF Spec

\* Every variable keeps its type (the state of Gnubby::write and the queues).
THEOREM WriteTypeCorrect == Spec => []TypeOK
<1>1. WInv => TypeOK
  <2> SUFFICES ASSUME WInv  PROVE TypeOK  OBVIOUS
  <2>1. ProcOK /\ DeviceOK  BY DEF WInv, WTypes
  <2>2. \A i \in DOMAIN inbox : inbox[i] \in Requests
    BY <2>1, ElementOfSeq, PendingIsNat DEF DeviceOK
  <2>3. \A i \in DOMAIN outbox : outbox[i] \in Answers
    BY <2>1, ElementOfSeq, PendingIsNat DEF DeviceOK
  <2>4. \A i \in DOMAIN inbox : IsRequest(inbox[i])
    BY <2>2 DEF Requests, Channel, IsRequest
  <2>5. \A i \in DOMAIN outbox : IsAnswer(outbox[i])
    BY <2>3 DEF Answers, Channel, IsAnswer
  <2> QED  BY <2>1, <2>4, <2>5 DEF TypeOK, ProcOK, DeviceOK, Channel
<1> QED  BY <1>1, WriteInductive, PTL

\* Gnubby::write returns 0 only when the slot holds the whole key it was called
\* with, as long as fewer transfers have failed than a call makes exchanges.
THEOREM KeyWritten == Spec => []WroteWhole
<1>1. WInv => WroteWhole  BY DEF WInv, Written, WroteWhole
<1> QED  BY <1>1, WriteInductive, PTL

\* After write has returned the lock is free, or the request that ends it is on
\* its way, if that request can always be sent (gnubby.cc:653).
THEOREM LockIsGivenBack == ASSUME ~UnlockLost PROVE Spec => []LockGivenBack
<1>1. WInv => LockGivenBack
  BY DEF WInv, LockReturns, Owes, Unlocks, IsOf, LockGivenBack
<1> QED  BY <1>1, WriteInductive, PTL
=============================================================================
