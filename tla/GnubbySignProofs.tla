-------------------------- MODULE GnubbySignProofs --------------------------
(***************************************************************************)
(* Theorems about GnubbySign for any number of processes and devices, any  *)
(* keys, and any choice of the faults.                                     *)
(***************************************************************************)
EXTENDS GnubbySign, TLAPS

\* Past the comparison the device holds the key that was asked for.
RightKey ==
  \A p \in Proc : pc[p] \in TokenSection => KeyOf[dev[p]] = Wanted[p]

\* A lock is held by the process at work on the device, which has not yet been
\* past __fail: what NoStrandedLock says, made inductive.
LockOwner ==
  UnlockLost \/ \A p \in Proc, d \in Device :
                  locked[d] = p => dev[p] = d /\ pc[p] # "release"

\* doSign holds 1 in result only after the wanted key has signed.
RcOne ==
  \A p \in Proc :
    pc[p] \in DoSign /\ rc[p] = 1 =>
      /\ pc[p] \in {"unlock", "release"}
      /\ KeyOf[dev[p]] = Wanted[p]
      /\ sig[p] = Wanted[p]

\* sign holds 1 in result only when it returns a signature by the wanted key.
ResultOne ==
  \A p \in Proc : result[p] = 1 => pc[p] = "done" /\ sig[p] = Wanted[p]

\* What the process at work on a device knows of the token file: nobody else
\* has touched it since getToken.
TokenKnown ==
  \A p \in Proc :
    /\ pc[p] \in {"pin", "saveOpen"} => file[dev[p]] \in {Absent, Torn}
    /\ pc[p] = "saveWrite" => file[dev[p]] = Torn
    /\ pc[p] \in {"saveOpen", "saveWrite", "sign", "wink", "forget"} =>
         token[p] \in Token
    /\ pc[p] \in {"sign", "wink", "forget"} =>
         file[dev[p]] \in {token[p], Absent, Torn}
    /\ pc[p] = "forget" => token[p] # valid[dev[p]]

\* The inductive invariant.
IInv ==
  TypeOK /\ NoLeakedClaim /\ RightKey /\ RcOne /\ ResultOne /\ TokenKnown

----------------------------------------------------------------------------
\* A process inside doSign has its handle open on a device it has claimed.
LEMMA OpenHandle ==
  ASSUME TypeOK, NoLeakedClaim, NEW p \in Proc, pc[p] \in DoSign
  PROVE  dev[p] \in Device /\ claimed[dev[p]] = p
BY DEF TypeOK, NoLeakedClaim

\* The initial state satisfies the inductive invariant.
LEMMA InitIInv == Init => IInv
BY ConstAssumption
   DEF Init, IInv, TypeOK, NoLeakedClaim, RightKey, RcOne, ResultOne,
       TokenKnown, Label, DoSign, TokenSection, Absent

\* Every action of a process and of its environment preserves it.
LEMMA NextIInv == IInv /\ [Next]_vars => IInv'
<1> SUFFICES ASSUME IInv, [Next]_vars PROVE IInv'
  OBVIOUS
<1> USE ConstAssumption
    DEF IInv, TypeOK, NoLeakedClaim, RightKey, RcOne, ResultOne, TokenKnown,
        Label, DoSign, TokenSection, Absent, Torn, Goto, procVars, deviceVars
<1>1. ASSUME NEW p \in Proc, Start(p) PROVE IInv'
  BY <1>1 DEF Start
<1>2. ASSUME NEW p \in Proc, SkipDevice(p) PROVE IInv'
  BY <1>2 DEF SkipDevice
<1>3. ASSUME NEW p \in Proc, ClaimDevice(p) PROVE IInv'
  BY <1>3 DEF ClaimDevice
<1>4. ASSUME NEW p \in Proc, Release(p) PROVE IInv'
  BY <1>4 DEF Release
<1>5. ASSUME NEW p \in Proc, NoMoreDevices(p) PROVE IInv'
  BY <1>5 DEF NoMoreDevices
<1>6. ASSUME NEW p \in Proc, Finish(p) PROVE IInv'
  BY <1>6 DEF Finish
<1>7. ASSUME NEW p \in Proc, CommandFails(p) PROVE IInv'
  BY <1>7 DEF CommandFails, Fail
<1>8. ASSUME NEW p \in Proc, Lock(p) PROVE IInv'
  BY <1>8 DEF Lock
<1>9. ASSUME NEW p \in Proc, LockFails(p) PROVE IInv'
  BY <1>9 DEF LockFails, Fail
<1>10. ASSUME NEW p \in Proc, Select(p) PROVE IInv'
  BY <1>10 DEF Select
<1>11. ASSUME NEW p \in Proc, ReadSlot(p) PROVE IInv'
  BY <1>11 DEF ReadSlot
<1>12. ASSUME NEW p \in Proc, CompareKey(p) PROVE IInv'
  BY <1>12 DEF CompareKey, Fail
<1>13. ASSUME NEW p \in Proc, GetToken(p) PROVE IInv'
  BY <1>13 DEF GetToken
<1>14. ASSUME NEW p \in Proc, PinAccepted(p) PROVE IInv'
  BY <1>14 DEF PinAccepted, IssueToken
<1>15. ASSUME NEW p \in Proc, PinRejected(p) PROVE IInv'
  BY <1>15 DEF PinRejected
<1>16. ASSUME NEW p \in Proc, PinBlocked(p) PROVE IInv'
  BY <1>16 DEF PinBlocked, Fail
<1>17. ASSUME NEW p \in Proc, SaveOpen(p) PROVE IInv'
  BY <1>17 DEF SaveOpen
<1>18. ASSUME NEW p \in Proc, SaveWrite(p) PROVE IInv'
  BY <1>18 DEF SaveWrite
<1>19. ASSUME NEW p \in Proc, Signed(p) PROVE IInv'
  BY <1>19 DEF Signed
<1>20. ASSUME NEW p \in Proc, TouchWanted(p) PROVE IInv'
  BY <1>20 DEF TouchWanted
<1>21. ASSUME NEW p \in Proc, Wink(p) PROVE IInv'
  BY <1>21 DEF Wink
<1>22. ASSUME NEW p \in Proc, TokenRejected(p) PROVE IInv'
  BY <1>22 DEF TokenRejected
<1>23. ASSUME NEW p \in Proc, ForgetToken(p) PROVE IInv'
  BY <1>23 DEF ForgetToken
<1>24. ASSUME NEW p \in Proc, Unlock(p) PROVE IInv'
  BY <1>24 DEF Unlock
<1>25. ASSUME NEW p \in Proc, Crash(p) PROVE IInv'
  BY <1>25 DEF Crash
<1>26. ASSUME NEW d \in Device, LockExpires(d) PROVE IInv'
  BY <1>26 DEF LockExpires
<1>27. ASSUME NEW d \in Device, Touch(d) PROVE IInv'
  BY <1>27 DEF Touch
<1>28. ASSUME NEW d \in Device, DropToken(d) PROVE IInv'
  BY <1>28 DEF DropToken
<1>29. ASSUME NEW p \in Proc, AnswerLost(p) PROVE IInv'
  <2> DEFINE d == dev[p]
  <2>1. /\ pc[p] \in {"lock", "pin", "sign"} /\ pc' = [pc EXCEPT ![p] = "unlock"]
        /\ rc' = [rc EXCEPT ![p] = -1]
        /\ UNCHANGED <<todo, dev, token, sig, result, claimed, file>>
        /\ \A e \in Device \ {d} : valid'[e] = valid[e]
    BY <1>29 DEF AnswerLost, IssueToken, Fail
  <2>2. locked' = locked \/ locked' = [locked EXCEPT ![d] = p]
    BY <1>29 DEF AnswerLost
  <2>3. touch' = touch \/ touch' = [touch EXCEPT ![d] = FALSE]
    BY <1>29 DEF AnswerLost
  <2>4. /\ tries' \in [Device -> 0..PinTries]
        /\ valid' \in [Device -> Token \cup {0}]
    BY <1>29 DEF AnswerLost, IssueToken
  <2>5. TypeOK'
    <3>1. touch' \in [Device -> BOOLEAN]
      <4>1. CASE touch' = touch
        BY <4>1
      <4>2. CASE touch' = [touch EXCEPT ![d] = FALSE]
        BY <4>2
      <4> QED
        BY <2>3, <4>1, <4>2
    <3>2. locked' \in [Device -> Proc \cup {None, Orphan}]
      BY <2>2
    <3>3. pc' \in [Proc -> Label] /\ rc' \in [Proc -> {-1, 0, 1}]
      BY <2>1
    <3> QED
      BY <2>1, <2>4, <3>1, <3>2, <3>3
  <2>6. (NoLeakedClaim /\ RightKey /\ RcOne /\ ResultOne)'
    BY <2>1
  <2>7. TokenKnown'
    BY <2>1
  <2> QED
    BY <2>5, <2>6, <2>7
<1>30. CASE UNCHANGED vars
  BY <1>30 DEF vars
<1> QED
  BY <1>1, <1>2, <1>3, <1>4, <1>5, <1>6, <1>7, <1>8, <1>9, <1>10,
     <1>11, <1>12, <1>13, <1>14, <1>15, <1>16, <1>17, <1>18, <1>19, <1>20,
     <1>21, <1>22, <1>23, <1>24, <1>25, <1>26, <1>27, <1>28, <1>29, <1>30 DEF Next, Step

\* The invariant holds in every behaviour, with the faults of disk, USB and user.
THEOREM Inductive == Spec => []IInv
BY InitIInv, NextIInv, PTL DEF Spec

\* Every variable keeps to its type.
THEOREM TypeCorrect == Spec => []TypeOK
<1>1. IInv => TypeOK
  BY DEF IInv
<1> QED
  BY <1>1, Inductive, PTL

\* However doSign is left, and whenever processes are killed, no handle stays
\* open and no interface stays claimed (Gnubby::sign).
THEOREM ClaimsNotLeaked == Spec => []NoLeakedClaim
<1>1. IInv => NoLeakedClaim
  BY DEF IInv
<1> QED
  BY <1>1, Inductive, PTL

\* A step within doSign that touches no lock and does not leave by "release"
\* keeps the owner of every lock.
LEMMA LocksUntouched ==
  ASSUME IInv, LockOwner, NEW p \in Proc, NEW next \in Label \ {"release"},
         pc' = [pc EXCEPT ![p] = next], UNCHANGED <<dev, locked>>
  PROVE  LockOwner'
BY DEF IInv, TypeOK, LockOwner

\* Every step keeps a lock with the process that still uses the device.
LEMMA NextLockOwner == IInv /\ LockOwner /\ [Next]_vars => LockOwner'
<1> SUFFICES ASSUME IInv, LockOwner, [Next]_vars PROVE LockOwner'
  OBVIOUS
<1> USE ConstAssumption DEF Goto, Label, DoSign
<1>1. ASSUME NEW p \in Proc, Start(p) PROVE LockOwner'
  BY <1>1, LocksUntouched DEF Start, deviceVars
<1>2. ASSUME NEW p \in Proc, SkipDevice(p) PROVE LockOwner'
  BY <1>2 DEF SkipDevice, deviceVars, LockOwner
<1>3. ASSUME NEW p \in Proc, ClaimDevice(p) PROVE LockOwner'
  <2>1. dev[p] = None
    BY <1>3 DEF ClaimDevice, IInv, NoLeakedClaim
  <2>2. UnlockLost \/ \A d \in Device : locked[d] # p
    BY <2>1 DEF LockOwner
  <2>3. /\ UNCHANGED locked
        /\ \A q \in Proc \ {p} : dev'[q] = dev[q] /\ pc'[q] = pc[q]
    BY <1>3 DEF ClaimDevice, deviceVars, IInv, TypeOK
  <2> QED
    BY <2>2, <2>3 DEF LockOwner
<1>4. ASSUME NEW p \in Proc, Release(p) PROVE LockOwner'
  <2>1. UnlockLost \/ \A d \in Device : locked[d] # p
    BY <1>4 DEF Release, LockOwner
  <2>2. /\ UNCHANGED locked
        /\ \A q \in Proc \ {p} : dev'[q] = dev[q] /\ pc'[q] = pc[q]
    BY <1>4 DEF Release, IInv, TypeOK
  <2> QED
    BY <2>1, <2>2 DEF LockOwner
<1>5. ASSUME NEW p \in Proc, NoMoreDevices(p) PROVE LockOwner'
  BY <1>5, LocksUntouched DEF NoMoreDevices, deviceVars
<1>6. ASSUME NEW p \in Proc, Finish(p) PROVE LockOwner'
  BY <1>6 DEF Finish, LockOwner, IInv, TypeOK
<1>7. ASSUME NEW p \in Proc, CommandFails(p) PROVE LockOwner'
  BY <1>7, LocksUntouched DEF CommandFails, Fail, deviceVars
<1>8. ASSUME NEW p \in Proc, AnswerLost(p) PROVE LockOwner'
  <2>1. pc' = [pc EXCEPT ![p] = "unlock"] /\ UNCHANGED dev
    BY <1>8 DEF AnswerLost, Fail
  <2>2. locked' = locked \/ locked' = [locked EXCEPT ![dev[p]] = p]
    BY <1>8 DEF AnswerLost
  <2> QED
    BY <2>1, <2>2 DEF LockOwner, IInv, TypeOK
<1>9. ASSUME NEW p \in Proc, Lock(p) PROVE LockOwner'
  BY <1>9 DEF Lock, LockOwner, IInv, TypeOK
<1>10. ASSUME NEW p \in Proc, LockFails(p) PROVE LockOwner'
  BY <1>10, LocksUntouched DEF LockFails, Fail, deviceVars
<1>11. ASSUME NEW p \in Proc, Unlock(p) PROVE LockOwner'
  <2>1. CASE locked' = [locked EXCEPT ![dev[p]] = IF @ = p THEN None ELSE @]
    <3>1. UNCHANGED dev /\ pc' = [pc EXCEPT ![p] = "release"]
      BY <1>11 DEF Unlock
    <3>2. UnlockLost \/ \A d \in Device : locked'[d] # p
      BY <2>1 DEF LockOwner, IInv, TypeOK
    <3>3. \A d \in Device : locked'[d] = locked[d] \/ locked'[d] = None
      BY <2>1 DEF IInv, TypeOK
    <3> QED
      BY <3>1, <3>2, <3>3 DEF LockOwner, IInv, TypeOK
  <2>2. CASE UnlockLost
    BY <2>2 DEF LockOwner
  <2> QED
    BY <1>11, <2>1, <2>2 DEF Unlock
<1>12. ASSUME NEW p \in Proc, Crash(p) PROVE LockOwner'
  BY <1>12 DEF Crash, LockOwner, IInv, TypeOK
<1>13. ASSUME NEW d \in Device, LockExpires(d) PROVE LockOwner'
  BY <1>13 DEF LockExpires, procVars, LockOwner, IInv, TypeOK
<1>14. ASSUME NEW d \in Device, Touch(d) \/ DropToken(d) PROVE LockOwner'
  BY <1>14 DEF Touch, DropToken, procVars, LockOwner
<1>15. ASSUME NEW p \in Proc,
              \/ Select(p) \/ ReadSlot(p) \/ CompareKey(p) \/ GetToken(p)
              \/ PinAccepted(p) \/ PinRejected(p) \/ PinBlocked(p)
       PROVE  LockOwner'
  BY <1>15, LocksUntouched
     DEF Select, ReadSlot, CompareKey, GetToken, PinAccepted, PinRejected,
         PinBlocked, Fail, deviceVars
<1>16. ASSUME NEW p \in Proc,
              \/ SaveOpen(p) \/ SaveWrite(p) \/ Signed(p) \/ TouchWanted(p)
              \/ Wink(p) \/ TokenRejected(p) \/ ForgetToken(p)
       PROVE  LockOwner'
  BY <1>16, LocksUntouched
     DEF SaveOpen, SaveWrite, Signed, TouchWanted, Wink, TokenRejected,
         ForgetToken, deviceVars
<1>17. CASE UNCHANGED vars
  BY <1>17 DEF vars, procVars, deviceVars, LockOwner
<1> QED
  BY <1>1, <1>2, <1>3, <1>4, <1>5, <1>6, <1>7, <1>8, <1>9, <1>10, <1>11,
     <1>12, <1>13, <1>14, <1>15, <1>16, <1>17 DEF Next, Step

\* "(always try to) unlock": unless the unlocking exchange itself is lost, no
\* device stays locked to a process that has left doSign on it.
THEOREM LockNotStranded == Spec => []NoStrandedLock
<1>1. Init => LockOwner
  BY ConstAssumption DEF Init, LockOwner
<1>2. LockOwner => NoStrandedLock
  BY DEF LockOwner, NoStrandedLock
<1> QED
  BY <1>1, <1>2, NextLockOwner, Inductive, PTL DEF Spec

\* sign returns 1 only with a signature by the key it was asked for.
THEOREM SignatureByWantedKey == Spec => []SignedByWantedKey
<1>1. IInv => SignedByWantedKey
  BY DEF IInv, ResultOne, SignedByWantedKey
<1> QED
  BY <1>1, Inductive, PTL

\* The user is asked for a PIN only while the cache holds no token of the device.
THEOREM PinAskedOnlyWithoutToken == Spec => []PinOnlyWithoutToken
<1>1. IInv => PinOnlyWithoutToken
  BY DEF IInv, TokenKnown, PinOnlyWithoutToken
<1> QED
  BY <1>1, Inductive, PTL

\* forgetToken removes no token the device still accepts.
THEOREM OnlyStaleTokensForgotten == Spec => ForgetsOnlyStaleTokens
<1> DEFINE Kept == \A d \in Device :
                     file'[d] = Absent => file[d] = Absent \/ file[d] # valid[d]
<1>1. ASSUME IInv, [Next]_vars PROVE Kept
  <2> SUFFICES ASSUME NEW d \in Device, file'[d] = Absent, file[d] # Absent
               PROVE  file[d] # valid[d]
    OBVIOUS
  <2> USE <1>1, ConstAssumption DEF IInv, TypeOK, Absent, Torn
  <2>1. CASE \E p \in Proc : ForgetToken(p)
    <3>1. PICK p \in Proc : ForgetToken(p)
      BY <2>1
    <3>2. dev[p] = d
      BY <3>1 DEF ForgetToken
    <3>3. file[d] \in {token[p], Torn} /\ token[p] # valid[d]
      BY <3>1, <3>2 DEF ForgetToken, TokenKnown
    <3> QED
      BY <3>3
  <2>2. CASE \E p \in Proc : SaveWrite(p)
    BY <2>2 DEF SaveWrite, TokenKnown
  <2>3. CASE \E p \in Proc : SaveOpen(p)
    BY <2>3 DEF SaveOpen
  <2>4. CASE UNCHANGED file
    BY <2>4
  <2>5. UNCHANGED file \/ (\E p \in Proc : ForgetToken(p) \/ SaveWrite(p) \/ SaveOpen(p))
    BY DEF Next, Step, vars, Start, SkipDevice, ClaimDevice, Release,
           NoMoreDevices, Finish, CommandFails, AnswerLost, Lock, LockFails, Select,
           ReadSlot, CompareKey, GetToken, PinAccepted, PinRejected, PinBlocked,
           Signed, TouchWanted, Wink, TokenRejected, Unlock, Crash,
           LockExpires, Touch, DropToken
  <2> QED
    BY <2>1, <2>2, <2>3, <2>4, <2>5
<1>2. IInv /\ [Next]_vars => [Kept]_vars
  BY <1>1
<1> QED
  BY <1>2, Inductive, PTL DEF Spec, ForgetsOnlyStaleTokens

----------------------------------------------------------------------------
(* The refinement of SignRequest.                                          *)

\* The initial states of doSign's world are initial states of the request.
LEMMA InitRequest == Init => Request!Init
BY DEF Init, Request!Init, RequestStatus

\* A step that stays inside the device loop is not seen by the caller.
LEMMA QuietStep ==
  ASSUME IInv, NEW p \in Proc, NEW next \in Label,
         pc[p] \notin {"idle", "done"}, next \notin {"idle", "done"},
         pc' = [pc EXCEPT ![p] = next],
         UNCHANGED <<claimed, result>>
  PROVE  UNCHANGED Request!vars
<1>1. ASSUME NEW q \in Proc PROVE RequestStatus(q)' = RequestStatus(q)
  BY DEF IInv, TypeOK, RequestStatus
<1> QED
  BY <1>1 DEF Request!vars

\* Every step of the detailed specification is a step of the request, or one
\* the caller does not see.
LEMMA NextRequest == IInv /\ [Next]_vars => [Request!Next]_(Request!vars)
<1> SUFFICES ASSUME IInv, [Next]_vars
             PROVE  Request!Next \/ UNCHANGED Request!vars
  OBVIOUS
<1> USE DEF IInv, TypeOK, Goto
<1>1. ASSUME NEW p \in Proc, Start(p) PROVE Request!Request(p)
  BY <1>1 DEF Start, Request!Request, RequestStatus
<1>2. ASSUME NEW p \in Proc, ClaimDevice(p)
      PROVE  \E d \in Device : Request!Acquire(p, d)
  <2>1. PICK d \in todo[p] \cap Gnubbies :
           /\ claimed[d] = None
           /\ claimed' = [claimed EXCEPT ![d] = p]
    BY <1>2 DEF ClaimDevice
  <2>2. Request!Holds(p) = {}
    BY <1>2, ConstAssumption DEF ClaimDevice, Request!Holds, NoLeakedClaim, DoSign
  <2>3. pc[p] = "loop" /\ pc' = [pc EXCEPT ![p] = "lock"] /\ UNCHANGED result
    BY <1>2 DEF ClaimDevice
  <2>4. \A q \in Proc : RequestStatus(q)' = RequestStatus(q)
    BY <2>3 DEF RequestStatus
  <2> QED
    BY <2>1, <2>2, <2>3, <2>4 DEF Request!Acquire, RequestStatus
<1>3. ASSUME NEW p \in Proc, Release(p)
      PROVE  \E d \in Device : Request!Succeed(p, d) \/ Request!GiveBack(p, d)
  <2>1. dev[p] \in Device /\ claimed[dev[p]] = p
    BY <1>3, OpenHandle DEF Release, DoSign
  <2>2. CASE rc[p] = 1
    <3>1. KeyOf[dev[p]] = Wanted[p]
      BY <1>3, <2>2 DEF Release, RcOne, DoSign
    <3>2. /\ pc[p] = "release" /\ pc' = [pc EXCEPT ![p] = "done"]
          /\ result' = [result EXCEPT ![p] = 1]
          /\ claimed' = [claimed EXCEPT ![dev[p]] = None]
      BY <1>3, <2>2 DEF Release
    <3>3. /\ RequestStatus(p) = "trying"
          /\ [q \in Proc |-> RequestStatus(q)]'
               = [[q \in Proc |-> RequestStatus(q)] EXCEPT ![p] = "signed"]
      BY <3>2 DEF RequestStatus
    <3> QED
      BY <2>1, <3>1, <3>2, <3>3 DEF Request!Succeed
  <2>3. CASE rc[p] # 1
    <3>1. /\ pc[p] = "release" /\ pc' = [pc EXCEPT ![p] = "loop"]
          /\ UNCHANGED result
          /\ claimed' = [claimed EXCEPT ![dev[p]] = None]
      BY <1>3, <2>3 DEF Release
    <3>2. [q \in Proc |-> RequestStatus(q)]' = [q \in Proc |-> RequestStatus(q)]
      BY <3>1 DEF RequestStatus
    <3> QED
      BY <2>1, <3>1, <3>2 DEF Request!GiveBack
  <2> QED
    BY <2>2, <2>3
<1>4. ASSUME NEW p \in Proc, NoMoreDevices(p) PROVE Request!Exhausted(p)
  <2>1. result[p] # 1
    BY <1>4 DEF NoMoreDevices, ResultOne
  <2>2. Request!Holds(p) = {}
    BY <1>4, ConstAssumption DEF NoMoreDevices, Request!Holds, NoLeakedClaim, DoSign
  <2> QED
    BY <1>4, <2>1, <2>2 DEF NoMoreDevices, Request!Exhausted, RequestStatus
<1>5. ASSUME NEW p \in Proc, Finish(p) PROVE Request!Leave(p)
  <2>1. \A d \in Device : claimed[d] # p
    BY <1>5, ConstAssumption DEF Finish, NoLeakedClaim, DoSign
  <2>2. claimed' = [d \in Device |-> IF claimed[d] = p THEN None ELSE claimed[d]]
    BY <1>5, <2>1 DEF Finish
  <2>3. [q \in Proc |-> RequestStatus(q)]'
          = [[q \in Proc |-> RequestStatus(q)] EXCEPT ![p] = "idle"]
    BY <1>5 DEF Finish, RequestStatus
  <2> QED
    BY <1>5, <2>2, <2>3 DEF Finish, Request!Leave, RequestStatus
<1>6. ASSUME NEW p \in Proc, Crash(p) PROVE Request!Leave(p)
  <2>1. [q \in Proc |-> RequestStatus(q)]'
          = [[q \in Proc |-> RequestStatus(q)] EXCEPT ![p] = "idle"]
    BY <1>6 DEF Crash, RequestStatus
  <2>2. RequestStatus(p) # "idle"
    BY <1>6 DEF Crash, RequestStatus
  <2> QED
    BY <1>6, <2>1, <2>2 DEF Crash, Request!Leave
<1> USE DEF Label, DoSign
<1>7. ASSUME NEW p \in Proc, SkipDevice(p) PROVE UNCHANGED Request!vars
  BY <1>7, QuietStep DEF SkipDevice
<1>8. ASSUME NEW p \in Proc, CommandFails(p) PROVE UNCHANGED Request!vars
  BY <1>8, QuietStep DEF CommandFails, Fail
<1>9. ASSUME NEW p \in Proc, Lock(p) PROVE UNCHANGED Request!vars
  BY <1>9, QuietStep DEF Lock
<1>10. ASSUME NEW p \in Proc, LockFails(p) PROVE UNCHANGED Request!vars
  BY <1>10, QuietStep DEF LockFails, Fail
<1>11. ASSUME NEW p \in Proc, Select(p) PROVE UNCHANGED Request!vars
  BY <1>11, QuietStep DEF Select
<1>12. ASSUME NEW p \in Proc, ReadSlot(p) PROVE UNCHANGED Request!vars
  BY <1>12, QuietStep DEF ReadSlot
<1>13. ASSUME NEW p \in Proc, CompareKey(p) PROVE UNCHANGED Request!vars
  BY <1>13, QuietStep DEF CompareKey, Fail
<1>14. ASSUME NEW p \in Proc, GetToken(p) PROVE UNCHANGED Request!vars
  BY <1>14, QuietStep DEF GetToken
<1>15. ASSUME NEW p \in Proc, PinAccepted(p) PROVE UNCHANGED Request!vars
  BY <1>15, QuietStep DEF PinAccepted
<1>16. ASSUME NEW p \in Proc, PinRejected(p) PROVE UNCHANGED Request!vars
  BY <1>16, QuietStep DEF PinRejected
<1>17. ASSUME NEW p \in Proc, PinBlocked(p) PROVE UNCHANGED Request!vars
  BY <1>17, QuietStep DEF PinBlocked, Fail
<1>18. ASSUME NEW p \in Proc, SaveOpen(p) PROVE UNCHANGED Request!vars
  BY <1>18, QuietStep DEF SaveOpen
<1>19. ASSUME NEW p \in Proc, SaveWrite(p) PROVE UNCHANGED Request!vars
  BY <1>19, QuietStep DEF SaveWrite
<1>20. ASSUME NEW p \in Proc, Signed(p) PROVE UNCHANGED Request!vars
  BY <1>20, QuietStep DEF Signed
<1>21. ASSUME NEW p \in Proc, TouchWanted(p) PROVE UNCHANGED Request!vars
  BY <1>21, QuietStep DEF TouchWanted
<1>22. ASSUME NEW p \in Proc, Wink(p) PROVE UNCHANGED Request!vars
  BY <1>22, QuietStep DEF Wink
<1>23. ASSUME NEW p \in Proc, TokenRejected(p) PROVE UNCHANGED Request!vars
  BY <1>23, QuietStep DEF TokenRejected
<1>24. ASSUME NEW p \in Proc, ForgetToken(p) PROVE UNCHANGED Request!vars
  BY <1>24, QuietStep DEF ForgetToken
<1>25. ASSUME NEW p \in Proc, Unlock(p) PROVE UNCHANGED Request!vars
  BY <1>25, QuietStep DEF Unlock
<1>26. ASSUME NEW d \in Device, LockExpires(d) \/ Touch(d) \/ DropToken(d)
      PROVE  UNCHANGED Request!vars
  BY <1>26 DEF LockExpires, Touch, DropToken, procVars, Request!vars, RequestStatus
<1>27. ASSUME NEW p \in Proc, AnswerLost(p) PROVE UNCHANGED Request!vars
  BY <1>27, QuietStep DEF AnswerLost, Fail
<1>28. CASE UNCHANGED vars
  BY <1>28 DEF vars, procVars, Request!vars, RequestStatus
<1> QED
  BY <1>1, <1>2, <1>3, <1>4, <1>5, <1>6, <1>7, <1>8, <1>9, <1>10,
     <1>11, <1>12, <1>13, <1>14, <1>15, <1>16, <1>17, <1>18, <1>19, <1>20,
     <1>21, <1>22, <1>23, <1>24, <1>25, <1>26, <1>27, <1>28
  DEF Next, Step, Request!Next

\* doSign and the loop of sign implement the request: one device at a time, and
\* success only from a device that holds the key asked for.
THEOREM RequestImplemented == Spec => ImplementsRequest
BY InitRequest, NextRequest, Inductive, PTL
   DEF Spec, ImplementsRequest, Request!Spec
=============================================================================
