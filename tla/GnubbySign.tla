---------------------------- MODULE GnubbySign ----------------------------
(***************************************************************************)
(* Signing with a USB security key: Gnubby::sign, Gnubby::doSign and the   *)
(* token cache they keep under ~/.tmp (util/signer/gnubby.cc).             *)
(*                                                                         *)
(* Several cr50-codesigner processes may run at once on one host.  They    *)
(* meet in three places only: the USB interface of a device, which one     *)
(* process at a time can claim; the device itself (its channel lock, its   *)
(* PIN counter and the token it currently accepts); and the token file of  *)
(* the device, named after its fingerprint and shared by every process of  *)
(* the user.  A process may be killed between any two of its steps.        *)
(*                                                                         *)
(* A process is a walk over the labels of doSign.  One action is one       *)
(* command exchange with the device, or one system call on the token file. *)
(***************************************************************************)
EXTENDS Integers, FiniteSets

CONSTANTS
  Proc,         \* processes running PublicKey::sign with a public key
  Device,       \* USB devices libusb lists
  Gnubbies,     \* the devices whose vendor and product id isGnubby accepts
  KeyOf,        \* KeyOf[d]: the public key in slot 0x66 of d
  Wanted,       \* Wanted[p]: the key p was asked to sign with
  RsaFetched,   \* rsa # nullptr when doSign tests it (line 388)
  UsbFaults,    \* exchanges may fail, or be answered with an error status
  UnlockLost,   \* the exchange that gives the lock back may fail too
  DiskFaults,   \* open, write and unlink of a token file may fail
  PinTries,     \* wrong PINs in a row a device accepts before it blocks
  Token,        \* the values the 16 bytes of a token take
  None,         \* no process, no device, no signature
  Orphan        \* owner of a device lock whose process has died

\* A token file that does not exist, and one that holds fewer than 16 bytes.
Absent == 0
Torn == -1

ASSUME ConstAssumption ==
  /\ Gnubbies \subseteq Device
  /\ {RsaFetched, UsbFaults, UnlockLost, DiskFaults} \subseteq BOOLEAN
  /\ PinTries \in Nat \ {0}
  /\ Token \cap {Absent, Torn} = {}
  /\ None \notin Proc \cup Device
  /\ Orphan \notin Proc \cup {None}
  /\ \A p \in Proc : Wanted[p] # None

VARIABLES
  pc,       \* pc[p]: where p is in sign / doSign
  todo,     \* todo[p]: devices of device_list the loop of sign has not tried
  dev,      \* dev[p]: the device handle_ is open on, None for a null handle_
  token,    \* token[p]: the array token of doSign, 0 before it is filled
  sig,      \* sig[p]: the key that made the bytes in signature
  rc,       \* rc[p]: the variable result of doSign
  result,   \* result[p]: the variable result of sign
  claimed,  \* claimed[d]: the process that has claimed interface 0 of d
  locked,   \* locked[d]: the channel d is locked to
  touch,    \* touch[d]: the user has touched d since it last asked
  tries,    \* tries[d]: wrong PINs d will still take
  valid,    \* valid[d]: the token d accepts, 0 for none
  file      \* file[d]: the token in the token file of d, Absent or Torn

procVars == <<pc, todo, dev, token, sig, rc, result>>
deviceVars == <<locked, touch, tries, valid>>
vars == <<procVars, claimed, deviceVars, file>>

\* The labels at which doSign runs, with handle_ open.
DoSign == {"lock", "select", "again", "compare", "getToken", "pin", "saveOpen",
           "saveWrite", "sign", "wink", "forget", "unlock", "release"}
\* The labels past the key comparison, at which the token is handled.
TokenSection == {"getToken", "pin", "saveOpen", "saveWrite", "sign", "wink",
                 "forget"}
Label == {"idle", "loop", "done"} \cup DoSign

Goto(p, label) == pc' = [pc EXCEPT ![p] = label]

----------------------------------------------------------------------------
Init ==
  /\ pc = [p \in Proc |-> "idle"]
  /\ todo = [p \in Proc |-> {}]
  /\ dev = [p \in Proc |-> None]
  /\ token = [p \in Proc |-> 0]
  /\ sig = [p \in Proc |-> None]
  /\ rc = [p \in Proc |-> -1]
  /\ result = [p \in Proc |-> -1]
  /\ claimed = [d \in Device |-> None]
  /\ locked = [d \in Device |-> None]
  /\ touch = [d \in Device |-> FALSE]
  /\ tries = [d \in Device |-> PinTries]
  /\ valid = [d \in Device |-> 0]
  /\ file = [d \in Device |-> Absent]

----------------------------------------------------------------------------
(* Gnubby::sign: the loop over the devices.                                *)

\* A process builds a Gnubby and enters sign: the devices are listed.
Start(p) ==
  /\ pc[p] = "idle"
  /\ Goto(p, "loop")
  /\ todo' = [todo EXCEPT ![p] = Device]
  /\ result' = [result EXCEPT ![p] = -1]
  /\ UNCHANGED <<dev, token, sig, rc, claimed, deviceVars, file>>

\* Mutant: handle_ is not reset after a claim that failed.
SkipDeviceKeepsHandle(p) ==
  /\ pc[p] = "loop"
  /\ \E d \in todo[p] :
       /\ d \notin Gnubbies \/ claimed[d] # None \/ UsbFaults
       /\ todo' = [todo EXCEPT ![p] = @ \ {d}]
       /\ dev' = [dev EXCEPT ![p] = IF claimed[d] # None THEN d ELSE @]
  /\ UNCHANGED <<pc, token, sig, rc, result, claimed, deviceVars, file>>

\* A device is passed over: not a gnubby, libusb_open failed, or the interface
\* could not be claimed (handle_ is then closed and reset).
SkipDevice(p) ==
  /\ pc[p] = "loop"
  /\ \E d \in todo[p] :
       /\ d \notin Gnubbies \/ claimed[d] # None \/ UsbFaults
       /\ todo' = [todo EXCEPT ![p] = @ \ {d}]
  /\ UNCHANGED <<pc, dev, token, sig, rc, result, claimed, deviceVars, file>>

\* Mutant: the outcome of libusb_claim_interface is not looked at.
ClaimDeviceUnchecked(p) ==
  /\ pc[p] = "loop"
  /\ \E d \in todo[p] \cap Gnubbies :
       /\ claimed' = [claimed EXCEPT ![d] = p]
       /\ dev' = [dev EXCEPT ![p] = d]
       /\ todo' = [todo EXCEPT ![p] = @ \ {d}]
  /\ token' = [token EXCEPT ![p] = 0]
  /\ rc' = [rc EXCEPT ![p] = -1]
  /\ Goto(p, "lock")
  /\ UNCHANGED <<sig, result, deviceVars, file>>

\* A gnubby is opened and its interface claimed: doSign is called.
ClaimDevice(p) ==
  /\ pc[p] = "loop"
  /\ \E d \in todo[p] \cap Gnubbies :
       /\ claimed[d] = None
       /\ claimed' = [claimed EXCEPT ![d] = p]
       /\ dev' = [dev EXCEPT ![p] = d]
       /\ todo' = [todo EXCEPT ![p] = @ \ {d}]
  /\ token' = [token EXCEPT ![p] = 0]
  /\ rc' = [rc EXCEPT ![p] = -1]
  /\ Goto(p, "lock")
  /\ UNCHANGED <<sig, result, deviceVars, file>>

\* Mutant: the return value of doSign becomes that of sign.
ReleaseReturnsRc(p) ==
  /\ pc[p] = "release"
  /\ claimed' = [claimed EXCEPT ![dev[p]] = None]
  /\ touch' = [touch EXCEPT ![dev[p]] = FALSE]
  /\ dev' = [dev EXCEPT ![p] = None]
  /\ result' = [result EXCEPT ![p] = rc[p]]
  /\ Goto(p, IF rc[p] = 1 THEN "done" ELSE "loop")
  /\ UNCHANGED <<todo, token, sig, rc, locked, tries, valid, file>>

\* Mutant: a device whose exchanges all went well counts as one that signed.
ReleaseTakesZero(p) ==
  /\ pc[p] = "release"
  /\ claimed' = [claimed EXCEPT ![dev[p]] = None]
  /\ touch' = [touch EXCEPT ![dev[p]] = FALSE]
  /\ dev' = [dev EXCEPT ![p] = None]
  /\ \/ rc[p] >= 0 /\ result' = [result EXCEPT ![p] = 1] /\ Goto(p, "done")
     \/ rc[p] < 0 /\ Goto(p, "loop") /\ UNCHANGED result
  /\ UNCHANGED <<todo, token, sig, rc, locked, tries, valid, file>>

\* doSign has returned: the interface is released, handle_ closed and reset,
\* and the loop ends if the device signed.
Release(p) ==
  /\ pc[p] = "release"
  /\ claimed' = [claimed EXCEPT ![dev[p]] = None]
  /\ touch' = [touch EXCEPT ![dev[p]] = FALSE]
  /\ dev' = [dev EXCEPT ![p] = None]
  /\ \/ rc[p] = 1 /\ result' = [result EXCEPT ![p] = 1] /\ Goto(p, "done")
     \/ rc[p] # 1 /\ Goto(p, "loop") /\ UNCHANGED result
  /\ UNCHANGED <<todo, token, sig, rc, locked, tries, valid, file>>

\* Every device has been tried.
NoMoreDevices(p) ==
  /\ pc[p] = "loop"
  /\ todo[p] = {}
  /\ Goto(p, "done")
  /\ UNCHANGED <<todo, dev, token, sig, rc, result, claimed, deviceVars, file>>

\* The caller uses or drops the signature, the Gnubby is destroyed, its handle_
\* being null, and the program ends: a lock it could not give up is nobody's.
Finish(p) ==
  /\ pc[p] = "done"
  /\ Goto(p, "idle")
  /\ sig' = [sig EXCEPT ![p] = None]
  /\ result' = [result EXCEPT ![p] = -1]
  /\ locked' = [d \in Device |-> IF locked[d] = p THEN Orphan ELSE locked[d]]
  /\ UNCHANGED <<todo, dev, token, rc, claimed, touch, tries, valid, file>>

----------------------------------------------------------------------------
(* Gnubby::doSign.                                                         *)

\* Mutant: return, rather than goto __fail.
FailReturns(p, r) ==
  /\ rc' = [rc EXCEPT ![p] = r]
  /\ Goto(p, "release")

\* goto __fail, with r in the variable result.
Fail(p, r) ==
  /\ rc' = [rc EXCEPT ![p] = r]
  /\ Goto(p, "unlock")

\* The device accepts a PIN: it issues a token, the only one it accepts from now
\* on, and takes as many wrong PINs again as at first.  The 16 bytes are none of
\* those it accepts now and none of those in its token file; the values of older
\* tokens, which nobody holds any more, come back.
IssueToken(d, t) ==
  /\ t \in Token \ {valid[d], file[d]}
  /\ valid' = [valid EXCEPT ![d] = t]
  /\ tries' = [tries EXCEPT ![d] = PinTries]

\* A command is lost on its way (-1), or refused (0: the exchange itself went
\* well, and result still holds its code).
CommandFails(p) ==
  /\ UsbFaults
  /\ pc[p] \in {"select", "again", "pin", "sign"}
  /\ \E r \in {-1, 0} : Fail(p, r)
  /\ UNCHANGED <<todo, dev, token, sig, result, claimed, deviceVars, file>>

\* The answer to a command is lost that the device has carried out.
AnswerLost(p) ==
  LET d == dev[p] IN
  /\ UsbFaults
  /\ \/ /\ pc[p] = "lock" /\ locked[d] = None
        /\ locked' = [locked EXCEPT ![d] = p]
        /\ UNCHANGED <<touch, tries, valid>>
     \/ /\ pc[p] = "pin" /\ tries[d] > 0
        /\ tries' = [tries EXCEPT ![d] = @ - 1]
        /\ UNCHANGED <<locked, touch, valid>>
     \/ /\ pc[p] = "pin" /\ tries[d] > 0
        /\ \E t \in Token : IssueToken(d, t)
        /\ UNCHANGED <<locked, touch>>
     \/ /\ pc[p] = "sign" /\ token[p] = valid[d] /\ touch[d]
        /\ touch' = [touch EXCEPT ![d] = FALSE]
        /\ UNCHANGED <<locked, tries, valid>>
  /\ Fail(p, -1)
  /\ UNCHANGED <<todo, dev, token, sig, result, claimed, file>>

\* gnubby_lock(handle_, 100).
Lock(p) ==
  /\ pc[p] = "lock"
  /\ locked[dev[p]] = None
  /\ locked' = [locked EXCEPT ![dev[p]] = p]
  /\ rc' = [rc EXCEPT ![p] = 0]
  /\ Goto(p, "select")
  /\ UNCHANGED <<todo, dev, token, sig, result, claimed, touch, tries, valid, file>>

\* The request is lost, or the device is locked to another channel.
LockFails(p) ==
  /\ pc[p] = "lock"
  /\ UsbFaults \/ locked[dev[p]] # None
  /\ Fail(p, -1)
  /\ UNCHANGED <<todo, dev, token, sig, result, claimed, deviceVars, file>>

\* The ssh applet is selected.
Select(p) ==
  /\ pc[p] = "select"
  /\ Goto(p, "again")
  /\ UNCHANGED <<todo, dev, token, sig, rc, result, claimed, deviceVars, file>>

\* __again: slot 0x66 is read: the public key and the fingerprint of d.
ReadSlot(p) ==
  /\ pc[p] = "again"
  /\ rc' = [rc EXCEPT ![p] = 0]
  /\ Goto(p, "compare")
  /\ UNCHANGED <<todo, dev, token, sig, result, claimed, deviceVars, file>>

\* Mutant: a mismatch is noticed but not acted on.
CompareKeyIgnored(p) ==
  /\ pc[p] = "compare"
  /\ \/ RsaFetched /\ Goto(p, "getToken") /\ UNCHANGED rc
     \/ ~RsaFetched /\ Fail(p, 0)
  /\ UNCHANGED <<todo, dev, token, sig, result, claimed, deviceVars, file>>

\* The key asked for is compared with the one in the slot.
CompareKey(p) ==
  /\ pc[p] = "compare"
  /\ \/ /\ RsaFetched
        /\ KeyOf[dev[p]] = Wanted[p]
        /\ Goto(p, "getToken")
        /\ UNCHANGED rc
     \/ /\ ~RsaFetched \/ KeyOf[dev[p]] # Wanted[p]
        /\ Fail(p, 0)
  /\ UNCHANGED <<todo, dev, token, sig, result, claimed, deviceVars, file>>

\* getToken: 16 bytes are read from the token file, or a PIN is needed.
GetToken(p) ==
  /\ pc[p] = "getToken"
  /\ \/ /\ file[dev[p]] \notin {Absent, Torn}
        /\ token' = [token EXCEPT ![p] = file[dev[p]]]
        /\ Goto(p, "sign")
     \/ /\ file[dev[p]] \in {Absent, Torn}
        /\ Goto(p, "pin")
        /\ UNCHANGED token
  /\ UNCHANGED <<todo, dev, sig, rc, result, claimed, deviceVars, file>>

\* The user gives the right PIN: the device answers with a new token.
PinAccepted(p) ==
  LET d == dev[p] IN
  /\ pc[p] = "pin"
  /\ tries[d] > 0
  /\ \E t \in Token :
       /\ IssueToken(d, t)
       /\ token' = [token EXCEPT ![p] = t]
  /\ rc' = [rc EXCEPT ![p] = 0]
  /\ Goto(p, "saveOpen")
  /\ UNCHANGED <<todo, dev, sig, result, claimed, locked, touch, file>>

\* A wrong PIN: status 63cx, and doSign starts over from the slot.
PinRejected(p) ==
  /\ pc[p] = "pin"
  /\ tries[dev[p]] > 0
  /\ tries' = [tries EXCEPT ![dev[p]] = @ - 1]
  /\ rc' = [rc EXCEPT ![p] = 0]
  /\ Goto(p, "again")
  /\ UNCHANGED <<todo, dev, token, sig, result, claimed, locked, touch, valid, file>>

\* The device takes no more PINs: a status doSign has no case for.
PinBlocked(p) ==
  /\ pc[p] = "pin"
  /\ tries[dev[p]] = 0
  /\ Fail(p, 0)
  /\ UNCHANGED <<todo, dev, token, sig, result, claimed, deviceVars, file>>

\* saveToken: the file is created or truncated.  When it cannot be opened the
\* token is not cached, and signing goes on.
SaveOpen(p) ==
  /\ pc[p] = "saveOpen"
  /\ \/ /\ file' = [file EXCEPT ![dev[p]] = Torn]
        /\ Goto(p, "saveWrite")
     \/ /\ DiskFaults
        /\ Goto(p, "sign")
        /\ UNCHANGED file
  /\ UNCHANGED <<todo, dev, token, sig, rc, result, claimed, deviceVars>>

\* saveToken: the 16 bytes are written; a short write is not noticed.
SaveWrite(p) ==
  /\ pc[p] = "saveWrite"
  /\ \/ file' = [file EXCEPT ![dev[p]] = token[p]]
     \/ DiskFaults /\ UNCHANGED file
  /\ Goto(p, "sign")
  /\ UNCHANGED <<todo, dev, token, sig, rc, result, claimed, deviceVars>>

\* The sign request is answered 9000: the signature is copied out.
Signed(p) ==
  LET d == dev[p] IN
  /\ pc[p] = "sign"
  /\ token[p] = valid[d]
  /\ touch[d]
  /\ touch' = [touch EXCEPT ![d] = FALSE]
  /\ sig' = [sig EXCEPT ![p] = KeyOf[d]]
  /\ rc' = [rc EXCEPT ![p] = 1]
  /\ Goto(p, "unlock")
  /\ UNCHANGED <<todo, dev, token, result, claimed, locked, tries, valid, file>>

\* The sign request is answered 6985: the device wants to be touched.
TouchWanted(p) ==
  /\ pc[p] = "sign"
  /\ token[p] = valid[dev[p]]
  /\ ~touch[dev[p]]
  /\ rc' = [rc EXCEPT ![p] = 0]
  /\ Goto(p, "wink")
  /\ UNCHANGED <<todo, dev, token, sig, result, claimed, deviceVars, file>>

\* gnubby_wink, whose outcome is ignored, and a pause before the next request.
Wink(p) ==
  /\ pc[p] = "wink"
  /\ Goto(p, "sign")
  /\ UNCHANGED <<todo, dev, token, sig, rc, result, claimed, deviceVars, file>>

\* The sign request is answered 63ca: the device does not know the token.
TokenRejected(p) ==
  /\ pc[p] = "sign"
  /\ token[p] # valid[dev[p]]
  /\ rc' = [rc EXCEPT ![p] = 0]
  /\ Goto(p, "forget")
  /\ UNCHANGED <<todo, dev, token, sig, result, claimed, deviceVars, file>>

\* Mutant: doSign starts over without forgetting the token.
ForgetTokenSkipped(p) ==
  /\ pc[p] = "forget"
  /\ Goto(p, "again")
  /\ UNCHANGED <<todo, dev, token, sig, rc, result, claimed, deviceVars, file>>

\* forgetToken: the file is unlinked; whether it worked is not looked at.
ForgetToken(p) ==
  /\ pc[p] = "forget"
  /\ \/ file' = [file EXCEPT ![dev[p]] = Absent]
     \/ DiskFaults /\ UNCHANGED file
  /\ Goto(p, "again")
  /\ UNCHANGED <<todo, dev, token, sig, rc, result, claimed, deviceVars>>

\* __fail: gnubby_lock(handle_, 0), whose outcome is ignored.
Unlock(p) ==
  /\ pc[p] = "unlock"
  /\ \/ locked' = [locked EXCEPT ![dev[p]] = IF @ = p THEN None ELSE @]
     \/ UnlockLost /\ UNCHANGED locked
  /\ Goto(p, "release")
  /\ UNCHANGED <<todo, dev, token, sig, rc, result, claimed, touch, tries,
                 valid, file>>

----------------------------------------------------------------------------
(* The world around the processes.                                         *)

\* The process is killed: the kernel gives up its claim, the device keeps the
\* lock for a channel nobody speaks for.
Crash(p) ==
  /\ pc[p] # "idle"
  /\ Goto(p, "idle")
  /\ dev' = [dev EXCEPT ![p] = None]
  /\ sig' = [sig EXCEPT ![p] = None]
  /\ result' = [result EXCEPT ![p] = -1]
  /\ claimed' = [d \in Device |-> IF claimed[d] = p THEN None ELSE claimed[d]]
  /\ locked' = [d \in Device |-> IF locked[d] = p THEN Orphan ELSE locked[d]]
  /\ touch' = [d \in Device |-> touch[d] /\ claimed[d] # p]
  /\ UNCHANGED <<todo, token, rc, tries, valid, file>>

\* The 100 seconds a lock was asked for have passed.
LockExpires(d) ==
  /\ locked[d] # None
  /\ locked' = [locked EXCEPT ![d] = None]
  /\ UNCHANGED <<procVars, claimed, touch, tries, valid, file>>

\* The user touches a device that is being asked for a signature.
Touch(d) ==
  /\ ~touch[d]
  /\ \E p \in Proc : dev[p] = d /\ pc[p] \in {"sign", "wink"}
  /\ touch' = [touch EXCEPT ![d] = TRUE]
  /\ UNCHANGED <<procVars, claimed, locked, tries, valid, file>>

\* The device drops its token (it was unplugged, or its session ended).
DropToken(d) ==
  /\ valid[d] # 0
  /\ valid' = [valid EXCEPT ![d] = 0]
  /\ UNCHANGED <<procVars, claimed, locked, touch, tries, file>>

----------------------------------------------------------------------------
Step(p) ==
  \/ Start(p) \/ SkipDevice(p) \/ ClaimDevice(p) \/ Release(p)
  \/ NoMoreDevices(p) \/ Finish(p)
  \/ CommandFails(p) \/ AnswerLost(p) \/ Lock(p) \/ LockFails(p) \/ Select(p) \/ ReadSlot(p)
  \/ CompareKey(p) \/ GetToken(p) \/ PinAccepted(p) \/ PinRejected(p)
  \/ PinBlocked(p) \/ SaveOpen(p) \/ SaveWrite(p) \/ Signed(p)
  \/ TouchWanted(p) \/ Wink(p) \/ TokenRejected(p) \/ ForgetToken(p)
  \/ Unlock(p)

Next ==
  \/ \E p \in Proc : Step(p) \/ Crash(p)
  \/ \E d \in Device : LockExpires(d) \/ Touch(d) \/ DropToken(d)

Spec == Init /\ [][Next]_vars

\* A device drops its token only finitely often.  Nothing in doSign limits how
\* often it asks for a PIN, is given a token, and is told at the next request
\* that the device no longer knows it: that round ends only if the devices let it.
TokensLast == \A d \in Device : <>[][~DropToken(d)]_vars

\* A process that can run does; a user who is asked for a PIN answers, and one
\* who is asked for a touch touches; and the devices' tokens last.
FairSpec ==
  /\ Spec
  /\ \A p \in Proc : WF_vars(Step(p))
  /\ \A d \in Device : WF_vars(Touch(d))
  /\ TokensLast

----------------------------------------------------------------------------
TypeOK ==
  /\ pc \in [Proc -> Label]
  /\ todo \in [Proc -> SUBSET Device]
  /\ dev \in [Proc -> Device \cup {None}]
  /\ token \in [Proc -> Token \cup {0}]
  /\ sig \in [Proc -> {KeyOf[d] : d \in Device} \cup {None}]
  /\ rc \in [Proc -> {-1, 0, 1}]
  /\ result \in [Proc -> {-1, 1}]
  /\ claimed \in [Device -> Proc \cup {None}]
  /\ locked \in [Device -> Proc \cup {None, Orphan}]
  /\ touch \in [Device -> BOOLEAN]
  /\ tries \in [Device -> 0..PinTries]
  /\ valid \in [Device -> Token \cup {0}]
  /\ file \in [Device -> Token \cup {Absent, Torn}]

\* No handle and no claim is leaked: an interface is claimed exactly by the
\* process whose handle_ is open on it, and handle_ is open only inside doSign.
\* A device left claimed could not be used by any other run of the signer.
NoLeakedClaim ==
  \A p \in Proc :
    /\ \A d \in Device : claimed[d] = p <=> dev[p] = d
    /\ dev[p] # None <=> pc[p] \in DoSign

\* "(always try to) unlock": unless that last exchange itself is lost, a device
\* locked to a process is one the process is still using, whichever of the ways
\* out of doSign it took, and whatever was lost or refused before.
NoStrandedLock ==
  UnlockLost \/ \A p \in Proc, d \in Device : locked[d] = p => dev[p] = d

\* sign reports success (1) only with a signature made by the key it was asked
\* for, although result also carries the 0 and -1 of the exchanges, and although
\* gnubbies with other keys are tried on the way.
SignedByWantedKey ==
  \A p \in Proc : result[p] = 1 => sig[p] = Wanted[p]

\* The check of the token file is not stale when the PIN is asked for: there is
\* no usable token in the cache as long as a process wants one from the user.
PinOnlyWithoutToken ==
  \A p \in Proc :
    pc[p] \in {"pin", "saveOpen"} => file[dev[p]] \in {Absent, Torn}

\* forgetToken never throws away a token the device still accepts, even when
\* other processes obtain tokens while this one is being told its own is bad.
ForgetsOnlyStaleTokens ==
  [][\A d \in Device :
       file'[d] = Absent => file[d] = Absent \/ file[d] # valid[d]]_vars

\* "compare against key": a gnubby that answers is turned down at the comparison
\* only if it holds another key than the one sign was asked for.
RejectsOnlyWrongKey ==
  [][\A p \in Proc :
       pc[p] = "compare" /\ pc'[p] = "unlock" => KeyOf[dev[p]] # Wanted[p]]_vars

\* Every call of sign returns, as long as devices do not drop their tokens for
\* ever (TokensLast): the PIN loop ends when the device blocks, the touch loop
\* with the user's touch, and the retry after a rejected token with a token that
\* is good, although other processes obtain and store tokens meanwhile.
SignReturns ==
  \A p \in Proc : pc[p] # "idle" ~> pc[p] \in {"done", "idle"}

\* The implementation of the abstract request: a device is held while its
\* interface is claimed, and a request is answered when sign returns.
RequestStatus(p) ==
  CASE pc[p] = "idle" -> "idle"
    [] pc[p] = "done" -> IF result[p] = 1 THEN "signed" ELSE "failed"
    [] OTHER -> "trying"

Request ==
  INSTANCE SignRequest WITH status <- [p \in Proc |-> RequestStatus(p)],
                            holder <- claimed

\* doSign and the device loop of sign, with everything that can fail in them,
\* implement one request served by one device that holds the right key.
ImplementsRequest == Request!Spec
=============================================================================
