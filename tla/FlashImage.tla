----------------------------- MODULE FlashImage -----------------------------
(***************************************************************************)
(* What the script bs promises about the full image it is asked to update: *)
(* the image changes only by having both RW images of one request put in   *)
(* their places, both in one step, and a request is answered with success  *)
(* only after that.  Whatever fails or is killed on the way leaves the     *)
(* image as it was.                                                        *)
(***************************************************************************)
EXTENDS FlashLayout

CONSTANTS
  Proc,       \* requesters
  Target,     \* the full images
  Command     \* what can be asked for

VARIABLES
  image,        \* image[t]
  status,       \* status[p]: how far the request of p has got
  request       \* request[p]

vars == <<image, status, request>>

\* Requests for hex files, or for an image kept elsewhere, replace no image.
Updates(r) == ~r.hex /\ r.path \in Target

\* A request arrives.
Ask(p, r) ==
  /\ status[p] = "idle"
  /\ status' = [status EXCEPT ![p] = "working"]
  /\ request' = [request EXCEPT ![p] = r]
  /\ UNCHANGED image

\* The image is replaced, once for each request.
Install(p) ==
  /\ status[p] = "working"
  /\ Updates(request[p])
  /\ image' = [image EXCEPT ![request[p].path] = Updated(@, request[p])]
  /\ status' = [status EXCEPT ![p] = "installed"]
  /\ UNCHANGED request

Succeed(p) ==
  /\ \/ status[p] = "installed"
     \/ status[p] = "working" /\ ~Updates(request[p])
  /\ status' = [status EXCEPT ![p] = "success"]
  /\ UNCHANGED <<image, request>>

GiveUp(p) ==
  /\ status[p] \in {"working", "installed"}
  /\ status' = [status EXCEPT ![p] = "fail"]
  /\ UNCHANGED <<image, request>>

\* The requester takes the answer, or is killed, and may think of another one.
Leave(p) ==
  /\ status[p] # "idle"
  /\ status' = [status EXCEPT ![p] = "idle"]
  /\ \E r \in Command : request' = [request EXCEPT ![p] = r]
  /\ UNCHANGED image

Next ==
  \E p \in Proc :
    \/ \E r \in Command : Ask(p, r)
    \/ Install(p) \/ Succeed(p) \/ GiveUp(p) \/ Leave(p)

Spec ==
  /\ status = [p \in Proc |-> "idle"]
  /\ [][Next]_vars
=============================================================================
