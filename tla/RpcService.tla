---------------------------- MODULE RpcService ----------------------------
(***************************************************************************)
(* What the two offload thunks (MarsSh2UDiv, MarsSh2Lz) promise their      *)
(* callers: a call is answered, whoever does the work, with the answer the *)
(* stock 68000 routine would have given.  Nothing of the SH2, the comm     *)
(* registers or the timeout shows.                                         *)
(***************************************************************************)
CONSTANTS Requests,    \* what a caller may ask
          Answer(_),   \* the stock routine's answer to a request
          NoRequest,   \* before the first call
          NoAnswer

VARIABLES stage,       \* "idle" or "busy"
          asked,       \* the last request
          answer       \* the last answer

vars == <<stage, asked, answer>>

Init == /\ stage = "idle"
        /\ asked = NoRequest
        /\ answer = NoAnswer

Ask(r) == /\ stage = "idle"
          /\ stage' = "busy"
          /\ asked' = r
          /\ answer' = NoAnswer

Reply == /\ stage = "busy"
         /\ stage' = "idle"
         /\ answer' = Answer(asked)
         /\ UNCHANGED asked

Next == Reply \/ \E r \in Requests : Ask(r)

Safe == Init /\ [][Next]_vars
Spec == Safe /\ WF_vars(Reply)
===========================================================================
