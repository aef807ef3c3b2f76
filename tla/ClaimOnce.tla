----------------------------- MODULE ClaimOnce -----------------------------
(***************************************************************************)
(* What a claim promises to the clients that finalize it, whatever happens *)
(* to the requests, the two stores and the Worker in between: of all the   *)
(* payloads they send one becomes a manual, once, and only those who sent  *)
(* that very payload are ever told that theirs was saved.                  *)
(*                                                                         *)
(* CloudClaim implements this specification.                               *)
(***************************************************************************)
EXTENDS Sequences

CONSTANTS Clients, Values, None

VARIABLES made,  \* the manuals made for the claim
          told   \* told[c]: what client c was last told is saved

vars == <<made, told>>

Init == made = <<>> /\ told = [c \in Clients |-> None]

\* The answer to the client whose payload it is may be lost.
Save(c, v) ==
  /\ made = <<>>
  /\ made' = <<v>>
  /\ told' \in {told, [told EXCEPT ![c] = v]}

Confirm(c) ==
  /\ made # <<>>
  /\ told' = [told EXCEPT ![c] = made[1]]
  /\ UNCHANGED made

\* The client sends another request, whose answer it does not know yet.
Ask(c) ==
  /\ told' = [told EXCEPT ![c] = None]
  /\ UNCHANGED made

Next == \E c \in Clients : Confirm(c) \/ Ask(c) \/ \E v \in Values : Save(c, v)

Spec == Init /\ [][Next]_vars
=============================================================================
