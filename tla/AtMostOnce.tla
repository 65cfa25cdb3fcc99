----------------------------- MODULE AtMostOnce -----------------------------
(***************************************************************************)
(* What a client promises of the calls made through it, without builders,  *)
(* files, tokens or connections: a call may be handed over to the gateway  *)
(* once, by which it is performed at most once; and what a call returns    *)
(* says what it can about that.  GatewayCall implements it, see            *)
(* ImplementsAtMostOnce there.                                             *)
(***************************************************************************)
EXTENDS Naturals, Sequences

CONSTANT Caller

VARIABLES
  returned,  \* for each caller, what its calls have returned
  pending,   \* the calls that the gateway may still perform
  performed  \* the calls that it has performed

onceVars == <<returned, pending, performed>>

(* What a call may return: ok; an error of the client's own checks; or an  *)
(* error that says nothing.                                                *)
Refused == {"invalid", "file_io", "denied"}
Unknown == {"failed", "abandoned"}

(* A call is known by its caller and its number.                           *)
Current(c) == <<c, Len(returned[c]) + 1>>

Init ==
  /\ returned = [c \in Caller |-> <<>>]
  /\ pending = {} /\ performed = {}

HandOver(c) ==
  /\ Current(c) \notin pending \cup performed
  /\ pending' = pending \cup {Current(c)}
  /\ UNCHANGED <<returned, performed>>

Perform(call) ==
  /\ call \in pending
  /\ pending' = pending \ {call} /\ performed' = performed \cup {call}
  /\ UNCHANGED returned

Forget(call) ==
  /\ call \in pending
  /\ pending' = pending \ {call}
  /\ UNCHANGED <<returned, performed>>

Return(c) ==
  /\ \E result \in {"ok"} \cup Refused \cup Unknown :
       /\ result = "ok" => Current(c) \in performed
       /\ result \in Refused => Current(c) \notin pending \cup performed
       /\ returned' = [returned EXCEPT ![c] = Append(@, result)]
  /\ UNCHANGED <<pending, performed>>

Next ==
  \/ \E c \in Caller : HandOver(c) \/ Return(c)
  \/ \E call \in pending : Perform(call) \/ Forget(call)

Spec == Init /\ [][Next]_onceVars
=============================================================================
