----------------------------- MODULE PairStore ------------------------------
(****************************************************************************)
(* What the stores of the device identity promise: the secret of a store is *)
(* drawn once and never replaced, and a helper is only ever bound to the    *)
(* secret beside it.  Values are written one at a time, the secret first.   *)
(* A store may break, for reasons the implementation has to name; from then *)
(* on it promises nothing.                                                  *)
(****************************************************************************)

CONSTANTS Stores, Secrets

None == 0

VARIABLES
  secret,   \* the secret in each store, or None
  bound,    \* the secret that the helper in each store was enrolled with, or None
  broken    \* the stores that have broken

vars == <<secret, bound, broken>>

Init ==
  /\ secret \in [Stores -> Secrets \cup {None}] /\ bound \in [Stores -> Secrets \cup {None}]
  /\ \A s \in Stores : bound[s] \in {None, secret[s]}
  /\ broken = {}

\* Only one store at a time changes.
Only(s) ==
  /\ secret' = [secret EXCEPT ![s] = secret'[s]]
  /\ bound' = [bound EXCEPT ![s] = bound'[s]]

DrawSecret(s) ==
  /\ secret[s] = None /\ bound[s] = None
  /\ secret'[s] \in Secrets /\ bound'[s] = None

BindHelper(s) ==
  /\ secret[s] # None
  /\ secret'[s] = secret[s] /\ bound'[s] = secret[s]

Next ==
  \E s \in Stores :
    /\ Only(s)
    /\ \/ (DrawSecret(s) \/ BindHelper(s)) /\ UNCHANGED broken
       \/ s \in broken' /\ broken' \in {broken, broken \cup {s}}

Spec == Init /\ [][Next]_vars
=============================================================================
