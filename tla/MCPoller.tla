------------------------------ MODULE MCPoller ------------------------------
(* Poller for TLC.                                                         *)
EXTENDS Poller, TLC

MCProcs == Ops \cup {PollLoop}

\* Every zone allows every exit node.
AllAllowed == [r \in Routers |-> Exits]

\* One inventory, everything online.
Online == {[n \in Nodes |-> "online"]}

\* The routers come and go, the exit nodes stay online.
Coming == {f \in [Nodes -> {"online", "absent"}] : \A x \in Exits : f[x] = "online"}

OpSymmetry == Permutations(Ops)
=============================================================================
