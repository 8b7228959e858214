----------------------------- MODULE AtMostOnce -----------------------------
(***************************************************************************)
(* What replay suppression promises (replay.py:1-10): one process lets     *)
(* each signed request through once.  A process forgets everything when it *)
(* restarts, so the promise is made per incarnation ("boot").              *)
(***************************************************************************)
EXTENDS Naturals

CONSTANTS Requests, MaxBoots

VARIABLES
  boot,       \* the incarnation of the process that is running
  admitted    \* admitted[b][r]: how often incarnation b let r through

vars == <<boot, admitted>>

Boots == 1..MaxBoots

Init == /\ boot = 1
        /\ admitted = [b \in Boots |-> [r \in Requests |-> 0]]

Admit(r) == /\ admitted[boot][r] = 0
            /\ admitted' = [admitted EXCEPT ![boot][r] = 1]
            /\ UNCHANGED boot

Restart == /\ boot < MaxBoots
           /\ boot' = boot + 1
           /\ UNCHANGED admitted

Next == Restart \/ \E r \in Requests : Admit(r)

Spec == Init /\ [][Next]_vars
=============================================================================
