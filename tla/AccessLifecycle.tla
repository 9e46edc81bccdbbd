---------------------------- MODULE AccessLifecycle ----------------------------
(***************************************************************************)
(* What the control plane promises about the status of device accesses: an *)
(* access is created pending, is activated at most once, is suspended and  *)
(* resumed with the balance of its user, and once it is revoked or in      *)
(* error it is never active again (the user gets a new device instead).    *)
(***************************************************************************)
CONSTANTS Devices, Protocols

VARIABLE access

Statuses == {"none", "pending", "active", "suspended_nonpayment", "revoked", "error"}

(* The edges one access may take by itself.  Two overlapping revocations   *)
(* may end differently, the last write wins.                               *)
Edges == {<<"none", "pending">>, <<"pending", "active">>, <<"pending", "error">>}
            \cup ({"active", "suspended_nonpayment", "revoked", "error"}
                     \X {"revoked", "error"})

Move(d, pr, s) ==
    /\ <<access[d][pr], s>> \in Edges
    /\ access' = [access EXCEPT ![d][pr] = s]

(* Billing moves the accesses of some devices together. *)
Swap(D, from, to) ==
    access' = [d \in Devices |-> [pr \in Protocols |->
                  IF d \in D /\ access[d][pr] = from THEN to ELSE access[d][pr]]]

LifeInit == access = [d \in Devices |-> [pr \in Protocols |-> "none"]]

LifeNext ==
    \/ \E d \in Devices, pr \in Protocols, s \in Statuses : Move(d, pr, s)
    \/ \E D \in SUBSET Devices : \/ Swap(D, "active", "suspended_nonpayment")
                                 \/ Swap(D, "suspended_nonpayment", "active")

LifeSpec == LifeInit /\ [][LifeNext]_access
================================================================================
