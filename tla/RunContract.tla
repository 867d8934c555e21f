------------------------------- MODULE RunContract -------------------------------
(***************************************************************************)
(* What a run promises, without its passes, loops and lists.               *)
(*                                                                         *)
(* Every package is settled once and for all.  The ones that are not to be *)
(* checked are settled before the first check; the others are checked in   *)
(* the order of the workspace; and the run closes when no package is left, *)
(* or on the failure that a fail-fast run stops at.  A run that errs has   *)
(* checked nothing.                                                        *)
(***************************************************************************)
EXTENDS Naturals

CONSTANT N

VARIABLES
  outcome,    \* what became of each package
  phase,      \* "open", "closed" or "aborted"
  failFast    \* does the run stop at the first failure?

cvars == <<outcome, phase, failFast>>

Packages == 1..N
Unchecked == {"ignored", "skipped"}
Checked == {"passed", "failed"}

NothingChecked == \A p \in Packages : outcome[p] \notin Checked
Stopped == failFast /\ \E p \in Packages : outcome[p] = "failed"

CInit ==
  /\ outcome = [p \in Packages |-> "pending"]
  /\ phase = "open"
  /\ failFast \in BOOLEAN

SettleUnchecked(p, how) ==
  /\ phase = "open" /\ NothingChecked
  /\ outcome[p] = "pending"
  /\ outcome' = [outcome EXCEPT ![p] = how]
  /\ UNCHANGED <<phase, failFast>>

Check(p, how) ==
  /\ phase = "open" /\ ~Stopped
  /\ outcome[p] = "pending"
  /\ \A q \in Packages : q < p => outcome[q] # "pending"
  /\ outcome' = [outcome EXCEPT ![p] = how]
  /\ UNCHANGED <<phase, failFast>>

Close ==
  /\ phase = "open"
  /\ Stopped \/ \A p \in Packages : outcome[p] # "pending"
  /\ phase' = "closed"
  /\ UNCHANGED <<outcome, failFast>>

Abort ==
  /\ phase = "open" /\ NothingChecked
  /\ phase' = "aborted"
  /\ UNCHANGED <<outcome, failFast>>

CNext ==
  \/ \E p \in Packages :
       \/ \E how \in Unchecked : SettleUnchecked(p, how)
       \/ \E how \in Checked : Check(p, how)
  \/ Close \/ Abort

CSpec == CInit /\ [][CNext]_cvars

=============================================================================
