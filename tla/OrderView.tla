----------------------------- MODULE OrderView -----------------------------
(***************************************************************************)
(* What the engine promises about the status it shows for an order it has  *)
(* an exchange id for: a status the order really has, or had.  The         *)
(* exchange moves an order forward only; the view may lag behind, and may  *)
(* even step back to an older truth, but it never runs ahead of the        *)
(* exchange and never shows an end the order did not come to.              *)
(***************************************************************************)
CONSTANT Orders

VARIABLES truth, view

viewVars == <<truth, view>>

Truths == {"none", "open", "closed", "canceled", "expired"}
Views  == {"none", "PENDING", "OPEN", "FILLED", "CANCELLED", "REJECTED"}

\* the local names of an exchange status; "expired" has none of its own
Shown(s) ==
    CASE s = "open"     -> {"OPEN"}
      [] s = "closed"   -> {"FILLED", "OPEN"}
      [] s = "canceled" -> {"CANCELLED", "OPEN"}
      [] s = "expired"  -> {"PENDING", "OPEN"}
      [] OTHER          -> {}

ViewInit ==
    /\ truth = [o \in Orders |-> "none"]
    /\ view = [o \in Orders |-> "none"]

\* the exchange: an order is opened once and ends once
Advance(o) ==
    /\ \/ truth[o] = "none" /\ truth' = [truth EXCEPT ![o] = "open"]
       \/ truth[o] = "open" /\ \E s \in {"closed", "canceled", "expired"} :
                                   truth' = [truth EXCEPT ![o] = s]
    /\ UNCHANGED view

\* the engine: an order is constructed, then either known or given up for
\* rejected; once known it is shown by what it is or was
Submit(o) ==
    /\ view[o] = "none" /\ truth[o] = "none"
    /\ view' = [view EXCEPT ![o] = "PENDING"]
    /\ UNCHANGED truth

Observe(o) ==
    /\ view[o] \in Views \ {"none", "REJECTED"}
    /\ \E v \in Shown(truth[o]) : view' = [view EXCEPT ![o] = v]
    /\ UNCHANGED truth

GiveUp(o) ==
    /\ \/ view[o] = "PENDING" /\ view' = [view EXCEPT ![o] = "REJECTED"]
       \/ view[o] = "REJECTED" /\ view' = [view EXCEPT ![o] = "CANCELLED"]
    /\ UNCHANGED truth

ViewNext == \E o \in Orders : Advance(o) \/ Submit(o) \/ Observe(o) \/ GiveUp(o)

ViewSpec == ViewInit /\ [][ViewNext]_viewVars
=============================================================================
