-------------------------- MODULE CapitalController --------------------------
(***************************************************************************)
(* lib/core/capital/capital_controller.py: transfers between the master    *)
(* vault and the bots, each requested, then approved or rejected by a      *)
(* user.  approve_request looks the request up, marks it, awaits the       *)
(* transfer, and only then takes it off the pending list; two approvals,   *)
(* or an approval and a rejection, of one request may overlap in that      *)
(* await.                                                                  *)
(***************************************************************************)
EXTENDS Naturals, Sequences

CONSTANTS
    Requests,      \* bound: the requests ever made
    Users,         \* the tasks that approve and reject
    MaxTransfers,  \* bound: the transfers made for one request
    Nothing

ASSUME CapitalAssumption ==
    /\ Nothing \notin Requests
    /\ MaxTransfers \in Nat \ {0}

VARIABLES
    reqStatus,   \* TransferRequest.status; "unborn" before the request is made
    pending,     \* pending_requests
    transfers,   \* transfer_history, as how often each request is in it
    moved,       \* how often the money of each request was moved (external)
    busy,        \* the request whose transfer each user's approval awaits
    rejected     \* the requests some user rejected

capVars == <<reqStatus, pending, transfers, moved, busy, rejected>>

Final == {"COMPLETED", "FAILED", "REJECTED"}

CapTypeOK ==
    /\ reqStatus \in [Requests -> {"unborn", "PENDING", "APPROVED"} \cup Final]
    /\ pending \subseteq Requests
    /\ transfers \in [Requests -> Nat]
    /\ moved \in [Requests -> 0 .. MaxTransfers]
    /\ busy \in [Users -> Requests \cup {Nothing}]
    /\ rejected \subseteq Requests

CapInit ==
    /\ reqStatus = [r \in Requests |-> "unborn"]
    /\ pending = {}
    /\ transfers = [r \in Requests |-> 0]
    /\ moved = [r \in Requests |-> 0]
    /\ busy = [u \in Users |-> Nothing]
    /\ rejected = {}

\* request_reinvest, request_withdraw: always an approval to wait for
\* (require_approval is never changed)
MakeRequest(r) ==
    /\ reqStatus[r] = "unborn"
    /\ reqStatus' = [reqStatus EXCEPT ![r] = "PENDING"]
    /\ pending' = pending \cup {r}
    /\ UNCHANGED <<transfers, moved, busy, rejected>>

\* mutant of Approve: the request is taken off the list before the transfer
Approve_Removes(u, r) ==
    /\ busy[u] = Nothing
    /\ r \in pending
    /\ reqStatus' = [reqStatus EXCEPT ![r] = "APPROVED"]
    /\ busy' = [busy EXCEPT ![u] = r]
    /\ pending' = pending \ {r}
    /\ UNCHANGED <<transfers, moved, rejected>>

\* approve_request up to the await: whatever is on the list is approved
Approve(u, r) ==
    /\ busy[u] = Nothing
    /\ r \in pending
    /\ reqStatus' = [reqStatus EXCEPT ![r] = "APPROVED"]
    /\ busy' = [busy EXCEPT ![u] = r]
    /\ UNCHANGED <<pending, transfers, moved, rejected>>

\* mutants of TransferDone: a transfer that is tried twice, one that is entered
\* into the history only when it succeeds, one whose failure changes no status
TransferDone_Twice(u, success) ==
    /\ busy[u] # Nothing
    /\ LET r == busy[u] IN
        /\ moved' = [moved EXCEPT ![r] = @ + 2]
        /\ reqStatus' = [reqStatus EXCEPT ![r] = IF success THEN "COMPLETED" ELSE "FAILED"]
        /\ transfers' = [transfers EXCEPT ![r] = @ + 1]
        /\ pending' = pending \ {r}
    /\ busy' = [busy EXCEPT ![u] = Nothing]
    /\ UNCHANGED rejected

TransferDone_Unlogged(u, success) ==
    /\ busy[u] # Nothing
    /\ LET r == busy[u] IN
        /\ moved[r] < MaxTransfers /\ moved' = [moved EXCEPT ![r] = @ + 1]
        /\ reqStatus' = [reqStatus EXCEPT ![r] = IF success THEN "COMPLETED" ELSE "FAILED"]
        /\ transfers' = IF success THEN [transfers EXCEPT ![r] = @ + 1] ELSE transfers
        /\ pending' = pending \ {r}
    /\ busy' = [busy EXCEPT ![u] = Nothing]
    /\ UNCHANGED rejected

TransferDone_Silent(u, success) ==
    /\ busy[u] # Nothing
    /\ LET r == busy[u] IN
        /\ moved' = moved
        /\ reqStatus' = IF success THEN [reqStatus EXCEPT ![r] = "COMPLETED"] ELSE reqStatus
        /\ transfers' = [transfers EXCEPT ![r] = @ + 1]
        /\ pending' = pending \ {r}
    /\ busy' = [busy EXCEPT ![u] = Nothing]
    /\ UNCHANGED rejected

\* the transfer itself, and the outcome: moved and answered, moved and the
\* answer lost, or refused
TransferDone(u, success) ==
    /\ busy[u] # Nothing
    /\ LET r == busy[u] IN
        /\ \E money \in BOOLEAN :
            /\ success => money
            /\ money => moved[r] < MaxTransfers
            /\ moved' = IF money THEN [moved EXCEPT ![r] = @ + 1] ELSE moved
        /\ reqStatus' = [reqStatus EXCEPT ![r] = IF success THEN "COMPLETED" ELSE "FAILED"]
        /\ transfers' = [transfers EXCEPT ![r] = @ + 1]
        \* list.remove: ValueError when somebody removed it in the meantime
        /\ pending' = pending \ {r}
    /\ busy' = [busy EXCEPT ![u] = Nothing]
    /\ UNCHANGED rejected

\* reject_request: the same list, no await
Reject(u, r) ==
    /\ busy[u] = Nothing
    /\ r \in pending
    /\ reqStatus' = [reqStatus EXCEPT ![r] = "REJECTED"]
    /\ rejected' = rejected \cup {r}
    /\ transfers' = [transfers EXCEPT ![r] = @ + 1]
    /\ pending' = pending \ {r}
    /\ UNCHANGED <<moved, busy>>

CapNext ==
    \/ \E r \in Requests : MakeRequest(r)
    \/ \E u \in Users, r \in Requests : Approve(u, r) \/ Reject(u, r)
    \/ \E u \in Users, success \in BOOLEAN : TransferDone(u, success)

CapSpec == CapInit /\ [][CapNext]_capVars

\* the transfer comes back, one way or the other
TransferEnds(u) == \E success \in BOOLEAN : TransferDone(u, success)
CapFairSpec == CapSpec /\ \A u \in Users : WF_capVars(TransferEnds(u))

-----------------------------------------------------------------------------
(* Properties *)

\* A request off the pending list is accounted for: it is in the history, or
\* was never made.
NothingVanishes ==
    \A r \in Requests :
        \/ reqStatus[r] = "unborn" /\ r \notin pending
        \/ r \in pending /\ reqStatus[r] \notin Final /\ transfers[r] = 0
        \/ r \notin pending /\ transfers[r] > 0

\* Every movement of money is backed by an entry of the history.
MovesAreInHistory == \A r \in Requests : moved[r] <= transfers[r]

\* An approval comes to an end, and its request is settled then.
ApprovalSettles ==
    \A u \in Users, r \in Requests : busy[u] = r ~> (busy[u] # r /\ reqStatus[r] \in Final)

\* capital_controller.py:58, "every movement of capital needs the user's
\* explicit approval": one approval moves the money of a request once, and
\* nothing moves it after a rejection.
OncePerConsent == \A r \in Requests : moved[r] <= 1 /\ (r \in rejected => moved[r] = 0)
=============================================================================
