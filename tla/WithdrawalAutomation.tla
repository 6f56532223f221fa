------------------------ MODULE WithdrawalAutomation ------------------------
(***************************************************************************)
(* department_7/src/withdrawal_automation.py: half of every profit waits   *)
(* for its withdrawal (allocate_profit), the user confirms                 *)
(* (execute_consolidation, Confirm below) or asks for one exchange         *)
(* (manual_withdrawal_request), and three files keep the state over a      *)
(* restart (_save_data, _load_data).                                       *)
(*                                                                         *)
(* Everything between two awaits is one step.  The only await that matters *)
(* is _execute_withdrawal, today a stub that sleeps and answers True; the  *)
(* model takes it by its interface (True or False).  Amounts are units of  *)
(* the half that is withdrawn; wEarned and wPaid are what the model knows  *)
(* and the code does not.                                                  *)
(***************************************************************************)
EXTENDS Naturals, Sequences, FiniteSets

CONSTANTS
    Exchanges,        \* keys of pending_withdrawals
    Confirmers,       \* tasks inside execute_consolidation
    Manuals,          \* tasks inside manual_withdrawal_request
    MaxCrashes,       \* bound: how often the process dies and starts again
    MaxEarned,        \* bound: profits allocated for each exchange
    MaxHistory        \* bound: withdrawal requests

ASSUME WAssumption ==
    /\ Confirmers \cap Manuals = {}
    /\ MaxCrashes \in Nat /\ MaxEarned \in Nat \ {0} /\ MaxHistory \in Nat

VARIABLES
    wPend,     \* pending_withdrawals
    wHist,     \* withdrawal_history
    wFile,     \* withdrawals.json and pending_withdrawals.json
    wTask,     \* what each task still has to withdraw, and its request
    wEarned,   \* halves of profits, by exchange
    wPaid,     \* what consolidations were told they have moved, by exchange
    wCrashes   \* restarts so far

wvars == <<wPend, wHist, wFile, wTask, wEarned, wPaid, wCrashes>>
Withdrawers == Confirmers \cup Manuals
NoRequest == 0
WIdle == [on |-> FALSE, left |-> {}, req |-> NoRequest]
Zero == [e \in Exchanges |-> 0]

WInit ==
    /\ wPend = Zero /\ wHist = <<>>
    /\ wFile = [pend |-> Zero, hist |-> <<>>]
    /\ wTask = [t \in Withdrawers |-> WIdle]
    /\ wEarned = Zero /\ wPaid = Zero /\ wCrashes = 0

\* mutant of SaveData: the history is not written
SaveData_PendingOnly(pend, hist) ==
    /\ wPend' = pend
    /\ wHist' = hist
    /\ wFile' = [wFile EXCEPT !.pend = pend]

\* _save_data, at the end of a step that leaves pend and hist in memory.
SaveData(pend, hist) ==
    /\ wPend' = pend
    /\ wHist' = hist
    /\ wFile' = [pend |-> pend, hist |-> hist]

AllocateProfit(e) ==
    /\ wEarned[e] < MaxEarned
    /\ wEarned' = [wEarned EXCEPT ![e] = @ + 1]
    /\ SaveData([wPend EXCEPT ![e] = @ + 1], wHist)
    /\ UNCHANGED <<wTask, wPaid, wCrashes>>

Processing(e, amount) == [exchange |-> e, amount |-> amount, status |-> "processing"]

\* mutant of Consolidate: the waiting amounts are not cleared
Consolidate_Keeps(t, items, hist) ==
    LET due == {item \in items : item.amount > 0}
    IN  IF due = {}
        THEN /\ SaveData(wPend, hist)
             /\ wTask' = [wTask EXCEPT ![t] = WIdle]
        ELSE \E item \in due :
             /\ wHist' = Append(hist, Processing(item.exchange, item.amount))
             /\ wTask' = [wTask EXCEPT ![t] = [on |-> TRUE, left |-> due \ {item}, req |-> Len(hist) + 1]]
             /\ UNCHANGED <<wPend, wFile>>

\* The loop of execute_consolidation from one item of its list to the next, in
\* whatever order the dictionary holds them: a positive amount is put into the
\* history and awaited; after the last one the waiting amounts are cleared and
\* everything is saved.
Consolidate(t, items, hist) ==
    LET due == {item \in items : item.amount > 0}
    IN  IF due = {}
        THEN /\ SaveData(Zero, hist)
             /\ wTask' = [wTask EXCEPT ![t] = WIdle]
        ELSE \E item \in due :
             /\ wHist' = Append(hist, Processing(item.exchange, item.amount))
             /\ wTask' = [wTask EXCEPT ![t] = [on |-> TRUE, left |-> due \ {item}, req |-> Len(hist) + 1]]
             /\ UNCHANGED <<wPend, wFile>>

\* The list is a copy: what is allocated from now on is not on it.
PendingItems == {[exchange |-> e, amount |-> wPend[e]] : e \in Exchanges}

Confirm(t) ==
    /\ ~wTask[t].on
    /\ Len(wHist) + Cardinality(Exchanges) <= MaxHistory
    /\ Consolidate(t, PendingItems, wHist)
    /\ UNCHANGED <<wEarned, wPaid, wCrashes>>

\* mutant of Settled: the verdict is written to the last request
Settled_Last(t, success) ==
    [wHist EXCEPT ![Len(wHist)].status = IF success THEN "completed" ELSE "failed"]

Settled(t, success) ==
    [wHist EXCEPT ![wTask[t].req].status = IF success THEN "completed" ELSE "failed"]

Paying(t) == LET r == wHist[wTask[t].req] IN [wPaid EXCEPT ![r.exchange] = @ + r.amount]

\* The await of _execute_withdrawal in execute_consolidation returns.
Withdrawn(t, success) ==
    /\ t \in Confirmers /\ wTask[t].on
    /\ wPaid' = IF success THEN Paying(t) ELSE wPaid
    /\ Consolidate(t, wTask[t].left, Settled(t, success))
    /\ UNCHANGED <<wEarned, wCrashes>>

ManualRequest(t, e) ==
    /\ ~wTask[t].on /\ Len(wHist) < MaxHistory
    /\ wHist' = Append(wHist, Processing(e, 1))
    /\ wTask' = [wTask EXCEPT ![t] = [on |-> TRUE, left |-> {}, req |-> Len(wHist) + 1]]
    /\ UNCHANGED <<wPend, wFile, wEarned, wPaid, wCrashes>>

ManualWithdrawn(t, success) ==
    /\ t \in Manuals /\ wTask[t].on
    /\ SaveData(wPend, Settled(t, success))
    /\ wTask' = [wTask EXCEPT ![t] = WIdle]
    /\ UNCHANGED <<wEarned, wPaid, wCrashes>>

\* The process dies and starts again: the tasks are gone, and _load_data reads the
\* files back.  Whether a withdrawal under way was served nobody is told.
Restart ==
    /\ wCrashes < MaxCrashes /\ wCrashes' = wCrashes + 1
    /\ wPend' = wFile.pend /\ wHist' = wFile.hist
    /\ wTask' = [t \in Withdrawers |-> WIdle]
    /\ UNCHANGED <<wFile, wEarned, wPaid>>

WNext ==
    \/ \E e \in Exchanges : AllocateProfit(e)
    \/ \E t \in Confirmers : Confirm(t)
    \/ \E t \in Confirmers, s \in BOOLEAN : Withdrawn(t, s)
    \/ \E t \in Manuals, e \in Exchanges : ManualRequest(t, e)
    \/ \E t \in Manuals, s \in BOOLEAN : ManualWithdrawn(t, s)
    \/ Restart

WSpec == WInit /\ [][WNext]_wvars

WBusy(t) == wTask[t].on

WTypeOK ==
    /\ wPend \in [Exchanges -> 0..MaxEarned]
    /\ wEarned \in [Exchanges -> 0..MaxEarned] /\ wPaid \in [Exchanges -> Nat]
    /\ \A i \in DOMAIN wHist : /\ wHist[i].exchange \in Exchanges
                               /\ wHist[i].amount \in 1..MaxEarned
                               /\ wHist[i].status \in {"processing", "completed", "failed"}
    /\ \A t \in Withdrawers : WBusy(t) => wTask[t].req \in DOMAIN wHist

\* When no withdrawal is under way the files hold what the memory holds: a
\* restart then loses nothing and repeats nothing (_save_data at the end of
\* every operation, whatever the withdrawals answered).
QuietIsSaved ==
    (\A t \in Withdrawers : ~WBusy(t)) => wFile = [pend |-> wPend, hist |-> wHist]

\* As long as the process lives, consolidations never move more than the
\* halves set aside for them ("50% 출금 대기", withdrawal_automation.py:173):
\* what was withdrawn once is not withdrawn again.
PaidWithinEarned == wCrashes = 0 => \A e \in Exchanges : wPaid[e] <= wEarned[e]

\* What was earned is paid at most once, and what is on disk is what is known.
WithdrawalsAreSaved == QuietIsSaved /\ PaidWithinEarned

\* The verdict on a request stands: however consolidations and manual
\* withdrawals overlap, each writes the status of its own request only.
SettledOnce ==
    [][wCrashes' = wCrashes =>
       \A i \in DOMAIN wHist : wHist[i].status # "processing" /\ i \in DOMAIN wHist'
          => wHist'[i] = wHist[i]]_wvars
=============================================================================
