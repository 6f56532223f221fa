------------------------------- MODULE JitoSender -------------------------------
(* The bundle sender of the Jito block engine (src/jito/block_engine/sender.py) *)
(* send_bundle puts a validated bundle on a queue; sender loops, one per start, *)
(* take bundles off it, submit them, and fall back to sending the first         *)
(* transaction alone through an ordinary RPC endpoint.                          *)
EXTENDS Integers, Sequences, SequencesExt, ExchangeCalls

CONSTANTS Bundles,  \* the bundles that may be sent
          MaxStarts \* bound on the calls of start

ASSUME JitoAssumption == MaxStarts \in Nat

VARIABLES jRun,    \* running
          jStarts, \* the calls of start so far
          jIdle,   \* the sender loops that wait at the queue
          jQueue,  \* pending_bundles
          jAt,     \* where a bundle is: "new", "queued", "submit", "fallback" or "over"
          jLanded, \* what of it has reached the chain: "none", "first" or "all"
          jSent    \* the bundles sent_bundles shows as sent

jvars == <<jRun, jStarts, jIdle, jQueue, jAt, jLanded, jSent>>

JitoInit ==
    /\ jRun = FALSE /\ jStarts = 0 /\ jIdle = 0 /\ jQueue = <<>>
    /\ jAt = [b \in Bundles |-> "new"] /\ jLanded = [b \in Bundles |-> "none"]
    /\ jSent = {}

\* start makes a loop, also when a loop of an earlier run still waits.
JitoStart ==
    /\ ~jRun /\ jStarts < MaxStarts
    /\ jRun' = TRUE /\ jStarts' = jStarts + 1 /\ jIdle' = jIdle + 1
    /\ UNCHANGED <<jQueue, jAt, jLanded, jSent>>

\* stop closes the connection; it neither wakes the loop nor empties the queue.
JitoStop ==
    /\ jRun /\ jRun' = FALSE
    /\ UNCHANGED <<jStarts, jIdle, jQueue, jAt, jLanded, jSent>>

\* send_bundle: the slot is asked for, every protector agrees.  With a target slot
\* of the caller's own it works on a stopped sender too.
SendBundle(b, own) ==
    /\ jAt[b] = "new" /\ (jRun \/ own) /\ jStarts > 0
    /\ jQueue' = Append(jQueue, b)
    /\ jAt' = [jAt EXCEPT ![b] = "queued"]
    /\ UNCHANGED <<jRun, jStarts, jIdle, jLanded, jSent>>

TakeBundle ==
    /\ jIdle > 0 /\ jQueue # <<>>
    /\ jQueue' = Tail(jQueue) /\ jIdle' = jIdle - 1
    /\ jAt' = [jAt EXCEPT ![Head(jQueue)] = "submit"]
    /\ UNCHANGED <<jRun, jStarts, jLanded, jSent>>

\* mutant of LoopGoesOn: a loop takes one bundle
LoopGoesOn_Ends == jIdle' = jIdle

\* The loop looks at running only after it has dealt with a bundle.
LoopGoesOn == jIdle' = IF jRun THEN jIdle + 1 ELSE jIdle

\* mutant of Over: a bundle that was dealt with is shown as sent
Over_Shown(b, shown) ==
    /\ jAt' = [jAt EXCEPT ![b] = "over"]
    /\ jSent' = jSent \cup {b}
    /\ LoopGoesOn

Over(b, shown) ==
    /\ jAt' = [jAt EXCEPT ![b] = "over"]
    /\ jSent' = IF shown THEN jSent \cup {b} ELSE jSent
    /\ LoopGoesOn

\* _submit_bundle: an error of the engine, or a lost answer, leads to the fallback;
\* an answer without result or error does not.
SubmitBundle(b, out, empty) ==
    /\ jAt[b] = "submit"
    /\ empty => out = "refused"
    /\ jLanded' = IF Served(out) THEN [jLanded EXCEPT ![b] = "all"] ELSE jLanded
    /\ IF AnswerCame(out) \/ empty THEN Over(b, AnswerCame(out))
       ELSE jAt' = [jAt EXCEPT ![b] = "fallback"] /\ UNCHANGED <<jIdle, jSent>>
    /\ UNCHANGED <<jRun, jStarts, jQueue>>

\* _fallback_send, at the first healthy endpoint; a transaction that has landed
\* with its bundle is not executed again.
FallbackSend(b, out) ==
    /\ jAt[b] = "fallback"
    /\ jLanded' = IF Served(out) /\ jLanded[b] = "none" THEN [jLanded EXCEPT ![b] = "first"] ELSE jLanded
    /\ Over(b, AnswerCame(out))
    /\ UNCHANGED <<jRun, jStarts, jQueue>>

JitoAnswered(b) ==
    \E out \in Outcomes : FallbackSend(b, out) \/ \E empty \in BOOLEAN : SubmitBundle(b, out, empty)

JitoNext ==
    \/ JitoStart \/ JitoStop \/ TakeBundle
    \/ \E b \in Bundles, own \in BOOLEAN : SendBundle(b, own)
    \/ \E b \in Bundles : JitoAnswered(b)

JitoFairness == WF_jvars(TakeBundle) /\ \A b \in Bundles : WF_jvars(JitoAnswered(b))

JitoSpec == JitoInit /\ [][JitoNext]_jvars /\ JitoFairness

------------------------------------------------------------------------------
JitoTypeOK ==
    /\ jRun \in BOOLEAN /\ jStarts \in 0 .. MaxStarts /\ jIdle \in 0 .. jStarts
    /\ jQueue \in Seq({b \in Bundles : jAt[b] = "queued"})
    /\ jAt \in [Bundles -> {"new", "queued", "submit", "fallback", "over"}]
    /\ jLanded \in [Bundles -> {"none", "first", "all"}] /\ jSent \subseteq Bundles

\* A bundle shown as sent has reached the chain, if only by its first transaction
\* and however the engine's answer was lost before the fallback.
SentHasLanded == \A b \in jSent : jLanded[b] # "none"

\* While the sender runs, a bundle send_bundle has accepted is dealt with, unless
\* the sender is stopped: no refusal, lost answer or restart leaves the queue
\* without a loop.
QueuedIsTaken == \A b \in Bundles : jAt[b] = "queued" ~> jAt[b] = "over" \/ ~jRun

\* A bundle the sender accepted is dealt with, and what it calls sent has landed.
BundlesAreServed == []SentHasLanded /\ QueuedIsTaken
==============================================================================
