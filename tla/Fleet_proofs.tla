----------------------------- MODULE Fleet_proofs -----------------------------
(***************************************************************************)
(* Theorems about the bots of department 7 and the services below them:    *)
(* the manager that starts and stops bots under its lock, the averaging    *)
(* bot, the launcher, the delivery of an event by publish and by the       *)
(* listeners, and the RPC manager.                                         *)
(***************************************************************************)
EXTENDS MCFleet, FiniteSetTheorems, NaturalsInduction, WellFoundedInduction, TLAPS

-----------------------------------------------------------------------------
(* The lock's queue *)

UTypes ==
    /\ uKill \in BOOLEAN /\ uDone \in BOOLEAN /\ uKiller \in Operators \cup {NoUser}
    /\ uLock \in Seq(Slots)
    /\ uCall \in [Slots -> [op : {"none", "start", "stop"}, bot : UBots \cup {NoUser},
                            at : {"idle", "new", "lock", "wait", "bot"}]]
    /\ uTask \in [UBots -> {"none", "live", "cancelled", "done"}]
    /\ uLive \in [UBots -> Nat]
    /\ uStatus \in [UBots -> {"UNKNOWN", "STOPPED", "STARTING", "RUNNING", "ERROR"}]

\* Whoever is at the lock or holds it is in the queue once, and only the first
\* one is past it.
QueueSound ==
    /\ \A i, j \in DOMAIN uLock : uLock[i] = uLock[j] => i = j
    /\ \A i \in DOMAIN uLock : uCall[uLock[i]].at \in {"lock", "wait", "bot"}
    /\ \A s \in Slots :
         /\ uCall[s].at \in {"lock", "wait", "bot"} => \E i \in DOMAIN uLock : uLock[i] = s
         /\ uCall[s].at \in {"wait", "bot"} => uLock # <<>> /\ Head(uLock) = s

\* Starts are made by operators for registered bots, the stop in a bot's own
\* slot is the kill switch's.
CallsSound ==
    /\ \A s \in Slots :
         /\ uCall[s].op = "start" => uCall[s].at = "lock"
         /\ uCall[s] # NoUCall => uCall[s].bot \in UBots /\ uCall[s].at # "idle"
         /\ uCall[s] # NoUCall => Registered(uCall[s].bot)
         /\ uCall[s].at = "new" => s \in UBots
    /\ \A b \in UBots : uCall[b] # NoUCall => /\ uCall[b].op = "stop" /\ uCall[b].bot = b
                                              /\ uKiller # NoUser

\* the entry in _bot_tasks tells what runs
TasksSound ==
    /\ OneTaskPerBot /\ StoppedIsStopped
    /\ \A b \in UBots : ~Registered(b) => uTask[b] = "none"
    /\ \A s \in Slots : uCall[s].at = "bot" => uTask[uCall[s].bot] = "none"

-----------------------------------------------------------------------------
(* The kill switch *)

Starting(b) == {s \in Slots : uCall[s].op = "start" /\ uCall[s].bot = b}

\* nothing of b runs or will
Cleared(b) == uLive[b] = 0 /\ Starting(b) = {}

\* the kill switch's stop of b is still to come, after every start of b
StopComes(b) ==
    \/ uCall[b].at = "new"
    \/ /\ uCall[b].at = "lock"
       /\ \A i, j \in DOMAIN uLock : uLock[i] \in Starting(b) /\ uLock[j] = b => i < j
    \/ uCall[b].at = "wait" /\ Starting(b) = {}

KillSound ==
    /\ uDone => uKill /\ \A b \in UBots : Cleared(b)
    /\ uKill => \A b \in UBots : Cleared(b) \/ StopComes(b)

UIInv == UTypes /\ QueueSound /\ CallsSound /\ TasksSound /\ KillSound

-----------------------------------------------------------------------------
LEMMA UInitSound == UInit => UIInv
<1> SUFFICES ASSUME UInit PROVE UIInv
  OBVIOUS
<1> USE UAssumption DEF UInit
<1>1. UTypes
  <2>1. uKill \in BOOLEAN /\ uDone \in BOOLEAN
    OBVIOUS
  <2>2. /\ uKiller \in Operators \cup {NoUser} /\ uLock \in Seq(Slots)
        /\ uCall \in [Slots -> [op : {"none", "start", "stop"}, bot : UBots \cup {NoUser},
                                at : {"idle", "new", "lock", "wait", "bot"}]]
    BY DEF NoUCall
  <2>3. /\ uTask \in [UBots -> {"none", "live", "cancelled", "done"}]
        /\ uLive \in [UBots -> Nat]
        /\ uStatus \in [UBots -> {"UNKNOWN", "STOPPED", "STARTING", "RUNNING", "ERROR"}]
    OBVIOUS
  <2> QED
    BY ONLY <2>1, <2>2, <2>3 DEF UTypes
<1>2. QueueSound /\ CallsSound
  BY DEF QueueSound, CallsSound, NoUCall, Slots
<1>3. TasksSound
  BY DEF TasksSound, OneTaskPerBot, StoppedIsStopped, NoUCall, Registered
<1>4. KillSound
  BY DEF KillSound
<1> QED
  BY <1>1, <1>2, <1>3, <1>4 DEF UIInv

\* a call that was not at the lock goes to its end
LEMMA EnqueueSound ==
    ASSUME UTypes, QueueSound, NEW s \in Slots, NEW op \in {"start", "stop"}, NEW b \in UBots,
           uCall[s].at \notin {"lock", "wait", "bot"}, Enqueue(s, op, b)
    PROVE  /\ QueueSound'
           /\ uLock' \in Seq(Slots) /\ Len(uLock') = Len(uLock) + 1
           /\ uLock'[Len(uLock) + 1] = s
           /\ \A i \in DOMAIN uLock : uLock'[i] = uLock[i] /\ uLock[i] # s
           /\ uCall' = [uCall EXCEPT ![s] = [op |-> op, bot |-> b, at |-> "lock"]]
<1> USE DEF UTypes
<1>1. /\ uLock' \in Seq(Slots) /\ Len(uLock') = Len(uLock) + 1 /\ uLock'[Len(uLock) + 1] = s
      /\ \A i \in DOMAIN uLock : uLock'[i] = uLock[i]
      /\ DOMAIN uLock = 1 .. Len(uLock) /\ DOMAIN uLock' = 1 .. Len(uLock) + 1
      /\ Len(uLock) \in Nat
  BY DEF Enqueue
<1>2. /\ uCall'[s].at = "lock" /\ \A u \in Slots \ {s} : uCall'[u] = uCall[u]
      /\ uCall' = [uCall EXCEPT ![s] = [op |-> op, bot |-> b, at |-> "lock"]]
  BY DEF Enqueue
<1>3. \A i \in DOMAIN uLock : uLock[i] # s /\ uLock[i] \in Slots
  BY <1>1 DEF QueueSound
<1>4. uLock # <<>> => uLock' # <<>> /\ Head(uLock') = Head(uLock)
  BY <1>1 DEF Enqueue
<1>5. QueueSound'
  <2>1. \A i, j \in DOMAIN uLock' : uLock'[i] = uLock'[j] => i = j
    BY <1>1, <1>3 DEF QueueSound
  <2>2. \A i \in DOMAIN uLock' : uCall'[uLock'[i]].at \in {"lock", "wait", "bot"}
    BY <1>1, <1>2, <1>3 DEF QueueSound
  <2>3. ASSUME NEW u \in Slots, uCall'[u].at \in {"lock", "wait", "bot"}
        PROVE  \E i \in DOMAIN uLock' : uLock'[i] = u
    <3>1. CASE u = s
      BY <1>1, <3>1
    <3>2. CASE u # s
      <4>1. PICK i \in DOMAIN uLock : uLock[i] = u
        BY <1>2, <2>3, <3>2 DEF QueueSound
      <4>2. i \in DOMAIN uLock' /\ uLock'[i] = u
        BY <1>1, <4>1
      <4> QED
        BY <4>2
    <3> QED
      BY <3>1, <3>2
  <2>4. \A u \in Slots : uCall'[u].at \in {"wait", "bot"} => uLock' # <<>> /\ Head(uLock') = u
    BY <1>2, <1>4 DEF QueueSound
  <2> QED
    BY <2>1, <2>2, <2>3, <2>4 DEF QueueSound
<1> QED
  BY <1>1, <1>2, <1>3, <1>5

\* the first of the queue leaves it
LEMMA ReleaseSound ==
    ASSUME UTypes, QueueSound, NEW s \in Slots, uLock # <<>>, Head(uLock) = s, Release(s)
    PROVE  /\ QueueSound'
           /\ uLock' \in Seq(Slots) /\ Len(uLock') = Len(uLock) - 1
           /\ \A i \in DOMAIN uLock' : uLock'[i] = uLock[i + 1] /\ i + 1 \in DOMAIN uLock /\ uLock'[i] # s
           /\ \A u \in Slots \ {s} : uCall[u].at \notin {"wait", "bot"}
           /\ uCall' = [uCall EXCEPT ![s] = NoUCall]
<1> USE DEF UTypes
<1>1. /\ uLock' \in Seq(Slots) /\ Len(uLock') = Len(uLock) - 1 /\ Len(uLock) \in Nat \ {0}
      /\ DOMAIN uLock = 1 .. Len(uLock) /\ DOMAIN uLock' = 1 .. Len(uLock) - 1
      /\ \A i \in DOMAIN uLock' : uLock'[i] = uLock[i + 1] /\ i + 1 \in DOMAIN uLock
      /\ uLock[1] = s
  BY DEF Release
<1>2. /\ uCall'[s] = NoUCall /\ \A u \in Slots \ {s} : uCall'[u] = uCall[u]
      /\ uCall' = [uCall EXCEPT ![s] = NoUCall]
  BY DEF Release
<1>3. ASSUME NEW i \in DOMAIN uLock' PROVE uLock'[i] # s /\ uLock'[i] \in Slots
  <2>1. i + 1 \in DOMAIN uLock /\ 1 \in DOMAIN uLock /\ i + 1 # 1 /\ uLock'[i] = uLock[i + 1]
    BY <1>1
  <2>2. uLock[i + 1] # uLock[1]
    BY <2>1 DEF QueueSound
  <2> QED
    BY <1>1, <2>1, <2>2
<1>4. \A u \in Slots \ {s} : uCall[u].at \notin {"wait", "bot"}
  BY DEF QueueSound
<1>5. QueueSound'
  <2>1. \A i, j \in DOMAIN uLock' : uLock'[i] = uLock'[j] => i = j
    BY <1>1 DEF QueueSound
  <2>2. \A i \in DOMAIN uLock' : uCall'[uLock'[i]].at \in {"lock", "wait", "bot"}
    BY <1>1, <1>2, <1>3 DEF QueueSound
  <2>3. ASSUME NEW u \in Slots, uCall'[u].at \in {"lock", "wait", "bot"}
        PROVE  \E i \in DOMAIN uLock' : uLock'[i] = u
    <3>1. u # s /\ uCall'[u] = uCall[u]
      BY <1>2, <2>3 DEF NoUCall
    <3>2. PICK i \in DOMAIN uLock : uLock[i] = u
      BY <2>3, <3>1 DEF QueueSound
    <3>3. i - 1 \in DOMAIN uLock' /\ uLock'[i - 1] = u
      BY <1>1, <3>1, <3>2
    <3> QED
      BY <3>3
  <2>4. \A u \in Slots : uCall'[u].at \notin {"wait", "bot"}
    BY <1>2, <1>4 DEF NoUCall
  <2> QED
    BY <2>1, <2>2, <2>3, <2>4 DEF QueueSound
<1> QED
  BY <1>1, <1>2, <1>3, <1>4, <1>5

LEMMA UStep == UIInv /\ [UNext]_uvars => UIInv'
<1> SUFFICES ASSUME UIInv, [UNext]_uvars PROVE UIInv'
  OBVIOUS
<1> USE UAssumption
<1>1. UTypes /\ QueueSound /\ CallsSound /\ TasksSound /\ KillSound
  BY DEF UIInv
<1>2. Operators \subseteq Slots /\ UBots \subseteq Slots /\ NoUCall.at = "idle" /\ NoUCall.op = "none"
  BY DEF Slots, NoUCall
<1>3. ASSUME NEW b \in UBots, RegisterBot(b) PROVE UIInv'
  <2>1. /\ uStatus' = [uStatus EXCEPT ![b] = "STOPPED"] /\ uTask[b] = "none" /\ uLive[b] = 0
        /\ UNCHANGED <<uKill, uDone, uLock, uCall, uKiller, uTask, uLive>>
    BY <1>1, <1>3 DEF RegisterBot, TasksSound, OneTaskPerBot
  <2>2. UTypes' /\ QueueSound'
    BY <1>1, <2>1 DEF UTypes, QueueSound
  <2>3. \A c \in UBots : uStatus'[c] = IF c = b THEN "STOPPED" ELSE uStatus[c]
    BY <1>1, <2>1 DEF UTypes
  <2>4. CallsSound' /\ TasksSound' /\ KillSound'
    BY <1>1, <2>1, <2>3
    DEF CallsSound, TasksSound, KillSound, Registered, OneTaskPerBot, StoppedIsStopped, Cleared, Starting,
        StopComes
  <2> QED
    BY <2>2, <2>4 DEF UIInv
\* a call comes to the lock
<1>4. ASSUME NEW s \in Slots, NEW op \in {"start", "stop"}, NEW b \in UBots, Registered(b),
             uCall[s].at \notin {"lock", "wait", "bot"}, Enqueue(s, op, b),
             s \in UBots => op = "stop" /\ b = s /\ uKiller # NoUser,
             op = "start" => ~uKill,
             UNCHANGED <<uKill, uDone, uKiller, uTask, uLive, uStatus>>
      PROVE  UIInv'
  <2>1. /\ QueueSound'
        /\ uLock' \in Seq(Slots) /\ Len(uLock') = Len(uLock) + 1
        /\ uLock'[Len(uLock) + 1] = s
        /\ \A i \in DOMAIN uLock : uLock'[i] = uLock[i] /\ uLock[i] # s
        /\ uCall' = [uCall EXCEPT ![s] = [op |-> op, bot |-> b, at |-> "lock"]]
    BY <1>1, <1>4, EnqueueSound
  <2>2. UTypes'
    BY <1>1, <1>4, <2>1 DEF UTypes
  <2>3. /\ uCall'[s] = [op |-> op, bot |-> b, at |-> "lock"]
        /\ \A u \in Slots \ {s} : uCall'[u] = uCall[u]
    BY <1>1, <2>1 DEF UTypes
  <2>4. CallsSound'
    BY <1>1, <1>2, <1>4, <2>3 DEF CallsSound, Registered
  <2>5. TasksSound'
    BY <1>1, <1>4, <2>3 DEF TasksSound, Registered, OneTaskPerBot, StoppedIsStopped
  <2>6. KillSound'
    <3>1. CASE op = "start"
      BY <1>1, <1>4, <3>1 DEF KillSound
    <3>2. CASE op = "stop"
      <4>1. \A c \in UBots : Starting(c)' \subseteq Starting(c)
        BY <1>1, <2>3, <3>2 DEF Starting
      <4>2. \A c \in UBots : Cleared(c) => Cleared(c)'
        BY <1>4, <4>1 DEF Cleared
      <4>3. ASSUME NEW c \in UBots, StopComes(c) PROVE StopComes(c)'
        <5>1. CASE c = s
          <6>1. uCall'[c].at = "lock" /\ DOMAIN uLock' = 1 .. Len(uLock) + 1 /\ Len(uLock) \in Nat
                /\ DOMAIN uLock = 1 .. Len(uLock)
            BY <1>1, <2>1, <2>3, <5>1 DEF UTypes
          <6>2. s \notin Starting(c)'
            BY <2>3, <3>2 DEF Starting
          <6>3. ASSUME NEW i \in DOMAIN uLock', NEW j \in DOMAIN uLock',
                       uLock'[i] \in Starting(c)', uLock'[j] = c
                PROVE  i < j
            BY <2>1, <5>1, <6>1, <6>2, <6>3
          <6> QED
            BY <6>1, <6>3 DEF StopComes
        <5>2. CASE c # s
          <6>1. uCall'[c] = uCall[c] /\ DOMAIN uLock' = 1 .. Len(uLock) + 1 /\ Len(uLock) \in Nat
                /\ DOMAIN uLock = 1 .. Len(uLock)
            BY <1>1, <1>2, <2>1, <2>3, <5>2 DEF UTypes
          <6>2. s \notin Starting(c)'
            BY <2>3, <3>2 DEF Starting
          <6>3. ASSUME uCall[c].at = "lock",
                       NEW i \in DOMAIN uLock', NEW j \in DOMAIN uLock',
                       uLock'[i] \in Starting(c)', uLock'[j] = c
                PROVE  i < j
            <7>1. i \in DOMAIN uLock /\ j \in DOMAIN uLock /\ uLock[i] \in Starting(c) /\ uLock[j] = c
              BY <2>1, <4>1, <5>2, <6>1, <6>2, <6>3
            <7>2. uCall[c].at # "new" /\ uCall[c].at # "wait"
              BY <6>3
            <7> QED
              BY <4>3, <7>1, <7>2 DEF StopComes
          <6>4. CASE uCall[c].at = "lock"
            BY <6>1, <6>3, <6>4 DEF StopComes
          <6>5. CASE uCall[c].at # "lock"
            BY <4>1, <4>3, <6>1, <6>5 DEF StopComes
          <6> QED
            BY <6>4, <6>5
        <5> QED
          BY <5>1, <5>2
      <4> QED
        BY <1>1, <1>4, <4>2, <4>3 DEF KillSound
    <3> QED
      BY <3>1, <3>2
  <2> QED
    BY <2>1, <2>2, <2>4, <2>5, <2>6 DEF UIInv
<1>5. ASSUME NEW u \in Operators, NEW b \in UBots, AskStart(u, b) \/ AskStop(u, b) PROVE UIInv'
  <2>1. uCall[u].at \notin {"lock", "wait", "bot"} /\ u \in Slots /\ u \notin UBots
    BY <1>2, <1>5 DEF AskStart, AskStop, Engaged
  <2> QED
    BY <1>4, <1>5, <2>1 DEF AskStart, AskStop
<1>6. ASSUME NEW b \in UBots, KillStop(b) PROVE UIInv'
  <2>1. /\ b \in Slots /\ uCall[b] # NoUCall /\ uKiller # NoUser /\ uCall[b].bot = b
    BY <1>1, <1>2, <1>6 DEF KillStop, CallsSound
  <2>2. Registered(b)
    BY <1>1, <2>1 DEF CallsSound
  <2> QED
    BY <1>4, <1>6, <2>1, <2>2 DEF KillStop
\* the first of the queue leaves, and the bots that run are those of before or
\* one more, for which no stop is past the lock
<1>7. ASSUME NEW s \in Slots, uLock # <<>>, Head(uLock) = s, Release(s), UTypes', TasksSound',
             uCall[s].at \in {"lock", "bot"},
             UNCHANGED <<uKill, uDone, uKiller>>,
             \A b \in UBots : Registered(b)' <=> Registered(b),
             \A b \in UBots : uLive'[b] = uLive[b] \/ s \in Starting(b),
             uCall[s].op = "stop" => uCall[s].at = "bot"
      PROVE  UIInv'
  <2>1. /\ QueueSound'
        /\ uLock' \in Seq(Slots) /\ Len(uLock') = Len(uLock) - 1
        /\ \A i \in DOMAIN uLock' : uLock'[i] = uLock[i + 1] /\ i + 1 \in DOMAIN uLock /\ uLock'[i] # s
        /\ \A u \in Slots \ {s} : uCall[u].at \notin {"wait", "bot"}
        /\ uCall' = [uCall EXCEPT ![s] = NoUCall]
    BY <1>1, <1>7, ReleaseSound
  <2>2. uCall'[s] = NoUCall /\ \A u \in Slots \ {s} : uCall'[u] = uCall[u]
    BY <1>1, <2>1 DEF UTypes
  <2>3. CallsSound'
    BY <1>1, <1>2, <1>7, <2>2 DEF CallsSound
  <2>4. \A b \in UBots : Starting(b)' = Starting(b) \ {s}
    BY <1>2, <2>2 DEF Starting
  <2>5. \A b \in UBots : Cleared(b) => Cleared(b)'
    BY <1>7, <2>4 DEF Cleared
  <2>6. ASSUME NEW b \in UBots, StopComes(b) PROVE StopComes(b)'
    <3>1. b # s
      BY <1>1, <1>2, <1>7, <2>6 DEF StopComes, CallsSound, NoUCall
    <3>2. uCall'[b] = uCall[b]
      BY <1>2, <2>2, <3>1
    <3>3. ASSUME uCall[b].at = "lock",
                 NEW i \in DOMAIN uLock', NEW j \in DOMAIN uLock',
                 uLock'[i] \in Starting(b)', uLock'[j] = b
          PROVE  i < j
      <4>1. uLock[i + 1] \in Starting(b) /\ uLock[j + 1] = b /\ i + 1 \in DOMAIN uLock /\ j + 1 \in DOMAIN uLock
        BY <2>1, <2>4, <3>3
      <4>2. i + 1 < j + 1
        BY <2>6, <3>3, <4>1 DEF StopComes
      <4>3. i \in Int /\ j \in Int
        BY <2>1
      <4> QED
        BY <4>2, <4>3
    <3>4. CASE uCall[b].at = "lock"
      BY <3>2, <3>3, <3>4 DEF StopComes
    <3>5. CASE uCall[b].at # "lock"
      BY <2>4, <2>6, <3>2, <3>5 DEF StopComes
    <3> QED
      BY <3>4, <3>5
  <2>7. KillSound'
    BY <1>1, <1>7, <2>5, <2>6 DEF KillSound
  <2> QED
    BY <1>7, <2>1, <2>3, <2>7 DEF UIInv
<1>8. ASSUME NEW s \in Slots, LockedStart(s) PROVE UIInv'
  <2> DEFINE b == uCall[s].bot
  <2>1. /\ uLock # <<>> /\ Head(uLock) = s /\ uCall[s].op = "start" /\ uCall[s].at = "lock"
        /\ b \in UBots /\ Registered(b) /\ Release(s) /\ s \in Starting(b)
        /\ UNCHANGED <<uKill, uDone, uKiller>>
    BY <1>1, <1>8 DEF LockedStart, Holds, CallsSound, NoUCall, Starting
  <2>2. \A u \in Slots : uCall'[u].at # "bot"
    BY <1>1, <1>2, <2>1 DEF Release, QueueSound, UTypes
  <2>3. uLock' \in Seq(Slots)
    BY <1>1, <2>1 DEF Release, UTypes
  <2>4. uCall' = [uCall EXCEPT ![s] = NoUCall]
    BY <2>1 DEF Release
  <2>5. CASE uTask[b] \in {"live", "cancelled"}
    <3>1. UNCHANGED <<uTask, uLive, uStatus>>
      BY <1>8, <2>5 DEF LockedStart
    <3>2. UTypes'
      BY <1>1, <2>1, <2>3, <2>4, <3>1 DEF UTypes, NoUCall
    <3>3. TasksSound'
      BY <1>1, <2>2, <3>1 DEF TasksSound, Registered, OneTaskPerBot, StoppedIsStopped
    <3> QED
      BY <1>7, <2>1, <3>1, <3>2, <3>3 DEF Registered
  <2>6. CASE uTask[b] \notin {"live", "cancelled"}
    <3>1. /\ uTask' = [uTask EXCEPT ![b] = "live"] /\ uLive[b] = 0
          /\ uLive' = [uLive EXCEPT ![b] = uLive[b] + 1]
          /\ uStatus' = [uStatus EXCEPT ![b] = "STARTING"]
      BY <1>1, <1>8, <2>1, <2>6 DEF LockedStart, TasksSound, OneTaskPerBot
    <3>2. UTypes'
      BY <1>1, <2>1, <2>3, <2>4, <3>1 DEF UTypes, NoUCall
    <3>3. \A c \in UBots : /\ uTask'[c] = IF c = b THEN "live" ELSE uTask[c]
                           /\ uLive'[c] = IF c = b THEN 1 ELSE uLive[c]
                           /\ uStatus'[c] = IF c = b THEN "STARTING" ELSE uStatus[c]
      BY <1>1, <2>1, <3>1 DEF UTypes
    <3>4. TasksSound'
      BY <1>1, <2>1, <2>2, <3>3 DEF TasksSound, Registered, OneTaskPerBot, StoppedIsStopped
    <3> QED
      BY <1>7, <2>1, <3>2, <3>3, <3>4 DEF Registered
  <2> QED
    BY <2>5, <2>6
<1>9. ASSUME NEW s \in Slots, StopDone(s) PROVE UIInv'
  <2> DEFINE b == uCall[s].bot
  <2>1. /\ uLock # <<>> /\ Head(uLock) = s /\ uCall[s].op = "stop" /\ uCall[s].at = "bot"
        /\ b \in UBots /\ Registered(b) /\ Release(s) /\ uTask[b] = "none" /\ uLive[b] = 0
        /\ uStatus' = [uStatus EXCEPT ![b] = "STOPPED"]
        /\ UNCHANGED <<uKill, uDone, uKiller, uTask, uLive>>
    BY <1>1, <1>2, <1>9 DEF StopDone, Holds, CallsSound, NoUCall, TasksSound, OneTaskPerBot
  <2>2. \A u \in Slots : uCall'[u].at # "bot"
    BY <1>1, <1>2, <2>1 DEF Release, QueueSound, UTypes
  <2>3. UTypes'
    BY <1>1, <2>1 DEF UTypes, NoUCall, Release
  <2>4. \A c \in UBots : uStatus'[c] = IF c = b THEN "STOPPED" ELSE uStatus[c]
    BY <1>1, <2>1 DEF UTypes
  <2>5. TasksSound'
    BY <1>1, <2>1, <2>2, <2>4 DEF TasksSound, Registered, OneTaskPerBot, StoppedIsStopped
  <2> QED
    BY <1>7, <2>1, <2>3, <2>4, <2>5 DEF Registered
\* the holder of the lock goes on
<1>10. ASSUME NEW s \in Slots, StopCancel(s) \/ StopWaited(s) PROVE UIInv'
  <2> DEFINE b == uCall[s].bot
  <2>1. /\ uLock # <<>> /\ Head(uLock) = s /\ uCall[s].op = "stop" /\ uCall[s].at \in {"lock", "wait"}
        /\ b \in UBots /\ Registered(b)
        /\ UNCHANGED <<uKill, uDone, uLock, uKiller, uLive, uStatus>>
    BY <1>1, <1>2, <1>10 DEF StopCancel, StopWaited, Holds, CallsSound, NoUCall
  <2>2. /\ \A u \in Slots \ {s} : uCall'[u] = uCall[u] /\ uCall[u].at \notin {"wait", "bot"}
        /\ uCall'[s].op = "stop" /\ uCall'[s].bot = b
        /\ uCall'[s].at = IF uCall[s].at = "lock" THEN "wait" ELSE "bot"
    BY <1>1, <1>10, <2>1 DEF StopCancel, StopWaited, Holds, UTypes, QueueSound
  <2>3. /\ \A c \in UBots \ {b} : uTask'[c] = uTask[c]
        /\ uTask'[b] \in {"live", "cancelled"} <=> uTask[b] \in {"live", "cancelled"}
        /\ uTask[b] = "none" => uTask'[b] = "none"
        /\ uCall[s].at = "wait" => uTask'[b] = "none"
    BY <1>1, <1>10, <2>1 DEF StopCancel, StopWaited, Holds, UTypes
  <2>4. UTypes'
    <3>1. uTask' \in [UBots -> {"none", "live", "cancelled", "done"}]
      BY <1>1, <1>10, <2>1 DEF StopCancel, StopWaited, UTypes
    <3>2. uCall' \in [Slots -> [op : {"none", "start", "stop"}, bot : UBots \cup {NoUser},
                                at : {"idle", "new", "lock", "wait", "bot"}]]
      <4>1. CASE StopCancel(s)
        BY <1>1, <4>1 DEF StopCancel, UTypes
      <4>2. CASE StopWaited(s)
        BY <1>1, <4>2, ZenonT(30) DEF StopWaited, UTypes
      <4> QED
        BY <1>10, <4>1, <4>2
    <3> QED
      BY <1>1, <2>1, <3>1, <3>2 DEF UTypes
  <2>5. QueueSound'
    BY <1>1, <2>1, <2>2 DEF QueueSound, UTypes
  <2>6. CallsSound'
    BY <1>1, <1>2, <2>1, <2>2 DEF CallsSound, NoUCall, Registered
  <2>7. TasksSound'
    BY <1>1, <2>1, <2>2, <2>3 DEF TasksSound, Registered, OneTaskPerBot, StoppedIsStopped
  <2>8. \A c \in UBots : Starting(c)' = Starting(c)
    BY <2>1, <2>2 DEF Starting
  <2>9. \A c \in UBots : Cleared(c) => Cleared(c)'
    BY <2>1, <2>8 DEF Cleared
  <2>10. ASSUME NEW c \in UBots, StopComes(c) PROVE StopComes(c)' \/ Cleared(c)'
    <3>1. CASE c # s
      BY <1>2, <2>1, <2>2, <2>8, <2>10, <3>1 DEF StopComes
    <3>2. CASE c = s
      <4>1. b = c
        BY <1>1, <1>2, <2>1, <3>2 DEF CallsSound, NoUCall
      <4>2. CASE uCall[s].at = "lock"
        <5>1. ASSUME NEW t \in Starting(c) PROVE FALSE
          <6>1. uCall[t].at = "lock" /\ t \in Slots
            BY <1>1 DEF CallsSound, Starting
          <6>2. PICK i \in DOMAIN uLock : uLock[i] = t
            BY <1>1, <6>1 DEF QueueSound
          <6>3. 1 \in DOMAIN uLock /\ uLock[1] = c /\ i \in Nat \ {0}
            BY <1>1, <2>1, <3>2 DEF UTypes
          <6>4. uCall[c].at = "lock"
            BY <3>2, <4>2
          <6>5. i < 1
            BY <2>10, <6>2, <6>3, <6>4 DEF StopComes
          <6> QED
            BY <6>3, <6>5
        <5> QED
          BY <2>2, <2>8, <3>2, <4>2, <5>1 DEF StopComes
      <4>3. CASE uCall[s].at = "wait"
        <5>1. uTask'[c] = "none" /\ Starting(c)' = {}
          BY <2>3, <2>8, <2>10, <3>2, <4>1, <4>3 DEF StopComes
        <5>2. uLive'[c] = 0
          BY <2>7, <5>1 DEF TasksSound, OneTaskPerBot
        <5> QED
          BY <5>1, <5>2 DEF Cleared
      <4> QED
        BY <2>1, <4>2, <4>3
    <3> QED
      BY <3>1, <3>2
  <2>11. KillSound'
    BY <1>1, <2>1, <2>9, <2>10 DEF KillSound
  <2> QED
    BY <2>4, <2>5, <2>6, <2>7, <2>11 DEF UIInv
<1>11. ASSUME NEW u \in Operators, KillSwitch(u) PROVE UIInv'
  <2>1. /\ uKiller = NoUser /\ uKill' = TRUE /\ uKiller' = u /\ u # NoUser
        /\ \A b \in UBots : uCall[b] = NoUCall
        /\ uCall' = [s \in Slots |-> IF s \in UBots /\ Registered(s)
                                      THEN [op |-> "stop", bot |-> s, at |-> "new"] ELSE uCall[s]]
        /\ UNCHANGED <<uDone, uLock, uTask, uLive, uStatus>>
    BY <1>1, <1>11 DEF KillSwitch, CallsSound
  <2>2. /\ \A s \in Slots \ UBots : uCall'[s] = uCall[s]
        /\ \A b \in UBots : /\ Registered(b) => uCall'[b] = [op |-> "stop", bot |-> b, at |-> "new"]
                            /\ ~Registered(b) => uCall'[b] = NoUCall
    BY <1>2, <2>1
  <2>3. UTypes'
    BY <1>1, <2>1 DEF UTypes
  <2>4. QueueSound'
    BY <1>1, <1>2, <2>1, <2>2 DEF QueueSound, UTypes
  <2>5. CallsSound'
    BY <1>1, <1>2, <2>1, <2>2 DEF CallsSound, Registered
  <2>6. TasksSound'
    BY <1>1, <1>2, <2>1, <2>2 DEF TasksSound, Registered, OneTaskPerBot, StoppedIsStopped
  <2>7. \A b \in UBots : Starting(b)' = Starting(b)
    BY <1>2, <2>1, <2>2 DEF Starting
  <2>8. \A b \in UBots : Cleared(b) => Cleared(b)'
    BY <2>1, <2>7 DEF Cleared
  <2>9. ASSUME NEW b \in UBots PROVE Cleared(b)' \/ StopComes(b)'
    <3>1. CASE Registered(b)
      <4>1. uCall'[b] = [op |-> "stop", bot |-> b, at |-> "new"]
        BY <2>2, <3>1, Zenon
      <4>2. uCall'[b].at = "new"
        BY <4>1
      <4> QED
        BY <4>2 DEF StopComes
    <3>2. CASE ~Registered(b)
      BY <1>1, <1>2, <2>8, <3>2 DEF Cleared, Starting, CallsSound, TasksSound, OneTaskPerBot
    <3> QED
      BY <3>1, <3>2
  <2>10. KillSound'
    BY <1>1, <2>1, <2>8, <2>9 DEF KillSound
  <2> QED
    BY <2>3, <2>4, <2>5, <2>6, <2>10 DEF UIInv
<1>12. CASE KillReturns
  <2>1. /\ \A b \in UBots : uCall[b] = NoUCall
        /\ uKiller' = NoUser /\ uDone' = uKill
        /\ UNCHANGED <<uKill, uLock, uCall, uTask, uLive, uStatus>>
    BY <1>12 DEF KillReturns
  <2>2. UTypes' /\ QueueSound'
    BY <1>1, <2>1 DEF UTypes, QueueSound
  <2>3. CallsSound' /\ TasksSound'
    BY <1>1, <2>1 DEF CallsSound, TasksSound, Registered, OneTaskPerBot, StoppedIsStopped
  <2>4. \A b \in UBots : /\ ~StopComes(b)
                         /\ Cleared(b) => Cleared(b)'
    BY <1>2, <2>1 DEF StopComes, Cleared, Starting
  <2>5. KillSound'
    BY <1>1, <2>1, <2>4 DEF KillSound
  <2> QED
    BY <2>2, <2>3, <2>5 DEF UIInv
<1>13. CASE ResetKill
  <2>1. uKill' = FALSE /\ uDone' = FALSE /\ UNCHANGED <<uLock, uCall, uKiller, uTask, uLive, uStatus>>
    BY <1>13 DEF ResetKill
  <2>2. UTypes' /\ QueueSound'
    BY <1>1, <2>1 DEF UTypes, QueueSound
  <2>3. CallsSound' /\ TasksSound'
    BY <1>1, <2>1 DEF CallsSound, TasksSound, Registered, OneTaskPerBot, StoppedIsStopped
  <2> QED
    BY <2>1, <2>2, <2>3 DEF UIInv, KillSound
\* a bot's task goes on or ends
<1>14. ASSUME NEW b \in UBots,
              \/ RunBot(b)
              \/ \E how \in {"STOPPED", "ERROR", "RUNNING"} : RunEnds(b, how)
       PROVE  UIInv'
  <2>1. /\ UNCHANGED <<uKill, uDone, uLock, uCall, uKiller>>
        /\ uTask[b] \in {"live", "cancelled"} /\ uLive[b] = 1
        /\ \A c \in UBots \ {b} : uTask'[c] = uTask[c] /\ uLive'[c] = uLive[c] /\ uStatus'[c] = uStatus[c]
        /\ \/ uTask'[b] = uTask[b] /\ uLive'[b] = 1 /\ uStatus'[b] = "RUNNING"
           \/ uTask'[b] = "done" /\ uLive'[b] = 0 /\ uStatus'[b] \in {"STARTING", "STOPPED", "ERROR", "RUNNING"}
    BY <1>1, <1>14 DEF RunBot, RunEnds, UTypes, TasksSound, OneTaskPerBot
  <2>2. UTypes'
    <3>1. uLive' \in [UBots -> Nat] /\ uTask' \in [UBots -> {"none", "live", "cancelled", "done"}]
      <4>1. \/ UNCHANGED <<uTask, uLive>>
            \/ uTask' = [uTask EXCEPT ![b] = "done"] /\ uLive' = [uLive EXCEPT ![b] = uLive[b] - 1]
        BY <1>14 DEF RunBot, RunEnds
      <4>2. CASE UNCHANGED <<uTask, uLive>>
        BY <1>1, <4>2 DEF UTypes
      <4>3. CASE uTask' = [uTask EXCEPT ![b] = "done"] /\ uLive' = [uLive EXCEPT ![b] = uLive[b] - 1]
        <5>1. uLive[b] - 1 \in Nat
          BY <2>1
        <5> QED
          BY <1>1, <4>3, <5>1 DEF UTypes
      <4> QED
        BY <4>1, <4>2, <4>3
    <3>2. uStatus' \in [UBots -> {"UNKNOWN", "STOPPED", "STARTING", "RUNNING", "ERROR"}]
      BY <1>1, <1>14 DEF RunBot, RunEnds, UTypes
    <3> QED
      BY <1>1, <2>1, <3>1, <3>2 DEF UTypes
  <2>3. Registered(b) /\ Registered(b)'
    BY <1>1, <2>1 DEF TasksSound, Registered
  <2>4. QueueSound' /\ CallsSound'
    BY <1>1, <2>1, <2>3 DEF QueueSound, CallsSound, Registered
  <2>5. TasksSound'
    <3>1. OneTaskPerBot' /\ StoppedIsStopped'
      BY <1>1, <2>1 DEF TasksSound, OneTaskPerBot, StoppedIsStopped
    <3>2. \A c \in UBots : ~Registered(c)' => uTask'[c] = "none"
      BY <1>1, <2>1, <2>3 DEF TasksSound, Registered
    <3>3. ASSUME NEW s \in Slots, uCall'[s].at = "bot" PROVE uTask'[uCall'[s].bot] = "none"
      <4>1. uCall[s].bot \in UBots /\ uTask[uCall[s].bot] = "none" /\ uCall' = uCall
        BY <1>1, <2>1, <3>3 DEF TasksSound, CallsSound, NoUCall
      <4> QED
        BY <2>1, <4>1
    <3> QED
      BY <3>1, <3>2, <3>3 DEF TasksSound
  <2>6. KillSound'
    BY <1>1, <2>1 DEF KillSound, Cleared, Starting, StopComes
  <2> QED
    BY <2>2, <2>4, <2>5, <2>6 DEF UIInv
<1>15. CASE UNCHANGED uvars
  <2>1. UTypes' /\ QueueSound' /\ CallsSound' /\ TasksSound' /\ KillSound'
    BY <1>1, <1>15
    DEF uvars, UTypes, QueueSound, CallsSound, TasksSound, KillSound, Registered, OneTaskPerBot, StoppedIsStopped,
        Cleared, Starting, StopComes
  <2> QED
    BY <2>1 DEF UIInv
<1> QED
  BY <1>3, <1>5, <1>6, <1>8, <1>9, <1>10, <1>11, <1>12, <1>13, <1>14, <1>15 DEF UNext, UCallStep

LEMMA UInvariant == USpec => []UIInv
  BY UInitSound, UStep, PTL DEF USpec

\* The manager, its lock and its calls keep their types.
THEOREM UTyped == USpec => []UTypeOK
<1>1. UIInv => UTypeOK
  BY DEF UIInv, UTypes, QueueSound, UTypeOK
<1> QED
  BY <1>1, UInvariant, PTL

\* A bot has the one task _bot_tasks shows, a stopped bot has none, and between
\* the return of kill_switch and its reset no bot has one, although start_bot
\* looks at the switch before it waits for the lock: the switch's own stops
\* queue behind every start that got past it.
THEOREM UAccounted == USpec => []TasksAreAccounted
<1>1. UIInv => TasksAreAccounted
  BY DEF UIInv, TasksSound, KillSound, Cleared, TasksAreAccounted, NothingRunsAfterKill
<1> QED
  BY <1>1, UInvariant, PTL

-----------------------------------------------------------------------------
(* The averaging bot *)

DcaTypes ==
    /\ dPos \in [amount : Nat, count : Nat] \cup {NoPosition}
    /\ dHeld \in Nat

\* ShownIsHeld is inductive with this: a purchase of a new cycle begins with
\* nothing held, so that its placeholder hides nothing.
BuysFromNothing == dAt = "buy" => dPos = NoPosition

DcaIInv == DcaTypes /\ BuysFromNothing /\ ShownIsHeld

LEMMA DcaInitSound == DcaInit => DcaIInv
<1> SUFFICES ASSUME DcaInit PROVE DcaIInv
  OBVIOUS
<1>1. DcaTypes
  BY DEF DcaInit, DcaTypes
<1>2. BuysFromNothing /\ ShownIsHeld
  BY DEF DcaInit, BuysFromNothing, ShownIsHeld
<1> QED
  BY <1>1, <1>2 DEF DcaIInv

LEMMA DcaStep == DcaIInv /\ [DcaNext]_dvars => DcaIInv'
<1> SUFFICES ASSUME DcaIInv, [DcaNext]_dvars PROVE DcaIInv'
  OBVIOUS
<1> USE DcaAssumption DEF DcaTypes, BuysFromNothing, ShownIsHeld, DcaIInv, Outcomes, AnswerCame, Served
<1>1. /\ NoPosition \notin [amount : Nat, count : Nat]
      /\ Placeholder \in [amount : Nat, count : Nat] /\ Placeholder.amount = 0
  BY DEF NoPosition, Placeholder
<1>2. CASE DcaRun \/ BuyTooLittle \/ TakeProfit \/ ManagerStop
  BY <1>2 DEF DcaRun, BuyTooLittle, TakeProfit, ManagerStop, AfterBuy
<1>3. ASSUME NEW out \in Outcomes, NEW raised \in BOOLEAN, InitialBuy(out, raised) PROVE DcaIInv'
  <2>1. /\ dAt' # "buy" /\ dPos = NoPosition
        /\ dPos' = IF AnswerCame(out) THEN [amount |-> 1, count |-> 1] ELSE Placeholder
        /\ dHeld' = IF Served(out) THEN dHeld + 1 ELSE dHeld
    BY <1>3 DEF InitialBuy, AfterBuy
  <2>2. ~dLost' => ~dLost /\ out # "lost"
    BY <1>3 DEF InitialBuy
  <2>3. DcaTypes'
    BY <1>1, <2>1
  <2>4. ShownIsHeld'
    BY <1>1, <2>1, <2>2 DEF NoPosition
  <2> QED
    BY <2>1, <2>3, <2>4
<1>4. ASSUME NEW out \in Outcomes, ExecuteDca(out) PROVE DcaIInv'
  <2>1. dPos \in [amount : Nat, count : Nat] /\ dPos # NoPosition /\ dAt' = dAt /\ dAt # "buy"
    BY <1>4 DEF ExecuteDca
  <2>2. [amount |-> dPos.amount + 1, count |-> dPos.count + 1] \in [amount : Nat, count : Nat]
    BY <2>1
  <2>3. /\ ~dLost' => ~dLost /\ out # "lost"
        /\ dPos' = IF AnswerCame(out) THEN [amount |-> dPos.amount + 1, count |-> dPos.count + 1] ELSE dPos
        /\ dHeld' = IF Served(out) THEN dHeld + 1 ELSE dHeld
    BY <1>4 DEF ExecuteDca
  <2>4. DcaTypes'
    BY <1>1, <2>2, <2>3
  <2>5. ShownIsHeld'
    BY <1>1, <2>1, <2>2, <2>3
  <2> QED
    BY <2>1, <2>4, <2>5
<1>5. ASSUME NEW out \in Outcomes, Sell(out) PROVE DcaIInv'
  <2>1. /\ Served(out) => dPos \in [amount : Nat, count : Nat] /\ dPos.amount <= dHeld
        /\ dHeld' = IF Served(out) THEN dHeld - dPos.amount ELSE dHeld
        /\ dPos' = IF AnswerCame(out) THEN NoPosition ELSE dPos
        /\ dAt' = "buy" => AnswerCame(out)
    BY <1>5 DEF Sell
  <2>2. ~dLost' => ~dLost /\ out # "lost"
    BY <1>5 DEF Sell
  <2>3. DcaTypes'
    BY <1>1, <2>1
  <2>4. ShownIsHeld'
    BY <1>1, <2>1, <2>2
  <2> QED
    BY <2>1, <2>3, <2>4
<1>6. ASSUME NEW request \in {"none", "buy", "dca", "sell"}, NEW served \in BOOLEAN, CancelDca(request, served)
      PROVE  DcaIInv'
  <2>1. /\ dAt' # "buy"
        /\ dPos' = IF request = "buy" THEN Placeholder ELSE dPos
        /\ request = "buy" => dPos = NoPosition
        /\ request = "sell" => dPos \in [amount : Nat, count : Nat] /\ dPos.amount <= dHeld
    BY <1>6 DEF CancelDca, Cut
  <2>2. ~dLost' => ~dLost /\ ~served
    BY <1>6 DEF CancelDca
  <2>3. dHeld' = dHeld \/ (request = "sell" /\ dHeld' = dHeld - dPos.amount) \/ dHeld' = dHeld + 1
    BY <1>6 DEF CancelDca
  <2>4. ~served => dHeld' = dHeld
    BY <1>6 DEF CancelDca
  <2>5. DcaTypes'
    BY <1>1, <2>1, <2>3
  <2>6. ShownIsHeld'
    BY <1>1, <2>1, <2>2, <2>4
  <2> QED
    BY <2>1, <2>5, <2>6
<1>7. CASE UNCHANGED dvars
  BY <1>7 DEF dvars
<1> QED
  BY <1>2, <1>3, <1>4, <1>5, <1>6, <1>7 DEF DcaNext

\* As long as every request is answered, the position the averaging bot shows is
\* what its account holds, through failed and cut purchases, sales by stop and
\* runs over a position that was left.
THEOREM DcaShownIsHeld == DcaSpec => []ShownIsHeld
<1>1. DcaIInv => ShownIsHeld
  BY DEF DcaIInv
<1> QED
  BY <1>1, DcaInitSound, DcaStep, PTL DEF DcaSpec

-----------------------------------------------------------------------------
(* The bus: an event is delivered by publish once and by a listener once,    *)
(* because the broker brings it back once and one listener takes it.         *)

ListenerType == [conn : 0 .. MaxConnects, topic : Types \cup {"none"},
                 event : Events \cup {"none"}, next : Nat]

PubType == [at : {"new", "local", "done"}, next : Nat]

BusTypes ==
    /\ mUp \in BOOLEAN /\ mConnects \in 0 .. MaxConnects /\ (mUp => mConnects # 0)
    /\ mQueue \in [Connections -> Seq(Events)]
    /\ mListen \in [Listeners -> ListenerType]
    /\ mSubs \in [Types -> Seq(Callbacks)]
    /\ mPub \in [Events -> PubType]
    /\ mCalls \in [Events -> [Callbacks -> Nat]]
    /\ \A e \in Events : mPub[e].at = "local" => mPub[e].next # 0
    /\ \A i \in Listeners : mListen[i].event # "none" => mListen[i].next # 0

\* A callback is on the list of a type once.
SubscribedOnce ==
    \A y \in Types : \A j, k \in 1 .. Len(mSubs[y]) : mSubs[y][j] = mSubs[y][k] => j = k

-----------------------------------------------------------------------------
(* Where an event of the broker is *)

Queued(e)      == \E n \in Connections : \E k \in 1 .. Len(mQueue[n]) : mQueue[n][k] = e
Delivers(i, e) == mListen[i].event = e
Echoed(e)      == Queued(e) \/ \E i \in Listeners : Delivers(i, e)

\* It is in one place at most, and nowhere before it is published.
OnePlace ==
    \A e \in Events :
        /\ \A n, m \in Connections : \A j \in 1 .. Len(mQueue[n]), k \in 1 .. Len(mQueue[m]) :
               mQueue[n][j] = e /\ mQueue[m][k] = e => n = m /\ j = k
        /\ \A i, j \in Listeners : Delivers(i, e) /\ Delivers(j, e) => i = j
        /\ Queued(e) => \A i \in Listeners : ~Delivers(i, e)

NewIsNowhere ==
    \A e \in Events : mPub[e].at = "new" => ~Echoed(e) /\ \A c \in Callbacks : mCalls[e][c] = 0

-----------------------------------------------------------------------------
(* The calls that are still to come *)

\* c was reached by a delivery of e whose next callback is the n-th
Reached(e, c, n) ==
    \E k \in 1 .. Len(mSubs[TypeOf[e]]) : k < n /\ mSubs[TypeOf[e]][k] = c

LocalComes(e, c)  == mPub[e].at = "local" /\ ~Reached(e, c, mPub[e].next)
RemoteComes(e, c) ==
    Queued(e) \/ \E i \in Listeners : Delivers(i, e) /\ ~Reached(e, c, mListen[i].next)

\* A delivery does not point beyond the end of the list, where the next
\* subscriber will be.
NextSound ==
    /\ \A e \in Events : mPub[e].at = "local" => mPub[e].next <= Len(mSubs[TypeOf[e]]) + 1
    /\ \A i \in Listeners : mListen[i].event # "none" =>
           mListen[i].next <= Len(mSubs[TypeOf[mListen[i].event]]) + 1

Room(e) == IF e \in Local THEN 2 ELSE 1

Fits(calls, room, comes, also) ==
    /\ calls <= room
    /\ comes \/ also => calls <= room - 1
    /\ comes /\ also => calls <= room - 2

DeliveriesSound ==
    \A e \in Events, c \in Callbacks :
        Fits(mCalls[e][c], Room(e), LocalComes(e, c), RemoteComes(e, c))

Persisted ==
    KafkaEnabled => \A e \in Local \cap High : mPub[e].at # "new" => e \in mKafka

BusIInv ==
    /\ BusTypes /\ SubscribedOnce /\ OnePlace /\ NewIsNowhere /\ NextSound
    /\ DeliveriesSound /\ Persisted

-----------------------------------------------------------------------------
\* no new call is to come, and none was made
LEMMA NoCall ==
    ASSUME DeliveriesSound, mCalls' = mCalls,
           \A e \in Events, c \in Callbacks : LocalComes(e, c)' => LocalComes(e, c),
           \A e \in Events, c \in Callbacks : RemoteComes(e, c)' => RemoteComes(e, c)
    PROVE  DeliveriesSound'
<1> SUFFICES ASSUME NEW e \in Events, NEW c \in Callbacks
             PROVE  Fits(mCalls[e][c], Room(e), LocalComes(e, c), RemoteComes(e, c))'
  BY DEF DeliveriesSound
<1>1. Fits(mCalls[e][c], Room(e), LocalComes(e, c), RemoteComes(e, c))
  BY DEF DeliveriesSound
<1>2. mCalls'[e][c] = mCalls[e][c]
  OBVIOUS
<1> HIDE DEF LocalComes, RemoteComes
<1> QED
  BY <1>1, <1>2 DEF Fits, Room

\* a call that was to come is made
LEMMA OneCall ==
    ASSUME BusTypes, DeliveriesSound, NEW f \in Events, NEW d \in Callbacks,
           mCalls' = [mCalls EXCEPT ![f][d] = @ + 1],
           \A e \in Events, c \in Callbacks : LocalComes(e, c)' => LocalComes(e, c),
           \A e \in Events, c \in Callbacks : RemoteComes(e, c)' => RemoteComes(e, c),
           \/ LocalComes(f, d) /\ ~LocalComes(f, d)'
           \/ RemoteComes(f, d) /\ ~RemoteComes(f, d)'
    PROVE  DeliveriesSound'
<1> SUFFICES ASSUME NEW e \in Events, NEW c \in Callbacks
             PROVE  Fits(mCalls[e][c], Room(e), LocalComes(e, c), RemoteComes(e, c))'
  BY DEF DeliveriesSound
<1>1. Fits(mCalls[e][c], Room(e), LocalComes(e, c), RemoteComes(e, c))
  BY DEF DeliveriesSound
<1>2. mCalls[e][c] \in Nat /\ Room(e) \in Int
  BY DEF BusTypes, Room
<1>3. CASE e = f /\ c = d
  <2>1. mCalls'[e][c] = mCalls[e][c] + 1
    BY <1>3 DEF BusTypes
  <2>2. \/ LocalComes(e, c) /\ ~LocalComes(e, c)'
        \/ RemoteComes(e, c) /\ ~RemoteComes(e, c)'
    BY <1>3
  <2>3. (LocalComes(e, c)' => LocalComes(e, c)) /\ (RemoteComes(e, c)' => RemoteComes(e, c))
    OBVIOUS
  <2>4. mCalls[e][c] <= Room(e) - 1
    BY <1>1, <2>2 DEF Fits
  <2>5. LocalComes(e, c)' \/ RemoteComes(e, c)' => mCalls[e][c] <= Room(e) - 2
    BY <1>1, <2>2, <2>3 DEF Fits
  <2>6. ~(LocalComes(e, c)' /\ RemoteComes(e, c)')
    BY <2>2
  <2>7. /\ mCalls[e][c] + 1 <= Room(e)
        /\ mCalls[e][c] <= Room(e) - 2 => mCalls[e][c] + 1 <= Room(e) - 1
    BY <1>2, <2>4
  <2>8. Room(e)' = Room(e)
    BY DEF Room
  <2> QED
    BY <2>1, <2>5, <2>6, <2>7, <2>8 DEF Fits
<1>4. CASE ~(e = f /\ c = d)
  <2>1. mCalls'[e][c] = mCalls[e][c]
    BY <1>4 DEF BusTypes
  <2>2. (LocalComes(e, c)' => LocalComes(e, c)) /\ (RemoteComes(e, c)' => RemoteComes(e, c))
    OBVIOUS
  <2>3. Room(e)' = Room(e)
    BY DEF Room
  <2> QED
    BY <1>1, <2>1, <2>2, <2>3 DEF Fits
<1> QED
  BY <1>3, <1>4

-----------------------------------------------------------------------------
(* Types *)

LEMMA Forwarded ==
    ASSUME BusTypes, NEW e \in Events, mQueue' = mQueue \/ mQueue' = Forward(e)
    PROVE  mQueue' \in [Connections -> Seq(Events)]
<1>1. mUp => mConnects \in Connections
  BY BusAssumption DEF BusTypes, Connections
<1>2. mUp => mQueue[mConnects] \in Seq(Events)
  BY <1>1 DEF BusTypes
<1> DEFINE q == Append(mQueue[mConnects], e)
<1>3. mUp => q \in Seq(Events)
  BY <1>2
<1>4. mQueue' = mQueue \/ (mUp /\ mQueue' = [mQueue EXCEPT ![mConnects] = q])
  BY DEF Forward
<1> HIDE DEF q
<1> QED
  BY <1>1, <1>3, <1>4 DEF BusTypes

\* a listener that changes has the type of one
LEMMA ListenerTyped ==
    ASSUME BusTypes, NEW i \in Listeners, NEW l \in ListenerType,
           l.event # "none" => l.next # 0, mListen' = [mListen EXCEPT ![i] = l]
    PROVE  /\ mListen' \in [Listeners -> ListenerType]
           /\ \A j \in Listeners : mListen'[j].event # "none" => mListen'[j].next # 0
  BY DEF BusTypes

\* and so has a publication
LEMMA PubTyped ==
    ASSUME BusTypes, NEW e \in Events, NEW p \in PubType,
           p.at = "local" => p.next # 0, mPub' = [mPub EXCEPT ![e] = p]
    PROVE  /\ mPub' \in [Events -> PubType]
           /\ \A f \in Events : mPub'[f].at = "local" => mPub'[f].next # 0
  BY DEF BusTypes

LEMMA CallTyped ==
    ASSUME BusTypes, NEW e \in Events, NEW n \in Nat, n # 0, n <= Len(mSubs[TypeOf[e]]), CallOne(e, n)
    PROVE  mCalls' \in [Events -> [Callbacks -> Nat]]
<1>1. TypeOf[e] \in Types /\ mSubs[TypeOf[e]] \in Seq(Callbacks)
  BY BusAssumption DEF BusTypes
<1>2. mSubs[TypeOf[e]][n] \in Callbacks
  BY <1>1
<1> QED
  BY <1>2 DEF CallOne, BusTypes

LEMMA BusTypesStep == BusTypes /\ [BusNext]_mvars => BusTypes'
<1> SUFFICES ASSUME BusTypes, [BusNext]_mvars PROVE BusTypes'
  OBVIOUS
<1> USE BusAssumption
<1>1. CASE BusConnect
  BY <1>1 DEF BusConnect, BusTypes
<1>2. CASE BusDisconnect
  BY <1>2 DEF BusDisconnect, BusTypes
<1>3. ASSUME NEW y \in Types, NEW c \in Callbacks, NEW granted \in BOOLEAN, Subscribe(y, c, granted)
      PROVE  BusTypes'
  <2>1. mSubs' \in [Types -> Seq(Callbacks)]
    BY <1>3 DEF Subscribe, BusTypes
  <2> DEFINE l == [conn |-> mConnects, topic |-> y, event |-> "none", next |-> 0]
  <2>2. l \in ListenerType /\ l.event = "none"
    BY DEF ListenerType, BusTypes
  <2>3. mListen' = mListen \/ \E i \in Listeners : mListen' = [mListen EXCEPT ![i] = l]
    BY <1>3 DEF Subscribe
  <2> HIDE DEF l
  <2>4. /\ mListen' \in [Listeners -> ListenerType]
        /\ \A i \in Listeners : mListen'[i].event # "none" => mListen'[i].next # 0
    BY <2>2, <2>3 DEF BusTypes
  <2> QED
    BY <1>3, <2>1, <2>4 DEF Subscribe, BusTypes
<1>4. ASSUME NEW e \in Local, NEW sent \in BOOLEAN, Publish(e, sent) PROVE BusTypes'
  <2>1. e \in Events
    BY DEF Events
  <2>2. mQueue' \in [Connections -> Seq(Events)]
    BY <1>4, <2>1, Forwarded DEF Publish
  <2>3. /\ mPub' \in [Events -> PubType]
        /\ \A f \in Events : mPub'[f].at = "local" => mPub'[f].next # 0
    <3> DEFINE p == [at |-> "local", next |-> 1]
    <3>1. p \in PubType /\ p.next # 0
      BY DEF PubType
    <3>2. mPub' = [mPub EXCEPT ![e] = p]
      BY <1>4 DEF Publish
    <3> HIDE DEF p
    <3> QED
      BY <2>1, <3>1, <3>2, PubTyped
  <2> QED
    BY <1>4, <2>2, <2>3 DEF Publish, BusTypes
<1>5. ASSUME NEW e \in Foreign, ForeignPublish(e) PROVE BusTypes'
  <2>1. e \in Events
    BY DEF Events
  <2>2. mQueue' \in [Connections -> Seq(Events)]
    BY <1>5, <2>1, Forwarded DEF ForeignPublish
  <2>3. /\ mPub' \in [Events -> PubType]
        /\ \A f \in Events : mPub'[f].at = "local" => mPub'[f].next # 0
    <3> DEFINE p == [at |-> "done", next |-> mPub[e].next]
    <3>1. p \in PubType /\ p.at = "done"
      BY <2>1 DEF PubType, BusTypes
    <3>2. mPub' = [mPub EXCEPT ![e].at = "done"] /\ mPub[e] \in PubType
      BY <1>5, <2>1 DEF ForeignPublish, BusTypes
    <3>4. [mPub[e] EXCEPT !.at = "done"] = p
      BY <3>2 DEF PubType
    <3>3. mPub' = [mPub EXCEPT ![e] = p]
      BY <3>2, <3>4, Zenon
    <3> HIDE DEF p
    <3> QED
      BY <2>1, <3>1, <3>3, PubTyped
  <2> QED
    BY <1>5, <2>2, <2>3 DEF ForeignPublish, BusTypes
<1>6. ASSUME NEW e \in Local, NotifyLocal(e) PROVE BusTypes'
  <2>1. e \in Events /\ mPub[e].at = "local" /\ mPub[e].next \in Nat /\ mPub[e].next # 0
    BY <1>6 DEF Events, NotifyLocal, BusTypes, PubType
  <2> DEFINE more == [at |-> "local", next |-> mPub[e].next + 1]
             over == [at |-> "done", next |-> mPub[e].next]
  <2>4. /\ more \in PubType /\ more.next # 0
        /\ over \in PubType /\ over.at = "done"
    BY <2>1 DEF PubType
  <2>5. mPub' = [mPub EXCEPT ![e] = more] \/ mPub' = [mPub EXCEPT ![e] = over]
    BY <1>6, <2>1 DEF NotifyLocal, BusTypes, PubType
  <2> HIDE DEF more, over
  <2>2. /\ mPub' \in [Events -> PubType]
        /\ \A f \in Events : mPub'[f].at = "local" => mPub'[f].next # 0
    BY <2>1, <2>4, <2>5, PubTyped
  <2>3. mCalls' \in [Events -> [Callbacks -> Nat]]
    BY <1>6, <2>1, CallTyped DEF NotifyLocal, BusTypes
  <2> QED
    BY <1>6, <2>2, <2>3 DEF NotifyLocal, BusTypes
<1>7. ASSUME NEW i \in Listeners, Take(i) PROVE BusTypes'
  <2> DEFINE n == mListen[i].conn
             e == Head(mQueue[n])
  <2>1. n \in Connections /\ mQueue[n] \in Seq(Events) /\ mQueue[n] # <<>>
    BY <1>7 DEF Take, Listening, BusTypes, ListenerType, Connections
  <2>2. e \in Events /\ Tail(mQueue[n]) \in Seq(Events)
    BY <2>1
  <2>3. mQueue' \in [Connections -> Seq(Events)]
    BY <1>7, <2>2 DEF Take, BusTypes
  <2>4. mListen' = mListen \/ mListen' = [mListen EXCEPT ![i].event = e, ![i].next = 1]
    BY <1>7 DEF Take
  <2> HIDE DEF e, n
  <2> DEFINE l == [conn |-> mListen[i].conn, topic |-> mListen[i].topic, event |-> e, next |-> 1]
  <2>6. l \in ListenerType /\ l.next # 0
    BY <2>2 DEF BusTypes, ListenerType
  <2>7. mListen' = mListen \/ mListen' = [mListen EXCEPT ![i] = l]
    BY <2>4 DEF BusTypes, ListenerType
  <2> HIDE DEF l
  <2>5. /\ mListen' \in [Listeners -> ListenerType]
        /\ \A j \in Listeners : mListen'[j].event # "none" => mListen'[j].next # 0
    BY <2>6, <2>7, ListenerTyped DEF BusTypes
  <2> QED
    BY <1>7, <2>3, <2>5 DEF Take, BusTypes
<1>8. ASSUME NEW i \in Listeners, NotifyRemote(i) PROVE BusTypes'
  <2> DEFINE e == mListen[i].event
  <2>1. e \in Events /\ mListen[i].next \in Nat /\ mListen[i].next # 0
    BY <1>8 DEF NotifyRemote, BusTypes, ListenerType
  <2>2. \/ mListen' = [mListen EXCEPT ![i].next = @ + 1]
        \/ mListen' = [mListen EXCEPT ![i].event = "none"]
    BY <1>8 DEF NotifyRemote
  <2> DEFINE l == [conn |-> mListen[i].conn, topic |-> mListen[i].topic, event |-> e,
                   next |-> mListen[i].next + 1]
             k == [conn |-> mListen[i].conn, topic |-> mListen[i].topic, event |-> "none",
                   next |-> mListen[i].next]
  <2>5. l \in ListenerType /\ l.next # 0 /\ k \in ListenerType /\ k.event = "none"
    BY <2>1 DEF BusTypes, ListenerType
  <2>6. mListen' = [mListen EXCEPT ![i] = l] \/ mListen' = [mListen EXCEPT ![i] = k]
    BY <2>2 DEF BusTypes, ListenerType
  <2> HIDE DEF l, k
  <2>3. /\ mListen' \in [Listeners -> ListenerType]
        /\ \A j \in Listeners : mListen'[j].event # "none" => mListen'[j].next # 0
    BY <2>5, <2>6, ListenerTyped
  <2>4. mCalls' \in [Events -> [Callbacks -> Nat]]
    BY <1>8, <2>1, CallTyped DEF NotifyRemote, BusTypes
  <2> QED
    BY <1>8, <2>3, <2>4 DEF NotifyRemote, BusTypes
<1>9. ASSUME NEW i \in Listeners, ListenerEnds(i) PROVE BusTypes'
  <2>1. NoListener \in ListenerType /\ NoListener.event = "none"
    BY DEF NoListener, ListenerType
  <2>2. mListen' = [mListen EXCEPT ![i] = NoListener]
    BY <1>9 DEF ListenerEnds
  <2>3. /\ mListen' \in [Listeners -> ListenerType]
        /\ \A j \in Listeners : mListen'[j].event # "none" => mListen'[j].next # 0
    BY <2>1, <2>2 DEF BusTypes
  <2> QED
    BY <1>9, <2>3 DEF ListenerEnds, BusTypes
<1>10. CASE UNCHANGED mvars
  BY <1>10 DEF mvars, BusTypes
<1> QED
  BY <1>1, <1>2, <1>3, <1>4, <1>5, <1>6, <1>7, <1>8, <1>9, <1>10 DEF BusNext

-----------------------------------------------------------------------------
(* Where the events are *)

\* an event that was nowhere is put at the end of a queue, or nowhere
LEMMA PutOnce ==
    ASSUME BusTypes, OnePlace, NEW e \in Events, ~Echoed(e),
           mQueue' = mQueue \/ mQueue' = Forward(e), mListen' = mListen
    PROVE  /\ OnePlace'
           /\ \A f \in Events : Queued(f)' => f = e \/ Queued(f)
<1>1. CASE mQueue' = mQueue
  BY <1>1 DEF OnePlace, Queued, Delivers
<1>2. CASE mQueue' # mQueue
  <2> DEFINE q == Append(mQueue[mConnects], e)
  <2>1. mUp => mConnects \in Connections
    BY BusAssumption DEF BusTypes, Connections
  <2>2. mConnects \in Connections /\ mQueue' = [mQueue EXCEPT ![mConnects] = q]
    BY <1>2, <2>1 DEF Forward
  <2>3. mQueue[mConnects] \in Seq(Events)
    BY <2>2 DEF BusTypes
  <2>4. /\ Len(q) = Len(mQueue[mConnects]) + 1 /\ q[Len(q)] = e
        /\ \A k \in 1 .. Len(q) : k # Len(q) =>
               k \in 1 .. Len(mQueue[mConnects]) /\ q[k] = mQueue[mConnects][k]
    BY <2>3
  <2>5. \A n \in Connections : mQueue'[n] = IF n = mConnects THEN q ELSE mQueue[n]
    BY <2>2 DEF BusTypes
  <2>6. \A n \in Connections : \A k \in 1 .. Len(mQueue'[n]) :
            \/ n = mConnects /\ k = Len(q) /\ mQueue'[n][k] = e
            \/ k \in 1 .. Len(mQueue[n]) /\ mQueue'[n][k] = mQueue[n][k]
    BY <2>4, <2>5
  <2> HIDE DEF q
  <2>7. \A n \in Connections : \A k \in 1 .. Len(mQueue[n]) : mQueue[n][k] # e
    BY DEF Echoed, Queued
  <2>8. \A f \in Events : Queued(f)' => f = e \/ Queued(f)
    BY <2>6 DEF Queued
  <2>9. ASSUME NEW f \in Events, NEW n \in Connections, NEW m \in Connections,
               NEW j \in 1 .. Len(mQueue'[n]), NEW k \in 1 .. Len(mQueue'[m]),
               mQueue'[n][j] = f, mQueue'[m][k] = f
        PROVE  n = m /\ j = k
    <3>1. CASE f = e
      BY <2>6, <2>7, <2>9, <3>1
    <3>2. CASE f # e
      <4>1. /\ j \in 1 .. Len(mQueue[n]) /\ mQueue[n][j] = f
            /\ k \in 1 .. Len(mQueue[m]) /\ mQueue[m][k] = f
        BY <2>6, <2>9, <3>2
      <4> QED
        BY <4>1 DEF OnePlace
    <3> QED
      BY <3>1, <3>2
  <2>10. \A f \in Events, i \in Listeners : Delivers(i, f)' <=> Delivers(i, f)
    BY DEF Delivers
  <2>11. ASSUME NEW f \in Events, Queued(f)', NEW i \in Listeners PROVE ~Delivers(i, f)
    BY <2>8, <2>11 DEF OnePlace, Echoed
  <2> QED
    BY <2>8, <2>9, <2>10, <2>11 DEF OnePlace
<1> QED
  BY <1>1, <1>2

\* the first message of a queue is taken by one listener, or by none
LEMMA TakeOnce ==
    ASSUME BusTypes, BusTypes', OnePlace, NEW i \in Listeners, Take(i)
    PROVE  /\ OnePlace'
           /\ \A f \in Events : Queued(f)' => Queued(f)
           /\ \A j \in Listeners, f \in Events : Delivers(j, f)' =>
                  \/ mListen'[j] = mListen[j]
                  \/ j = i /\ Queued(f) /\ mListen'[j].next = 1
<1>0. PICK n \in Connections : n = mListen[i].conn /\ mQueue[n] # <<>>
  BY DEF Take, Listening, BusTypes, ListenerType, Connections
<1>1. mQueue[n] \in Seq(Events) /\ mQueue[n] # <<>>
  BY <1>0 DEF BusTypes
<1>2. PICK e \in Events : e = Head(mQueue[n]) /\ e = mQueue[n][1] /\ 1 \in 1 .. Len(mQueue[n])
  BY <1>1
<1>3. /\ Len(Tail(mQueue[n])) = Len(mQueue[n]) - 1
      /\ \A k \in 1 .. Len(Tail(mQueue[n])) :
             k + 1 \in 1 .. Len(mQueue[n]) /\ Tail(mQueue[n])[k] = mQueue[n][k + 1]
  BY <1>1
<1>4. \A m \in Connections : mQueue'[m] = IF m = n THEN Tail(mQueue[n]) ELSE mQueue[m]
  BY <1>0 DEF Take, BusTypes
<1>5. /\ \A j \in Listeners \ {i} : mListen'[j] = mListen[j]
      /\ mListen'[i] = mListen[i] \/ (mListen'[i].event = e /\ mListen'[i].next = 1)
      /\ mListen[i].event = "none"
  <2>1. mListen \in [Listeners -> ListenerType]
    BY DEF BusTypes
  <2>2. /\ mListen' = mListen \/ mListen' = [mListen EXCEPT ![i].event = e, ![i].next = 1]
        /\ mListen[i].event = "none"
    BY <1>0, <1>2 DEF Take, Listening
  <2> QED
    BY <2>1, <2>2 DEF ListenerType
<1>6. \A m \in Connections : \A k \in 1 .. Len(mQueue'[m]) :
          IF m = n THEN k + 1 \in 1 .. Len(mQueue[n]) /\ mQueue'[m][k] = mQueue[n][k + 1]
                   ELSE k \in 1 .. Len(mQueue[m]) /\ mQueue'[m][k] = mQueue[m][k]
  BY <1>3, <1>4
<1>7. \A f \in Events : Queued(f)' => Queued(f)
  <2> SUFFICES ASSUME NEW f \in Events, NEW m \in Connections, NEW k \in 1 .. Len(mQueue'[m]),
                      mQueue'[m][k] = f
               PROVE  Queued(f)
    BY DEF Queued
  <2>1. CASE m = n
    BY <1>1, <1>6, <2>1 DEF Queued
  <2>2. CASE m # n
    BY <1>6, <2>2 DEF Queued
  <2> QED
    BY <2>1, <2>2
<1>8. ~Queued(e)'
  <2> SUFFICES ASSUME NEW m \in Connections, NEW k \in 1 .. Len(mQueue'[m]), mQueue'[m][k] = e
               PROVE  FALSE
    BY DEF Queued
  <2>1. CASE m = n
    <3>1. k + 1 \in 1 .. Len(mQueue[n]) /\ mQueue[n][k + 1] = e
      BY <1>6, <2>1
    <3>2. k + 1 = 1
      BY <1>1, <1>2, <3>1 DEF OnePlace
    <3> QED
      BY <3>2
  <2>2. CASE m # n
    BY <1>1, <1>2, <1>6, <2>2 DEF OnePlace
  <2> QED
    BY <2>1, <2>2
<1>9. Queued(e) /\ \A j \in Listeners : ~Delivers(j, e)
  <2>1. Queued(e)
    BY <1>1, <1>2 DEF Queued
  <2> QED
    BY <1>2, <2>1 DEF OnePlace
<1>10. ASSUME NEW f \in Events, NEW a \in Connections, NEW b \in Connections,
              NEW j \in 1 .. Len(mQueue'[a]), NEW k \in 1 .. Len(mQueue'[b]),
              mQueue'[a][j] = f, mQueue'[b][k] = f
       PROVE  a = b /\ j = k
  <2> DEFINE at(m, x) == IF m = n THEN x + 1 ELSE x
  <2>1. /\ at(a, j) \in 1 .. Len(mQueue[a]) /\ mQueue[a][at(a, j)] = f
        /\ at(b, k) \in 1 .. Len(mQueue[b]) /\ mQueue[b][at(b, k)] = f
    BY <1>6, <1>10
  <2>2. a = b /\ at(a, j) = at(b, k)
    BY <2>1 DEF OnePlace
  <2> QED
    BY <2>2
<1>11. \A j \in Listeners, f \in Events : Delivers(j, f)' => Delivers(j, f) \/ (j = i /\ f = e)
  BY <1>5 DEF Delivers
<1>12. ASSUME NEW f \in Events, NEW j \in Listeners, NEW k \in Listeners, Delivers(j, f)', Delivers(k, f)'
       PROVE  j = k
  <2>1. CASE f = e
    BY <1>9, <1>11, <1>12, <2>1
  <2>2. CASE f # e
    BY <1>11, <1>12, <2>2 DEF OnePlace
  <2> QED
    BY <2>1, <2>2
<1>13. ASSUME NEW f \in Events, Queued(f)', NEW j \in Listeners PROVE ~Delivers(j, f)'
  BY <1>7, <1>8, <1>11, <1>13 DEF OnePlace
<1>14. OnePlace'
  BY <1>10, <1>12, <1>13 DEF OnePlace
<1>15. ASSUME NEW j \in Listeners, NEW f \in Events, Delivers(j, f)'
       PROVE  \/ mListen'[j] = mListen[j]
              \/ j = i /\ Queued(f) /\ mListen'[j].next = 1
  BY <1>5, <1>9, <1>15 DEF Delivers
<1> QED
  BY <1>7, <1>14, <1>15

-----------------------------------------------------------------------------
(* The steps *)

LEMMA BusInitSound == BusInit => BusIInv
<1> SUFFICES ASSUME BusInit PROVE BusIInv
  OBVIOUS
<1> USE BusAssumption DEF BusInit
<1>1. \A e \in Events : ~Queued(e) /\ \A i \in Listeners : ~Delivers(i, e)
  BY DEF Queued, Delivers, NoListener
<1>2. BusTypes
  <2>1. NoListener \in ListenerType /\ NoListener.event = "none"
    BY DEF NoListener, ListenerType
  <2>2. [at |-> "new", next |-> 0] \in PubType
    BY DEF PubType
  <2>3. mListen \in [Listeners -> ListenerType] /\ \A i \in Listeners : mListen[i].event = "none"
    BY <2>1
  <2>4. mPub \in [Events -> PubType] /\ \A e \in Events : mPub[e].at # "local"
    BY <2>2
  <2>5. mQueue \in [Connections -> Seq(Events)] /\ mSubs \in [Types -> Seq(Callbacks)]
    OBVIOUS
  <2>6. mCalls \in [Events -> [Callbacks -> Nat]]
    OBVIOUS
  <2>7. mUp \in BOOLEAN
    OBVIOUS
  <2>8. mConnects \in 0 .. MaxConnects
    OBVIOUS
  <2> QED
    BY <2>3, <2>4, <2>5, <2>6, <2>7, <2>8 DEF BusTypes
<1>3. SubscribedOnce
  BY DEF SubscribedOnce
<1>4. OnePlace
  <2>1. \A n \in Connections : 1 .. Len(mQueue[n]) = {}
    OBVIOUS
  <2> QED
    BY <1>1, <2>1 DEF OnePlace
<1>5. NewIsNowhere
  BY <1>1 DEF NewIsNowhere, Echoed
<1>6. NextSound
  BY DEF NextSound, NoListener
<1>7. DeliveriesSound
  <2> SUFFICES ASSUME NEW e \in Events, NEW c \in Callbacks
               PROVE  Fits(mCalls[e][c], Room(e), LocalComes(e, c), RemoteComes(e, c))
    BY DEF DeliveriesSound
  <2>1. mCalls[e][c] = 0 /\ ~LocalComes(e, c)
    BY DEF LocalComes
  <2>2. ~RemoteComes(e, c)
    BY <1>1 DEF RemoteComes
  <2> QED
    BY <2>1, <2>2 DEF Fits, Room
<1>8. Persisted
  BY DEF Persisted, Events
<1> QED
  BY <1>2, <1>3, <1>4, <1>5, <1>6, <1>7, <1>8 DEF BusIInv

BusRest == SubscribedOnce /\ OnePlace /\ NewIsNowhere /\ NextSound /\ DeliveriesSound /\ Persisted

LEMMA ConnectionStep ==
    ASSUME BusIInv, UNCHANGED <<mQueue, mListen, mSubs, mPub, mKafka, mCalls>>
    PROVE  BusRest'
<1> USE DEF BusIInv
<1>1. SubscribedOnce'
  BY DEF SubscribedOnce
<1>2. OnePlace' /\ NewIsNowhere'
  BY DEF OnePlace, NewIsNowhere, Echoed, Queued, Delivers
<1>3. NextSound' /\ Persisted'
  BY DEF NextSound, Persisted
<1>4. DeliveriesSound'
  BY NoCall DEF LocalComes, RemoteComes, Reached, Queued, Delivers
<1> QED
  BY <1>1, <1>2, <1>3, <1>4 DEF BusRest

LEMMA ListenerEndsStep ==
    ASSUME BusIInv, NEW i \in Listeners, ListenerEnds(i)
    PROVE  BusRest'
<1> USE DEF BusIInv
<1>1. /\ \A j \in Listeners : mListen'[j].event # "none" => mListen'[j] = mListen[j]
      /\ \A j \in Listeners, e \in Events : Delivers(j, e)' => Delivers(j, e) /\ mListen'[j] = mListen[j]
  BY BusAssumption DEF ListenerEnds, NoListener, Delivers, BusTypes
<1>2. UNCHANGED <<mQueue, mSubs, mPub, mKafka, mCalls>>
  BY DEF ListenerEnds
<1>3. SubscribedOnce' /\ Persisted'
  BY <1>2 DEF SubscribedOnce, Persisted
<1>4. \A e \in Events : Queued(e)' <=> Queued(e)
  BY <1>2 DEF Queued
<1>5. OnePlace'
  BY <1>1, <1>2, <1>4 DEF OnePlace
<1>6. NewIsNowhere'
  BY <1>1, <1>2, <1>4 DEF NewIsNowhere, Echoed
<1>7. NextSound'
  BY <1>1, <1>2 DEF NextSound
<1>8. DeliveriesSound'
  <2>1. \A e \in Events, c \in Callbacks : LocalComes(e, c)' => LocalComes(e, c)
    BY <1>2 DEF LocalComes, Reached
  <2>2. \A e \in Events, c \in Callbacks : RemoteComes(e, c)' => RemoteComes(e, c)
    BY <1>1, <1>2, <1>4 DEF RemoteComes, Reached
  <2> QED
    BY <1>2, <2>1, <2>2, NoCall
<1> QED
  BY <1>3, <1>5, <1>6, <1>7, <1>8 DEF BusRest

LEMMA SubscribeStep ==
    ASSUME BusIInv, NEW y \in Types, NEW c \in Callbacks, NEW granted \in BOOLEAN,
           Subscribe(y, c, granted)
    PROVE  BusRest'
<1> USE DEF BusIInv
<1>1. UNCHANGED <<mQueue, mPub, mKafka, mCalls>>
  BY DEF Subscribe
<1>2. mSubs[y] \in Seq(Callbacks) /\ mSubs' = [mSubs EXCEPT ![y] = Append(mSubs[y], c)]
  BY DEF Subscribe, BusTypes
<1>3. /\ Len(mSubs'[y]) = Len(mSubs[y]) + 1 /\ mSubs'[y][Len(mSubs[y]) + 1] = c
      /\ \A k \in 1 .. Len(mSubs[y]) : mSubs'[y][k] = mSubs[y][k] /\ mSubs[y][k] # c
  <2>1. \A k \in 1 .. Len(mSubs[y]) : mSubs[y][k] # c
    BY <1>2 DEF Subscribe, Range
  <2> QED
    BY <1>2, <2>1 DEF BusTypes
<1>4. \A z \in Types \ {y} : mSubs'[z] = mSubs[z]
  BY <1>2 DEF BusTypes
<1>5. \A z \in Types : /\ Len(mSubs[z]) \in Nat /\ Len(mSubs[z]) <= Len(mSubs'[z])
                       /\ \A k \in 1 .. Len(mSubs'[z]) : k <= Len(mSubs[z]) => mSubs'[z][k] = mSubs[z][k]
  BY <1>2, <1>3, <1>4 DEF BusTypes
<1>6. SubscribedOnce'
  <2> SUFFICES ASSUME NEW z \in Types, NEW j \in 1 .. Len(mSubs'[z]), NEW k \in 1 .. Len(mSubs'[z]),
                      mSubs'[z][j] = mSubs'[z][k]
               PROVE  j = k
    BY DEF SubscribedOnce
  <2>1. CASE z = y
    BY <1>2, <1>3, <2>1 DEF SubscribedOnce
  <2>2. CASE z # y
    BY <1>4, <2>2 DEF SubscribedOnce
  <2> QED
    BY <2>1, <2>2
<1>7. \A j \in Listeners : mListen'[j].event # "none" => mListen'[j] = mListen[j]
  BY DEF Subscribe, BusTypes
<1>8. \A j \in Listeners, e \in Events : Delivers(j, e)' => Delivers(j, e) /\ mListen'[j] = mListen[j]
  BY <1>7, BusAssumption DEF Delivers
<1>9. \A e \in Events : Queued(e)' <=> Queued(e)
  BY <1>1 DEF Queued
<1>10. OnePlace'
  BY <1>1, <1>8, <1>9 DEF OnePlace
<1>11. NewIsNowhere' /\ Persisted'
  BY <1>1, <1>8, <1>9 DEF NewIsNowhere, Echoed, Persisted
<1>12. \A e \in Events : TypeOf[e] \in Types
  BY BusAssumption
<1>13. NextSound'
  <2>1. \A e \in Events : mPub'[e].at = "local" => mPub'[e].next <= Len(mSubs'[TypeOf[e]]) + 1
    BY <1>1, <1>5, <1>12 DEF NextSound, BusTypes, PubType
  <2>2. ASSUME NEW i \in Listeners, mListen'[i].event # "none"
        PROVE  mListen'[i].next <= Len(mSubs'[TypeOf[mListen'[i].event]]) + 1
    <3>1. mListen'[i] = mListen[i] /\ mListen[i].event \in Events /\ mListen[i].next \in Nat
      BY <1>7, <2>2 DEF BusTypes, ListenerType
    <3>2. mListen[i].next <= Len(mSubs[TypeOf[mListen[i].event]]) + 1
      BY <2>2, <3>1 DEF NextSound
    <3> QED
      BY <1>5, <1>12, <3>1, <3>2
  <2> QED
    BY <2>1, <2>2 DEF NextSound
<1>14. ASSUME NEW e \in Events, NEW d \in Callbacks, NEW n \in Nat, Reached(e, d, n) PROVE Reached(e, d, n)'
  <2>1. PICK k \in 1 .. Len(mSubs[TypeOf[e]]) : k < n /\ mSubs[TypeOf[e]][k] = d
    BY <1>14 DEF Reached
  <2>2. k \in 1 .. Len(mSubs'[TypeOf[e]]) /\ mSubs'[TypeOf[e]][k] = d
    BY <1>5, <1>12, <2>1
  <2> QED
    BY <2>1, <2>2 DEF Reached
<1>15. DeliveriesSound'
  <2>1. \A e \in Events, d \in Callbacks : LocalComes(e, d)' => LocalComes(e, d)
    BY <1>1, <1>14 DEF LocalComes, BusTypes, PubType
  <2>2. \A e \in Events, d \in Callbacks : RemoteComes(e, d)' => RemoteComes(e, d)
    BY <1>8, <1>9, <1>14 DEF RemoteComes, BusTypes, ListenerType
  <2> QED
    BY <1>1, <2>1, <2>2, NoCall
<1> QED
  BY <1>6, <1>10, <1>11, <1>13, <1>15 DEF BusRest

\* What publish does, and what another process's publication does.
LEMMA PublishStep ==
    ASSUME BusIInv, NEW e \in Events, mPub[e].at = "new",
           mQueue' = mQueue \/ mQueue' = Forward(e),
           \/ mPub'[e].at = "done"
           \/ e \in Local /\ mPub'[e].at = "local" /\ mPub'[e].next = 1,
           \A f \in Events \ {e} : mPub'[f] = mPub[f],
           mKafka \subseteq mKafka', KafkaEnabled /\ e \in Local \cap High => e \in mKafka',
           UNCHANGED <<mListen, mSubs, mCalls>>
    PROVE  BusRest'
<1> USE DEF BusIInv
<1>1. ~Echoed(e) /\ \A c \in Callbacks : mCalls[e][c] = 0
  BY DEF NewIsNowhere
<1>2. OnePlace' /\ \A f \in Events : Queued(f)' => f = e \/ Queued(f)
  BY <1>1, PutOnce
<1>3. \A f \in Events, i \in Listeners : Delivers(i, f)' <=> Delivers(i, f)
  BY DEF Delivers
<1>4. SubscribedOnce'
  BY DEF SubscribedOnce
<1>5. NewIsNowhere'
  BY <1>2, <1>3 DEF NewIsNowhere, Echoed
<1>6. \A f \in Events : Len(mSubs[TypeOf[f]]) \in Nat
  BY BusAssumption DEF BusTypes
<1>7. NextSound'
  BY <1>6 DEF NextSound
<1>8. Persisted'
  BY DEF Persisted, Events
<1>9. DeliveriesSound'
  <2> SUFFICES ASSUME NEW f \in Events, NEW c \in Callbacks
               PROVE  Fits(mCalls[f][c], Room(f), LocalComes(f, c), RemoteComes(f, c))'
    BY DEF DeliveriesSound
  <2>1. Fits(mCalls[f][c], Room(f), LocalComes(f, c), RemoteComes(f, c)) /\ mCalls'[f][c] = mCalls[f][c]
    BY DEF DeliveriesSound
  <2>2. CASE f = e
    <3>1. mCalls'[f][c] = 0
      BY <1>1, <2>2
    <3>2. LocalComes(f, c)' => e \in Local
      BY <2>2 DEF LocalComes
    <3> QED
      BY <2>2, <3>1, <3>2 DEF Fits, Room
  <2>3. CASE f # e
    <3>1. LocalComes(f, c)' => LocalComes(f, c)
      BY <2>3 DEF LocalComes, Reached
    <3>2. RemoteComes(f, c)' => RemoteComes(f, c)
      BY <1>2, <1>3, <2>3 DEF RemoteComes, Reached
    <3>3. Room(f)' = Room(f)
      BY DEF Room
    <3> QED
      BY <2>1, <3>1, <3>2, <3>3 DEF Fits
  <2> QED
    BY <2>2, <2>3
<1> QED
  BY <1>2, <1>4, <1>5, <1>7, <1>8, <1>9 DEF BusRest

LEMMA NotifyLocalStep ==
    ASSUME BusIInv, NEW e \in Local, NotifyLocal(e)
    PROVE  BusRest'
<1> USE DEF BusIInv
<1> DEFINE n == mPub[e].next
           s == mSubs[TypeOf[e]]
<1>1. e \in Events /\ mPub[e].at = "local" /\ n \in Nat /\ n # 0
  BY DEF NotifyLocal, Events, BusTypes, PubType
<1>2. /\ UNCHANGED <<mQueue, mListen, mSubs, mKafka>>
      /\ \A f \in Events \ {e} : mPub'[f] = mPub[f]
      /\ mPub'[e].at \in {"local", "done"}
  BY <1>1 DEF NotifyLocal, BusTypes, PubType
<1>3. SubscribedOnce' /\ OnePlace'
  BY <1>2 DEF SubscribedOnce, OnePlace, Queued, Delivers
<1>4. Persisted'
  BY <1>1, <1>2 DEF Persisted, Events
<1>5. \A f \in Events, c \in Callbacks : RemoteComes(f, c)' => RemoteComes(f, c)
  BY <1>2 DEF RemoteComes, Queued, Delivers, Reached
<1>6. \A f \in Events : Echoed(f)' <=> Echoed(f)
  BY <1>2 DEF Echoed, Queued, Delivers
<1>7. CASE n <= Len(s)
  <2>1. /\ mCalls' = [mCalls EXCEPT ![e][s[n]] = @ + 1]
        /\ mPub'[e].at = "local" /\ mPub'[e].next = n + 1
    BY <1>1, <1>7 DEF NotifyLocal, CallOne, BusTypes, PubType
  <2>2. s \in Seq(Callbacks) /\ n \in 1 .. Len(s) /\ s[n] \in Callbacks
    BY <1>1, <1>7, BusAssumption DEF BusTypes
  <2>3. ~Reached(e, s[n], n)
    BY <1>1, <2>2, BusAssumption DEF Reached, SubscribedOnce
  <2>4. \A f \in Events, c \in Callbacks, k \in Nat : Reached(f, c, k)' <=> Reached(f, c, k)
    BY <1>2 DEF Reached
  <2>5. \A c \in Callbacks : Reached(e, c, n) => Reached(e, c, n + 1)
    BY <1>1 DEF Reached
  <2>6. Reached(e, s[n], n + 1)
    BY <1>1, <2>2 DEF Reached
  <2>7. \A f \in Events, c \in Callbacks : LocalComes(f, c)' => LocalComes(f, c)
    <3> SUFFICES ASSUME NEW f \in Events, NEW c \in Callbacks, LocalComes(f, c)' PROVE LocalComes(f, c)
      OBVIOUS
    <3>1. CASE f = e
      BY <1>1, <2>1, <2>4, <2>5, <3>1 DEF LocalComes
    <3>2. CASE f # e
      BY <1>2, <3>2 DEF LocalComes, Reached
    <3> QED
      BY <3>1, <3>2
  <2>8. PICK d \in Callbacks : d = s[n]
    BY <2>2
  <2>9. LocalComes(e, d) /\ ~LocalComes(e, d)'
    BY <1>1, <2>1, <2>3, <2>4, <2>6, <2>8 DEF LocalComes
  <2>10. mCalls' = [mCalls EXCEPT ![e][d] = @ + 1]
    BY <2>1, <2>8
  <2>11. DeliveriesSound'
    BY <1>1, <1>5, <2>7, <2>9, <2>10, OneCall
  <2>12. NewIsNowhere'
    BY <1>1, <1>2, <1>6, <2>1, <2>10 DEF NewIsNowhere, BusTypes
  <2>13. NextSound'
    BY <1>1, <1>2, <1>7, <2>1, <2>2 DEF NextSound
  <2> QED
    BY <1>3, <1>4, <2>11, <2>12, <2>13 DEF BusRest
<1>8. CASE ~(n <= Len(s))
  <2>1. mCalls' = mCalls /\ mPub'[e].at = "done"
    BY <1>1, <1>8 DEF NotifyLocal, BusTypes, PubType
  <2>2. \A f \in Events, c \in Callbacks : LocalComes(f, c)' => LocalComes(f, c)
    BY <1>2, <2>1 DEF LocalComes, Reached
  <2>3. DeliveriesSound'
    BY <1>5, <2>1, <2>2, NoCall
  <2>4. NewIsNowhere'
    BY <1>2, <1>6, <2>1 DEF NewIsNowhere
  <2>5. NextSound'
    BY <1>2, <2>1 DEF NextSound
  <2> QED
    BY <1>3, <1>4, <2>3, <2>4, <2>5 DEF BusRest
<1> QED
  BY <1>7, <1>8

LEMMA TakeStep ==
    ASSUME BusIInv, BusTypes', NEW i \in Listeners, Take(i)
    PROVE  BusRest'
<1> USE DEF BusIInv
<1>1. UNCHANGED <<mSubs, mPub, mKafka, mCalls>>
  BY DEF Take
<1>2. /\ OnePlace'
      /\ \A f \in Events : Queued(f)' => Queued(f)
      /\ \A j \in Listeners, f \in Events : Delivers(j, f)' =>
             \/ mListen'[j] = mListen[j]
             \/ j = i /\ Queued(f) /\ mListen'[j].next = 1
  BY TakeOnce
<1>3. SubscribedOnce' /\ Persisted'
  BY <1>1 DEF SubscribedOnce, Persisted
<1>4. \A f \in Events : Echoed(f)' => Echoed(f)
  BY <1>2 DEF Echoed, Delivers
<1>5. NewIsNowhere'
  BY <1>1, <1>4 DEF NewIsNowhere
<1>6. \A f \in Events : Len(mSubs[TypeOf[f]]) \in Nat
  BY BusAssumption DEF BusTypes
<1>7. NextSound'
  <2>1. ASSUME NEW j \in Listeners, mListen'[j].event # "none"
        PROVE  mListen'[j].next <= Len(mSubs'[TypeOf[mListen'[j].event]]) + 1
    <3>1. mListen'[j].event \in Events
      BY <2>1 DEF BusTypes, ListenerType
    <3>2. mListen'[j] = mListen[j] \/ mListen'[j].next = 1
      BY <1>2, <3>1 DEF Delivers
    <3>3. CASE mListen'[j] = mListen[j]
      BY <1>1, <2>1, <3>3 DEF NextSound
    <3>4. CASE mListen'[j].next = 1
      BY <1>1, <1>6, <3>1, <3>4
    <3> QED
      BY <3>2, <3>3, <3>4
  <2> QED
    BY <1>1, <2>1 DEF NextSound
<1>8. \A f \in Events, c \in Callbacks : LocalComes(f, c)' => LocalComes(f, c)
  BY <1>1 DEF LocalComes, Reached
<1>9. ASSUME NEW f \in Events, NEW c \in Callbacks, RemoteComes(f, c)' PROVE RemoteComes(f, c)
  <2>1. CASE Queued(f)'
    BY <1>2, <2>1 DEF RemoteComes
  <2>2. CASE ~Queued(f)'
    <3>1. PICK j \in Listeners : Delivers(j, f)' /\ ~Reached(f, c, mListen[j].next)'
      BY <1>9, <2>2 DEF RemoteComes
    <3>2. Queued(f) \/ mListen'[j] = mListen[j]
      BY <1>2, <3>1
    <3> QED
      BY <1>1, <3>1, <3>2 DEF RemoteComes, Delivers, Reached
  <2> QED
    BY <2>1, <2>2
<1>10. DeliveriesSound'
  BY <1>1, <1>8, <1>9, NoCall
<1> QED
  BY <1>2, <1>3, <1>5, <1>7, <1>10 DEF BusRest

LEMMA NotifyRemoteStep ==
    ASSUME BusIInv, NEW i \in Listeners, NotifyRemote(i)
    PROVE  BusRest'
<1> USE DEF BusIInv
<1>1. PICK e \in Events : e = mListen[i].event
  BY DEF NotifyRemote, BusTypes, ListenerType
<1>2. PICK n \in Nat : n = mListen[i].next /\ n # 0
  BY DEF NotifyRemote, BusTypes, ListenerType
<1> DEFINE s == mSubs[TypeOf[e]]
<1>3. /\ UNCHANGED <<mQueue, mSubs, mPub, mKafka>>
      /\ \A j \in Listeners \ {i} : mListen'[j] = mListen[j]
  BY DEF NotifyRemote, BusTypes
<1>4. mListen'[i].event \in {e, "none"}
  BY <1>1 DEF NotifyRemote, BusTypes, ListenerType
<1>5. \A f \in Events : Queued(f)' <=> Queued(f)
  BY <1>3 DEF Queued
<1>6. \A j \in Listeners, f \in Events : Delivers(j, f)' => Delivers(j, f)
  BY <1>1, <1>3, <1>4, BusAssumption DEF Delivers
<1>7. SubscribedOnce' /\ OnePlace' /\ Persisted'
  BY <1>3, <1>5, <1>6 DEF SubscribedOnce, OnePlace, Persisted
<1>8. \A f \in Events : Echoed(f)' => Echoed(f)
  BY <1>5, <1>6 DEF Echoed
<1>9. \A f \in Events, c \in Callbacks : LocalComes(f, c)' => LocalComes(f, c)
  BY <1>3 DEF LocalComes, Reached
<1>10. Echoed(e) /\ Delivers(i, e) /\ ~Queued(e) /\ \A j \in Listeners : Delivers(j, e) => j = i
  BY <1>1 DEF OnePlace, Echoed, Delivers
<1>11. CASE n <= Len(s)
  <2>1. s \in Seq(Callbacks) /\ n \in 1 .. Len(s)
    BY <1>2, <1>11, BusAssumption DEF BusTypes
  <2>2. PICK d \in Callbacks : d = s[n]
    BY <2>1
  <2>3. /\ mCalls' = [mCalls EXCEPT ![e][d] = @ + 1]
        /\ mListen'[i].event = e /\ mListen'[i].next = n + 1
    BY <1>1, <1>2, <1>11, <2>2 DEF NotifyRemote, CallOne, BusTypes, ListenerType
  <2>4. ~Reached(e, d, n)
    BY <1>2, <2>1, <2>2, BusAssumption DEF Reached, SubscribedOnce
  <2>5. \A c \in Callbacks : Reached(e, c, n) => Reached(e, c, n + 1)
    BY <1>2 DEF Reached
  <2>6. Reached(e, d, n + 1)
    BY <1>2, <2>1, <2>2 DEF Reached
  <2>7. \A f \in Events, c \in Callbacks, k \in Nat : Reached(f, c, k)' <=> Reached(f, c, k)
    BY <1>3 DEF Reached
  <2>8. ASSUME NEW f \in Events, NEW c \in Callbacks, RemoteComes(f, c)' PROVE RemoteComes(f, c)
    <3>1. CASE Queued(f)'
      BY <1>5, <3>1 DEF RemoteComes
    <3>2. CASE ~Queued(f)'
      <4>1. PICK j \in Listeners : Delivers(j, f)' /\ ~Reached(f, c, mListen[j].next)'
        BY <2>8, <3>2 DEF RemoteComes
      <4>2. CASE j = i
        <5>1. f = e /\ ~Reached(e, c, n + 1)'
          BY <1>4, <2>3, <4>1, <4>2, BusAssumption DEF Delivers
        <5>2. ~Reached(e, c, n)
          BY <1>2, <2>5, <2>7, <5>1
        <5> QED
          BY <1>2, <1>10, <5>1, <5>2 DEF RemoteComes
      <4>3. CASE j # i
        BY <1>3, <1>6, <4>1, <4>3 DEF RemoteComes, Reached
      <4> QED
        BY <4>2, <4>3
    <3> QED
      BY <3>1, <3>2
  <2>9. RemoteComes(e, d)
    BY <1>2, <1>10, <2>4 DEF RemoteComes
  <2>10. ~RemoteComes(e, d)'
    <3>1. ASSUME NEW j \in Listeners, Delivers(j, e)' PROVE Reached(e, d, mListen[j].next)'
      <4>1. j = i
        BY <1>6, <1>10, <3>1
      <4>2. Reached(e, d, n + 1)'
        BY <1>2, <2>6, <2>7
      <4> QED
        BY <2>3, <4>1, <4>2
    <3> QED
      BY <1>5, <1>10, <3>1 DEF RemoteComes
  <2>11. DeliveriesSound'
    BY <1>9, <2>3, <2>8, <2>9, <2>10, OneCall
  <2>12. mPub[e].at # "new"
    BY <1>10 DEF NewIsNowhere
  <2>13. NewIsNowhere'
    BY <1>3, <1>8, <2>3, <2>12 DEF NewIsNowhere, BusTypes
  <2>14. NextSound'
    <3>1. n + 1 <= Len(s) + 1
      BY <1>2, <2>1
    <3>2. \A f \in Events : mPub'[f].at = "local" => mPub'[f].next <= Len(mSubs'[TypeOf[f]]) + 1
      BY <1>3 DEF NextSound
    <3>3. ASSUME NEW j \in Listeners, mListen'[j].event # "none"
          PROVE  mListen'[j].next <= Len(mSubs'[TypeOf[mListen'[j].event]]) + 1
      <4>1. CASE j = i
        BY <1>3, <2>3, <3>1, <4>1
      <4>2. CASE j # i
        BY <1>3, <3>3, <4>2 DEF NextSound
      <4> QED
        BY <4>1, <4>2
    <3> QED
      BY <3>2, <3>3 DEF NextSound
  <2> QED
    BY <1>7, <2>11, <2>13, <2>14 DEF BusRest
<1>12. CASE ~(n <= Len(s))
  <2>1. mCalls' = mCalls /\ mListen'[i].event = "none"
    BY <1>1, <1>2, <1>12 DEF NotifyRemote, BusTypes, ListenerType
  <2>2. \A j \in Listeners, f \in Events : Delivers(j, f)' => Delivers(j, f) /\ mListen'[j] = mListen[j]
    BY <1>3, <2>1, BusAssumption DEF Delivers
  <2>3. \A f \in Events, c \in Callbacks : RemoteComes(f, c)' => RemoteComes(f, c)
    BY <1>3, <1>5, <2>2 DEF RemoteComes, Reached
  <2>4. DeliveriesSound'
    BY <1>9, <2>1, <2>3, NoCall
  <2>5. NewIsNowhere'
    BY <1>3, <1>8, <2>1 DEF NewIsNowhere
  <2>6. NextSound'
    BY <1>3, <2>1 DEF NextSound
  <2> QED
    BY <1>7, <2>4, <2>5, <2>6 DEF BusRest
<1> QED
  BY <1>11, <1>12

LEMMA BusStep == BusIInv /\ [BusNext]_mvars => BusIInv'
<1> SUFFICES ASSUME BusIInv, [BusNext]_mvars PROVE BusIInv'
  OBVIOUS
<1>1. BusTypes'
  BY BusTypesStep DEF BusIInv
<1> SUFFICES BusRest'
  BY <1>1 DEF BusIInv, BusRest
<1>2. CASE BusConnect \/ BusDisconnect \/ UNCHANGED mvars
  BY <1>2, ConnectionStep DEF BusConnect, BusDisconnect, mvars
<1>3. ASSUME NEW y \in Types, NEW c \in Callbacks, NEW granted \in BOOLEAN, Subscribe(y, c, granted)
      PROVE  BusRest'
  BY <1>3, SubscribeStep
<1>4. ASSUME NEW e \in Local, NEW sent \in BOOLEAN, Publish(e, sent) PROVE BusRest'
  <2>1. e \in Events
    BY DEF Events
  <2>2. /\ mPub'[e].at = "local" /\ mPub'[e].next = 1
        /\ \A f \in Events \ {e} : mPub'[f] = mPub[f]
    BY <1>4, <2>1 DEF Publish, BusIInv, BusTypes
  <2> QED
    BY <1>4, <2>1, <2>2, PublishStep DEF Publish
<1>5. ASSUME NEW e \in Foreign, ForeignPublish(e) PROVE BusRest'
  <2>1. e \in Events /\ e \notin Local
    BY BusAssumption DEF Events
  <2>2. /\ mPub'[e].at = "done" /\ \A f \in Events \ {e} : mPub'[f] = mPub[f]
    BY <1>5, <2>1 DEF ForeignPublish, BusIInv, BusTypes, PubType
  <2> QED
    BY <1>5, <2>1, <2>2, PublishStep DEF ForeignPublish
<1>6. ASSUME NEW e \in Local, NotifyLocal(e) PROVE BusRest'
  BY <1>6, NotifyLocalStep
<1>7. ASSUME NEW i \in Listeners, Take(i) \/ NotifyRemote(i) \/ ListenerEnds(i) PROVE BusRest'
  BY <1>1, <1>7, TakeStep, NotifyRemoteStep, ListenerEndsStep
<1> QED
  BY <1>2, <1>3, <1>4, <1>5, <1>6, <1>7 DEF BusNext

-----------------------------------------------------------------------------
\* However many subscriptions, reconnections and listeners there are, publish
\* calls a subscriber with an event once, and the broker's copy of the event once
\* more at most; and an event of high priority is with Kafka before it is heard.
THEOREM BusKeepsEvents == BusSpec => []EventsAreKept
<1>1. BusIInv => EventsAreKept
  <2> SUFFICES ASSUME BusIInv PROVE EventsAreKept
    OBVIOUS
  <2>1. AtMostTwice
    BY DEF AtMostTwice, BusIInv, DeliveriesSound, Fits, Room
  <2>2. PersistedFirst
    BY DEF PersistedFirst, BusIInv, NewIsNowhere, Persisted, Events
  <2> QED
    BY <2>1, <2>2 DEF EventsAreKept
<1> QED
  BY <1>1, BusInitSound, BusStep, PTL DEF BusSpec

-----------------------------------------------------------------------------
(* The types of the averaging bot *)

\* The amount a position shows is one unit for each purchase counted, or nothing
\* while it is the placeholder.
DcaBounds ==
    /\ DcaTypeOK
    /\ dPos # NoPosition => dPos.amount <= dPos.count

LEMMA DcaBoundsInit == DcaInit => DcaBounds
<1> SUFFICES ASSUME DcaInit PROVE DcaBounds
  OBVIOUS
<1>1. dHeld \in 0 .. MaxHeld
  BY DcaAssumption DEF DcaInit
<1>2. /\ dAt = "off" /\ dBy = "run" /\ dPos = NoPosition /\ dLast \in BOOLEAN /\ dLost \in BOOLEAN
  BY DEF DcaInit
<1> QED
  BY <1>1, <1>2 DEF DcaBounds, DcaTypeOK

LEMMA DcaBoundsStep == DcaBounds /\ [DcaNext]_dvars => DcaBounds'
<1> SUFFICES ASSUME DcaBounds, [DcaNext]_dvars PROVE DcaBounds'
  OBVIOUS
<1>1. PICK shown : shown = [amount : 0 .. MaxDcaCount, count : 0 .. MaxDcaCount]
  OBVIOUS
<1>2. /\ dAt \in {"off", "loop", "buy", "sell"} /\ dBy \in {"run", "profit", "stop"}
      /\ dPos \in shown \cup {NoPosition} /\ dLast \in BOOLEAN
      /\ dHeld \in 0 .. MaxHeld /\ dLost \in BOOLEAN
      /\ dPos # NoPosition => dPos.amount <= dPos.count
  BY <1>1 DEF DcaBounds, DcaTypeOK
<1>3. /\ Placeholder \in shown /\ Placeholder.amount <= Placeholder.count
      /\ [amount |-> 1, count |-> 1] \in shown
      /\ NoPosition \notin shown
      /\ \A q \in shown : q.amount \in Nat /\ q.count \in Nat
  BY <1>1, DcaAssumption DEF Placeholder, NoPosition
<1> SUFFICES /\ dAt' \in {"off", "loop", "buy", "sell"} /\ dBy' \in {"run", "profit", "stop"}
             /\ dPos' \in shown \cup {NoPosition} /\ dLast' \in BOOLEAN
             /\ dHeld' \in 0 .. MaxHeld /\ dLost' \in BOOLEAN
             /\ dPos' # NoPosition => dPos'.amount <= dPos'.count
  BY <1>1 DEF DcaBounds, DcaTypeOK
<1>4. CASE DcaRun \/ BuyTooLittle \/ TakeProfit \/ ManagerStop
  BY <1>2, <1>4 DEF DcaRun, BuyTooLittle, TakeProfit, ManagerStop, AfterBuy
<1>5. ASSUME NEW out \in Outcomes, NEW raised \in BOOLEAN, InitialBuy(out, raised)
      PROVE  /\ dAt' \in {"off", "loop", "buy", "sell"} /\ dBy' \in {"run", "profit", "stop"}
             /\ dPos' \in shown \cup {NoPosition} /\ dLast' \in BOOLEAN
             /\ dHeld' \in 0 .. MaxHeld /\ dLost' \in BOOLEAN
             /\ dPos' # NoPosition => dPos'.amount <= dPos'.count
  <2>1. /\ dAt' \in {"off", "loop", "buy", "sell"} /\ dBy' \in {"run", "profit", "stop"}
        /\ dLast' \in BOOLEAN /\ dLost' \in BOOLEAN
    BY <1>2, <1>5 DEF InitialBuy, AfterBuy, Caller, AnswerCame
  <2>2. dHeld' \in 0 .. MaxHeld
    BY <1>2, <1>5, DcaAssumption DEF InitialBuy
  <2>3. dPos' = [amount |-> 1, count |-> 1] \/ dPos' = Placeholder
    BY <1>5 DEF InitialBuy
  <2> QED
    BY <1>3, <2>1, <2>2, <2>3
<1>6. ASSUME NEW out \in Outcomes, ExecuteDca(out)
      PROVE  /\ dPos' \in shown \cup {NoPosition}
             /\ dPos' # NoPosition => dPos'.amount <= dPos'.count
             /\ dHeld' \in 0 .. MaxHeld /\ dLost' \in BOOLEAN
             /\ dAt' = dAt /\ dBy' = dBy /\ dLast' = dLast
  <2>1. /\ dHeld' \in 0 .. MaxHeld /\ dAt' = dAt /\ dBy' = dBy /\ dLast' = dLast
    BY <1>2, <1>6, DcaAssumption DEF ExecuteDca
  <2>2. dLost' \in BOOLEAN
    BY <1>2, <1>6 DEF ExecuteDca
  <2>3. dPos \in shown /\ dPos.count < MaxDcaCount /\ dPos.amount <= dPos.count
    BY <1>2, <1>6 DEF ExecuteDca
  <2>4. PICK next : next = [amount |-> dPos.amount + 1, count |-> dPos.count + 1]
    OBVIOUS
  <2>5. next \in shown /\ next.amount <= next.count
    BY <1>1, <1>3, <2>3, <2>4, DcaAssumption
  <2>6. dPos' = next \/ dPos' = dPos
    BY <1>6, <2>4 DEF ExecuteDca
  <2> QED
    BY <2>1, <2>2, <2>3, <2>5, <2>6
<1>7. ASSUME NEW out \in Outcomes, Sell(out)
      PROVE  /\ dAt' \in {"off", "loop", "buy", "sell"} /\ dBy' = dBy
             /\ dPos' = dPos \/ dPos' = NoPosition
             /\ dHeld' \in 0 .. MaxHeld /\ dLost' \in BOOLEAN /\ dLast' \in BOOLEAN
  <2>1. /\ dAt' \in {"off", "loop", "buy", "sell"} /\ dBy' = dBy
        /\ dPos' = dPos \/ dPos' = NoPosition
        /\ dLost' \in BOOLEAN /\ dLast' \in BOOLEAN
    BY <1>2, <1>7 DEF Sell
  <2>2. dHeld' \in 0 .. MaxHeld
    BY <1>2, <1>3, <1>7, DcaAssumption DEF Sell
  <2> QED
    BY <2>1, <2>2
<1>8. ASSUME NEW request \in {"none", "buy", "dca", "sell"}, NEW served \in BOOLEAN, CancelDca(request, served)
      PROVE  /\ dAt' \in {"off", "loop", "buy", "sell"} /\ dBy' = "stop"
             /\ dPos' = dPos \/ dPos' = Placeholder
             /\ dHeld' \in 0 .. MaxHeld /\ dLost' \in BOOLEAN /\ dLast' = dLast
  <2>1. /\ dAt' \in {"off", "loop", "buy", "sell"} /\ dBy' = "stop"
        /\ dPos' = dPos \/ dPos' = Placeholder
        /\ dLost' \in BOOLEAN /\ dLast' = dLast
    BY <1>2, <1>8 DEF CancelDca
  <2>2. dHeld' \in 0 .. MaxHeld
    BY <1>2, <1>3, <1>8, DcaAssumption DEF CancelDca, Cut
  <2> QED
    BY <2>1, <2>2
<1>9. CASE UNCHANGED dvars
  BY <1>2, <1>9 DEF dvars
<1>10. ASSUME NEW out \in Outcomes, ExecuteDca(out)
       PROVE  /\ dAt' \in {"off", "loop", "buy", "sell"} /\ dBy' \in {"run", "profit", "stop"}
              /\ dPos' \in shown \cup {NoPosition} /\ dLast' \in BOOLEAN
              /\ dHeld' \in 0 .. MaxHeld /\ dLost' \in BOOLEAN
              /\ dPos' # NoPosition => dPos'.amount <= dPos'.count
  BY <1>2, <1>6, <1>10
<1>11. ASSUME NEW out \in Outcomes, Sell(out)
       PROVE  /\ dAt' \in {"off", "loop", "buy", "sell"} /\ dBy' \in {"run", "profit", "stop"}
              /\ dPos' \in shown \cup {NoPosition} /\ dLast' \in BOOLEAN
              /\ dHeld' \in 0 .. MaxHeld /\ dLost' \in BOOLEAN
              /\ dPos' # NoPosition => dPos'.amount <= dPos'.count
  BY <1>2, <1>7, <1>11
<1>12. ASSUME NEW request \in {"none", "buy", "dca", "sell"}, NEW served \in BOOLEAN, CancelDca(request, served)
       PROVE  /\ dAt' \in {"off", "loop", "buy", "sell"} /\ dBy' \in {"run", "profit", "stop"}
              /\ dPos' \in shown \cup {NoPosition} /\ dLast' \in BOOLEAN
              /\ dHeld' \in 0 .. MaxHeld /\ dLost' \in BOOLEAN
              /\ dPos' # NoPosition => dPos'.amount <= dPos'.count
  BY <1>2, <1>3, <1>8, <1>12
<1> QED
  BY <1>4, <1>5, <1>9, <1>10, <1>11, <1>12 DEF DcaNext

-----------------------------------------------------------------------------
(* The types of the launcher *)

\* A purchase under way is one the bound still allows: no other is counted before
\* it is answered.
BuysAllowed == \A b \in LBots : "buy" \in lAsk[b] => lBuys[b] < MaxBuys

LIInv == LTypeOK /\ BuysAllowed

LEMMA LInitSound == LInit => LIInv
<1> SUFFICES ASSUME LInit PROVE LIInv
  OBVIOUS
<1>1. lBuys \in [LBots -> 0 .. MaxBuys] /\ lOwn \in [LBots -> Int] /\ lCoins \in Nat
  BY LauncherAssumption DEF LInit
<1>2. /\ lMain = "start" /\ lTodo = {} /\ lTask \in [LBots -> {"new", "loop", "cancelled", "stop", "done"}]
      /\ lQuit \in [LBots -> BOOLEAN] /\ lPos \in [LBots -> BOOLEAN]
      /\ lAsk \in [LBots -> SUBSET {"buy", "own", "main"}] /\ \A b \in LBots : lAsk[b] = {}
  BY DEF LInit
<1> QED
  BY <1>1, <1>2 DEF LIInv, LTypeOK, BuysAllowed

LTasks == {"new", "loop", "cancelled", "stop", "done"}
LRequests == {"buy", "own", "main"}

LEMMA LStep == LIInv /\ [LNext]_lvars => LIInv'
<1> SUFFICES ASSUME LIInv, [LNext]_lvars PROVE LIInv'
  OBVIOUS
<1>0. /\ lMain \in {"start", "watch", "retire", "stopall", "done"} /\ lTodo \subseteq LBots
      /\ lTask \in [LBots -> LTasks] /\ lQuit \in [LBots -> BOOLEAN] /\ lPos \in [LBots -> BOOLEAN]
      /\ lAsk \in [LBots -> SUBSET LRequests] /\ lBuys \in [LBots -> 0 .. MaxBuys]
      /\ lOwn \in [LBots -> Int] /\ lCoins \in Nat
      /\ \A b \in LBots : "buy" \in lAsk[b] => lBuys[b] < MaxBuys
  BY DEF LIInv, LTypeOK, BuysAllowed, LTasks, LRequests
<1> SUFFICES /\ lMain' \in {"start", "watch", "retire", "stopall", "done"} /\ lTodo' \subseteq LBots
             /\ lTask' \in [LBots -> LTasks] /\ lQuit' \in [LBots -> BOOLEAN] /\ lPos' \in [LBots -> BOOLEAN]
             /\ lAsk' \in [LBots -> SUBSET LRequests] /\ lBuys' \in [LBots -> 0 .. MaxBuys]
             /\ lOwn' \in [LBots -> Int] /\ lCoins' \in Nat
             /\ \A b \in LBots : "buy" \in lAsk'[b] => lBuys'[b] < MaxBuys
  BY DEF LIInv, LTypeOK, BuysAllowed, LTasks, LRequests
<1>a. /\ "loop" \in LTasks /\ "cancelled" \in LTasks /\ "stop" \in LTasks /\ "done" \in LTasks
      /\ "buy" \in LRequests /\ "own" \in LRequests /\ "main" \in LRequests
      /\ MaxBuys \in Nat
  BY LauncherAssumption DEF LTasks, LRequests
<1> HIDE DEF LTasks, LRequests
<1>1. CASE AllStarted \/ UNCHANGED lvars
  BY <1>0, <1>1 DEF AllStarted, lvars
<1>2. ASSUME NEW b \in LBots, StartTask(b) \/ QuitLoopEnds(b) PROVE LIInv'
  <2>1. lTask' \in [LBots -> LTasks]
    BY <1>0, <1>a, <1>2 DEF StartTask, QuitLoopEnds
  <2> QED
    BY <1>0, <1>2, <2>1 DEF StartTask, QuitLoopEnds, LIInv, LTypeOK, BuysAllowed, LTasks, LRequests
<1>3. ASSUME NEW b \in LBots, MainStops(b) PROVE LIInv'
  <2>1. lAsk' \in [LBots -> SUBSET LRequests] /\ \A x \in LBots : "buy" \in lAsk'[x] => "buy" \in lAsk[x]
    BY <1>0, <1>a, <1>3 DEF MainStops
  <2>2. lQuit' \in [LBots -> BOOLEAN] /\ lTodo' \subseteq LBots
    BY <1>0, <1>3 DEF MainStops
  <2>3. UNCHANGED <<lMain, lTask, lPos, lBuys, lOwn, lCoins>>
    BY <1>3 DEF MainStops
  <2> QED
    BY <1>0, <2>1, <2>2, <2>3 DEF LIInv, LTypeOK, BuysAllowed, LTasks, LRequests
<1>4. ASSUME NEW b \in LBots, OwnStop(b) PROVE LIInv'
  <2>1. lAsk' \in [LBots -> SUBSET LRequests] /\ \A x \in LBots : "buy" \in lAsk'[x] => "buy" \in lAsk[x]
    BY <1>0, <1>a, <1>4 DEF OwnStop
  <2>2. lQuit' \in [LBots -> BOOLEAN] /\ lTask' \in [LBots -> LTasks]
    BY <1>0, <1>a, <1>4 DEF OwnStop
  <2>3. UNCHANGED <<lMain, lTodo, lPos, lBuys, lOwn, lCoins>>
    BY <1>4 DEF OwnStop
  <2> QED
    BY <1>0, <2>1, <2>2, <2>3 DEF LIInv, LTypeOK, BuysAllowed, LTasks, LRequests
<1>5. ASSUME NEW b \in LBots, NEW served \in BOOLEAN, PurchaseAnswered(b, served) PROVE LIInv'
  <2>1. lBuys[b] \in 0 .. MaxBuys /\ lBuys[b] < MaxBuys
    BY <1>0, <1>5 DEF PurchaseAnswered
  <2>2. lBuys' \in [LBots -> 0 .. MaxBuys] /\ \A x \in LBots \ {b} : lBuys'[x] = lBuys[x]
    BY <1>0, <1>a, <1>5, <2>1 DEF PurchaseAnswered
  <2>3. /\ lAsk' \in [LBots -> SUBSET LRequests] /\ "buy" \notin lAsk'[b]
        /\ \A x \in LBots \ {b} : lAsk'[x] = lAsk[x]
    BY <1>0, <1>5 DEF PurchaseAnswered
  <2>4. lPos' \in [LBots -> BOOLEAN]
    BY <1>0, <1>5 DEF PurchaseAnswered
  <2>5. lOwn' \in [LBots -> Int] /\ lCoins' \in Nat
    BY <1>0, <1>5 DEF PurchaseAnswered
  <2>6. UNCHANGED <<lMain, lTodo, lTask, lQuit>>
    BY <1>5 DEF PurchaseAnswered
  <2>7. \A x \in LBots : "buy" \in lAsk'[x] => lBuys'[x] < MaxBuys
    BY <1>0, <2>2, <2>3
  <2> QED
    BY <1>0, <2>2, <2>3, <2>4, <2>5, <2>6, <2>7 DEF LIInv, LTypeOK, BuysAllowed, LTasks, LRequests
<1>6. ASSUME NEW b \in LBots, NEW who \in {"own", "main"}, NEW served \in BOOLEAN, SaleAnswered(b, who, served)
      PROVE  LIInv'
  <2>1. lAsk' \in [LBots -> SUBSET LRequests] /\ \A x \in LBots : lAsk'[x] \subseteq lAsk[x]
    BY <1>0, <1>6 DEF SaleAnswered
  <2>2. lPos' \in [LBots -> BOOLEAN]
    BY <1>0, <1>6 DEF SaleAnswered
  <2>3. lTask' \in [LBots -> LTasks]
    BY <1>0, <1>a, <1>6 DEF SaleAnswered, AfterAnswer
  <2>4. lOwn' \in [LBots -> Int] /\ lCoins' \in Nat
    BY <1>0, <1>6 DEF SaleAnswered
  <2>5. UNCHANGED <<lMain, lTodo, lQuit, lBuys>>
    BY <1>6 DEF SaleAnswered
  <2>6. \A x \in LBots : "buy" \in lAsk'[x] => lBuys'[x] < MaxBuys
    BY <1>0, <2>1, <2>5
  <2> QED
    BY <1>0, <2>1, <2>2, <2>3, <2>4, <2>5, <2>6 DEF LIInv, LTypeOK, BuysAllowed, LTasks, LRequests
<1>7. ASSUME NEW b \in LBots, NEW what \in {"buy", "own"}, LoopAsks(b, what) PROVE LIInv'
  <2>1. lAsk' \in [LBots -> SUBSET LRequests]
    BY <1>0, <1>a, <1>7 DEF LoopAsks
  <2>2. UNCHANGED <<lMain, lTodo, lTask, lQuit, lPos, lBuys, lOwn, lCoins>>
    BY <1>7 DEF LoopAsks
  <2>3. \A x \in LBots : "buy" \in lAsk'[x] => lBuys[x] < MaxBuys
    BY <1>0, <1>7 DEF LoopAsks
  <2> QED
    BY <1>0, <2>1, <2>2, <2>3 DEF LIInv, LTypeOK, BuysAllowed, LTasks, LRequests
<1>8. ASSUME NEW dead \in SUBSET LBots, CheckAndRetire(dead) PROVE LIInv'
  BY <1>0, <1>8 DEF CheckAndRetire, LIInv, LTypeOK, BuysAllowed, LTasks, LRequests
<1>9. ASSUME NEW served \in SUBSET LBots, MainDone(served) PROVE LIInv'
  <2>1. lAsk' \in [LBots -> SUBSET LRequests] /\ \A x \in LBots : lAsk'[x] \subseteq lAsk[x]
    BY <1>0, <1>9 DEF MainDone
  <2>2. lTask' \in [LBots -> LTasks] /\ lMain' \in {"start", "watch", "retire", "stopall", "done"}
    BY <1>0, <1>a, <1>9 DEF MainDone
  <2>3. lOwn' \in [LBots -> Int]
    BY <1>0, <1>9 DEF MainDone
  <2>4. PICK n \in Nat : n = Cardinality(served)
    BY LauncherAssumption, FS_Subset, FS_CardinalityType
  <2>5. lCoins' \in Nat
    BY <1>0, <1>9, <2>4 DEF MainDone
  <2>6. UNCHANGED <<lTodo, lQuit, lPos, lBuys>>
    BY <1>9 DEF MainDone
  <2>7. \A x \in LBots : "buy" \in lAsk'[x] => lBuys'[x] < MaxBuys
    BY <1>0, <2>1, <2>6
  <2> QED
    BY <1>0, <2>1, <2>2, <2>3, <2>5, <2>6, <2>7 DEF LIInv, LTypeOK, BuysAllowed, LTasks, LRequests
<1>10. ASSUME NEW bought \in SUBSET LBots, NEW sold \in SUBSET LBots, Signal(bought, sold) PROVE LIInv'
  <2>1. lAsk' \in [LBots -> SUBSET LRequests] /\ \A x \in LBots : lAsk'[x] = {}
    BY <1>10 DEF Signal
  <2>2. /\ lTask' \in [LBots -> LTasks] /\ lMain' \in {"start", "watch", "retire", "stopall", "done"}
        /\ lTodo' \subseteq LBots
    BY <1>a, <1>10 DEF Signal
  <2>3. lOwn' \in [LBots -> Int]
    BY <1>0, <1>10 DEF Signal
  <2>4. \A b \in bought : lBuys[b] \in 0 .. MaxBuys /\ lBuys[b] < MaxBuys
    BY <1>0, <1>10 DEF Signal
  <2>5. lBuys' \in [LBots -> 0 .. MaxBuys]
    BY <1>0, <1>a, <1>10, <2>4 DEF Signal
  <2>6. PICK n \in Nat, m \in Nat : n = Cardinality(sold) /\ m = Cardinality(bought)
    BY LauncherAssumption, FS_Subset, FS_CardinalityType
  <2>7. lCoins' \in Nat
    BY <1>0, <1>10, <2>6 DEF Signal
  <2>8. UNCHANGED <<lQuit, lPos>>
    BY <1>10 DEF Signal
  <2> QED
    BY <1>0, <2>1, <2>2, <2>3, <2>5, <2>7, <2>8 DEF LIInv, LTypeOK, BuysAllowed, LTasks, LRequests
<1>11. LIInv'
  BY <1>1, <1>2, <1>3, <1>4, <1>5, <1>6, <1>7, <1>8, <1>9, <1>10 DEF LNext, Answer, LIInv, LTypeOK, BuysAllowed, LTasks, LRequests
<1> QED
  BY <1>11 DEF LIInv, LTypeOK, BuysAllowed, LTasks, LRequests

-----------------------------------------------------------------------------
(* The endpoints and their order *)

LEMMA PriorityIsPlace ==
    ASSUME NEW e \in Names
    PROVE  Priority(e) \in DOMAIN Endpoints /\ Priority(e) \in Nat /\ Endpoints[Priority(e)] = e
<1>1. \E i \in DOMAIN Endpoints : Endpoints[i] = e
  BY DEF Names, Range
<1>2. Priority(e) \in DOMAIN Endpoints /\ Endpoints[Priority(e)] = e
  BY <1>1 DEF Priority
<1>3. \A i \in DOMAIN Endpoints : i \in Nat
  BY RpcAssumption
<1> QED
  BY <1>2, <1>3

LEMMA LeastOf ==
    ASSUME NEW T, T \subseteq Nat, T # {}
    PROVE  \E x \in T : \A y \in T : x <= y
<1>1. PICK R : R = {ss \in Nat \X Nat : ss[1] < ss[2]}
  OBVIOUS
<1>2. IsWellFoundedOn(R, Nat)
  BY <1>1, NatLessThanWellFounded DEF OpToRel
<1>3. PICK x \in T : \A y \in T : ~(<<y, x>> \in R)
  BY <1>2, WFMin
<1>4. ASSUME NEW y \in T PROVE x <= y
  <2>1. x \in Nat /\ y \in Nat
    OBVIOUS
  <2>2. y < x => <<y, x>> \in R
    BY <1>1, <2>1
  <2> QED
    BY <1>3, <2>1, <2>2
<1> QED
  BY <1>4

\* A list that is not empty has a head, before which no endpoint of it comes.
LEMMA HeadOfList ==
    ASSUME NEW list, list \subseteq Names, list # {}
    PROVE  First(list) \in list /\ \A d \in list : Priority(First(list)) <= Priority(d)
<1>1. PICK T : T = {Priority(e) : e \in list}
  OBVIOUS
<1>2. T \subseteq Nat /\ T # {}
  BY <1>1, PriorityIsPlace
<1>3. PICK x \in T : \A y \in T : x <= y
  BY <1>2, LeastOf
<1>4. PICK e \in list : Priority(e) = x
  BY <1>1, <1>3
<1>5. \A d \in list : Priority(e) <= Priority(d)
  BY <1>1, <1>3, <1>4
<1> QED
  BY <1>5 DEF First

\* Only one endpoint of a list comes before all others.
LEMMA OnlyHead ==
    ASSUME NEW list, list \subseteq Names, NEW e \in list, \A d \in list : Priority(e) <= Priority(d)
    PROVE  e = First(list)
<1>1. First(list) \in list /\ Priority(First(list)) <= Priority(e) /\ Priority(e) <= Priority(First(list))
  BY HeadOfList
<1>2. PICK f : f = First(list)
  OBVIOUS
<1>3. Priority(f) = Priority(e)
  BY <1>1, <1>2, PriorityIsPlace
<1>4. Endpoints[Priority(f)] = f /\ Endpoints[Priority(e)] = e
  BY <1>1, <1>2, PriorityIsPlace
<1> QED
  BY <1>2, <1>3, <1>4

\* A list cut after retry_count endpoints keeps its head.
LEMMA SomeToTry ==
    ASSUME NEW list, list \subseteq Names, list # {}
    PROVE  ToTry(list) \subseteq Names /\ ToTry(list) # {}
<1>1. PICK f : f = First(list)
  OBVIOUS
<1>2. f \in list /\ \A d \in list : Priority(f) <= Priority(d)
  BY <1>1, HeadOfList
<1>3. \A d \in list : ~(Priority(d) < Priority(f))
  BY <1>2, PriorityIsPlace
<1>4. PICK before : before = {d \in list : Priority(d) < Priority(f)}
  OBVIOUS
<1>5. Cardinality(before) = 0
  BY <1>3, <1>4, FS_EmptySet
<1>6. Cardinality(before) < RetryCount
  BY <1>5, RpcAssumption
<1>7. f \in ToTry(list)
  BY <1>2, <1>4, <1>6 DEF ToTry
<1> QED
  BY <1>7 DEF ToTry

LEMMA ToTrySound ==
    ASSUME RpcTypeOK, NEW fallback \in BOOLEAN
    PROVE  EndpointsToTry(fallback) \subseteq Names /\ EndpointsToTry(fallback) # {}
<1>1. PICK healthy : healthy = GetHealthy(rStatus)
  OBVIOUS
<1>2. healthy \subseteq Names
  BY <1>1 DEF GetHealthy
<1>3. healthy # {} => First(healthy) \in Names
  BY <1>2, HeadOfList
<1>4. Names # {}
  BY RpcAssumption DEF Names, Range
<1>5. rPrimary # NoPrimary => rPrimary \in Names
  BY DEF RpcTypeOK
<1>6. EndpointsToTry(fallback) =
        CASE healthy = {} -> Names
          [] healthy # {} /\ fallback -> healthy
          [] healthy # {} /\ ~fallback /\ rPrimary # NoPrimary -> {rPrimary}
          [] healthy # {} /\ ~fallback /\ rPrimary = NoPrimary -> {First(healthy)}
  BY <1>1 DEF EndpointsToTry
<1> QED
  BY <1>2, <1>3, <1>4, <1>5, <1>6

\* What _evaluate_primary_switch answers: the primary that is, or the best usable
\* endpoint there is.
LEMMA EvaluatesToTheBest ==
    ASSUME RpcTypeOK
    PROVE  LET healthy == GetHealthy(rStatus)
           IN  /\ EvaluatePrimary(rStatus) \in Names \cup {NoPrimary}
               /\ EvaluatePrimary(rStatus) # rPrimary =>
                    EvaluatePrimary(rStatus) = IF healthy = {} THEN NoPrimary ELSE First(healthy)
<1>1. PICK healthy : healthy = GetHealthy(rStatus)
  OBVIOUS
<1>2. healthy \subseteq Names
  BY <1>1 DEF GetHealthy
<1>3. PICK better : better = {e \in healthy : Priority(e) < Priority(rPrimary)}
  OBVIOUS
<1>4. EvaluatePrimary(rStatus) =
        CASE healthy = {} -> NoPrimary
          [] rPrimary \in healthy /\ better # {} -> First(better)
          [] rPrimary \in healthy /\ better = {} -> rPrimary
          [] healthy # {} /\ rPrimary \notin healthy -> First(healthy)
  BY <1>1, <1>3 DEF EvaluatePrimary
<1>5. ASSUME rPrimary \in healthy, better # {} PROVE First(better) = First(healthy)
  <2>1. PICK f : f = First(better)
    OBVIOUS
  <2>2. f \in better /\ \A d \in better : Priority(f) <= Priority(d)
    BY <1>2, <1>3, <1>5, <2>1, HeadOfList
  <2>3. f \in healthy /\ Priority(f) < Priority(rPrimary)
    BY <1>3, <2>2
  <2>4. \A d \in healthy : Priority(d) \in Nat
    BY <1>2, PriorityIsPlace
  <2>5. \A d \in healthy : Priority(f) <= Priority(d)
    BY <1>3, <1>5, <2>2, <2>3, <2>4
  <2> QED
    BY <1>2, <2>1, <2>3, <2>5, OnlyHead
<1>6. healthy # {} => First(healthy) \in healthy
  BY <1>2, HeadOfList
<1>7. CASE healthy = {}
  BY <1>1, <1>4, <1>7
<1>8. CASE healthy # {} /\ rPrimary \in healthy /\ better # {}
  BY <1>1, <1>2, <1>4, <1>5, <1>6, <1>8
<1>9. CASE healthy # {} /\ rPrimary \in healthy /\ better = {}
  BY <1>2, <1>4, <1>9
<1>10. CASE healthy # {} /\ rPrimary \notin healthy
  BY <1>1, <1>2, <1>4, <1>6, <1>10
<1> QED
  BY <1>7, <1>8, <1>9, <1>10

-----------------------------------------------------------------------------
(* The RPC manager *)

LEMMA RpcInitSound == RpcInit => RpcTypeOK
<1> SUFFICES ASSUME RpcInit PROVE RpcTypeOK
  OBVIOUS
<1>1. rFailures \in [Names -> 0 .. MaxCount]
  BY RpcAssumption DEF RpcInit
<1>2. rStatus \in [Names -> {"unknown", "down"} \cup Usable] /\ rPrimary \in Names \cup {NoPrimary}
  BY DEF RpcInit
<1>3. CallIdle \in [on : BOOLEAN, left : SUBSET Names] /\ ~CallIdle.on /\ CallIdle.left = {}
  BY DEF CallIdle
<1>4. /\ rCall \in [RpcCallers -> [on : BOOLEAN, left : SUBSET Names]]
      /\ \A c \in RpcCallers : rCall[c].on <=> rCall[c].left # {}
  BY <1>3 DEF RpcInit
<1>5. rHealth = "off" /\ rAsked = {}
  BY DEF RpcInit
<1> QED
  BY <1>1, <1>2, <1>4, <1>5 DEF RpcTypeOK

\* What a call does to the table of the calls.
LEMMA CallChanges ==
    ASSUME RpcTypeOK, NEW c \in RpcCallers, NEW call, rCall' = [rCall EXCEPT ![c] = call],
           call \in [on : BOOLEAN, left : SUBSET Names], call.on <=> call.left # {}
    PROVE  /\ rCall' \in [RpcCallers -> [on : BOOLEAN, left : SUBSET Names]]
           /\ \A d \in RpcCallers : rCall'[d].on <=> rCall'[d].left # {}
<1>1. rCall' \in [RpcCallers -> [on : BOOLEAN, left : SUBSET Names]]
  BY DEF RpcTypeOK
<1>2. \A d \in RpcCallers : rCall'[d] = IF d = c THEN call ELSE rCall[d]
  BY DEF RpcTypeOK
<1>3. \A d \in RpcCallers : rCall'[d].on <=> rCall'[d].left # {}
  BY <1>2 DEF RpcTypeOK
<1> QED
  BY <1>1, <1>3

\* A count that rises, falls or stays is a count.
LEMMA CountsStay ==
    ASSUME NEW n \in 0 .. MaxCount
    PROVE  /\ More(n) \in 0 .. MaxCount /\ Less(n, 1) \in 0 .. MaxCount
           /\ Less(n, RecoveryThreshold) \in 0 .. MaxCount
  BY RpcAssumption DEF More, Less

\* A step keeps the types, and chooses no primary but the best.
Chosen ==
    rPrimary' # rPrimary =>
        LET healthy == GetHealthy(rStatus)
        IN  rPrimary' = IF healthy = {} THEN NoPrimary ELSE First(healthy)

LEMMA RpcStep == RpcTypeOK /\ [RpcNext]_rvars => RpcTypeOK' /\ Chosen
<1> SUFFICES ASSUME RpcTypeOK, [RpcNext]_rvars PROVE RpcTypeOK' /\ Chosen
  OBVIOUS
<1>0. /\ rStatus \in [Names -> {"unknown", "down"} \cup Usable]
      /\ rFailures \in [Names -> 0 .. MaxCount]
      /\ rPrimary \in Names \cup {NoPrimary}
      /\ rHealth \in {"off", "first", "sleep", "check", "stopped"} /\ rAsked \subseteq Names
      /\ rCall \in [RpcCallers -> [on : BOOLEAN, left : SUBSET Names]]
      /\ \A c \in RpcCallers : rCall[c].on <=> rCall[c].left # {}
  BY DEF RpcTypeOK
<1>1. CASE RpcStart \/ RpcStop \/ LoopWakes \/ UNCHANGED rvars
  BY <1>0, <1>1 DEF RpcStart, RpcStop, LoopWakes, rvars, RpcTypeOK, Chosen
<1>2. CASE CheckedAll
  <2>1. rPrimary' = EvaluatePrimary(rStatus) \/ rPrimary' = rPrimary
    BY <1>2 DEF CheckedAll
  <2>2. rPrimary' \in Names \cup {NoPrimary} /\ Chosen
    BY <1>0, <2>1, EvaluatesToTheBest DEF Chosen
  <2>3. rHealth' = "sleep" /\ UNCHANGED <<rStatus, rFailures, rAsked, rCall>>
    BY <1>2 DEF CheckedAll
  <2> QED
    BY <1>0, <2>2, <2>3 DEF RpcTypeOK
<1>3. ASSUME NEW e \in Names, NEW v \in Verdicts, CheckEndpoint(e, v) PROVE RpcTypeOK' /\ Chosen
  <2>1. rStatus' \in [Names -> {"unknown", "down"} \cup Usable]
    BY <1>0, <1>3 DEF CheckEndpoint
  <2>2. rFailures[e] \in 0 .. MaxCount
    BY <1>0
  <2>3. rFailures' \in [Names -> 0 .. MaxCount]
    BY <1>0, <1>3, <2>2, CountsStay DEF CheckEndpoint
  <2>4. rAsked' \subseteq Names /\ UNCHANGED <<rPrimary, rHealth, rCall>>
    BY <1>0, <1>3 DEF CheckEndpoint
  <2> QED
    BY <1>0, <2>1, <2>3, <2>4 DEF RpcTypeOK, Chosen
<1>4. ASSUME NEW c \in RpcCallers, NEW fallback \in BOOLEAN, RpcCall(c, fallback) PROVE RpcTypeOK' /\ Chosen
  <2>1. PICK list : list = ToTry(EndpointsToTry(fallback))
    OBVIOUS
  <2>2. list \subseteq Names /\ list # {}
    BY <2>1, SomeToTry, ToTrySound
  <2>3. PICK call : call = [on |-> TRUE, left |-> list]
    OBVIOUS
  <2>4. call \in [on : BOOLEAN, left : SUBSET Names] /\ (call.on <=> call.left # {})
    BY <2>2, <2>3
  <2>5. rCall' = [rCall EXCEPT ![c] = call] /\ UNCHANGED <<rStatus, rFailures, rPrimary, rHealth, rAsked>>
    BY <1>4, <2>1, <2>3 DEF RpcCall
  <2>6. /\ rCall' \in [RpcCallers -> [on : BOOLEAN, left : SUBSET Names]]
        /\ \A d \in RpcCallers : rCall'[d].on <=> rCall'[d].left # {}
    BY <2>4, <2>5, CallChanges
  <2> QED
    BY <1>0, <2>5, <2>6 DEF RpcTypeOK, Chosen
<1>5. ASSUME NEW c \in RpcCallers, CallServed(c) PROVE RpcTypeOK' /\ Chosen
  <2>1. rCall[c].left \subseteq Names /\ rCall[c].left # {}
    BY <1>0, <1>5 DEF CallServed
  <2>2. PICK e : e = First(rCall[c].left)
    OBVIOUS
  <2>3. e \in Names
    BY <2>1, <2>2, HeadOfList
  <2>4. /\ rFailures' = [rFailures EXCEPT ![e] = Less(@, 1)]
        /\ rPrimary' = EvaluatePrimary(rStatus) \/ rPrimary' = rPrimary
    BY <1>5, <2>2 DEF CallServed
  <2>5. rFailures[e] \in 0 .. MaxCount
    BY <1>0, <2>3
  <2>6. rFailures' \in [Names -> 0 .. MaxCount]
    BY <1>0, <2>4, <2>5, CountsStay
  <2>7. rPrimary' \in Names \cup {NoPrimary} /\ Chosen
    BY <1>0, <2>4, EvaluatesToTheBest DEF Chosen
  <2>8. rCall' = [rCall EXCEPT ![c] = CallIdle] /\ UNCHANGED <<rStatus, rHealth, rAsked>>
    BY <1>5 DEF CallServed
  <2>9. /\ rCall' \in [RpcCallers -> [on : BOOLEAN, left : SUBSET Names]]
        /\ \A d \in RpcCallers : rCall'[d].on <=> rCall'[d].left # {}
    BY <2>8, CallChanges DEF CallIdle
  <2> QED
    BY <1>0, <2>6, <2>7, <2>8, <2>9 DEF RpcTypeOK
<1>6. ASSUME NEW c \in RpcCallers, CallFailed(c) PROVE RpcTypeOK' /\ Chosen
  <2>1. rCall[c].left \subseteq Names /\ rCall[c].left # {}
    BY <1>0, <1>6 DEF CallFailed
  <2>2. PICK e : e = First(rCall[c].left)
    OBVIOUS
  <2>3. e \in Names
    BY <2>1, <2>2, HeadOfList
  <2>4. PICK rest : rest = rCall[c].left \ {e}
    OBVIOUS
  <2>5. PICK call : call = IF rest = {} THEN CallIdle ELSE [on |-> TRUE, left |-> rest]
    OBVIOUS
  <2>6. /\ rFailures' = [rFailures EXCEPT ![e] = More(@)]
        /\ rStatus' = [rStatus EXCEPT ![e] = "down"] \/ rStatus' = rStatus
        /\ rCall' = [rCall EXCEPT ![c] = call]
    BY <1>6, <2>2, <2>4, <2>5 DEF CallFailed
  <2>7. rFailures[e] \in 0 .. MaxCount
    BY <1>0, <2>3
  <2>8. rFailures' \in [Names -> 0 .. MaxCount]
    BY <1>0, <2>6, <2>7, CountsStay
  <2>9. rStatus' \in [Names -> {"unknown", "down"} \cup Usable]
    BY <1>0, <2>6
  <2>10. call \in [on : BOOLEAN, left : SUBSET Names] /\ (call.on <=> call.left # {})
    BY <2>1, <2>4, <2>5 DEF CallIdle
  <2>11. /\ rCall' \in [RpcCallers -> [on : BOOLEAN, left : SUBSET Names]]
         /\ \A d \in RpcCallers : rCall'[d].on <=> rCall'[d].left # {}
    BY <2>6, <2>10, CallChanges
  <2>12. UNCHANGED <<rPrimary, rHealth, rAsked>>
    BY <1>6 DEF CallFailed
  <2> QED
    BY <1>0, <2>8, <2>9, <2>11, <2>12 DEF RpcTypeOK, Chosen
<1> QED
  BY <1>1, <1>2, <1>3, <1>4, <1>5, <1>6 DEF RpcNext, HealthStep

\* A new primary is the best usable endpoint of that moment, whether the health
\* loop or a call chooses it, and whatever the other has done since the call began:
\* the choice is made without an await in between.
THEOREM PrimaryIsBest == RpcSpec => SwitchesToTheBest
<1>1. RpcTypeOK /\ [RpcNext]_rvars => [Chosen]_rvars
  BY RpcStep
<1>2. RpcSpec => []RpcTypeOK
  BY RpcInitSound, RpcStep, PTL DEF RpcSpec
<1>3. RpcSpec => [][Chosen]_rvars
  BY <1>1, <1>2, PTL DEF RpcSpec
<1> QED
  BY <1>3 DEF Chosen, SwitchesToTheBest

-----------------------------------------------------------------------------
(* The types of the bus *)

\* What BusIInv leaves open: topics are types, Kafka has events, and a listener's
\* connection is one there was.
BusKept ==
    /\ mTopics \subseteq Types /\ mKafka \subseteq Events
    /\ \A i \in Listeners : mListen[i] # NoListener =>
           mListen[i].conn \in 1 .. mConnects /\ mListen[i].topic \in Types

LEMMA BusTyped == BusTypes /\ BusKept => BusTypeOK
<1> SUFFICES ASSUME BusTypes, BusKept PROVE BusTypeOK
  OBVIOUS
<1>1. \A n \in Connections : Range(mQueue[n]) \subseteq Events
  <2> SUFFICES ASSUME NEW n \in Connections PROVE Range(mQueue[n]) \subseteq Events
    OBVIOUS
  <2>1. mQueue[n] \in Seq(Events)
    BY DEF BusTypes
  <2> QED
    BY <2>1 DEF Range
<1>2. \A y \in Types : Range(mSubs[y]) \subseteq Callbacks
  <2> SUFFICES ASSUME NEW y \in Types PROVE Range(mSubs[y]) \subseteq Callbacks
    OBVIOUS
  <2>1. mSubs[y] \in Seq(Callbacks)
    BY DEF BusTypes
  <2> QED
    BY <2>1 DEF Range
<1>3. mUp \in BOOLEAN /\ \A e \in Events : mPub[e].at \in {"new", "local", "done"}
  BY DEF BusTypes, PubType
<1> QED
  BY <1>1, <1>2, <1>3 DEF BusKept, BusTypeOK

LEMMA BusKeptInit == BusInit => BusKept
  BY DEF BusInit, BusKept

LEMMA BusKeptStep == BusTypes /\ BusKept /\ [BusNext]_mvars => BusKept'
<1> SUFFICES ASSUME BusTypes, BusKept, [BusNext]_mvars PROVE BusKept'
  OBVIOUS
<1>0. mConnects \in 0 .. MaxConnects /\ (mUp => mConnects # 0) /\ mListen \in [Listeners -> ListenerType]
  BY DEF BusTypes
<1>a. NoListener.conn = 0 /\ NoListener.event = "none"
  BY DEF NoListener
<1>1. CASE BusConnect
  <2>1. mConnects' = mConnects + 1 /\ mTopics' = {} /\ UNCHANGED <<mListen, mKafka>>
    BY <1>1 DEF BusConnect
  <2>2. 1 .. mConnects \subseteq 1 .. mConnects'
    BY <1>0, <2>1
  <2> QED
    BY <2>1, <2>2 DEF BusKept
<1>2. CASE BusDisconnect \/ UNCHANGED mvars
  BY <1>2 DEF BusDisconnect, mvars, BusKept
<1>3. ASSUME NEW y \in Types, NEW c \in Callbacks, NEW granted \in BOOLEAN, Subscribe(y, c, granted)
      PROVE  BusKept'
  <2>1. CASE mUp /\ granted
    <3>1. mKafka' = mKafka /\ mConnects' = mConnects /\ mTopics' = mTopics \cup {y}
      BY <1>3, <2>1 DEF Subscribe
    <3>2. PICK i \in Listeners : mListen' = [mListen EXCEPT ![i] =
                       [conn |-> mConnects, topic |-> y, event |-> "none", next |-> 0]]
      BY <1>3, <2>1 DEF Subscribe
    <3>3. mConnects \in 1 .. mConnects'
      BY <1>0, <2>1, <3>1
    <3>4. \A j \in Listeners : mListen'[j] = mListen[j] \/ (mListen'[j].conn = mConnects /\ mListen'[j].topic = y)
      BY <1>0, <3>2
    <3> QED
      BY <3>1, <3>3, <3>4 DEF BusKept
  <2>2. CASE ~(mUp /\ granted)
    BY <1>3, <2>2 DEF Subscribe, BusKept
  <2> QED
    BY <2>1, <2>2
<1>4. ASSUME NEW e \in Local, NEW sent \in BOOLEAN, Publish(e, sent) PROVE BusKept'
  <2>1. mKafka' \subseteq mKafka \cup {e} /\ e \in Events /\ UNCHANGED <<mTopics, mListen, mConnects>>
    BY <1>4 DEF Publish, Events
  <2> QED
    BY <2>1 DEF BusKept
<1>5. ASSUME NEW e \in Foreign, ForeignPublish(e) PROVE BusKept'
  BY <1>5 DEF ForeignPublish, BusKept
<1>6. ASSUME NEW e \in Local, NotifyLocal(e) PROVE BusKept'
  BY <1>6 DEF NotifyLocal, BusKept
<1>7. ASSUME NEW i \in Listeners, Take(i) \/ NotifyRemote(i) \/ ListenerEnds(i) PROVE BusKept'
  <2>1. UNCHANGED <<mTopics, mKafka, mConnects>>
    BY <1>7 DEF Take, NotifyRemote, ListenerEnds
  <2>2. \A j \in Listeners \ {i} : mListen'[j] = mListen[j]
    BY <1>0, <1>7 DEF Take, NotifyRemote, ListenerEnds, CallOne
  <2>3. Take(i) \/ NotifyRemote(i) => mListen[i] # NoListener
    BY <1>a DEF Take, NotifyRemote, Listening
  <2>4. Take(i) \/ NotifyRemote(i) => mListen'[i].conn = mListen[i].conn /\ mListen'[i].topic = mListen[i].topic
    <3>1. mListen[i] \in ListenerType
      BY <1>0
    <3>2. ASSUME Take(i) PROVE mListen'[i].conn = mListen[i].conn /\ mListen'[i].topic = mListen[i].topic
      BY <1>0, <3>1, <3>2 DEF Take, ListenerType
    <3>3. ASSUME NotifyRemote(i) PROVE mListen'[i].conn = mListen[i].conn /\ mListen'[i].topic = mListen[i].topic
      BY <1>0, <3>1, <3>3 DEF NotifyRemote, ListenerType
    <3> QED
      BY <3>2, <3>3
  <2>5. ListenerEnds(i) => mListen'[i] = NoListener
    BY <1>0 DEF ListenerEnds
  <2>6. mListen'[i] # NoListener => mListen'[i].conn \in 1 .. mConnects' /\ mListen'[i].topic \in Types
    BY <1>7, <2>1, <2>3, <2>4, <2>5 DEF BusKept
  <2>7. \A j \in Listeners : mListen'[j] # NoListener => mListen'[j].conn \in 1 .. mConnects' /\ mListen'[j].topic \in Types
    BY <2>1, <2>2, <2>6 DEF BusKept
  <2> QED
    BY <2>1, <2>7 DEF BusKept
<1> QED
  BY <1>1, <1>2, <1>3, <1>4, <1>5, <1>6, <1>7 DEF BusNext

-----------------------------------------------------------------------------
(* The run of all parts *)

LEMMA FleetApart ==
    [FleetNext]_fleetVars => /\ [UNext]_uvars /\ [DcaNext]_dvars /\ [LNext]_lvars
                             /\ [BusNext]_mvars /\ [RpcNext]_rvars
<1> SUFFICES ASSUME [FleetNext]_fleetVars
             PROVE  /\ [UNext]_uvars /\ [DcaNext]_dvars /\ [LNext]_lvars
                    /\ [BusNext]_mvars /\ [RpcNext]_rvars
  OBVIOUS
<1>1. CASE UNCHANGED fleetVars
  BY <1>1 DEF fleetVars
<1>2. CASE FleetNext
  <2>1. /\ UNCHANGED uvars \/ which = "manager"
        /\ UNCHANGED dvars \/ which = "dca"
        /\ UNCHANGED lvars \/ which = "launcher"
        /\ UNCHANGED mvars \/ which = "bus"
        /\ UNCHANGED rvars \/ which = "rpc"
    BY <1>2, ZenonT(60) DEF FleetNext, Only
  <2>2. /\ which = "manager" => UNext
        /\ which = "dca" => DcaNext
        /\ which = "launcher" => LNext
        /\ which = "bus" => BusNext
        /\ which = "rpc" => RpcNext
    BY <1>2, ZenonT(60) DEF FleetNext, Only
  <2> QED
    BY <2>1, <2>2
<1> QED
  BY <1>1, <1>2

\* What every part keeps: its types, and what they rest on.
FleetIInv == UIInv /\ DcaBounds /\ LIInv /\ BusIInv /\ BusKept /\ RpcTypeOK

\* Whichever part runs, all of them keep their types: whoever waits in the manager's
\* queue is at the lock, a position counts no more than max_dca_count purchases, the
\* launcher's bots sell no coin the account has not, a listener is one of a
\* connection there was, and a call that is under way has an endpoint left to try.
THEOREM FleetTyped == FleetSpec => []FleetTypeOK
<1>1. FleetInit => FleetIInv
  BY UInitSound, DcaBoundsInit, LInitSound, BusInitSound, BusKeptInit, RpcInitSound DEF FleetInit, FleetIInv
<1>2. FleetIInv /\ [FleetNext]_fleetVars => FleetIInv'
  BY FleetApart, UStep, DcaBoundsStep, LStep, BusStep, BusKeptStep, RpcStep DEF FleetIInv, BusIInv
<1>3. UIInv => UTypeOK
  BY DEF UIInv, UTypes, QueueSound, UTypeOK
<1>4. FleetIInv => FleetTypeOK
  BY <1>3, BusTyped DEF FleetIInv, BusIInv, DcaBounds, LIInv, FleetTypeOK
<1> QED
  BY <1>1, <1>2, <1>4, PTL DEF FleetSpec
=============================================================================
