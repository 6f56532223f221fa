---------------------------- MODULE Records_proofs ----------------------------
(***************************************************************************)
(* What is logged, audited, stored, shared, reported and collected is kept *)
(* and kept once: theorems about the event log, the audit log, the vault,  *)
(* the files of the rewards, the way of a trade to the reward service and  *)
(* the control tower's collector, for any tasks, threads, processes,       *)
(* addresses, secrets, exchanges, sizes and numbers of events.  What the   *)
(* desk records of a signal is its verdict: theorems about the             *)
(* verification center, its service and the ensemble of agents.  And       *)
(* theorems about the desk that composes them.                             *)
(***************************************************************************)
EXTENDS Desk_proofs

------------------------------------------------------------------------------
(* The event log.  Until a call comes into a flush or the ping fails, one call at *)
(* a time is in a flush, what it sends is the buffer, and what is buffered is new. *)

LoggerStates ==
    [pc : {"outside", "ping", "exists", "create"}] \cup [pc : {"bulk"}, batch : Seq(Nat)]

LogTypes ==
    /\ elLogged \in 0 .. MaxEvents /\ elBuffer \in Seq(Nat)
    /\ {elClient, elOverlap, elDropped, elFailed} \subseteq BOOLEAN
    /\ DOMAIN elCall = Loggers /\ \A t \in Loggers : elCall[t] \in LoggerStates
    /\ elIndexed \in [1..MaxEvents -> 0 .. 2]

\* One call at a time is inside a flush, and the batch it sends is the buffer.
OneFlush ==
    /\ \A t, u \in Loggers : elCall[t] # Outside /\ elCall[u] # Outside => t = u
    /\ \A t \in Loggers : elCall[t].pc = "bulk" => elCall[t].batch = elBuffer

\* What is buffered was logged, and is not yet indexed unless a request failed.
BufferIsNew ==
    /\ \A i \in DOMAIN elBuffer : elBuffer[i] \in 1 .. elLogged
    /\ \A e \in 1 .. MaxEvents : e > elLogged => elIndexed[e] = 0
    /\ ~elFailed => \A i \in DOMAIN elBuffer : elIndexed[elBuffer[i]] = 0

LogIInv ==
    /\ LogTypes
    /\ ~elOverlap /\ ~elDropped => OneFlush /\ BufferIsNew /\ LoggedIsKept

\* What a task is doing tells if it is in a flush.
LEMMA InFlush ==
    ASSUME LogTypes, NEW t \in Loggers
    PROVE  /\ elCall[t].pc \in {"outside", "ping", "exists", "create", "bulk"}
           /\ elCall[t] = Outside <=> elCall[t].pc = "outside"
           /\ elCall[t].pc = "bulk" => elCall[t].batch \in Seq(Nat)
BY DEF LogTypes, LoggerStates, Outside

LEMMA WrittenOnce ==
    ASSUME LogTypes, NEW batch
    PROVE  /\ Written(batch) \in [1..MaxEvents -> 0 .. 2]
           /\ \A e \in 1..MaxEvents :
                 /\ Written(batch)[e] >= elIndexed[e]
                 /\ Contains(batch, e) => Written(batch)[e] > 0 /\ Written(batch)[e] <= elIndexed[e] + 1
                 /\ ~Contains(batch, e) => Written(batch)[e] = elIndexed[e]
<1>1. \A e \in 1..MaxEvents : elIndexed[e] \in 0 .. 2
  BY DEF LogTypes
<1>2. ASSUME NEW e \in 1..MaxEvents
      PROVE  Written(batch)[e] = IF Contains(batch, e) /\ elIndexed[e] < 2 THEN elIndexed[e] + 1 ELSE elIndexed[e]
  BY DEF Written
<1> HIDE DEF Written
<1>3. ASSUME NEW e \in 1..MaxEvents
      PROVE  /\ Written(batch)[e] \in 0 .. 2 /\ Written(batch)[e] >= elIndexed[e]
             /\ Contains(batch, e) => Written(batch)[e] > 0 /\ Written(batch)[e] <= elIndexed[e] + 1
             /\ ~Contains(batch, e) => Written(batch)[e] = elIndexed[e]
  <2>1. CASE Contains(batch, e)
    BY <1>1, <1>2, <2>1
  <2>2. CASE ~Contains(batch, e)
    BY <1>1, <1>2, <2>2
  <2> QED
    BY <2>1, <2>2
<1>4. Written(batch) = [e \in 1..MaxEvents |-> Written(batch)[e]]
  BY DEF Written
<1>5. Written(batch) \in [1..MaxEvents -> 0 .. 2]
  BY <1>3, <1>4
<1> QED
  BY <1>3, <1>5

\* A task that calls flush, from where there is a flush of nobody else.
LEMMA FlushBegins ==
    ASSUME LogTypes, NEW t \in Loggers, Flush(t)
    PROVE  /\ elClient' \in BOOLEAN /\ DOMAIN elCall' = Loggers
           /\ elCall'[t].pc \in {"ping", "exists"} /\ elCall'[t] \in LoggerStates
           /\ \A u \in Loggers \ {t} : elCall'[u] = elCall[u]
<1>1. elClient \in BOOLEAN /\ DOMAIN elCall = Loggers
  BY DEF LogTypes
<1>2. CASE elClient
  <2>1. elCall' = [elCall EXCEPT ![t] = [pc |-> "exists"]] /\ elClient' = elClient
    BY <1>2 DEF Flush, LoggerAt
  <2> QED
    BY <1>1, <2>1 DEF LoggerStates
<1>3. CASE ~elClient
  <2>1. elCall' = [elCall EXCEPT ![t] = [pc |-> "ping"]] /\ elClient' = TRUE
    BY <1>3 DEF Flush, LoggerAt
  <2> QED
    BY <1>1, <2>1 DEF LoggerStates
<1> QED
  BY <1>2, <1>3

\* A task in a flush that goes on in it, with nothing else changed.
LEMMA FlushGoesOn ==
    ASSUME LogIInv, NEW t \in Loggers, elCall[t] # Outside, NEW to,
           to \in LoggerStates, to.pc = "bulk" => to.batch = elBuffer,
           elCall' = [elCall EXCEPT ![t] = to],
           UNCHANGED <<elBuffer, elClient, elLogged, elIndexed, elOverlap, elDropped, elFailed>>
    PROVE  LogIInv'
<1>1. LogTypes
  BY DEF LogIInv
<1>2. LogTypes'
  <2>1. DOMAIN elCall' = Loggers /\ \A u \in Loggers : elCall'[u] \in LoggerStates
    BY <1>1 DEF LogTypes
  <2> QED
    BY <1>1, <2>1 DEF LogTypes
<1>3. ASSUME ~elOverlap, ~elDropped PROVE (OneFlush /\ BufferIsNew /\ LoggedIsKept)'
  <2>1. OneFlush /\ BufferIsNew /\ LoggedIsKept
    BY <1>3 DEF LogIInv
  <2>2. OneFlush'
    BY <1>1, <2>1 DEF OneFlush, LogTypes
  <2>3. (BufferIsNew /\ LoggedIsKept)'
    BY <2>1 DEF BufferIsNew, LoggedIsKept
  <2> QED
    BY <2>2, <2>3
<1> QED
  BY <1>2, <1>3 DEF LogIInv

LEMMA LogInitHolds == LogInit => LogIInv
<1> SUFFICES ASSUME LogInit PROVE LogIInv
  OBVIOUS
<1>1. LogTypes
  <2>1. elIndexed \in [1..MaxEvents -> 0 .. 2]
    BY DEF LogInit
  <2>2. elBuffer \in Seq(Nat) /\ elLogged \in 0 .. MaxEvents
    BY EventLogAssumption DEF LogInit
  <2>3. DOMAIN elCall = Loggers /\ \A t \in Loggers : elCall[t] \in LoggerStates
    BY DEF LogInit, LoggerStates, Outside
  <2> QED
    BY <2>1, <2>2, <2>3 DEF LogInit, LogTypes
<1>2. OneFlush
  BY DEF LogInit, OneFlush, Outside
<1>3. BufferIsNew /\ LoggedIsKept
  BY EventLogAssumption DEF LogInit, BufferIsNew, LoggedIsKept
<1> QED
  BY <1>1, <1>2, <1>3 DEF LogIInv

\* An event joins the buffer while nobody flushes.
LEMMA LogEventStep ==
    ASSUME LogIInv, NEW t \in Loggers, LogEvent(t)
    PROVE  LogIInv'
<1>1. LogTypes /\ MaxEvents \in Nat /\ BufferSize \in Nat
  BY EventLogAssumption DEF LogIInv
<1>2. /\ elCall[t] = Outside /\ elLogged < MaxEvents /\ elLogged' = elLogged + 1
      /\ elBuffer' = Append(elBuffer, elLogged + 1) /\ elOverlap' = (elOverlap \/ Flushing)
      /\ Flush(t) \/ UNCHANGED <<elCall, elClient>>
      /\ UNCHANGED <<elIndexed, elDropped, elFailed>>
  BY DEF LogEvent
<1>3. /\ elClient' \in BOOLEAN /\ DOMAIN elCall' = Loggers
      /\ \A u \in Loggers : elCall'[u] \in LoggerStates
      /\ \A u \in Loggers : u # t => elCall'[u] = elCall[u]
      /\ elCall'[t].pc # "bulk"
  <2>1. CASE Flush(t)
    BY <1>1, <2>1, FlushBegins DEF LogTypes
  <2>2. CASE UNCHANGED <<elCall, elClient>>
    BY <1>1, <1>2, <2>2, InFlush DEF LogTypes
  <2> QED
    BY <1>2, <2>1, <2>2
<1>4. elBuffer \in Seq(Nat) /\ elLogged \in 0 .. MaxEvents /\ elBuffer' \in Seq(Nat)
  BY <1>1, <1>2 DEF LogTypes
<1>5. LogTypes'
  <2>1. elOverlap' \in BOOLEAN
    BY <1>1, <1>2 DEF LogTypes, Flushing
  <2>2. elLogged' \in 0 .. MaxEvents
    BY <1>1, <1>2, <1>4
  <2> QED
    BY <1>1, <1>2, <1>3, <1>4, <2>1, <2>2 DEF LogTypes
<1>6. ASSUME ~elOverlap', ~elDropped' PROVE (OneFlush /\ BufferIsNew /\ LoggedIsKept)'
  <2>1. ~elOverlap /\ ~elDropped /\ OneFlush /\ BufferIsNew /\ LoggedIsKept /\ ~Flushing
    BY <1>2, <1>6 DEF LogIInv
  <2>2. \A u \in Loggers : elCall[u] = Outside
    BY <2>1 DEF Flushing
  <2>3. OneFlush'
    BY <1>3, <2>2 DEF OneFlush, Outside
  <2>4. /\ Len(elBuffer') = Len(elBuffer) + 1 /\ elBuffer'[Len(elBuffer) + 1] = elLogged + 1
        /\ \A i \in DOMAIN elBuffer : elBuffer'[i] = elBuffer[i]
        /\ DOMAIN elBuffer = 1 .. Len(elBuffer) /\ DOMAIN elBuffer' = 1 .. Len(elBuffer)+1
        /\ Len(elBuffer) \in Nat
    BY <1>2, <1>4
  <2>5. \A e \in 1..MaxEvents : elIndexed[e] \in 0 .. 2
    BY <1>1 DEF LogTypes
  <2>6. \A e \in 1 .. MaxEvents : e > elLogged => elIndexed[e] = 0
    BY <2>1 DEF BufferIsNew
  <2>9. elIndexed[elLogged + 1] = 0
    BY <1>1, <1>2, <1>4, <2>6
  <2>7. BufferIsNew'
    <3>1. ASSUME NEW i \in DOMAIN elBuffer' 
          PROVE  elBuffer'[i] \in 1 .. elLogged' /\ (~elFailed => elIndexed[elBuffer'[i]] = 0)
      <4>1. CASE i \in DOMAIN elBuffer
        <5>1. elBuffer'[i] = elBuffer[i] /\ elBuffer[i] \in 1 .. elLogged
              /\ (~elFailed => elIndexed[elBuffer[i]] = 0)
          BY <2>1, <2>4, <4>1 DEF BufferIsNew
        <5> QED
          BY <1>2, <1>4, <5>1
      <4>2. CASE i = Len(elBuffer) + 1
        <5>1. elBuffer'[i] = elLogged + 1 /\ elIndexed[elLogged + 1] = 0
          BY <1>2, <2>4, <2>9, <4>2
        <5> QED
          BY <1>2, <1>4, <5>1
      <4> QED
        BY <2>4, <3>1, <4>1, <4>2
    <3>2. \A e \in 1 .. MaxEvents : e > elLogged' => elIndexed'[e] = 0
      BY <1>2, <1>4, <2>6
    <3> QED
      BY <1>2, <3>1, <3>2 DEF BufferIsNew
  <2>8. LoggedIsKept'
    <3>1. ASSUME NEW e \in 1 .. elLogged'
          PROVE  /\ Contains(elBuffer', e) \/ elIndexed[e] > 0
                 /\ ~elFailed => elIndexed[e] <= 1
      <4>1. CASE e = elLogged + 1
        <5>1. Contains(elBuffer', e)
          BY <2>4, <4>1 DEF Contains
        <5>2. elIndexed[e] = 0
          BY <2>9, <4>1
        <5> QED
          BY <5>1, <5>2
      <4>2. CASE e \in 1 .. elLogged
        <5>1. /\ Contains(elBuffer, e) \/ elIndexed[e] > 0
              /\ ~elFailed => elIndexed[e] <= 1
          BY <2>1, <4>2 DEF LoggedIsKept
        <5>2. Contains(elBuffer, e) => Contains(elBuffer', e)
          BY <2>4 DEF Contains
        <5> QED
          BY <5>1, <5>2
      <4> QED
        BY <1>2, <1>4, <4>1, <4>2
    <3> QED
      BY <1>2, <3>1 DEF LoggedIsKept
  <2> QED
    BY <2>3, <2>7, <2>8
<1> QED
  BY <1>5, <1>6 DEF LogIInv

LEMMA FlushNowStep ==
    ASSUME LogIInv, NEW t \in Loggers, FlushNow(t)
    PROVE  LogIInv'
<1>1. LogTypes
  BY DEF LogIInv
<1>2. /\ Flush(t) /\ elOverlap' = (elOverlap \/ Flushing)
      /\ UNCHANGED <<elBuffer, elLogged, elIndexed, elDropped, elFailed>>
  BY DEF FlushNow
<1>3. /\ elClient' \in BOOLEAN /\ DOMAIN elCall' = Loggers
      /\ \A u \in Loggers : elCall'[u] \in LoggerStates
      /\ \A u \in Loggers : u # t => elCall'[u] = elCall[u]
      /\ elCall'[t].pc # "bulk"
  BY <1>1, <1>2, FlushBegins DEF LogTypes
<1>4. LogTypes'
  <2>1. elOverlap' \in BOOLEAN
    BY <1>1, <1>2 DEF LogTypes, Flushing
  <2> QED
    BY <1>1, <1>2, <1>3, <2>1 DEF LogTypes
<1>5. ASSUME ~elOverlap', ~elDropped' PROVE (OneFlush /\ BufferIsNew /\ LoggedIsKept)'
  <2>1. ~elOverlap /\ ~elDropped /\ OneFlush /\ BufferIsNew /\ LoggedIsKept /\ ~Flushing
    BY <1>2, <1>5 DEF LogIInv
  <2>2. \A u \in Loggers : elCall[u] = Outside
    BY <2>1 DEF Flushing
  <2>3. OneFlush'
    BY <1>3, <2>2 DEF OneFlush, Outside
  <2>4. (BufferIsNew /\ LoggedIsKept)'
    BY <1>2, <1>5, <2>1 DEF BufferIsNew, LoggedIsKept
  <2> QED
    BY <2>3, <2>4
<1> QED
  BY <1>4, <1>5 DEF LogIInv

\* The batch, which is the buffer, is indexed and the buffer cleared.
LEMMA BulkDoneStep ==
    ASSUME LogIInv, NEW t \in Loggers, BulkDone(t)
    PROVE  LogIInv'
<1>1. LogTypes
  BY DEF LogIInv
<1>2. PICK batch : batch = elCall[t].batch
  OBVIOUS
<1>3. PICK indexed : indexed = Written(batch)
  OBVIOUS
<1>4. /\ elCall[t].pc = "bulk" /\ elCall' = [elCall EXCEPT ![t] = [pc |-> "outside"]]
      /\ elIndexed' = indexed /\ elBuffer' = <<>>
      /\ UNCHANGED <<elClient, elLogged, elOverlap, elDropped, elFailed>>
  BY <1>2, <1>3 DEF BulkDone, LoggerAt
<1>5. /\ indexed \in [1..MaxEvents -> 0 .. 2]
      /\ \A e \in 1..MaxEvents :
            /\ indexed[e] >= elIndexed[e]
            /\ Contains(batch, e) => indexed[e] > 0 /\ indexed[e] <= elIndexed[e] + 1
            /\ ~Contains(batch, e) => indexed[e] = elIndexed[e]
  BY <1>1, <1>3, WrittenOnce
<1>6. LogTypes'
  <2>1. DOMAIN elCall' = Loggers /\ \A u \in Loggers : elCall'[u] \in LoggerStates
    BY <1>1, <1>4 DEF LogTypes, LoggerStates
  <2>2. elBuffer' \in Seq(Nat)
    BY <1>4
  <2> QED
    BY <1>1, <1>4, <1>5, <2>1, <2>2 DEF LogTypes
<1>7. ASSUME ~elOverlap, ~elDropped PROVE (OneFlush /\ BufferIsNew /\ LoggedIsKept)'
  <2>1. OneFlush /\ BufferIsNew /\ LoggedIsKept /\ elCall[t] # Outside /\ batch = elBuffer
    BY <1>1, <1>2, <1>4, <1>7, InFlush DEF LogIInv, OneFlush
  <2>2. OneFlush'
    <3>1. \A u \in Loggers : elCall'[u] = Outside
      BY <1>1, <1>4, <2>1 DEF OneFlush, LogTypes, Outside
    <3> QED
      BY <3>1 DEF OneFlush, Outside
  <2>3. elLogged \in 0 .. MaxEvents /\ MaxEvents \in Nat /\ elBuffer \in Seq(Nat)
        /\ \A e \in 1..MaxEvents : elIndexed[e] \in 0 .. 2 /\ indexed[e] \in 0 .. 2
    BY <1>1, <1>5, EventLogAssumption DEF LogTypes
  <2>4. \A e \in 1..MaxEvents : Contains(batch, e) => e <= elLogged /\ (~elFailed => elIndexed[e] = 0)
    <3>1. \A i \in DOMAIN elBuffer : elBuffer[i] \in 1 .. elLogged /\ (~elFailed => elIndexed[elBuffer[i]] = 0)
      BY <2>1 DEF BufferIsNew
    <3>2. DOMAIN elBuffer = 1 .. Len(elBuffer)
      BY <2>3
    <3> QED
      BY <2>1, <2>3, <3>1, <3>2 DEF Contains
  <2>5. BufferIsNew'
    <3>1. \A e \in 1 .. MaxEvents : e > elLogged => elIndexed[e] = 0
      BY <2>1 DEF BufferIsNew
    <3>2. \A e \in 1 .. MaxEvents : e > elLogged => indexed[e] = 0
      BY <1>5, <2>3, <2>4, <3>1
    <3>3. DOMAIN elBuffer' = {}
      BY <1>4
    <3> QED
      BY <1>4, <3>2, <3>3 DEF BufferIsNew
  <2>6. LoggedIsKept'
    <3>1. ASSUME NEW e \in 1 .. elLogged
          PROVE  indexed[e] > 0 /\ (~elFailed => indexed[e] <= 1)
      <4>1. e \in 1..MaxEvents
        BY <2>3
      <4>2. Contains(batch, e) \/ elIndexed[e] > 0
        BY <2>1, <1>7 DEF LoggedIsKept
      <4>3. ~elFailed => elIndexed[e] <= 1
        BY <2>1, <1>7 DEF LoggedIsKept
      <4>4. CASE Contains(batch, e)
        BY <1>5, <2>3, <2>4, <4>1, <4>4
      <4>5. CASE ~Contains(batch, e)
        BY <1>5, <2>3, <4>1, <4>2, <4>3, <4>5
      <4> QED
        BY <4>4, <4>5
    <3> QED
      BY <1>4, <3>1 DEF LoggedIsKept
  <2> QED
    BY <2>2, <2>5, <2>6
<1> QED
  BY <1>4, <1>6, <1>7 DEF LogIInv

\* A request failed: the buffer stays, and what arrived all the same is indexed.
LEMMA FlushFailsStep ==
    ASSUME LogIInv, NEW t \in Loggers, FlushFails(t)
    PROVE  LogIInv'
<1>1. LogTypes
  BY DEF LogIInv
<1>2. PICK batch : batch = elCall[t].batch
  OBVIOUS
<1>3. /\ elCall[t].pc \in {"exists", "bulk"} /\ elCall' = [elCall EXCEPT ![t] = [pc |-> "outside"]]
      /\ elIndexed' = elIndexed \/ (elCall[t].pc = "bulk" /\ elIndexed' = Written(batch))
      /\ elBuffer' = elBuffer /\ elFailed' = TRUE
      /\ UNCHANGED <<elClient, elLogged, elOverlap, elDropped>>
  BY <1>2 DEF FlushFails, LoggerAt, AfterFailure
<1>4. PICK indexed : indexed = elIndexed'
  OBVIOUS
<1>5. /\ indexed \in [1..MaxEvents -> 0 .. 2]
      /\ \A e \in 1..MaxEvents : /\ indexed[e] >= elIndexed[e]
                                 /\ indexed[e] # elIndexed[e] => elCall[t].pc = "bulk" /\ Contains(batch, e)
  <2>1. CASE elIndexed' = elIndexed
    BY <1>1, <1>4, <2>1 DEF LogTypes
  <2>2. CASE elCall[t].pc = "bulk" /\ elIndexed' = Written(batch)
    BY <1>1, <1>4, <2>2, WrittenOnce
  <2> QED
    BY <1>3, <2>1, <2>2
<1>6. LogTypes'
  <2>1. DOMAIN elCall' = Loggers /\ \A u \in Loggers : elCall'[u] \in LoggerStates
    BY <1>1, <1>3 DEF LogTypes, LoggerStates
  <2> QED
    BY <1>1, <1>3, <1>4, <1>5, <2>1 DEF LogTypes
<1>7. ASSUME ~elOverlap, ~elDropped PROVE (OneFlush /\ BufferIsNew /\ LoggedIsKept)'
  <2>1. OneFlush /\ BufferIsNew /\ LoggedIsKept /\ elCall[t] # Outside
        /\ (elCall[t].pc = "bulk" => batch = elBuffer)
    BY <1>1, <1>2, <1>3, <1>7, InFlush DEF LogIInv, OneFlush
  <2>2. OneFlush'
    <3>1. \A u \in Loggers : elCall'[u] = Outside
      BY <1>1, <1>3, <2>1 DEF OneFlush, LogTypes, Outside
    <3> QED
      BY <3>1 DEF OneFlush, Outside
  <2>3. elLogged \in 0 .. MaxEvents /\ MaxEvents \in Nat /\ elBuffer \in Seq(Nat)
        /\ \A e \in 1..MaxEvents : elIndexed[e] \in 0 .. 2 /\ indexed[e] \in 0 .. 2
    BY <1>1, <1>5, EventLogAssumption DEF LogTypes
  <2>4. \A i \in DOMAIN elBuffer : elBuffer[i] \in 1 .. elLogged
    BY <2>1 DEF BufferIsNew
  <2>5. BufferIsNew'
    <3>1. \A e \in 1 .. MaxEvents : e > elLogged => elIndexed[e] = 0
      BY <2>1 DEF BufferIsNew
    <3>2. \A e \in 1..MaxEvents : indexed[e] # elIndexed[e] => e <= elLogged
      BY <1>5, <2>1, <2>3, <2>4 DEF Contains
    <3>3. \A e \in 1 .. MaxEvents : e > elLogged => indexed[e] = 0
      BY <2>3, <3>1, <3>2
    <3> QED
      BY <1>3, <1>4, <2>4, <3>3 DEF BufferIsNew
  <2>6. LoggedIsKept'
    <3>1. ASSUME NEW e \in 1 .. elLogged PROVE Contains(elBuffer, e) \/ indexed[e] > 0
      <4>1. e \in 1..MaxEvents
        BY <2>3
      <4>2. Contains(elBuffer, e) \/ elIndexed[e] > 0
        BY <2>1, <1>7 DEF LoggedIsKept
      <4> QED
        BY <1>5, <2>3, <4>1, <4>2
    <3> QED
      BY <1>3, <1>4, <3>1 DEF LoggedIsKept
  <2> QED
    BY <2>2, <2>5, <2>6
<1> QED
  BY <1>3, <1>6, <1>7 DEF LogIInv

LEMMA LogStep == LogIInv /\ [LogNext]_elVars => LogIInv'
<1> SUFFICES ASSUME LogIInv, [LogNext]_elVars PROVE LogIInv'
  OBVIOUS
<1>1. LogTypes
  BY DEF LogIInv
<1>2. ASSUME NEW t \in Loggers, Pinged(t) \/ IndexMissing(t) PROVE LogIInv'
  <2>1. PICK to : to \in {[pc |-> "exists"], [pc |-> "create"]} /\ elCall' = [elCall EXCEPT ![t] = to]
    BY <1>2 DEF Pinged, IndexMissing, LoggerAt
  <2>2. to \in LoggerStates /\ to.pc # "bulk"
    BY <2>1 DEF LoggerStates
  <2>3. elCall[t] # Outside
        /\ UNCHANGED <<elBuffer, elClient, elLogged, elIndexed, elOverlap, elDropped, elFailed>>
    BY <1>2 DEF Pinged, IndexMissing, Outside
  <2> QED
    BY <2>1, <2>2, <2>3, FlushGoesOn
<1>3. ASSUME NEW t \in Loggers, IndexFound(t) \/ IndexCreated(t) PROVE LogIInv'
  <2>1. PICK to : to = [pc |-> "bulk", batch |-> elBuffer]
    OBVIOUS
  <2>2. elCall' = [elCall EXCEPT ![t] = to] /\ elCall[t] # Outside
        /\ UNCHANGED <<elBuffer, elClient, elLogged, elIndexed, elOverlap, elDropped, elFailed>>
    BY <1>3, <2>1 DEF IndexFound, IndexCreated, SendsBatch, Outside
  <2>3. to \in LoggerStates /\ to.batch = elBuffer
    BY <1>1, <2>1 DEF LoggerStates, LogTypes
  <2> QED
    BY <2>2, <2>3, FlushGoesOn
<1>4. ASSUME NEW t \in Loggers, NoElasticsearch(t) PROVE LogIInv'
  <2>1. elCall' = [elCall EXCEPT ![t] = [pc |-> "outside"]] /\ elClient' = FALSE /\ elBuffer' = <<>>
        /\ elDropped' = TRUE /\ UNCHANGED <<elLogged, elIndexed, elOverlap, elFailed>>
    BY <1>4 DEF NoElasticsearch, LoggerAt
  <2>2. DOMAIN elCall' = Loggers /\ \A u \in Loggers : elCall'[u] \in LoggerStates
    BY <1>1, <2>1 DEF LogTypes, LoggerStates
  <2>3. LogTypes'
    <3>1. elBuffer' \in Seq(Nat)
      BY <2>1
    <3>2. {elClient', elOverlap', elDropped', elFailed'} \subseteq BOOLEAN
      BY <1>1, <2>1 DEF LogTypes
    <3>3. elLogged' = elLogged /\ elIndexed' = elIndexed
      BY <2>1
    <3> QED
      BY <1>1, <2>2, <3>1, <3>2, <3>3 DEF LogTypes
  <2> QED
    BY <2>1, <2>3 DEF LogIInv
<1>5. ASSUME UNCHANGED elVars PROVE LogIInv'
  <2>1. UNCHANGED <<elBuffer, elClient, elCall, elLogged, elIndexed, elOverlap, elDropped, elFailed>>
    BY <1>5 DEF elVars
  <2>2. LogTypes'
    <3>1. elLogged' = elLogged /\ elBuffer' = elBuffer /\ elCall' = elCall /\ elIndexed' = elIndexed
      BY <2>1
    <3>2. {elClient', elOverlap', elDropped', elFailed'} \subseteq BOOLEAN
      BY <1>1, <2>1 DEF LogTypes
    <3> QED
      BY <1>1, <3>1, <3>2 DEF LogTypes
  <2>3. ASSUME ~elOverlap, ~elDropped PROVE (OneFlush /\ BufferIsNew /\ LoggedIsKept)'
    BY <2>1, <2>3 DEF LogIInv, OneFlush, BufferIsNew, LoggedIsKept
  <2> QED
    BY <2>1, <2>2, <2>3 DEF LogIInv
<1> QED
  BY <1>2, <1>3, <1>4, <1>5, LogEventStep, FlushNowStep, BulkDoneStep, FlushFailsStep DEF LogNext

\* The event log, for any tasks, buffer size and number of events: what is logged is
\* buffered or indexed while no call comes into a flush and Elasticsearch answers
\* the ping, and indexed once when nothing fails (event_logger.py).
THEOREM LogKeeps == LogSpec => []LoggedIsKept
<1>1. LogInit => LogIInv
  BY LogInitHolds
<1>2. LogIInv /\ [LogNext]_elVars => LogIInv'
  BY LogStep
<1>3. LogIInv => LoggedIsKept
  BY DEF LogIInv, LoggedIsKept
<1> QED
  BY <1>1, <1>2, <1>3, PTL DEF LogSpec

------------------------------------------------------------------------------
(* The audit log.  A burst of failures has its alert, or a thread that will still *)
(* count it.                                                                       *)

AuditTypes ==
    /\ IsFiniteSet(atRows) /\ atTime \in Nat
    /\ \A r \in atRows : r.at \in 0 .. atTime
    /\ atThread \in [AuditThreads -> [at : {"idle", "copy", "copy-count", "count"},
                                   ip : Addresses \cup {"none"}]]

\* The thread still has to count the failures of the address.
CountsLater(t, ip) == atThread[t].at \in {"copy-count", "count"} /\ atThread[t].ip = ip

\* An alert for the address is as late as every failure in the window.
IsAlerted(ip) ==
    \E a \in atRows : /\ a.table = "alerts" /\ a.ip = ip
                      /\ \A r \in FailuresOf(ip) : r.at <= a.at

AuditIInv ==
    /\ AuditTypes
    /\ \A ip \in Addresses :
           Cardinality(FailuresOf(ip)) >= TooMany
               => IsAlerted(ip) \/ \E t \in AuditThreads : CountsLater(t, ip)

LEMMA FailuresFinite ==
    ASSUME AuditTypes, NEW ip
    PROVE  IsFiniteSet(FailuresOf(ip))
<1>1. FailuresOf(ip) \subseteq atRows /\ IsFiniteSet(atRows)
  BY DEF FailuresOf, AuditTypes
<1> QED
  BY <1>1, FS_Subset

\* Fewer failures in the window do not make an address wait for an alert.
LEMMA FewerFailures ==
    ASSUME AuditIInv, AuditTypes', NEW ip \in Addresses,
           FailuresOf(ip)' \subseteq FailuresOf(ip),
           Cardinality(FailuresOf(ip)') >= TooMany,
           \A a \in atRows : a.table = "alerts" =>
               \E b \in atRows' : b.table = "alerts" /\ b.ip = a.ip /\ b.at = a.at,
           \A t \in AuditThreads : CountsLater(t, ip) => CountsLater(t, ip)'
    PROVE  IsAlerted(ip)' \/ \E t \in AuditThreads : CountsLater(t, ip)'
<1>1. IsFiniteSet(FailuresOf(ip))
  BY FailuresFinite DEF AuditIInv
<1>2. /\ Cardinality(FailuresOf(ip)') <= Cardinality(FailuresOf(ip))
      /\ Cardinality(FailuresOf(ip)) \in Nat /\ Cardinality(FailuresOf(ip)') \in Nat
  <2>1. IsFiniteSet(FailuresOf(ip)')
    BY <1>1, FS_Subset
  <2> QED
    BY <1>1, <2>1, FS_Subset, FS_CardinalityType
<1>3. TooMany \in Nat
  BY AuditAssumption
<1>4. Cardinality(FailuresOf(ip)) >= TooMany
  BY <1>2, <1>3
<1>5. CASE \E t \in AuditThreads : CountsLater(t, ip)
  BY <1>5
<1>6. CASE IsAlerted(ip)
  <2>1. PICK a \in atRows : a.table = "alerts" /\ a.ip = ip /\ \A r \in FailuresOf(ip) : r.at <= a.at
    BY <1>6 DEF IsAlerted
  <2>2. PICK b \in atRows' : b.table = "alerts" /\ b.ip = a.ip /\ b.at = a.at
    BY <2>1
  <2>3. \A r \in FailuresOf(ip)' : r.at <= b.at
    BY <2>1, <2>2
  <2> QED
    BY <2>1, <2>2, <2>3 DEF IsAlerted
<1> QED
  BY <1>4, <1>5, <1>6 DEF AuditIInv

\* A row that is put in is of the present.
LEMMA RowIsPutIn ==
    ASSUME AuditIInv, NEW t \in AuditThreads, NEW table, NEW ip, NEW failed, NEW then,
           ip \in Addresses \cup {"none"}, then \in {"copy", "copy-count"},
           Insert(t, NewRow(table, ip, failed), then), UNCHANGED atTime
    PROVE  /\ AuditTypes'
           /\ \E row : /\ atRows' = atRows \cup {row} /\ row.table = table /\ row.ip = ip
                       /\ row.failed = failed /\ row.at = atTime
           /\ atThread' = [atThread EXCEPT ![t] = [at |-> then, ip |-> ip]]
<1>1. AuditTypes
  BY DEF AuditIInv
<1>2. PICK row : row = NewRow(table, ip, failed)
  OBVIOUS
<1>3. row.table = table /\ row.ip = ip /\ row.failed = failed /\ row.at = atTime
  BY <1>2 DEF NewRow
<1>4. atRows' = atRows \cup {row} /\ atThread' = [atThread EXCEPT ![t] = [at |-> then, ip |-> ip]]
  BY <1>2, <1>3 DEF Insert
<1>5. IsFiniteSet(atRows')
  BY <1>1, <1>4, FS_AddElement DEF AuditTypes
<1>6. atThread' \in [AuditThreads -> [at : {"idle", "copy", "copy-count", "count"},
                                     ip : Addresses \cup {"none"}]]
  BY <1>1, <1>4 DEF AuditTypes
<1>7. AuditTypes'
  BY <1>1, <1>3, <1>4, <1>5, <1>6 DEF AuditTypes
<1> QED
  BY <1>3, <1>4, <1>7

LEMMA AuditInitHolds == AuditInit => AuditIInv
<1> SUFFICES ASSUME AuditInit PROVE AuditIInv
  OBVIOUS
<1>1. AuditTypes
  BY FS_EmptySet DEF AuditInit, AuditTypes, Unoccupied
<1>2. ASSUME NEW ip \in Addresses PROVE ~(Cardinality(FailuresOf(ip)) >= TooMany)
  <2>1. FailuresOf(ip) = {}
    BY DEF AuditInit, FailuresOf
  <2>2. Cardinality(FailuresOf(ip)) = 0
    BY <2>1, FS_EmptySet
  <2> QED
    BY <2>2, AuditAssumption
<1> QED
  BY <1>1, <1>2 DEF AuditIInv

LEMMA AuditStep == AuditIInv /\ [AuditNext]_atVars => AuditIInv'
<1> SUFFICES ASSUME AuditIInv, [AuditNext]_atVars PROVE AuditIInv'
  OBVIOUS
<1>1. AuditTypes
  BY DEF AuditIInv
<1>2. FailureWindow \in Nat /\ KeepFor \in Nat /\ KeepFor >= FailureWindow
  BY AuditAssumption
\* Steps that put no failure in, take no alert out and let nobody forget to count.
<1>3. ASSUME AuditTypes', \A ip \in Addresses : FailuresOf(ip)' \subseteq FailuresOf(ip),
             \A a \in atRows : a.table = "alerts" =>
                 \E b \in atRows' : b.table = "alerts" /\ b.ip = a.ip /\ b.at = a.at,
             \A t \in AuditThreads, ip \in Addresses : CountsLater(t, ip) => CountsLater(t, ip)'
      PROVE  AuditIInv'
  BY <1>3, FewerFailures DEF AuditIInv
<1>4. ASSUME CleanupOldLogs PROVE AuditIInv'
  <2>1. /\ atRows' = {r \in atRows : r.table = "alerts" \/ r.at >= atTime - KeepFor}
        /\ UNCHANGED <<atThread, atNext, atTime>>
    BY <1>4 DEF CleanupOldLogs
  <2>2. AuditTypes'
    <3>1. IsFiniteSet(atRows')
      BY <1>1, <2>1, FS_Subset DEF AuditTypes
    <3> QED
      BY <1>1, <2>1, <3>1 DEF AuditTypes
  <2>3. \A ip \in Addresses : FailuresOf(ip)' \subseteq FailuresOf(ip)
    BY <2>1 DEF FailuresOf
  <2> QED
    BY <1>3, <2>1, <2>2, <2>3 DEF CountsLater
<1>5. ASSUME MinutePasses PROVE AuditIInv'
  <2>1. atTime' = atTime + 1 /\ UNCHANGED <<atRows, atThread, atNext>>
    BY <1>5 DEF MinutePasses
  <2>2. AuditTypes'
    BY <1>1, <2>1 DEF AuditTypes
  <2>3. \A ip \in Addresses : FailuresOf(ip)' \subseteq FailuresOf(ip)
    BY <1>1, <1>2, <2>1 DEF FailuresOf, AuditTypes
  <2> QED
    BY <1>3, <2>1, <2>2, <2>3 DEF CountsLater
<1>6. ASSUME NEW t \in AuditThreads, CopyRow(t) PROVE AuditIInv'
  <2>1. PICK to : to = IF atThread[t].at = "copy-count" THEN [atThread[t] EXCEPT !.at = "count"] ELSE Unoccupied
    OBVIOUS
  <2>2. atThread' = [atThread EXCEPT ![t] = to] /\ UNCHANGED <<atRows, atNext, atTime>>
        /\ atThread[t].at \in {"copy", "copy-count"}
    BY <1>6, <2>1 DEF CopyRow
  <2>3. AuditTypes'
    <3>1. to \in [at : {"idle", "copy", "copy-count", "count"}, ip : Addresses \cup {"none"}]
      BY <1>1, <2>1 DEF AuditTypes, Unoccupied
    <3> QED
      BY <1>1, <2>2, <3>1 DEF AuditTypes
  <2>4. \A ip \in Addresses : FailuresOf(ip)' \subseteq FailuresOf(ip)
    BY <2>2 DEF FailuresOf
  <2>5. ASSUME NEW u \in AuditThreads, NEW ip \in Addresses, CountsLater(u, ip) PROVE CountsLater(u, ip)'
    <3>1. CASE u # t
      BY <1>1, <2>2, <2>5, <3>1 DEF CountsLater, AuditTypes
    <3>2. CASE u = t
      <4>1. atThread[t].at = "copy-count" /\ atThread[t].ip = ip
        BY <2>2, <2>5, <3>2 DEF CountsLater
      <4>2. to = [atThread[t] EXCEPT !.at = "count"]
        BY <2>1, <4>1
      <4>3. to.at = "count" /\ to.ip = ip
        BY <1>1, <4>1, <4>2 DEF AuditTypes
      <4> QED
        BY <1>1, <2>2, <3>2, <4>3 DEF CountsLater, AuditTypes
    <3> QED
      BY <3>1, <3>2
  <2> QED
    BY <1>3, <2>2, <2>3, <2>4, <2>5
<1>7. ASSUME NEW r \in atRows, ResolveAlert(r) PROVE AuditIInv'
  <2>1. PICK s : s = [r EXCEPT !.resolved = TRUE]
    OBVIOUS
  <2>2. r.table = "alerts" /\ atRows' = (atRows \ {r}) \cup {s} /\ UNCHANGED <<atThread, atNext, atTime>>
    BY <1>7, <2>1 DEF ResolveAlert
  <2>3. s.table = "alerts" /\ s.ip = r.ip /\ s.at = r.at
    BY <2>1, <2>2
  <2>4. AuditTypes'
    <3>1. IsFiniteSet(atRows \ {r})
      BY <1>1, FS_Subset DEF AuditTypes
    <3>2. IsFiniteSet(atRows')
      BY <2>2, <3>1, FS_AddElement
    <3> QED
      BY <1>1, <2>2, <2>3, <3>2 DEF AuditTypes
  <2>5. \A ip \in Addresses : FailuresOf(ip)' \subseteq FailuresOf(ip)
    BY <2>2, <2>3 DEF FailuresOf
  <2>6. \A a \in atRows : a.table = "alerts" =>
           \E b \in atRows' : b.table = "alerts" /\ b.ip = a.ip /\ b.at = a.at
    BY <2>2, <2>3
  <2> QED
    BY <1>3, <2>2, <2>4, <2>5, <2>6 DEF CountsLater
<1>8. ASSUME NEW t \in AuditThreads, CountFailures(t) PROVE AuditIInv'
  <2>1. PICK who : who = atThread[t].ip
    OBVIOUS
  <2>2. who \in Addresses \cup {"none"}
    BY <1>1, <2>1 DEF AuditTypes
  \* The failures of the others wait for whom they waited for.
  <2>3. CASE Cardinality(FailuresOf(who)) >= TooMany
    <3> DEFINE no == FALSE
    <3>1. Insert(t, NewRow("alerts", who, no), "copy") /\ UNCHANGED atTime
      BY <1>8, <2>1, <2>3 DEF CountFailures, RaiseAlert
    <3>2. /\ AuditTypes'
          /\ \E row : /\ atRows' = atRows \cup {row} /\ row.table = "alerts" /\ row.ip = who
                      /\ row.failed = no /\ row.at = atTime
          /\ atThread' = [atThread EXCEPT ![t] = [at |-> "copy", ip |-> who]]
      <4> HIDE DEF no
      <4> QED
        BY <2>2, <3>1, RowIsPutIn
    <3>3. PICK row : /\ atRows' = atRows \cup {row} /\ row.table = "alerts" /\ row.ip = who
                     /\ row.at = atTime
      BY <3>2
    <3>4. \A ip \in Addresses : FailuresOf(ip)' = FailuresOf(ip)
      BY <3>1, <3>3 DEF FailuresOf
    <3>5. ASSUME NEW ip \in Addresses, Cardinality(FailuresOf(ip)') >= TooMany
          PROVE  IsAlerted(ip)' \/ \E u \in AuditThreads : CountsLater(u, ip)'
      <4>1. CASE ip = who
        <5>1. \A r \in FailuresOf(ip)' : r.at <= row.at
          BY <1>1, <3>3, <3>4 DEF FailuresOf, AuditTypes
        <5> QED
          BY <3>3, <4>1, <5>1 DEF IsAlerted
      <4>2. CASE ip # who
        <5>1. \A u \in AuditThreads : CountsLater(u, ip) => CountsLater(u, ip)'
          BY <1>1, <2>1, <3>2, <4>2 DEF CountsLater, AuditTypes
        <5>2. \A a \in atRows : a.table = "alerts" =>
                 \E b \in atRows' : b.table = "alerts" /\ b.ip = a.ip /\ b.at = a.at
          BY <3>3
        <5> QED
          BY <3>2, <3>4, <3>5, <5>1, <5>2, FewerFailures
      <4> QED
        BY <4>1, <4>2
    <3> QED
      BY <3>2, <3>5 DEF AuditIInv
  <2>4. CASE ~(Cardinality(FailuresOf(who)) >= TooMany)
    <3>1. atThread' = [atThread EXCEPT ![t] = Unoccupied] /\ UNCHANGED <<atRows, atNext, atTime>>
      BY <1>8, <2>1, <2>4 DEF CountFailures
    <3>2. AuditTypes'
      BY <1>1, <3>1 DEF AuditTypes, Unoccupied
    <3>3. \A ip \in Addresses : FailuresOf(ip)' = FailuresOf(ip)
      BY <3>1 DEF FailuresOf
    <3>4. ASSUME NEW ip \in Addresses, Cardinality(FailuresOf(ip)') >= TooMany
          PROVE  IsAlerted(ip)' \/ \E u \in AuditThreads : CountsLater(u, ip)'
      <4>1. ip # who
        BY <2>4, <3>3, <3>4
      <4>2. \A u \in AuditThreads : CountsLater(u, ip) => CountsLater(u, ip)'
        BY <1>1, <2>1, <3>1, <4>1 DEF CountsLater, AuditTypes
      <4> QED
        BY <3>1, <3>2, <3>3, <3>4, <4>2, FewerFailures
    <3> QED
      BY <3>2, <3>4 DEF AuditIInv
  <2> QED
    BY <2>3, <2>4
<1>9. ASSUME NEW t \in AuditThreads, NEW who \in Addresses, NEW failed \in BOOLEAN,
             LogAccessAttempt(t, who, failed)
      PROVE  AuditIInv'
  <2>1. PICK then \in {"copy", "copy-count"} : then = IF failed THEN "copy-count" ELSE "copy"
    OBVIOUS
  <2>2. Insert(t, NewRow("attempts", who, failed), then) /\ UNCHANGED atTime /\ atThread[t] = Unoccupied
    BY <1>9, <2>1 DEF LogAccessAttempt
  <2>3. /\ AuditTypes'
        /\ \E row : /\ atRows' = atRows \cup {row} /\ row.table = "attempts" /\ row.ip = who
                    /\ row.failed = failed /\ row.at = atTime
        /\ atThread' = [atThread EXCEPT ![t] = [at |-> then, ip |-> who]]
    BY <2>2, RowIsPutIn
  <2>4. PICK row : /\ atRows' = atRows \cup {row} /\ row.table = "attempts" /\ row.ip = who
                   /\ row.failed = failed
    BY <2>3
  <2>5. ASSUME NEW ip \in Addresses, Cardinality(FailuresOf(ip)') >= TooMany
        PROVE  IsAlerted(ip)' \/ \E u \in AuditThreads : CountsLater(u, ip)'
    <3>1. CASE failed /\ ip = who
      <4>1. CountsLater(t, ip)'
        BY <1>1, <2>1, <2>3, <3>1 DEF CountsLater, AuditTypes
      <4> QED
        BY <4>1
    <3>2. CASE ~(failed /\ ip = who)
      <4>1. FailuresOf(ip)' \subseteq FailuresOf(ip)
        BY <2>2, <2>4, <3>2 DEF FailuresOf
      <4>2. \A u \in AuditThreads : CountsLater(u, ip) => CountsLater(u, ip)'
        BY <1>1, <2>2, <2>3 DEF CountsLater, AuditTypes, Unoccupied
      <4>3. \A a \in atRows : a.table = "alerts" =>
               \E b \in atRows' : b.table = "alerts" /\ b.ip = a.ip /\ b.at = a.at
        BY <2>4
      <4> QED
        BY <2>3, <2>5, <4>1, <4>2, <4>3, FewerFailures
    <3> QED
      BY <3>1, <3>2
  <2> QED
    BY <2>3, <2>5 DEF AuditIInv
<1>10. ASSUME UNCHANGED atVars PROVE AuditIInv'
  <2>1. UNCHANGED <<atRows, atThread, atNext, atTime>>
    BY <1>10 DEF atVars
  <2>2. AuditTypes'
    BY <1>1, <2>1 DEF AuditTypes
  <2>3. \A ip \in Addresses : FailuresOf(ip)' \subseteq FailuresOf(ip)
    BY <2>1 DEF FailuresOf
  <2> QED
    BY <1>3, <2>1, <2>2, <2>3 DEF CountsLater
<1> QED
  BY <1>4, <1>5, <1>6, <1>7, <1>8, <1>9, <1>10 DEF AuditNext

LEMMA AuditHolds == AuditIInv => BurstIsAlerted
<1> SUFFICES ASSUME AuditIInv, NEW ip \in Addresses, Cardinality(FailuresOf(ip)) >= TooMany,
                    \A t \in AuditThreads : atThread[t] = Unoccupied
             PROVE  \E r \in atRows : r.table = "alerts" /\ r.ip = ip /\ r.at > atTime - FailureWindow
  BY DEF BurstIsAlerted
<1>1. AuditTypes /\ FailureWindow \in Nat /\ TooMany \in Nat \ {0}
  BY AuditAssumption DEF AuditIInv
<1>2. IsAlerted(ip)
  BY DEF AuditIInv, CountsLater, Unoccupied
<1>3. PICK a \in atRows : a.table = "alerts" /\ a.ip = ip /\ \A r \in FailuresOf(ip) : r.at <= a.at
  BY <1>2 DEF IsAlerted
<1>4. FailuresOf(ip) # {}
  <2>1. Cardinality({}) = 0
    BY FS_EmptySet
  <2> QED
    BY <1>1, <2>1
<1>5. PICK r \in FailuresOf(ip) : TRUE
  BY <1>4
<1>6. r \in atRows /\ r.at > atTime - FailureWindow
  BY <1>5 DEF FailuresOf
<1>7. r.at \in Nat /\ a.at \in Nat /\ atTime \in Nat /\ r.at <= a.at
  BY <1>1, <1>3, <1>5, <1>6 DEF AuditTypes
<1> QED
  BY <1>1, <1>3, <1>6, <1>7

\* The audit log, for any threads, addresses, windows, thresholds and ages kept: once
\* the threads have returned, a burst of failures has an alert no older than the
\* window (audit.py).
THEOREM AuditAlerts == AuditSpec => []BurstIsAlerted
<1>1. AuditInit => AuditIInv
  BY AuditInitHolds
<1>2. AuditIInv /\ [AuditNext]_atVars => AuditIInv'
  BY AuditStep
<1>3. AuditIInv => BurstIsAlerted
  BY AuditHolds
<1> QED
  BY <1>1, <1>2, <1>3, PTL DEF AuditSpec

------------------------------------------------------------------------------
(* The vault.  The stamps are never ahead of the day, nor of the last rotation     *)
(* unless something was saved since, so what is due is asked for.                  *)

VaultTypes ==
    /\ vaKey \in [Vaults -> Nat] /\ vaSeen \in [Vaults -> Int]
    /\ vaCache \in [Vaults -> [Secrets -> Nat]] /\ vaBehind \in [Vaults -> SUBSET Secrets]
    /\ vaFile.key \in Nat /\ vaFile.stamp \in Int /\ vaPromised \in [Secrets -> Nat]
    /\ vaDay \in Nat /\ vaStored \in Nat /\ vaRotated \in Nat \cup {-1} /\ vaSaved \in BOOLEAN

\* Nothing is stamped later than today, nor, while nothing was saved since, later
\* than the last rotation.
StampsAreOld ==
    /\ vaFile.stamp <= vaDay /\ vaRotated <= vaDay /\ \A v \in Vaults : vaSeen[v] <= vaDay
    /\ vaRotated # -1 /\ ~vaSaved
           => vaFile.stamp <= vaRotated /\ \A v \in Vaults : vaSeen[v] <= vaRotated

VaultIInv ==
    /\ VaultTypes /\ SecretsSurvive /\ CacheIsCurrent /\ StampsAreOld
    /\ vaFile.key = 0 => vaFile.secrets = NoSecrets

LEMMA VaultInitHolds == VaultInit => VaultIInv
<1> SUFFICES ASSUME VaultInit PROVE VaultIInv
  OBVIOUS
<1>0. NoSecrets \in [Secrets -> Nat]
  BY DEF NoSecrets
<1>1. /\ vaKey \in [Vaults -> Nat] /\ vaSeen \in [Vaults -> Int] /\ vaCache \in [Vaults -> [Secrets -> Nat]]
      /\ vaBehind \in [Vaults -> SUBSET Secrets] /\ vaPromised \in [Secrets -> Nat]
  BY <1>0 DEF VaultInit
<1>2. vaFile.key = 0 /\ vaFile.stamp = -1 /\ vaFile.secrets = vaPromised
  BY DEF VaultInit
<1>3. VaultTypes
  <2>1. vaDay = 0 /\ vaStored = 0 /\ vaRotated = -1 /\ vaSaved = FALSE
    BY DEF VaultInit
  <2>2. vaFile.key \in Nat /\ vaFile.stamp \in Int /\ vaDay \in Nat /\ vaStored \in Nat
        /\ vaRotated \in Nat \cup {-1}
    BY <1>2, <2>1
  <2>3. vaSaved \in BOOLEAN
    BY <2>1
  <2> QED
    BY <1>1, <2>2, <2>3 DEF VaultTypes
<1>4. StampsAreOld
  BY <1>2 DEF VaultInit, StampsAreOld
<1>5. CacheIsCurrent
  BY DEF VaultInit, CacheIsCurrent, NoSecrets
<1> QED
  BY <1>2, <1>3, <1>4, <1>5 DEF VaultInit, VaultIInv, SecretsSurvive

\* What an instance that can read the file loads is what was promised.
LEMMA LoadedIsPromised ==
    ASSUME VaultIInv, NEW v \in Vaults, Opens(v)
    PROVE  Loaded(v) = vaPromised
BY DEF VaultIInv, SecretsSurvive, Opens, Loaded

\* A save that stamps the file with the day, and marks itself.
LEMMA StampedToday ==
    ASSUME VaultTypes, StampsAreOld, vaFile'.stamp = vaDay, vaSaved' = TRUE,
           UNCHANGED <<vaSeen, vaDay, vaRotated>>
    PROVE  StampsAreOld'
BY DEF VaultTypes, StampsAreOld

LEMMA VaultStep == VaultIInv /\ [VaultNext]_vaVars => VaultIInv'
<1> SUFFICES ASSUME VaultIInv, [VaultNext]_vaVars PROVE VaultIInv'
  OBVIOUS
<1>1. VaultTypes /\ SecretsSurvive /\ CacheIsCurrent /\ StampsAreOld
  BY DEF VaultIInv
<1>2. vaFile.key = 0 => vaFile.secrets = NoSecrets
  BY DEF VaultIInv
<1>3. MasterKeys \subseteq Nat \ {0}
  BY VaultAssumption
<1>4. ASSUME NEW v \in Vaults, NEW key \in MasterKeys, OpenVault(v, key) PROVE VaultIInv'
  <2>1. PICK seen : seen = IF vaFile.key = key THEN vaFile.stamp ELSE -1
    OBVIOUS
  <2>2. /\ vaKey' = [vaKey EXCEPT ![v] = key] /\ vaCache' = [vaCache EXCEPT ![v] = NoSecrets]
        /\ vaSeen' = [vaSeen EXCEPT ![v] = seen] /\ vaBehind' = [vaBehind EXCEPT ![v] = {}]
        /\ UNCHANGED <<vaFile, vaDay, vaStored, vaPromised, vaRotated, vaSaved>>
    BY <1>4, <2>1 DEF OpenVault
  <2>3. seen \in Int /\ seen <= vaDay /\ (vaRotated # -1 /\ ~vaSaved => seen <= vaRotated)
    BY <1>1, <2>1 DEF VaultTypes, StampsAreOld
  <2>4. VaultTypes'
    <3>1. NoSecrets \in [Secrets -> Nat]
      BY DEF NoSecrets
    <3>2. key \in Nat
      BY <1>3
    <3>3. vaKey' \in [Vaults -> Nat] /\ vaSeen' \in [Vaults -> Int]
      BY <1>1, <2>2, <2>3, <3>2 DEF VaultTypes
    <3>4. vaCache' \in [Vaults -> [Secrets -> Nat]] /\ vaBehind' \in [Vaults -> SUBSET Secrets]
      BY <1>1, <2>2, <3>1 DEF VaultTypes
    <3> QED
      BY <1>1, <2>2, <3>3, <3>4 DEF VaultTypes
  <2>5. StampsAreOld'
    BY <1>1, <2>2, <2>3 DEF VaultTypes, StampsAreOld
  <2>6. CacheIsCurrent'
    BY <1>1, <2>2 DEF VaultTypes, CacheIsCurrent, NoSecrets
  <2> QED
    BY <1>1, <1>2, <2>2, <2>4, <2>5, <2>6 DEF VaultIInv, SecretsSurvive
<1>5. ASSUME NEW v \in Vaults, NEW key \in MasterKeys, RotateKey(v, key) PROVE VaultIInv'
  <2>1. /\ vaKey' = [vaKey EXCEPT ![v] = key] /\ vaSeen' = [vaSeen EXCEPT ![v] = vaDay]
        /\ vaFile'.key = key /\ vaFile'.stamp = vaDay /\ vaFile'.secrets = Loaded(v)
        /\ vaRotated' = vaDay /\ vaSaved' = FALSE
        /\ UNCHANGED <<vaCache, vaDay, vaStored, vaPromised, vaBehind>>
    BY <1>5 DEF RotateKey, SaveFile
  <2>2. Loaded(v) = vaPromised
    BY <1>5, LoadedIsPromised DEF RotateKey
  <2>3. key \in Nat /\ key # 0
    BY <1>3
  <2>4. VaultTypes'
    <3>1. vaKey' \in [Vaults -> Nat] /\ vaSeen' \in [Vaults -> Int]
      BY <1>1, <2>1, <2>3 DEF VaultTypes
    <3>2. /\ vaFile'.key \in Nat /\ vaFile'.stamp \in Int /\ vaDay' \in Nat /\ vaStored' \in Nat
          /\ vaRotated' \in Nat \cup {-1}
      BY <1>1, <2>1, <2>3 DEF VaultTypes
    <3>3. vaSaved' \in BOOLEAN
      BY <2>1
    <3>4. /\ vaCache' \in [Vaults -> [Secrets -> Nat]] /\ vaBehind' \in [Vaults -> SUBSET Secrets]
          /\ vaPromised' \in [Secrets -> Nat]
      BY <1>1, <2>1 DEF VaultTypes
    <3> QED
      BY <3>1, <3>2, <3>3, <3>4 DEF VaultTypes
  <2>5. StampsAreOld'
    BY <1>1, <2>1 DEF VaultTypes, StampsAreOld
  <2>6. vaFile'.secrets = vaFile.secrets
    BY <1>1, <2>1, <2>2 DEF SecretsSurvive
  <2>7. CacheIsCurrent'
    BY <1>1, <2>1, <2>6 DEF CacheIsCurrent
  <2> QED
    BY <2>1, <2>2, <2>3, <2>4, <2>5, <2>7 DEF VaultIInv, SecretsSurvive
<1>6. ASSUME NEW v \in Vaults, NEW n \in Secrets, Store(v, n) PROVE VaultIInv'
  <2>0. Loaded(v) = vaPromised /\ Opens(v)
    BY <1>6, LoadedIsPromised DEF Store
  <2>1. /\ vaStored' = vaStored + 1 /\ vaPromised' = [vaPromised EXCEPT ![n] = vaStored + 1]
        /\ vaCache' = [vaCache EXCEPT ![v][n] = vaStored + 1]
        /\ vaFile'.key = vaKey[v] /\ vaFile'.stamp = vaDay
        /\ vaFile'.secrets = [vaPromised EXCEPT ![n] = vaStored + 1]
        /\ vaBehind' = [w \in Vaults |-> IF w = v THEN vaBehind[w] \ {n} ELSE vaBehind[w] \cup {n}]
        /\ vaSaved' = TRUE /\ UNCHANGED <<vaKey, vaSeen, vaDay, vaRotated>>
    BY <1>6, <2>0 DEF Store, SaveFile, OthersBehind
  <2>2. vaKey[v] \in Nat \ {0} /\ vaStored + 1 \in Nat
    BY <1>1, <2>0 DEF Opens, VaultTypes
  <2>3. PICK row : row = [vaCache[v] EXCEPT ![n] = vaStored + 1]
    OBVIOUS
  <2>4. vaCache' = [vaCache EXCEPT ![v] = row] /\ row \in [Secrets -> Nat] /\ row[n] = vaStored + 1
        /\ \A m \in Secrets : m # n => row[m] = vaCache[v][m]
    BY <1>1, <2>1, <2>2, <2>3 DEF VaultTypes
  <2>5. VaultTypes'
    BY <1>1, <2>1, <2>2, <2>4 DEF VaultTypes
  <2>6. CacheIsCurrent'
    <3> SUFFICES ASSUME NEW w \in Vaults, NEW m \in Secrets, vaCache'[w][m] # 0,
                        vaCache'[w][m] # vaFile'.secrets[m]
                 PROVE  m \in vaBehind'[w]
      BY DEF CacheIsCurrent
    <3>1. CASE m = n /\ w # v
      BY <2>1, <3>1
    <3>2. CASE m = n /\ w = v
      BY <1>1, <2>1, <2>4, <3>2 DEF VaultTypes
    <3>3. CASE m # n
      <4>1. vaCache'[w][m] = vaCache[w][m]
        BY <1>1, <2>4, <3>3 DEF VaultTypes
      <4>2. vaFile'.secrets[m] = vaFile.secrets[m]
        BY <1>1, <2>1, <3>3 DEF SecretsSurvive, VaultTypes
      <4>3. m \in vaBehind[w]
        BY <1>1, <4>1, <4>2 DEF CacheIsCurrent
      <4> QED
        BY <2>1, <3>3, <4>3
    <3> QED
      BY <3>1, <3>2, <3>3
  <2>7. StampsAreOld'
    BY <1>1, <2>1, StampedToday
  <2> QED
    BY <2>1, <2>2, <2>5, <2>6, <2>7 DEF VaultIInv, SecretsSurvive
<1>7. ASSUME NEW v \in Vaults, NEW n \in Secrets, Retrieve(v, n) PROVE VaultIInv'
  <2>0. Loaded(v) = vaPromised
    BY <1>7, LoadedIsPromised DEF Retrieve
  <2>1. /\ vaCache' = [vaCache EXCEPT ![v][n] = vaPromised[n]]
        /\ vaBehind' = [vaBehind EXCEPT ![v] = vaBehind[v] \ {n}]
        /\ UNCHANGED <<vaKey, vaSeen, vaFile, vaDay, vaStored, vaPromised, vaRotated, vaSaved>>
    BY <1>7, <2>0 DEF Retrieve
  <2>3. PICK row : row = [vaCache[v] EXCEPT ![n] = vaPromised[n]]
    OBVIOUS
  <2>4. vaCache' = [vaCache EXCEPT ![v] = row] /\ row \in [Secrets -> Nat] /\ row[n] = vaPromised[n]
        /\ \A m \in Secrets : m # n => row[m] = vaCache[v][m]
    BY <1>1, <2>1, <2>3 DEF VaultTypes
  <2>5. VaultTypes'
    BY <1>1, <2>1, <2>4 DEF VaultTypes
  <2>6. CacheIsCurrent'
    <3> SUFFICES ASSUME NEW w \in Vaults, NEW m \in Secrets, vaCache'[w][m] # 0,
                        vaCache'[w][m] # vaFile'.secrets[m]
                 PROVE  m \in vaBehind'[w]
      BY DEF CacheIsCurrent
    <3>1. CASE m = n /\ w = v
      BY <1>1, <2>1, <2>4, <3>1 DEF VaultTypes, SecretsSurvive
    <3>2. CASE ~(m = n /\ w = v)
      <4>1. vaCache'[w][m] = vaCache[w][m]
        BY <1>1, <2>4, <3>2 DEF VaultTypes
      <4>2. m \in vaBehind[w]
        BY <1>1, <2>1, <4>1 DEF CacheIsCurrent
      <4> QED
        BY <1>1, <2>1, <3>2, <4>2 DEF VaultTypes
    <3> QED
      BY <3>1, <3>2
  <2>7. StampsAreOld'
    BY <1>1, <2>1 DEF StampsAreOld
  <2> QED
    BY <1>1, <1>2, <2>1, <2>5, <2>6, <2>7 DEF VaultIInv, SecretsSurvive
<1>8. ASSUME NEW v \in Vaults, NEW n \in Secrets, DeleteSecret(v, n) PROVE VaultIInv'
  <2>0. Loaded(v) = vaPromised /\ Opens(v)
    BY <1>8, LoadedIsPromised DEF DeleteSecret
  <2>1. /\ vaPromised' = [vaPromised EXCEPT ![n] = 0] /\ vaCache' = [vaCache EXCEPT ![v][n] = 0]
        /\ vaFile'.key = vaKey[v] /\ vaFile'.stamp = vaDay
        /\ vaFile'.secrets = [vaPromised EXCEPT ![n] = 0]
        /\ vaBehind' = [w \in Vaults |-> IF w = v THEN vaBehind[w] \ {n} ELSE vaBehind[w] \cup {n}]
        /\ vaSaved' = TRUE /\ UNCHANGED <<vaKey, vaSeen, vaDay, vaStored, vaRotated>>
    BY <1>8, <2>0 DEF DeleteSecret, SaveFile, OthersBehind, Forgotten
  <2>2. vaKey[v] \in Nat \ {0}
    BY <1>1, <2>0 DEF Opens, VaultTypes
  <2>3. PICK row : row = [vaCache[v] EXCEPT ![n] = 0]
    OBVIOUS
  <2>4. vaCache' = [vaCache EXCEPT ![v] = row] /\ row \in [Secrets -> Nat] /\ row[n] = 0
        /\ \A m \in Secrets : m # n => row[m] = vaCache[v][m]
    BY <1>1, <2>1, <2>3 DEF VaultTypes
  <2>5. VaultTypes'
    BY <1>1, <2>1, <2>2, <2>4 DEF VaultTypes
  <2>6. CacheIsCurrent'
    <3> SUFFICES ASSUME NEW w \in Vaults, NEW m \in Secrets, vaCache'[w][m] # 0,
                        vaCache'[w][m] # vaFile'.secrets[m]
                 PROVE  m \in vaBehind'[w]
      BY DEF CacheIsCurrent
    <3>1. CASE m = n /\ w # v
      BY <2>1, <3>1
    <3>2. CASE m = n /\ w = v
      BY <1>1, <2>4, <3>2 DEF VaultTypes
    <3>3. CASE m # n
      <4>1. vaCache'[w][m] = vaCache[w][m]
        BY <1>1, <2>4, <3>3 DEF VaultTypes
      <4>2. vaFile'.secrets[m] = vaFile.secrets[m]
        BY <1>1, <2>1, <3>3 DEF SecretsSurvive, VaultTypes
      <4>3. m \in vaBehind[w]
        BY <1>1, <4>1, <4>2 DEF CacheIsCurrent
      <4> QED
        BY <2>1, <3>3, <4>3
    <3> QED
      BY <3>1, <3>2, <3>3
  <2>7. StampsAreOld'
    BY <1>1, <2>1, StampedToday
  <2> QED
    BY <2>1, <2>2, <2>5, <2>6, <2>7 DEF VaultIInv, SecretsSurvive
<1>9. ASSUME NEW v \in Vaults, ClearCache(v) PROVE VaultIInv'
  <2>1. /\ vaCache' = [vaCache EXCEPT ![v] = NoSecrets] /\ vaBehind' = [vaBehind EXCEPT ![v] = {}]
        /\ UNCHANGED <<vaKey, vaSeen, vaFile, vaDay, vaStored, vaPromised, vaRotated, vaSaved>>
    BY <1>9 DEF ClearCache
  <2>2. VaultTypes'
    BY <1>1, <2>1 DEF VaultTypes, NoSecrets
  <2>3. CacheIsCurrent'
    BY <1>1, <2>1 DEF VaultTypes, CacheIsCurrent, NoSecrets
  <2> QED
    BY <1>1, <1>2, <2>1, <2>2, <2>3 DEF VaultIInv, SecretsSurvive, StampsAreOld
<1>10. ASSUME DayPasses PROVE VaultIInv'
  BY <1>1, <1>2, <1>10 DEF DayPasses, VaultIInv, VaultTypes, SecretsSurvive, CacheIsCurrent, StampsAreOld
<1>11. ASSUME UNCHANGED vaVars PROVE VaultIInv'
  BY <1>1, <1>2, <1>11 DEF vaVars, VaultIInv, VaultTypes, SecretsSurvive, CacheIsCurrent, StampsAreOld
<1> QED
  BY <1>4, <1>5, <1>6, <1>7, <1>8, <1>9, <1>10, <1>11 DEF VaultNext

LEMMA VaultHolds == VaultIInv => SecretsSurvive /\ CacheIsCurrent /\ RotationIsAsked
<1> SUFFICES ASSUME VaultIInv PROVE RotationIsAsked
  BY DEF VaultIInv
<1>1. VaultTypes /\ StampsAreOld /\ RotationDays \in Nat
  BY VaultAssumption DEF VaultIInv
<1> QED
  BY <1>1 DEF VaultTypes, StampsAreOld, RotationIsAsked, RotationNeeded

\* The vault, for any instances, secrets, master keys and days between rotations: the
\* file holds what the calls that succeeded left, whoever wrote with whichever key;
\* a cache is behind it only where another instance wrote; and a rotation that is due
\* and not asked for was put off by a save (vault.py).
THEOREM VaultKeeps == VaultSpec => [](SecretsSurvive /\ CacheIsCurrent /\ RotationIsAsked)
<1>1. VaultInit => VaultIInv
  BY VaultInitHolds
<1>2. VaultIInv /\ [VaultNext]_vaVars => VaultIInv'
  BY VaultStep
<1>3. VaultIInv => SecretsSurvive /\ CacheIsCurrent /\ RotationIsAsked
  BY VaultHolds
<1> QED
  BY <1>1, <1>2, <1>3, PTL DEF VaultSpec

------------------------------------------------------------------------------
(* The files that the reward service, the research and the allocator share.  While *)
(* no other process has written a file, its reader has in memory no less than it.  *)

Files == {"trades", "base"}

SharedTypes ==
    /\ DOMAIN srState = Processes /\ DOMAIN srForeign = Processes /\ DOMAIN srMem = Processes
    /\ \A p \in Processes : {"trades", "base", "current"} \subseteq DOMAIN srMem[p]
                            /\ srMem[p].trades \in Nat /\ srMem[p].base \in Nat
    /\ srFile.trades \in Nat \cup {NoFile} /\ srFile.base \in Nat \cup {NoFile}

\* A process that runs has in memory no less than a file holds that no other
\* process has written since it read it.
NoPoorer ==
    \A p \in Processes, f \in Files :
        Alive(p) /\ f \notin srForeign[p] => srMem[p][f] >= srFile[f]

SharedIInv == SharedTypes /\ NoPoorer /\ OnlyStaleSavesLose

LEMMA SharedInitHolds == SharedInit => SharedIInv
<1> SUFFICES ASSUME SharedInit PROVE SharedIInv
  OBVIOUS
<1>1. StartCapital \in Nat
  BY SharedAssumption
<1>2. SharedTypes
  BY <1>1 DEF SharedInit, SharedTypes, Default, NoFile
<1> QED
  BY <1>2 DEF SharedInit, SharedIInv, NoPoorer, Alive, OnlyStaleSavesLose

\* A process that runs saves: its files are what its memory holds, and poorer than
\* before only if others had written them.
LEMMA SavesSoundly ==
    ASSUME SharedIInv, NEW p \in Processes, Alive(p), NEW files \in SUBSET Files, Saves(p, files),
           DOMAIN srState' = Processes, DOMAIN srMem' = Processes,
           \A q \in Processes : Alive(q)' => Alive(q),
           \A q \in Processes : /\ {"trades", "base", "current"} \subseteq DOMAIN srMem'[q]
                                /\ srMem'[q].trades = srMem[q].trades /\ srMem'[q].base = srMem[q].base
    PROVE  SharedIInv'
<1>1. SharedTypes /\ NoPoorer /\ OnlyStaleSavesLose
  BY DEF SharedIInv
<1>2. /\ srFile' = [f \in Files |-> IF f \in files THEN srMem[p][f] ELSE srFile[f]]
      /\ srForeign' = [q \in Processes |-> IF q = p THEN srForeign[q] ELSE srForeign[q] \cup files]
      /\ srLost' = srLost \cup {[file |-> f, foreign |-> f \in srForeign[p]] :
                                     f \in {g \in files : srMem[p][g] < srFile[g]}}
  BY DEF Saves, Files
<1>3. \A q \in Processes, f \in Files : srMem[q][f] \in Nat
  BY <1>1 DEF SharedTypes, Files
<1>4. \A f \in Files : srFile[f] \in Nat \cup {-1}
  BY <1>1 DEF SharedTypes, Files, NoFile
<1>5. \A f \in Files : srFile'[f] \in Nat \cup {-1}
  BY <1>2, <1>3, <1>4
<1>6. SharedTypes'
  BY <1>1, <1>2, <1>5 DEF SharedTypes, Files, NoFile
<1>7. NoPoorer'
  <2> SUFFICES ASSUME NEW q \in Processes, NEW f \in Files, Alive(q)', f \notin srForeign'[q]
               PROVE  srMem'[q][f] >= srFile'[f]
    BY DEF NoPoorer
  <2>1. Alive(q) /\ srMem'[q][f] = srMem[q][f]
    BY DEF Files
  <2>2. CASE q = p /\ f \in files
    BY <1>2, <1>3, <2>1, <2>2
  <2>3. CASE q # p \/ f \notin files
    <3>1. f \notin files /\ f \notin srForeign[q]
      BY <1>2, <2>3
    <3> QED
      BY <1>1, <1>2, <2>1, <3>1 DEF NoPoorer
  <2> QED
    BY <2>2, <2>3
<1>8. OnlyStaleSavesLose'
  <2>1. ASSUME NEW f \in files, srMem[p][f] < srFile[f] PROVE f \in srForeign[p]
    <3>1. f \in Files
      OBVIOUS
    <3>2. ~(srMem[p][f] >= srFile[f])
      BY <1>3, <1>4, <2>1, <3>1
    <3> QED
      BY <1>1, <3>1, <3>2 DEF NoPoorer
  <2>2. ASSUME NEW l \in srLost' PROVE l.foreign
    <3>1. CASE l \in srLost
      BY <1>1, <3>1 DEF OnlyStaleSavesLose
    <3>2. CASE l \notin srLost
      <4>1. PICK f \in {g \in files : srMem[p][g] < srFile[g]} : l = [file |-> f, foreign |-> f \in srForeign[p]]
        BY <1>2, <3>2
      <4>2. f \in srForeign[p]
        BY <2>1, <4>1
      <4>3. l.foreign = (f \in srForeign[p])
        BY ONLY <4>1
      <4> QED
        BY <4>2, <4>3
    <3> QED
      BY <3>1, <3>2
  <2> QED
    BY <2>2 DEF OnlyStaleSavesLose
<1> QED
  BY <1>6, <1>7, <1>8 DEF SharedIInv

\* Without a save a memory that only grows, and a process that ends, change nothing
\* of it.
LEMMA GrowsSoundly ==
    ASSUME SharedIInv, NothingSaved, DOMAIN srState' = Processes, DOMAIN srMem' = Processes,
           \A q \in Processes : Alive(q)' => Alive(q),
           \A q \in Processes : /\ {"trades", "base", "current"} \subseteq DOMAIN srMem'[q]
                                /\ srMem'[q].trades \in Nat /\ srMem'[q].trades >= srMem[q].trades
                                /\ srMem'[q].base \in Nat /\ srMem'[q].base >= srMem[q].base
    PROVE  SharedIInv'
<1>1. SharedTypes /\ NoPoorer /\ OnlyStaleSavesLose
  BY DEF SharedIInv
<1>2. SharedTypes'
  BY <1>1 DEF SharedTypes, NothingSaved
<1>3. NoPoorer'
  <2> SUFFICES ASSUME NEW q \in Processes, NEW f \in Files, Alive(q)', f \notin srForeign'[q]
               PROVE  srMem'[q][f] >= srFile'[f]
    BY DEF NoPoorer
  <2>1. srMem[q][f] >= srFile[f]
    BY <1>1 DEF NoPoorer, NothingSaved
  <2>2. srMem[q][f] \in Nat /\ srMem'[q][f] \in Nat /\ srMem'[q][f] >= srMem[q][f]
    BY <1>1 DEF SharedTypes, Files
  <2>3. srFile[f] \in Nat \cup {-1} /\ srFile'[f] = srFile[f]
    BY <1>1 DEF SharedTypes, Files, NothingSaved, NoFile
  <2> QED
    BY <2>1, <2>2, <2>3
<1> QED
  BY <1>1, <1>2, <1>3 DEF SharedIInv, OnlyStaleSavesLose, NothingSaved

\* What a process has read.
LEMMA ReadsSoundly ==
    ASSUME SharedIInv, NEW p \in Processes, StartProcess(p)
    PROVE  SharedIInv'
<1>1. SharedTypes /\ NoPoorer /\ OnlyStaleSavesLose
  BY DEF SharedIInv
<1>2. PICK mem : mem = LoadedFiles
  OBVIOUS
<1>3. /\ srState' = [srState EXCEPT ![p] = "up"] /\ srMem' = [srMem EXCEPT ![p] = mem]
      /\ srForeign' = [srForeign EXCEPT ![p] = {}] /\ UNCHANGED <<srFile, srLost>>
  BY <1>2 DEF StartProcess
<1>4. StartCapital \in Nat
  BY SharedAssumption
<1>5. /\ {"trades", "base", "current"} \subseteq DOMAIN mem
      /\ mem.trades = (IF srFile.trades = NoFile THEN 0 ELSE srFile.trades)
      /\ mem.base = (IF srFile.base = NoFile THEN StartCapital ELSE srFile.base)
  BY <1>2 DEF LoadedFiles
<1>6. /\ mem.trades \in Nat /\ mem.trades >= srFile.trades
      /\ mem.base \in Nat /\ mem.base >= srFile.base
  BY <1>1, <1>4, <1>5 DEF SharedTypes, NoFile
<1>7. SharedTypes'
  BY <1>1, <1>3, <1>5, <1>6 DEF SharedTypes
<1>8. NoPoorer'
  <2> SUFFICES ASSUME NEW q \in Processes, NEW f \in Files, Alive(q)', f \notin srForeign'[q]
               PROVE  srMem'[q][f] >= srFile'[f]
    BY DEF NoPoorer
  <2>1. CASE q = p
    BY <1>1, <1>3, <1>6, <2>1 DEF SharedTypes, Files
  <2>2. CASE q # p
    <3>1. Alive(q) /\ f \notin srForeign[q]
      BY <1>1, <1>3, <2>2 DEF SharedTypes, Alive
    <3>2. srMem[q][f] >= srFile[f]
      BY <1>1, <3>1 DEF NoPoorer
    <3> QED
      BY <1>1, <1>3, <2>2, <3>2 DEF SharedTypes
  <2> QED
    BY <2>1, <2>2
<1> QED
  BY <1>1, <1>3, <1>7, <1>8 DEF SharedIInv, OnlyStaleSavesLose

\* Putting a bot's capital back to its base touches neither of what is saved.
LEMMA ReallocatedKeeps ==
    ASSUME SharedTypes, NEW p \in Processes, Reallocated(p)
    PROVE  /\ DOMAIN srMem' = Processes
           /\ \A q \in Processes : /\ {"trades", "base", "current"} \subseteq DOMAIN srMem'[q]
                                   /\ srMem'[q].trades = srMem[q].trades /\ srMem'[q].base = srMem[q].base
<1>1. PICK mem : mem = [srMem[p] EXCEPT !.current = srMem[p].base]
  OBVIOUS
<1>2. srMem' = [srMem EXCEPT ![p] = mem] /\ {"trades", "base", "current"} \subseteq DOMAIN mem
      /\ mem.trades = srMem[p].trades /\ mem.base = srMem[p].base
  BY <1>1 DEF Reallocated, SharedTypes
<1> QED
  BY <1>2 DEF SharedTypes

LEMMA SharedStep == SharedIInv /\ [SharedNext]_srVars => SharedIInv'
<1> SUFFICES ASSUME SharedIInv, [SharedNext]_srVars PROVE SharedIInv'
  OBVIOUS
<1>1. SharedTypes
  BY DEF SharedIInv
<1>2. Listening \subseteq Processes /\ "board" \in Processes
  BY DEF Processes
<1>3. ASSUME UNCHANGED srMem
      PROVE  /\ DOMAIN srMem' = Processes
             /\ \A q \in Processes : /\ {"trades", "base", "current"} \subseteq DOMAIN srMem'[q]
                                     /\ srMem'[q].trades = srMem[q].trades /\ srMem'[q].base = srMem[q].base
  BY <1>1, <1>3 DEF SharedTypes
<1>4. ASSUME NEW p \in Processes, NEW s \in {"lingering", "down"}, srState' = [srState EXCEPT ![p] = s],
             Alive(p)
      PROVE  DOMAIN srState' = Processes /\ \A q \in Processes : Alive(q)' => Alive(q)
  BY <1>1, <1>4 DEF SharedTypes, Alive
<1>5. ASSUME UNCHANGED srState
      PROVE  DOMAIN srState' = Processes /\ \A q \in Processes : Alive(q)' => Alive(q)
  BY <1>1, <1>5 DEF SharedTypes, Alive
<1>6. \A q \in Processes : srMem[q].trades \in Nat /\ srMem[q].base \in Nat
                            /\ srMem[q].trades >= srMem[q].trades /\ srMem[q].base >= srMem[q].base
  BY <1>1 DEF SharedTypes
<1>7. ASSUME NEW p \in Processes, StopProcess(p) PROVE SharedIInv'
  <2>1. /\ Alive(p) /\ Saves(p, Files) /\ UNCHANGED srMem
        /\ srState' = [srState EXCEPT ![p] = "lingering"]
    BY <1>7 DEF StopProcess, Alive, Files
  <2> QED
    BY <1>3, <1>4, <2>1, SavesSoundly
<1>8. ASSUME NEW p \in Processes, ProcessEnds(p) PROVE SharedIInv'
  <2>1. /\ Alive(p) /\ Saves(p, Files) /\ UNCHANGED srMem
        /\ srState' = [srState EXCEPT ![p] = "down"]
    BY <1>8 DEF ProcessEnds, Alive, Files
  <2> QED
    BY <1>3, <1>4, <2>1, SavesSoundly
<1>9. ASSUME NEW p \in Processes, ProcessKilled(p) PROVE SharedIInv'
  <2>1. NothingSaved /\ UNCHANGED srMem /\ srState' = [srState EXCEPT ![p] = "down"] /\ Alive(p)
    BY <1>9 DEF ProcessKilled
  <2> QED
    BY <1>3, <1>4, <1>6, <2>1, GrowsSoundly
<1>10. ASSUME NEW p \in Processes, DailyRun(p) PROVE SharedIInv'
  <2>1. NothingSaved /\ Reallocated(p) /\ UNCHANGED srState
    BY <1>10 DEF DailyRun
  <2> QED
    BY <1>1, <1>5, <1>6, <2>1, ReallocatedKeeps, GrowsSoundly
<1>11. ASSUME NEW p \in Processes, RunGoesOn(p) PROVE SharedIInv'
  <2>1. PICK files : files = Follows(p, srAt[p])
    OBVIOUS
  <2>2. Alive(p) /\ Saves(p, files) /\ UNCHANGED <<srState, srMem>> /\ files \in SUBSET Files
    BY <1>11, <2>1 DEF RunGoesOn, Follows, Files
  <2> QED
    BY <1>3, <1>5, <2>2, SavesSoundly
<1>12. ASSUME NEW p \in Processes, RunFails(p) PROVE SharedIInv'
  <2>1. NothingSaved /\ UNCHANGED <<srState, srMem>>
    BY <1>12 DEF RunFails
  <2> QED
    BY <1>3, <1>5, <1>6, <2>1, GrowsSoundly
<1>13. ASSUME NEW p \in Processes, CeoInvest(p) PROVE SharedIInv'
  <2>1. PICK mem : mem = [srMem[p] EXCEPT !.base = srMem[p].base + 1, !.current = srMem[p].current + 1]
    OBVIOUS
  <2>2. NothingSaved /\ UNCHANGED srState /\ srMem' = [srMem EXCEPT ![p] = mem]
    BY <1>13, <2>1 DEF CeoInvest
  <2>3. /\ {"trades", "base", "current"} \subseteq DOMAIN mem
        /\ mem.trades = srMem[p].trades /\ mem.base = srMem[p].base + 1
    BY <1>1, <2>1 DEF SharedTypes
  <2>4. /\ DOMAIN srMem' = Processes
        /\ \A q \in Processes : /\ {"trades", "base", "current"} \subseteq DOMAIN srMem'[q]
                                /\ srMem'[q].trades \in Nat /\ srMem'[q].trades >= srMem[q].trades
                                /\ srMem'[q].base \in Nat /\ srMem'[q].base >= srMem[q].base
    BY <1>1, <1>6, <2>2, <2>3 DEF SharedTypes
  <2> QED
    BY <1>5, <2>2, <2>4, GrowsSoundly
<1>14. ASSUME NEW heard \in SUBSET Listening, TradePublished(heard) PROVE SharedIInv'
  <2>1. /\ NothingSaved /\ UNCHANGED srState
        /\ srMem' = [p \in Processes |->
                        IF p \in heard THEN [srMem[p] EXCEPT !.trades = srMem[p].trades + 1] ELSE srMem[p]]
    BY <1>14 DEF TradePublished
  <2>2. ASSUME NEW q \in Processes
        PROVE  /\ {"trades", "base", "current"} \subseteq DOMAIN srMem'[q]
               /\ srMem'[q].trades \in Nat /\ srMem'[q].trades >= srMem[q].trades
               /\ srMem'[q].base \in Nat /\ srMem'[q].base >= srMem[q].base
    <3>1. PICK mem : mem = [srMem[q] EXCEPT !.trades = srMem[q].trades + 1]
      OBVIOUS
    <3>2. /\ {"trades", "base", "current"} \subseteq DOMAIN mem
          /\ mem.trades = srMem[q].trades + 1 /\ mem.base = srMem[q].base
      BY <1>1, <3>1 DEF SharedTypes
    <3>3. srMem'[q] = IF q \in heard THEN mem ELSE srMem[q]
      BY <2>1, <3>1
    <3> QED
      BY <1>1, <1>6, <3>2, <3>3 DEF SharedTypes
  <2>3. DOMAIN srMem' = Processes
    BY <2>1
  <2> QED
    BY <1>5, <2>1, <2>2, <2>3, GrowsSoundly
<1>15. ASSUME NEW file \in Files, BoardActs(file) PROVE SharedIInv'
  <2>1. /\ Alive("board") /\ Saves("board", {file}) /\ UNCHANGED srState
        /\ Reallocated("board") \/ UNCHANGED srMem
    BY <1>15 DEF BoardActs, Alive
  <2>2. /\ DOMAIN srMem' = Processes
        /\ \A q \in Processes : /\ {"trades", "base", "current"} \subseteq DOMAIN srMem'[q]
                                /\ srMem'[q].trades = srMem[q].trades /\ srMem'[q].base = srMem[q].base
    BY <1>1, <1>2, <1>3, <2>1, ReallocatedKeeps
  <2> QED
    BY <1>2, <1>5, <2>1, <2>2, SavesSoundly
<1>16. ASSUME UNCHANGED srVars PROVE SharedIInv'
  <2>1. NothingSaved /\ UNCHANGED <<srState, srMem>>
    BY <1>16 DEF srVars, NothingSaved
  <2> QED
    BY <1>3, <1>5, <1>6, <2>1, GrowsSoundly
<1> QED
  BY <1>2, <1>7, <1>8, <1>9, <1>10, <1>11, <1>12, <1>13, <1>14, <1>15, <1>16, ReadsSoundly DEF SharedNext, Files

\* The files of the rewards, for any services, trades, investments and starts: a
\* save makes a file poorer only when another process has written it since this
\* one read it (reward_service.py, rnd_with_reward.py, capital_allocator.py).
THEOREM SharedKeeps == SharedSpec => []OnlyStaleSavesLose
<1>1. SharedInit => SharedIInv
  BY SharedInitHolds
<1>2. SharedIInv /\ [SharedNext]_srVars => SharedIInv'
  BY SharedStep
<1>3. SharedIInv => OnlyStaleSavesLose
  BY DEF SharedIInv
<1> QED
  BY <1>1, <1>2, <1>3, PTL DEF SharedSpec

------------------------------------------------------------------------------
(* The control tower's collector.  Unless a start came into a stop, a task that    *)
(* lives is known, and a stop waits for all of them.                               *)

TowerTypes ==
    /\ IsFiniteSet(ctAdapters) /\ DOMAIN ctLoop = Collectors
    /\ {ctRunning, ctStopping, ctOverlap} \subseteq BOOLEAN

\* While no start came into a stop: every task that lives is known; a stop waits
\* for all of them, and has cancelled them; and a collector that is stopped has
\* none.
TasksAreKnown ==
    /\ \A i \in Collectors : TaskLives(i) => i \in ctTasks
    /\ ctStopping => /\ ~ctRunning /\ ctStop = ctTasks
                     /\ \A i \in Collectors : TaskLives(i) => ctLoop[i].at = "cancelled"

TowerIInv == TowerTypes /\ (~ctOverlap => TasksAreKnown /\ OneCollectorEach)

\* The steps of a task: it lives on, or ends, as long as the others stay as they are.
LEMMA TaskGoesOn ==
    ASSUME TowerIInv, NEW i \in Collectors, NEW to, TaskLives(i),
           ctLoop' = [ctLoop EXCEPT ![i].at = to], to \in {"turn", "fetching", "done"},
           ctLoop[i].at = "cancelled" => to = "done",
           ~ctRunning => to \in {"turn", "done"},
           UNCHANGED <<ctHeld, ctAdapters>>
    PROVE  TowerIInv'
<1>1. TowerTypes /\ UNCHANGED <<ctRunning, ctTasks, ctStop, ctStopping, ctOverlap, ctAdapters>>
  BY DEF TowerIInv, ctHeld
<1>2. /\ DOMAIN ctLoop' = Collectors /\ ctLoop'[i].at = to /\ ctLoop'[i].of = ctLoop[i].of
      /\ \A j \in Collectors : j # i => ctLoop'[j] = ctLoop[j]
  BY <1>1 DEF TowerTypes
<1>3. TowerTypes'
  BY <1>1, <1>2 DEF TowerTypes
<1>4. \A j \in Collectors : TaskLives(j)' => TaskLives(j)
  BY <1>2 DEF TaskLives
<1>5. ASSUME ~ctOverlap PROVE (TasksAreKnown /\ OneCollectorEach)'
  <2>1. TasksAreKnown /\ OneCollectorEach
    BY <1>5 DEF TowerIInv
  <2>2. TasksAreKnown'
    <3>1. \A j \in Collectors : TaskLives(j)' => j \in ctTasks
      BY <1>4, <2>1 DEF TasksAreKnown
    <3>2. ASSUME ctStopping PROVE \A j \in Collectors : TaskLives(j)' => ctLoop'[j].at = "cancelled"
      BY <1>2, <2>1, <3>2 DEF TasksAreKnown, TaskLives
    <3> QED
      BY <1>1, <2>1, <3>1, <3>2 DEF TasksAreKnown
  <2>3. OneCollectorEach'
    <3>1. ASSUME NEW j \in Collectors, NEW k \in Collectors, j # k, TaskLives(j)', TaskLives(k)',
                 ctLoop'[j].of = ctLoop'[k].of
          PROVE  "cancelled" \in {ctLoop'[j].at, ctLoop'[k].at}
      <4>1. ctLoop[j].of = ctLoop[k].of /\ TaskLives(j) /\ TaskLives(k)
        BY <1>2, <1>4, <3>1
      <4>2. "cancelled" \in {ctLoop[j].at, ctLoop[k].at}
        BY <1>5, <2>1, <3>1, <4>1 DEF OneCollectorEach
      <4> QED
        BY <1>2, <3>1, <4>2 DEF TaskLives
    <3>2. ~ctRunning /\ ~ctStopping => \A j \in Collectors : ~TaskLives(j)'
      BY <1>4, <1>5, <2>1 DEF OneCollectorEach
    <3> QED
      BY <1>1, <3>1, <3>2 DEF OneCollectorEach
  <2> QED
    BY <2>2, <2>3
<1> QED
  BY <1>1, <1>3, <1>5 DEF TowerIInv

\* A start gives every task of it another target.
LEMMA OneTaskEach ==
    ASSUME NEW S, IsFiniteSet(S), NEW ids, IsFiniteSet(ids), Cardinality(ids) = Cardinality(S),
           NEW of \in [ids -> S], {of[i] : i \in ids} = S
    PROVE  \A i, j \in ids : of[i] = of[j] => i = j
<1>1. of \in Surjection(ids, S)
  BY DEF Surjection
<1>2. of \in Injection(ids, S)
  BY <1>1, FS_SurjSameCardinalityImpliesInj
<1> QED
  BY <1>2 DEF Injection, IsInjective

LEMMA StartedTasks ==
    ASSUME TowerTypes, NEW ids \in NextIds
    PROVE  /\ ids \subseteq Collectors /\ IsFiniteSet(ids) /\ Cardinality(ids) = Cardinality(Targets)
           /\ IsFiniteSet(Targets)
<1>1. IsFiniteSet(Targets)
  BY FS_AddElement DEF Targets, TowerTypes
<1>2. PICK n \in Nat : n = Cardinality(Targets)
  BY <1>1, FS_CardinalityType
<1>3. PICK a \in Collectors : ids = a .. (a + n - 1) /\ a + n - 1 <= MaxCollectors
  BY <1>2 DEF NextIds
<1>4. a \in Nat /\ a >= 1 /\ MaxCollectors \in Nat /\ a + n - 1 \in Int
  BY TowerAssumption DEF Collectors
<1>5. ids \subseteq Collectors
  BY <1>2, <1>3, <1>4 DEF Collectors
<1>6. IsFiniteSet(ids) /\ Cardinality(ids) = n
  <2>1. IsFiniteSet(ids) /\ Cardinality(ids) = IF a > a + n - 1 THEN 0 ELSE (a + n - 1) - a + 1
    BY <1>3, <1>4, FS_Interval
  <2> QED
    BY <1>2, <1>4, <2>1
<1> QED
  BY <1>1, <1>2, <1>5, <1>6

LEMMA StartStep ==
    ASSUME TowerIInv, NEW ids \in NextIds, NEW of \in [ids -> Targets], {of[i] : i \in ids} = Targets,
           StartCollection(ids, of)
    PROVE  TowerIInv'
<1>1. TowerTypes
  BY DEF TowerIInv
<1>2. ids \subseteq Collectors /\ \A i, j \in ids : of[i] = of[j] => i = j
  <2>1. PICK S : S = Targets
    OBVIOUS
  <2>2. ids \subseteq Collectors /\ IsFiniteSet(ids) /\ Cardinality(ids) = Cardinality(S) /\ IsFiniteSet(S)
    BY <1>1, <2>1, StartedTasks
  <2>3. of \in [ids -> S] /\ {of[i] : i \in ids} = S
    BY <2>1
  <2> QED
    BY <2>2, <2>3, OneTaskEach
<1>3. /\ ~ctRunning /\ ctRunning' = TRUE /\ ctTasks' = ctTasks \cup ids
      /\ ctLoop' = [i \in Collectors |-> IF i \in ids THEN [of |-> of[i], at |-> "turn"] ELSE ctLoop[i]]
      /\ ctOverlap' = (ctOverlap \/ ctStopping)
      /\ UNCHANGED <<ctStop, ctStopping, ctAdapters>>
  BY DEF StartCollection
<1>4. /\ DOMAIN ctLoop' = Collectors
      /\ \A i \in ids : ctLoop'[i].of = of[i] /\ ctLoop'[i].at = "turn"
      /\ \A i \in Collectors : i \notin ids => ctLoop'[i] = ctLoop[i]
  BY <1>2, <1>3
<1>5. TowerTypes'
  BY <1>1, <1>3, <1>4 DEF TowerTypes
<1>6. ASSUME ~ctOverlap' PROVE (TasksAreKnown /\ OneCollectorEach)'
  <2>1. ~ctOverlap /\ ~ctStopping /\ TasksAreKnown /\ OneCollectorEach
    BY <1>3, <1>6 DEF TowerIInv
  <2>2. \A i \in Collectors : ~TaskLives(i)
    BY <1>3, <2>1 DEF OneCollectorEach
  <2>3. \A i \in Collectors : TaskLives(i)' => i \in ids
    BY <1>4, <2>2 DEF TaskLives
  <2>4. TasksAreKnown'
    BY <1>3, <2>1, <2>3 DEF TasksAreKnown
  <2>5. OneCollectorEach'
    BY <1>2, <1>3, <1>4, <2>3 DEF OneCollectorEach
  <2> QED
    BY <2>4, <2>5
<1> QED
  BY <1>5, <1>6 DEF TowerIInv

LEMMA StopStep ==
    ASSUME TowerIInv, StopCollection
    PROVE  TowerIInv'
<1>1. TowerTypes
  BY DEF TowerIInv
<1>2. /\ ~ctStopping /\ ctRunning' = FALSE /\ ctStop' = ctTasks /\ ctStopping' = TRUE
      /\ ctLoop' = [i \in Collectors |-> IF i \in ctTasks /\ TaskLives(i) THEN [ctLoop[i] EXCEPT !.at = "cancelled"]
                                                                          ELSE ctLoop[i]]
      /\ UNCHANGED <<ctTasks, ctOverlap, ctAdapters>>
  BY DEF StopCollection
<1>3. DOMAIN ctLoop' = Collectors
  BY <1>2
<1>4. TowerTypes'
  BY <1>1, <1>2, <1>3 DEF TowerTypes
<1>5. ASSUME ~ctOverlap PROVE (TasksAreKnown /\ OneCollectorEach)'
  <2>1. TasksAreKnown /\ OneCollectorEach
    BY <1>5 DEF TowerIInv
  <2>2. ASSUME NEW i \in Collectors, TaskLives(i)' PROVE i \in ctTasks /\ ctLoop'[i].at = "cancelled"
    <3>1. ctLoop'[i] = IF i \in ctTasks /\ TaskLives(i) THEN [ctLoop[i] EXCEPT !.at = "cancelled"] ELSE ctLoop[i]
      BY <1>2
    <3>2. CASE TaskLives(i)
      <4>1. i \in ctTasks
        BY <2>1, <3>2 DEF TasksAreKnown
      <4>2. ctLoop'[i] = [ctLoop[i] EXCEPT !.at = "cancelled"]
        BY <3>1, <3>2, <4>1
      <4>3. ctLoop'[i].at \in {"turn", "fetching", "cancelled"}
        BY <2>2 DEF TaskLives
      <4> QED
        BY <4>1, <4>2, <4>3
    <3>3. CASE ~TaskLives(i)
      BY <2>2, <3>1, <3>3 DEF TaskLives
    <3> QED
      BY <3>2, <3>3
  <2>3. TasksAreKnown'
    BY <1>2, <2>2 DEF TasksAreKnown
  <2>4. OneCollectorEach'
    BY <1>2, <2>2 DEF OneCollectorEach
  <2> QED
    BY <2>3, <2>4
<1> QED
  BY <1>2, <1>4, <1>5 DEF TowerIInv

LEMMA StoppedStep ==
    ASSUME TowerIInv, CollectionStopped
    PROVE  TowerIInv'
<1>1. TowerTypes
  BY DEF TowerIInv
<1>2. /\ ctStopping /\ \A i \in ctStop : ~TaskLives(i)
      /\ ctStop' = {} /\ ctStopping' = FALSE /\ ctTasks' = {}
      /\ UNCHANGED <<ctRunning, ctLoop, ctOverlap, ctAdapters>>
  BY DEF CollectionStopped
<1>3. TowerTypes'
  BY <1>1, <1>2 DEF TowerTypes
<1>4. ASSUME ~ctOverlap PROVE (TasksAreKnown /\ OneCollectorEach)'
  <2>1. TasksAreKnown /\ OneCollectorEach
    BY <1>4 DEF TowerIInv
  <2>2. \A i \in Collectors : ~TaskLives(i)
    BY <1>2, <2>1 DEF TasksAreKnown
  <2>3. \A i \in Collectors : ~TaskLives(i)'
    BY <1>2, <2>2 DEF TaskLives
  <2>4. TasksAreKnown'
    BY <1>2, <2>3 DEF TasksAreKnown
  <2>5. OneCollectorEach'
    BY <2>3 DEF OneCollectorEach
  <2> QED
    BY <2>4, <2>5
<1> QED
  BY <1>2, <1>3, <1>4 DEF TowerIInv

\* Steps that touch no task.
LEMMA TasksStay ==
    ASSUME TowerIInv, UNCHANGED <<ctLoop, ctHeld>>, IsFiniteSet(ctAdapters')
    PROVE  TowerIInv'
<1>1. UNCHANGED <<ctRunning, ctTasks, ctStop, ctStopping, ctOverlap, ctLoop>>
  BY DEF ctHeld
<1>2. TowerTypes'
  BY <1>1 DEF TowerIInv, TowerTypes
<1>3. \A i \in Collectors : TaskLives(i)' <=> TaskLives(i)
  BY <1>1 DEF TaskLives
<1>4. TasksAreKnown => TasksAreKnown'
  BY <1>1, <1>3 DEF TasksAreKnown
<1>5. OneCollectorEach => OneCollectorEach'
  BY <1>1, <1>3 DEF OneCollectorEach
<1> QED
  BY <1>1, <1>2, <1>4, <1>5 DEF TowerIInv

LEMMA TowerInitHolds == TowerInit => TowerIInv
<1> SUFFICES ASSUME TowerInit PROVE TowerIInv
  OBVIOUS
<1>1. TowerTypes
  BY FS_EmptySet DEF TowerInit, TowerTypes
<1>2. \A i \in Collectors : ~TaskLives(i)
  BY DEF TowerInit, TaskLives, NoLoop
<1>3. TasksAreKnown
  BY <1>2 DEF TowerInit, TasksAreKnown
<1>4. OneCollectorEach
  BY <1>2 DEF OneCollectorEach
<1> QED
  BY <1>1, <1>3, <1>4 DEF TowerIInv

LEMMA TowerStep == TowerIInv /\ [TowerNext]_ctVars => TowerIInv'
<1> SUFFICES ASSUME TowerIInv, [TowerNext]_ctVars PROVE TowerIInv'
  OBVIOUS
<1>1. IsFiniteSet(ctAdapters) /\ TowerTypes
  BY DEF TowerIInv, TowerTypes
<1>2. ASSUME NEW x \in TowerExchanges, AddExchange(x) PROVE TowerIInv'
  <2>1. UNCHANGED <<ctLoop, ctHeld>> /\ ctAdapters' = ctAdapters \cup {x}
    BY <1>2 DEF AddExchange
  <2>2. IsFiniteSet(ctAdapters')
    BY <1>1, <2>1, FS_AddElement
  <2> QED
    BY <2>1, <2>2, TasksStay
<1>3. ASSUME NEW x \in TowerExchanges, RemoveExchange(x) PROVE TowerIInv'
  <2>1. UNCHANGED <<ctLoop, ctHeld>> /\ ctAdapters' = ctAdapters \ {x}
    BY <1>3 DEF RemoveExchange
  <2>2. IsFiniteSet(ctAdapters')
    BY <1>1, <2>1, FS_Subset
  <2> QED
    BY <2>1, <2>2, TasksStay
<1>4. ASSUME NEW i \in Collectors, LoopTurns(i) PROVE TowerIInv'
  <2>1. PICK to : to = IF ~ctRunning THEN "done" ELSE IF ctLoop[i].of = "snapshots" THEN "turn" ELSE "fetching"
    OBVIOUS
  <2>2. ctLoop[i].at = "turn" /\ ctLoop' = [ctLoop EXCEPT ![i].at = to] /\ UNCHANGED <<ctHeld, ctAdapters>>
    BY <1>4, <2>1 DEF LoopTurns
  <2>3. /\ TaskLives(i) /\ to \in {"turn", "fetching", "done"} /\ ctLoop[i].at # "cancelled"
        /\ ~ctRunning => to \in {"turn", "done"}
    BY <2>1, <2>2 DEF TaskLives
  <2> QED
    BY <2>2, <2>3, TaskGoesOn
<1>5. ASSUME NEW i \in Collectors, LoopCaches(i) PROVE TowerIInv'
  <2>1. ctLoop[i].at = "fetching" /\ ctLoop' = [ctLoop EXCEPT ![i].at = "turn"] /\ UNCHANGED <<ctHeld, ctAdapters>>
    BY <1>5 DEF LoopCaches
  <2>2. TaskLives(i) /\ ctLoop[i].at # "cancelled"
    BY <2>1 DEF TaskLives
  <2> QED
    BY <2>1, <2>2, TaskGoesOn
<1>6. ASSUME NEW i \in Collectors, LoopCancelled(i) PROVE TowerIInv'
  <2>1. ctLoop[i].at = "cancelled" /\ ctLoop' = [ctLoop EXCEPT ![i].at = "done"] /\ UNCHANGED <<ctHeld, ctAdapters>>
    BY <1>6 DEF LoopCancelled
  <2>2. TaskLives(i)
    BY <2>1 DEF TaskLives
  <2> QED
    BY <2>1, <2>2, TaskGoesOn
<1>7. ASSUME UNCHANGED ctVars PROVE TowerIInv'
  <2>1. UNCHANGED <<ctLoop, ctHeld>> /\ ctAdapters' = ctAdapters
    BY <1>7 DEF ctVars
  <2> QED
    BY <1>1, <2>1, TasksStay
<1> QED
  BY <1>2, <1>3, <1>4, <1>5, <1>6, <1>7, StartStep, StopStep, StoppedStep DEF TowerNext

\* The control tower's collector, for any exchanges and number of tasks: one task
\* collects an exchange, and none once the collector is stopped, unless a start came
\* into a stop (collector.py).
THEOREM TowerCollects == TowerSpec => []OneCollectorEach
<1>1. TowerInit => TowerIInv
  BY TowerInitHolds
<1>2. TowerIInv /\ [TowerNext]_ctVars => TowerIInv'
  BY TowerStep
<1>3. TowerIInv => OneCollectorEach
  BY DEF TowerIInv, OneCollectorEach
<1> QED
  BY <1>1, <1>2, <1>3, PTL DEF TowerSpec

------------------------------------------------------------------------------
(* The way of a trade from the client's buffer through the broker to the reward    *)
(* service.  A report has one delivery still to come, unless a publish raised, and *)
(* the counts and the queue hold no more than the deliveries it has had.           *)

FeedTypes ==
    /\ rfReported \in 0 .. FeedTrades /\ rfSending \in 0 .. rfReported /\ rfFlush \in Nat
    /\ rfBuffer \in Seq(1 .. rfReported) /\ rfQueue \in Seq(1 .. rfReported)
    /\ rfTwice \subseteq 1 .. rfReported
    /\ {rfOnline, rfListening, rfDaily} \subseteq BOOLEAN
    /\ rfCount \in [Reports -> Nat] /\ rfSaved \in [Reports -> Nat]

\* A report is at one place of the client at most, which publishes and flushes
\* only while it is connected.
ClientSound ==
    /\ \A i, j \in DOMAIN rfBuffer : rfBuffer[i] = rfBuffer[j] => i = j
    /\ rfSending # 0 => rfOnline /\ rfFlush = 0 /\ rfSending \notin RangeOf(rfBuffer) \cup rfTwice
    /\ rfFlush # 0 => rfOnline

\* The client may still deliver the report.
MayCome(t) == rfSending = t \/ \E i \in DOMAIN rfBuffer : i >= rfFlush /\ rfBuffer[i] = t

\* Counted, queued or still to come: no more than the deliveries there may be.
NotTooOften ==
    \A t \in Reports :
        /\ rfSaved[t] <= rfCount[t]
        /\ t > rfReported => rfCount[t] = 0
        /\ rfCount[t] + Cardinality(Places(rfQueue, t)) + (IF MayCome(t) THEN 1 ELSE 0)
              <= IF t \in rfTwice THEN 2 ELSE 1

\* What a flush has been through arrived or was lost.
FlushedIsGone ==
    \A i \in DOMAIN rfBuffer :
        i < rfFlush => \/ rfBuffer[i] \in rfLost \cup RangeOf(rfQueue) \/ rfCount[rfBuffer[i]] > 0

FeedIInv == FeedTypes /\ ClientSound /\ NotTooOften /\ FlushedIsGone /\ ReportsArrive

\* What a cut of a sequence is made of.
LEMMA CutOf ==
    ASSUME NEW S, NEW queue \in Seq(S), NEW a \in Nat, NEW b \in Nat, 1 <= a, a <= b, b <= Len(queue)
    PROVE  /\ SubSeq(queue, a, b) \in Seq(S) /\ Len(SubSeq(queue, a, b)) = b - a + 1
           /\ \A i \in 1 .. (b - a + 1) : SubSeq(queue, a, b)[i] = queue[i + a - 1]
  OBVIOUS

\* What a trade counts for: what is counted, queued and may come.
Load(t) == rfCount[t] + Cardinality(Places(rfQueue, t)) + (IF MayCome(t) THEN 1 ELSE 0)

LEMMA QueueCounts ==
    ASSUME FeedTypes, NEW t
    PROVE  Cardinality(Places(rfQueue, t)) \in Nat
<1>1. PICK q \in Seq(1 .. rfReported) : q = rfQueue
  BY DEF FeedTypes
<1>2. Cardinality(Places(q, t)) \in Nat
  BY PlacesFinite
<1> QED
  BY <1>1, <1>2

LEMMA QueueOf ==
    ASSUME FeedTypes, NEW t, t \notin RangeOf(rfQueue)
    PROVE  Cardinality(Places(rfQueue, t)) = 0
<1>1. DOMAIN rfQueue = 1 .. Len(rfQueue)
  BY DEF FeedTypes
<1>2. Places(rfQueue, t) = {}
  BY <1>1 DEF Places, RangeOf
<1> QED
  BY <1>2, FS_EmptySet

\* What the broker does with a trade.
LEMMA DeliveryCounts ==
    ASSUME FeedTypes, NEW s \in 1 .. rfReported, Delivered(s)
    PROVE  /\ rfQueue' \in Seq(1 .. rfReported)
           /\ RangeOf(rfQueue) \subseteq RangeOf(rfQueue') /\ rfLost \subseteq rfLost'
           /\ s \in rfLost' \cup RangeOf(rfQueue')
           /\ \A t \in Reports : /\ Cardinality(Places(rfQueue', t)) \in Nat
                                 /\ Cardinality(Places(rfQueue', t)) <= Cardinality(Places(rfQueue, t)) + (IF t = s THEN 1 ELSE 0)
<1>1. PICK S : S = 1 .. rfReported
  OBVIOUS
<1>2. PICK q \in Seq(S) : q = rfQueue
  BY <1>1 DEF FeedTypes
<1>3. ASSUME NEW t PROVE Cardinality(Places(q, t)) \in Nat
  BY PlacesFinite
<1>4. CASE rfListening
  <2>1. rfQueue' = Append(q, s) /\ rfLost' = rfLost /\ s \in S
    BY <1>1, <1>2, <1>4 DEF Delivered
  <2>2. Append(q, s) \in Seq(S) /\ Len(Append(q, s)) = Len(q) + 1 /\ Len(q) \in Nat
        /\ \A i \in 1 .. Len(q) : Append(q, s)[i] = q[i]
        /\ Append(q, s)[Len(q) + 1] = s
    BY <2>1
  <2>3. RangeOf(q) \subseteq RangeOf(Append(q, s)) /\ s \in RangeOf(Append(q, s))
    BY <2>2 DEF RangeOf
  <2>4. \A t \in Reports : /\ Cardinality(Places(Append(q, s), t)) \in Nat
                           /\ Cardinality(Places(Append(q, s), t)) <= Cardinality(Places(q, t)) + (IF t = s THEN 1 ELSE 0)
    <3>1. ASSUME NEW t PROVE Cardinality(Places(Append(q, s), t)) = Cardinality(Places(q, t)) + (IF s = t THEN 1 ELSE 0)
      BY <2>1, PutCounts
    <3> QED
      BY <1>3, <3>1
  <2> QED
    BY <1>1, <1>2, <2>1, <2>2, <2>3, <2>4
<1>5. CASE ~rfListening
  <2>1. rfQueue' = q /\ rfLost' = rfLost \cup {s}
    BY <1>2, <1>5 DEF Delivered
  <2>2. \A t \in Reports : /\ Cardinality(Places(q, t)) \in Nat
                           /\ Cardinality(Places(q, t)) <= Cardinality(Places(q, t)) + (IF t = s THEN 1 ELSE 0)
    BY <1>3
  <2> QED
    BY <1>1, <1>2, <2>1, <2>2
<1> QED
  BY <1>4, <1>5

\* It was lost, is with the listener or is counted.
Gone(t) == t \in rfLost \cup RangeOf(rfQueue) \/ rfCount[t] > 0

LEMMA GoneMeans ==
    /\ FlushedIsGone <=> \A i \in DOMAIN rfBuffer : i < rfFlush => Gone(rfBuffer[i])
    /\ ReportsArrive <=> \A t \in 1 .. rfReported : Gone(t) \/ t = rfSending \/ t \in RangeOf(rfBuffer)
  BY DEF FlushedIsGone, ReportsArrive, Gone

LEMMA InBuffer ==
    ASSUME FeedTypes
    PROVE  /\ DOMAIN rfBuffer = 1 .. Len(rfBuffer) /\ Len(rfBuffer) \in Nat
           /\ \A i \in DOMAIN rfBuffer : rfBuffer[i] \in 1 .. rfReported
           /\ \A t : t \in RangeOf(rfBuffer) <=> \E i \in DOMAIN rfBuffer : rfBuffer[i] = t
           /\ rfReported \in Nat /\ FeedTrades \in Nat /\ 1 .. rfReported \subseteq Reports
BY FeedAssumption, SMTT(30) DEF FeedTypes, RangeOf, Reports

\* Steps that deliver nothing and may lose.
LEMMA QuietStep ==
    ASSUME FeedIInv, FeedTypes', ClientSound', UNCHANGED <<rfReported, rfTwice>>,
           \A t \in Reports : MayCome(t)' => MayCome(t),
           rfQueue' = rfQueue \/ rfQueue' = <<>>,
           \A t \in Reports : rfSaved'[t] <= rfCount'[t] /\ rfCount'[t] <= rfCount[t],
           \A t \in Reports : Gone(t) => Gone(t)',
           \A i \in DOMAIN rfBuffer' :
               i < rfFlush' => i \in DOMAIN rfBuffer /\ i < rfFlush /\ rfBuffer'[i] = rfBuffer[i],
           \A t \in 1 .. rfReported : t = rfSending \/ t \in RangeOf(rfBuffer) =>
               Gone(t)' \/ t = rfSending' \/ t \in RangeOf(rfBuffer)'
    PROVE  FeedIInv'
<1>1. FeedTypes /\ NotTooOften /\ FlushedIsGone /\ ReportsArrive
  BY DEF FeedIInv
<1>2. NotTooOften'
  <2>1. ASSUME NEW t \in Reports
        PROVE  /\ rfSaved'[t] <= rfCount'[t]
               /\ t > rfReported' => rfCount'[t] = 0
               /\ rfCount'[t] + Cardinality(Places(rfQueue', t)) + (IF MayCome(t)' THEN 1 ELSE 0)
                     <= IF t \in rfTwice' THEN 2 ELSE 1
    <3>1. rfCount[t] \in Nat /\ rfCount'[t] \in Nat /\ rfCount'[t] <= rfCount[t]
      BY <1>1 DEF FeedTypes
    <3>2. /\ Cardinality(Places(rfQueue, t)) \in Nat /\ Cardinality(Places(rfQueue', t)) \in Nat
          /\ Cardinality(Places(rfQueue', t)) <= Cardinality(Places(rfQueue, t))
      <4>1. Cardinality(Places(rfQueue, t)) \in Nat
        BY <1>1, QueueCounts
      <4>2. CASE rfQueue' = <<>>
        <5>1. Places(rfQueue', t) = {}
          BY <4>2 DEF Places
        <5>2. Cardinality(Places(rfQueue', t)) = 0
          BY <5>1, FS_EmptySet
        <5> QED
          BY <4>1, <5>2
      <4>3. CASE rfQueue' = rfQueue
        BY <4>1, <4>3
      <4> QED
        BY <4>2, <4>3
    <3>3. /\ t > rfReported => rfCount[t] = 0
          /\ rfCount[t] + Cardinality(Places(rfQueue, t)) + (IF MayCome(t) THEN 1 ELSE 0)
                <= IF t \in rfTwice THEN 2 ELSE 1
      BY <1>1 DEF NotTooOften
    <3>4. (IF MayCome(t)' THEN 1 ELSE 0) <= (IF MayCome(t) THEN 1 ELSE 0)
      OBVIOUS
    <3>5. (IF MayCome(t)' THEN 1 ELSE 0) \in Nat /\ (IF MayCome(t) THEN 1 ELSE 0) \in Nat
      OBVIOUS
    <3> QED
      BY <3>1, <3>2, <3>3, <3>4, <3>5
  <2> QED
    BY <2>1 DEF NotTooOften
<1>3. FlushedIsGone'
  <2>1. ASSUME NEW i \in DOMAIN rfBuffer', i < rfFlush' PROVE Gone(rfBuffer[i])' 
    <3>1. i \in DOMAIN rfBuffer /\ i < rfFlush /\ rfBuffer'[i] = rfBuffer[i]
      BY <2>1
    <3>2. PICK t \in Reports : t = rfBuffer[i]
      BY <1>1, <3>1, InBuffer
    <3>3. Gone(t)
      BY <1>1, <3>1, <3>2 DEF FlushedIsGone, Gone
    <3>4. Gone(t)'
      BY <3>3
    <3> QED
      BY <3>1, <3>2, <3>4 DEF Gone
  <2> QED
    BY <2>1 DEF FlushedIsGone, Gone
<1>4. ReportsArrive'
  <2>1. ASSUME NEW t \in 1 .. rfReported PROVE Gone(t)' \/ t = rfSending' \/ t \in RangeOf(rfBuffer)'
    <3>1. t \in Reports
      BY <1>1, InBuffer
    <3>2. Gone(t) \/ t = rfSending \/ t \in RangeOf(rfBuffer)
      BY <1>1 DEF ReportsArrive, Gone
    <3> QED
      BY <3>1, <3>2
  <2> QED
    BY <2>1 DEF ReportsArrive, Gone
<1> QED
  BY <1>2, <1>3, <1>4 DEF FeedIInv

LEMMA FeedInitHolds == FeedInit => FeedIInv
<1> SUFFICES ASSUME FeedInit PROVE FeedIInv
  OBVIOUS
<1>1. FeedTypes
  <2>1. rfCount \in [Reports -> Nat] /\ rfSaved \in [Reports -> Nat]
    BY DEF FeedInit, NoCounts
  <2>2. rfReported \in 0 .. FeedTrades /\ rfSending \in 0 .. rfReported /\ rfFlush \in Nat
    BY FeedAssumption DEF FeedInit
  <2>3. rfBuffer \in Seq(1 .. rfReported) /\ rfQueue \in Seq(1 .. rfReported)
    BY DEF FeedInit
  <2> QED
    BY <2>1, <2>2, <2>3 DEF FeedTypes, FeedInit
<1>2. ClientSound /\ FlushedIsGone
  BY DEF FeedInit, ClientSound, FlushedIsGone
<1>3. NotTooOften
  <2>1. ASSUME NEW t \in Reports
        PROVE  /\ rfSaved[t] = 0 /\ rfCount[t] = 0 /\ ~MayCome(t) /\ Cardinality(Places(rfQueue, t)) = 0
    <3>1. rfSaved[t] = 0 /\ rfCount[t] = 0
      BY DEF FeedInit, NoCounts
    <3>2. ~MayCome(t)
      BY DEF FeedInit, MayCome, Reports
    <3>3. Places(rfQueue, t) = {}
      BY DEF FeedInit, Places
    <3> QED
      BY <3>1, <3>2, <3>3, FS_EmptySet
  <2> QED
    BY <2>1 DEF NotTooOften
<1>4. ReportsArrive
  BY DEF FeedInit, ReportsArrive
<1> QED
  BY <1>1, <1>2, <1>3, <1>4 DEF FeedIInv

LEMMA ConnectStep ==
    ASSUME FeedIInv, Connect \/ FlushEnds \/ Disconnect
    PROVE  FeedIInv'
<1>1. FeedTypes /\ ClientSound /\ NotTooOften /\ FlushedIsGone
  BY DEF FeedIInv
<1>2. UNCHANGED <<rfReported, rfSending, rfTwice, rfLost, rfQueue, rfListening, rfCount, rfDaily, rfSaved>>
  BY DEF Connect, FlushEnds, Disconnect, listenerVars
<1>3. \/ ~rfOnline /\ rfOnline' = TRUE /\ rfFlush' = 1 /\ rfBuffer' = rfBuffer /\ rfSending = 0
      \/ rfOnline' = rfOnline /\ rfFlush' = 0 /\ rfBuffer' = <<>> /\ rfFlush > Len(rfBuffer)
      \/ rfOnline' = FALSE /\ rfSending = 0 /\ rfFlush = 0 /\ rfFlush' = 0 /\ rfBuffer' = rfBuffer
  BY <1>1 DEF Connect, FlushEnds, Disconnect, ClientSound
<1>4. FeedTypes'
  <2>1. rfOnline' \in BOOLEAN
    BY <1>1, <1>3 DEF FeedTypes
  <2>2. rfFlush' \in Nat
    BY <1>3
  <2>3. rfBuffer' \in Seq(1 .. rfReported)
    <3>1. <<>> \in Seq(1 .. rfReported)
      OBVIOUS
    <3> QED
      BY <1>1, <1>3, <3>1 DEF FeedTypes
  <2> QED
    BY <1>1, <1>2, <2>1, <2>2, <2>3 DEF FeedTypes
<1>5. Len(rfBuffer) \in Nat /\ rfFlush \in Nat
  BY <1>1, InBuffer DEF FeedTypes
<1>12. rfFlush' = 1 => ~rfOnline
  BY <1>3
<1>6. ClientSound'
  BY <1>1, <1>2, <1>3, <1>5 DEF ClientSound, RangeOf
<1>7. \A t \in Reports : MayCome(t)' => MayCome(t)
  <2>1. rfSending' = rfSending
    BY <1>2
  <2>2. ASSUME NEW i \in DOMAIN rfBuffer', i >= rfFlush' PROVE i \in DOMAIN rfBuffer /\ i >= rfFlush /\ rfBuffer'[i] = rfBuffer[i]
    <3>1. rfBuffer' = rfBuffer
      BY <1>3, <2>2
    <3>2. i \in 1 .. Len(rfBuffer) /\ i >= 1
      BY <1>1, <2>2, <3>1, InBuffer
    <3>3. rfFlush' = 1 => rfFlush = 0
      BY <1>1, <1>3, <1>12 DEF ClientSound
    <3> QED
      BY <1>1, <1>3, <1>5, <2>2, <3>1, <3>2, <3>3, InBuffer
  <2> QED
    BY <2>1, <2>2 DEF MayCome
<1>8. \A t \in Reports : Gone(t) => Gone(t)'
  BY <1>2 DEF Gone, RangeOf
<1>9. \A i \in DOMAIN rfBuffer' :
          i < rfFlush' => i \in DOMAIN rfBuffer /\ i < rfFlush /\ rfBuffer'[i] = rfBuffer[i]
  BY <1>1, <1>3, InBuffer
<1>10. \A t \in 1 .. rfReported : t = rfSending \/ t \in RangeOf(rfBuffer) =>
          Gone(t)' \/ t = rfSending' \/ t \in RangeOf(rfBuffer)'
  <2>1. CASE rfBuffer' = rfBuffer
    BY <1>2, <2>1 DEF RangeOf
  <2>2. CASE rfFlush > Len(rfBuffer)
    <3>1. ASSUME NEW t, t \in RangeOf(rfBuffer) PROVE Gone(t)
      <4>1. PICK i \in DOMAIN rfBuffer : rfBuffer[i] = t
        BY <1>1, <3>1, InBuffer
      <4>2. i < rfFlush
        BY <1>1, <1>5, <2>2, <4>1, InBuffer
      <4> QED
        BY <1>1, <4>1, <4>2 DEF FlushedIsGone, Gone
    <3>2. ASSUME NEW t, t \in RangeOf(rfBuffer) PROVE Gone(t)'
      BY <1>2, <3>1, <3>2 DEF Gone, RangeOf
    <3> QED
      BY <1>2, <3>2
  <2> QED
    BY <1>3, <2>1, <2>2
<1>11. \A t \in Reports : rfSaved'[t] <= rfCount'[t] /\ rfCount'[t] <= rfCount[t]
  BY <1>1, <1>2 DEF NotTooOften, FeedTypes
<1> QED
  BY <1>2, <1>4, <1>6, <1>7, <1>8, <1>9, <1>10, <1>11, QuietStep

LEMMA ListenerStep ==
    ASSUME FeedIInv, \/ Subscribe \/ ListenerError \/ FeedDailyRun
                     \/ \E raises \in BOOLEAN : DailyEnds(raises)
                     \/ \E saves \in BOOLEAN : ServiceRestarts(saves)
                     \/ UNCHANGED rfVars
    PROVE  FeedIInv'
<1>1. FeedTypes /\ ClientSound /\ NotTooOften
  BY DEF FeedIInv
<1>2. UNCHANGED <<rfReported, rfOnline, rfSending, rfBuffer, rfFlush, rfTwice>>
  BY DEF Subscribe, ListenerError, FeedDailyRun, DailyEnds, ServiceRestarts, rfVars, clientVars
<1>3. \/ rfQueue' = rfQueue /\ rfLost' = rfLost
      \/ rfQueue' = <<>> /\ rfLost \cup RangeOf(rfQueue) \subseteq rfLost'
  BY DEF Subscribe, ListenerError, FeedDailyRun, DailyEnds, ServiceRestarts, rfVars, clientVars
<1>4. \/ rfCount' = rfCount /\ (rfSaved' = rfSaved \/ rfSaved' = rfCount)
      \/ /\ rfSaved' = rfSaved \/ rfSaved' = rfCount
         /\ rfCount' = rfSaved' /\ {t \in Reports : rfCount'[t] < rfCount[t]} \subseteq rfLost'
  BY DEF Subscribe, ListenerError, FeedDailyRun, DailyEnds, ServiceRestarts, rfVars, listenerVars
<1>5. FeedTypes'
  <2>1. rfListening' \in BOOLEAN /\ rfDaily' \in BOOLEAN
    BY <1>1 DEF FeedTypes, Subscribe, ListenerError, FeedDailyRun, DailyEnds, ServiceRestarts, rfVars, listenerVars
  <2>2. rfQueue' \in Seq(1 .. rfReported)
    <3>1. <<>> \in Seq(1 .. rfReported)
      OBVIOUS
    <3> QED
      BY <1>1, <1>3, <3>1 DEF FeedTypes
  <2>3. rfCount' \in [Reports -> Nat] /\ rfSaved' \in [Reports -> Nat]
    BY <1>1, <1>4 DEF FeedTypes
  <2> QED
    BY <1>1, <1>2, <2>1, <2>2, <2>3 DEF FeedTypes
<1>6. ClientSound'
  BY <1>1, <1>2 DEF ClientSound, RangeOf
<1>7. \A t \in Reports : MayCome(t)' => MayCome(t)
  BY <1>2 DEF MayCome
<1>8. \A t \in Reports : rfSaved[t] <= rfCount[t] /\ rfSaved[t] \in Nat /\ rfCount[t] \in Nat
  BY <1>1 DEF NotTooOften, FeedTypes
<1>9. \A t \in Reports : rfSaved'[t] <= rfCount'[t] /\ rfCount'[t] <= rfCount[t]
  BY <1>4, <1>8
<1>10. \A t \in Reports : Gone(t) => Gone(t)'
  <2>1. ASSUME NEW t \in Reports, t \in rfLost \cup RangeOf(rfQueue) PROVE t \in rfLost' \cup RangeOf(rfQueue')
    BY <1>3, <2>1 DEF RangeOf
  <2>2. ASSUME NEW t \in Reports, rfCount[t] > 0 PROVE rfCount'[t] > 0 \/ t \in rfLost'
    BY <1>4, <1>8, <2>2
  <2> QED
    BY <2>1, <2>2 DEF Gone
<1>11. \A i \in DOMAIN rfBuffer' :
          i < rfFlush' => i \in DOMAIN rfBuffer /\ i < rfFlush /\ rfBuffer'[i] = rfBuffer[i]
  BY <1>2
<1>12. \A t \in 1 .. rfReported : t = rfSending \/ t \in RangeOf(rfBuffer) =>
          Gone(t)' \/ t = rfSending' \/ t \in RangeOf(rfBuffer)'
  BY <1>2 DEF RangeOf
<1> QED
  BY <1>2, <1>3, <1>5, <1>6, <1>7, <1>9, <1>10, <1>11, <1>12, QuietStep

\* Steps that may hand the trade s to the broker, which may come no more or has
\* been delivered though the publish raised.
LEMMA LoudStep ==
    ASSUME FeedIInv, FeedTypes', ClientSound', UNCHANGED <<rfReported, rfCount, rfSaved>>,
           NEW s, s \in 1 .. rfReported, MayCome(s),
           rfQueue' = rfQueue \/ ~MayCome(s)' \/ (s \in rfTwice' /\ s \notin rfTwice),
           \A t \in Reports : /\ Cardinality(Places(rfQueue', t)) \in Nat
                              /\ Cardinality(Places(rfQueue', t)) <= Cardinality(Places(rfQueue, t)) + (IF t = s THEN 1 ELSE 0),
           \A t \in Reports : MayCome(t)' => MayCome(t),
           rfTwice \subseteq rfTwice', rfLost \subseteq rfLost', RangeOf(rfQueue) \subseteq RangeOf(rfQueue'),
           \A i \in DOMAIN rfBuffer' : i < rfFlush' =>
               \/ i \in DOMAIN rfBuffer /\ i < rfFlush /\ rfBuffer'[i] = rfBuffer[i]
               \/ rfBuffer'[i] = s /\ s \in rfLost' \cup RangeOf(rfQueue'),
           \A t \in 1 .. rfReported : t = rfSending \/ t \in RangeOf(rfBuffer) =>
               Gone(t)' \/ t = rfSending' \/ t \in RangeOf(rfBuffer')
    PROVE  FeedIInv'
<1>1. FeedTypes /\ NotTooOften /\ FlushedIsGone /\ ReportsArrive
  BY DEF FeedIInv
<1>2. NotTooOften'
  <2>1. ASSUME NEW t \in Reports
        PROVE  /\ rfSaved'[t] <= rfCount'[t]
               /\ t > rfReported' => rfCount'[t] = 0
               /\ rfCount'[t] + Cardinality(Places(rfQueue', t)) + (IF MayCome(t)' THEN 1 ELSE 0)
                     <= IF t \in rfTwice' THEN 2 ELSE 1
    <3>1. rfCount[t] \in Nat
      BY <1>1 DEF FeedTypes
    <3>2. Cardinality(Places(rfQueue, t)) \in Nat
      BY <1>1, QueueCounts
    <3>3. /\ t > rfReported => rfCount[t] = 0
          /\ rfCount[t] + Cardinality(Places(rfQueue, t)) + (IF MayCome(t) THEN 1 ELSE 0)
                <= IF t \in rfTwice THEN 2 ELSE 1
          /\ rfSaved[t] <= rfCount[t]
      BY <1>1 DEF NotTooOften
    <3>4. (IF MayCome(t)' THEN 1 ELSE 0) <= (IF MayCome(t) THEN 1 ELSE 0)
      OBVIOUS
    <3>5. (IF MayCome(t)' THEN 1 ELSE 0) \in Nat /\ (IF MayCome(t) THEN 1 ELSE 0) \in Nat
      OBVIOUS
    <3>6. (IF t \in rfTwice THEN 2 ELSE 1) <= (IF t \in rfTwice' THEN 2 ELSE 1)
      OBVIOUS
    <3>7. (IF t \in rfTwice THEN 2 ELSE 1) \in Nat /\ (IF t \in rfTwice' THEN 2 ELSE 1) \in Nat
      OBVIOUS
    <3>8. PICK c, q, r, m, n, k, l :
              /\ c = rfCount[t] /\ q = Cardinality(Places(rfQueue, t)) /\ r = Cardinality(Places(rfQueue', t))
              /\ m = (IF MayCome(t) THEN 1 ELSE 0) /\ n = (IF MayCome(t)' THEN 1 ELSE 0)
              /\ k = (IF t \in rfTwice THEN 2 ELSE 1) /\ l = (IF t \in rfTwice' THEN 2 ELSE 1)
      OBVIOUS
    <3>9. /\ {c, q, r, m, n, k, l} \subseteq Nat /\ c + q + m <= k /\ n <= m /\ k <= l
          /\ r <= q + (IF t = s THEN 1 ELSE 0)
      BY <3>1, <3>2, <3>3, <3>4, <3>5, <3>6, <3>7, <3>8
    <3>10. c + r + n <= l
      <4>1. CASE t # s
        BY <3>9, <4>1
      <4>2. CASE rfQueue' = rfQueue
        BY <3>8, <3>9, <4>2
      <4>3. CASE t = s /\ ~MayCome(s)'
        <5>1. m = 1 /\ n = 0 /\ r <= q + 1
          BY <3>8, <3>9, <4>3
        <5> QED
          BY <3>9, <5>1
      <4>4. CASE t = s /\ s \in rfTwice' /\ s \notin rfTwice
        <5>1. k = 1 /\ l = 2 /\ r <= q + 1
          BY <3>8, <3>9, <4>4
        <5> QED
          BY <3>9, <5>1
      <4> QED
        BY <4>1, <4>2, <4>3, <4>4
    <3> QED
      BY <3>3, <3>8, <3>10
  <2> QED
    BY <2>1 DEF NotTooOften
<1>3. \A t \in Reports : Gone(t) => Gone(t)'
  BY DEF Gone
<1>4. FlushedIsGone'
  <2>1. ASSUME NEW i \in DOMAIN rfBuffer', i < rfFlush'
        PROVE  rfBuffer'[i] \in rfLost' \cup RangeOf(rfQueue') \/ rfCount'[rfBuffer'[i]] > 0
    <3>1. CASE i \in DOMAIN rfBuffer /\ i < rfFlush /\ rfBuffer'[i] = rfBuffer[i]
      BY <1>1, <3>1 DEF FlushedIsGone
    <3>2. CASE rfBuffer'[i] = s /\ s \in rfLost' \cup RangeOf(rfQueue')
      BY <3>2
    <3> QED
      BY <2>1, <3>1, <3>2
  <2> QED
    BY <2>1 DEF FlushedIsGone, RangeOf
<1>5. ReportsArrive'
  <2>1. ASSUME NEW t \in 1 .. rfReported PROVE Gone(t)' \/ t = rfSending' \/ t \in RangeOf(rfBuffer')
    <3>1. t \in Reports
      BY <1>1, InBuffer
    <3>2. Gone(t) \/ t = rfSending \/ t \in RangeOf(rfBuffer)
      BY <1>1 DEF ReportsArrive, Gone
    <3> QED
      BY <1>3, <3>1, <3>2
  <2> QED
    BY <2>1 DEF ReportsArrive, Gone, RangeOf
<1> QED
  BY <1>2, <1>4, <1>5 DEF FeedIInv

LEMMA PublishedStep ==
    ASSUME FeedIInv, Published
    PROVE  FeedIInv'
<1>1. FeedTypes /\ ClientSound
  BY DEF FeedIInv
<1>2. PICK s : s = rfSending
  OBVIOUS
<1>3. /\ s # 0 /\ Delivered(s) /\ rfSending' = 0
      /\ UNCHANGED <<rfReported, rfOnline, rfBuffer, rfFlush, rfTwice, rfListening, rfCount, rfDaily, rfSaved>>
  BY <1>2 DEF Published, listenerVars
<1>4. s \in 1 .. rfReported /\ rfFlush = 0 /\ s \notin RangeOf(rfBuffer)
  BY <1>1, <1>2, <1>3, InBuffer DEF ClientSound, FeedTypes
<1>5. /\ rfQueue' \in Seq(1 .. rfReported)
      /\ RangeOf(rfQueue) \subseteq RangeOf(rfQueue') /\ rfLost \subseteq rfLost'
      /\ s \in rfLost' \cup RangeOf(rfQueue')
      /\ \A t \in Reports : /\ Cardinality(Places(rfQueue', t)) \in Nat
                            /\ Cardinality(Places(rfQueue', t)) <= Cardinality(Places(rfQueue, t)) + (IF t = s THEN 1 ELSE 0)
  BY <1>1, <1>3, <1>4, DeliveryCounts
<1>6. FeedTypes'
  <2>1. rfSending' \in 0 .. rfReported
    BY <1>1, <1>3, InBuffer
  <2> QED
    BY <1>1, <1>3, <1>5, <2>1 DEF FeedTypes
<1>7. ClientSound'
  BY <1>1, <1>3 DEF ClientSound, RangeOf
<1>8. \A t \in Reports : MayCome(t)' => MayCome(t)
  BY <1>3, InBuffer, <1>1 DEF MayCome, Reports
<1>9. MayCome(s) /\ ~MayCome(s)'
  BY <1>1, <1>2, <1>3, <1>4, InBuffer DEF MayCome
<1>10. \A i \in DOMAIN rfBuffer' : ~(i < rfFlush')
  BY <1>1, <1>3, <1>4, InBuffer
<1>11. \A t \in 1 .. rfReported : t = rfSending \/ t \in RangeOf(rfBuffer) =>
           Gone(t)' \/ t = rfSending' \/ t \in RangeOf(rfBuffer')
  BY <1>2, <1>3, <1>5 DEF Gone
<1> QED
  BY <1>3, <1>4, <1>5, <1>6, <1>7, <1>8, <1>9, <1>10, <1>11, LoudStep

LEMMA PublishRaisesStep ==
    ASSUME FeedIInv, NEW delivered \in BOOLEAN, PublishRaises(delivered)
    PROVE  FeedIInv'
<1>1. FeedTypes /\ ClientSound
  BY DEF FeedIInv
<1>2. PICK s : s = rfSending
  OBVIOUS
<1>3. /\ s # 0 /\ rfSending' = 0 /\ rfBuffer' = Append(rfBuffer, s)
      /\ IF delivered THEN Delivered(s) ELSE UNCHANGED <<rfQueue, rfLost>>
      /\ rfTwice' = IF delivered THEN rfTwice \cup {s} ELSE rfTwice
      /\ UNCHANGED <<rfReported, rfOnline, rfFlush, rfListening, rfCount, rfDaily, rfSaved>>
  BY <1>2 DEF PublishRaises, listenerVars
<1>4. s \in 1 .. rfReported /\ rfFlush = 0 /\ s \notin RangeOf(rfBuffer) /\ s \notin rfTwice
  BY <1>1, <1>2, <1>3, InBuffer DEF ClientSound, FeedTypes
<1>5. /\ rfQueue' \in Seq(1 .. rfReported)
      /\ RangeOf(rfQueue) \subseteq RangeOf(rfQueue') /\ rfLost \subseteq rfLost'
      /\ \A t \in Reports : /\ Cardinality(Places(rfQueue', t)) \in Nat
                            /\ Cardinality(Places(rfQueue', t)) <= Cardinality(Places(rfQueue, t)) + (IF t = s THEN 1 ELSE 0)
  <2>1. CASE delivered
    BY <1>1, <1>3, <1>4, <2>1, DeliveryCounts
  <2>2. CASE ~delivered
    <3>1. rfQueue' = rfQueue /\ rfLost' = rfLost
      BY <1>3, <2>2
    <3>2. \A t \in Reports : Cardinality(Places(rfQueue, t)) \in Nat
      BY <1>1, QueueCounts
    <3> QED
      BY <1>1, <3>1, <3>2 DEF FeedTypes, RangeOf
  <2> QED
    BY <2>1, <2>2
<1>6. /\ rfBuffer' \in Seq(1 .. rfReported) /\ DOMAIN rfBuffer' = DOMAIN rfBuffer \cup {Len(rfBuffer) + 1}
      /\ Len(rfBuffer) + 1 \notin DOMAIN rfBuffer
      /\ \A i \in DOMAIN rfBuffer : rfBuffer'[i] = rfBuffer[i]
      /\ rfBuffer'[Len(rfBuffer) + 1] = s
  BY <1>1, <1>3, <1>4 DEF FeedTypes
<1>7. FeedTypes'
  <2>1. rfSending' \in 0 .. rfReported
    BY <1>1, <1>3, InBuffer
  <2>2. rfTwice' \subseteq 1 .. rfReported
    BY <1>1, <1>3, <1>4 DEF FeedTypes
  <2> QED
    BY <1>1, <1>3, <1>5, <1>6, <2>1, <2>2 DEF FeedTypes
<1>8. RangeOf(rfBuffer') = RangeOf(rfBuffer) \cup {s}
  <2>1. DOMAIN rfBuffer = 1 .. Len(rfBuffer) /\ DOMAIN rfBuffer' = 1 .. Len(rfBuffer')
    <3>1. \A S : \A q \in Seq(S) : DOMAIN q = 1 .. Len(q)
      OBVIOUS
    <3> QED
      BY <1>1, <1>6, <3>1 DEF FeedTypes
  <2>2. \A t : t \in RangeOf(rfBuffer') <=> \E i \in DOMAIN rfBuffer' : rfBuffer'[i] = t
    BY <2>1 DEF RangeOf
  <2>3. \A t : t \in RangeOf(rfBuffer) <=> \E i \in DOMAIN rfBuffer : rfBuffer[i] = t
    BY <2>1 DEF RangeOf
  <2>4. \A t : (\E i \in DOMAIN rfBuffer' : rfBuffer'[i] = t) <=> (\E i \in DOMAIN rfBuffer : rfBuffer[i] = t) \/ t = s
    BY <1>6
  <2> QED
    BY <2>2, <2>3, <2>4
<1>9. ClientSound'
  <2>1. ASSUME NEW i \in DOMAIN rfBuffer', NEW j \in DOMAIN rfBuffer', rfBuffer'[i] = rfBuffer'[j] PROVE i = j
    BY <1>1, <1>4, <1>6, <2>1, InBuffer DEF ClientSound
  <2> QED
    BY <1>3, <1>4, <2>1 DEF ClientSound
<1>10. MayCome(s)
  BY <1>2 DEF MayCome
<1>11. \A t \in Reports : MayCome(t)' => MayCome(t)
  <2>1. ASSUME NEW t \in Reports, NEW i \in DOMAIN rfBuffer', rfBuffer'[i] = t PROVE MayCome(t)
    <3>1. CASE i \in DOMAIN rfBuffer
      <4>1. rfBuffer[i] = t /\ i >= rfFlush
        BY <1>1, <1>4, <1>6, <2>1, <3>1, InBuffer
      <4> QED
        BY <3>1, <4>1 DEF MayCome
    <3>2. CASE i = Len(rfBuffer) + 1
      BY <1>6, <1>10, <2>1, <3>2
    <3> QED
      BY <1>6, <3>1, <3>2
  <2>2. \A t \in Reports : t # rfSending'
    BY <1>3 DEF Reports
  <2> QED
    BY <2>1, <2>2 DEF MayCome
<1>12. \A i \in DOMAIN rfBuffer' : ~(i < rfFlush')
  BY <1>1, <1>3, <1>4, <1>6, InBuffer
<1>13. \A t \in 1 .. rfReported : t = rfSending \/ t \in RangeOf(rfBuffer) =>
           Gone(t)' \/ t = rfSending' \/ t \in RangeOf(rfBuffer')
  BY <1>2, <1>8
<1>14. rfQueue' = rfQueue \/ (s \in rfTwice' /\ s \notin rfTwice)
  BY <1>3, <1>4
<1>15. rfTwice \subseteq rfTwice'
  BY <1>3
<1> QED
  BY <1>3, <1>4, <1>5, <1>7, <1>9, <1>10, <1>11, <1>12, <1>13, <1>14, <1>15, LoudStep

LEMMA FlushOneStep ==
    ASSUME FeedIInv, NEW delivered \in BOOLEAN, FlushOne(delivered)
    PROVE  FeedIInv'
<1>1. FeedTypes /\ ClientSound
  BY DEF FeedIInv
<1>2. PICK s : s = rfBuffer[rfFlush]
  OBVIOUS
<1>3. /\ rfFlush \in 1 .. Len(rfBuffer) /\ rfFlush' = rfFlush + 1
      /\ IF delivered THEN Delivered(s) ELSE rfLost' = rfLost \cup {s} /\ UNCHANGED rfQueue
      /\ UNCHANGED <<rfReported, rfOnline, rfSending, rfBuffer, rfTwice, rfListening, rfCount, rfDaily, rfSaved>>
  BY <1>2 DEF FlushOne, listenerVars
<1>4. s \in 1 .. rfReported /\ rfFlush \in DOMAIN rfBuffer /\ rfSending = 0 /\ rfOnline
  BY <1>1, <1>2, <1>3, InBuffer DEF ClientSound
<1>5. /\ rfQueue' \in Seq(1 .. rfReported)
      /\ RangeOf(rfQueue) \subseteq RangeOf(rfQueue') /\ rfLost \subseteq rfLost'
      /\ s \in rfLost' \cup RangeOf(rfQueue')
      /\ \A t \in Reports : /\ Cardinality(Places(rfQueue', t)) \in Nat
                            /\ Cardinality(Places(rfQueue', t)) <= Cardinality(Places(rfQueue, t)) + (IF t = s THEN 1 ELSE 0)
  <2>1. CASE delivered
    BY <1>1, <1>3, <1>4, <2>1, DeliveryCounts
  <2>2. CASE ~delivered
    <3>1. rfQueue' = rfQueue /\ rfLost' = rfLost \cup {s}
      BY <1>3, <2>2
    <3>2. \A t \in Reports : Cardinality(Places(rfQueue, t)) \in Nat
      BY <1>1, QueueCounts
    <3> QED
      BY <1>1, <3>1, <3>2 DEF FeedTypes, RangeOf
  <2> QED
    BY <2>1, <2>2
<1>6. FeedTypes'
  <2>1. rfFlush' \in Nat
    BY <1>1, <1>3 DEF FeedTypes
  <2> QED
    BY <1>1, <1>3, <1>5, <2>1 DEF FeedTypes
<1>7. ClientSound'
  BY <1>1, <1>3, <1>4 DEF ClientSound
<1>8. \A t \in Reports : MayCome(t)' => MayCome(t)
  <2>1. \A i \in DOMAIN rfBuffer : i >= rfFlush' => i >= rfFlush
    BY <1>1, <1>3, InBuffer
  <2> QED
    BY <1>3, <2>1 DEF MayCome
<1>9. MayCome(s) /\ ~MayCome(s)'
  <2>1. MayCome(s)
    BY <1>1, <1>2, <1>3, <1>4, InBuffer DEF MayCome
  <2>2. \A i \in DOMAIN rfBuffer : rfBuffer[i] = s => i = rfFlush
    BY <1>1, <1>2, <1>4 DEF ClientSound
  <2>3. ~(rfFlush >= rfFlush') /\ s # 0
    BY <1>1, <1>3, <1>4, InBuffer
  <2> QED
    BY <1>3, <1>4, <2>1, <2>2, <2>3 DEF MayCome
<1>10. \A i \in DOMAIN rfBuffer' : i < rfFlush' =>
           \/ i \in DOMAIN rfBuffer /\ i < rfFlush /\ rfBuffer'[i] = rfBuffer[i]
           \/ rfBuffer'[i] = s /\ s \in rfLost' \cup RangeOf(rfQueue')
  <2>1. \A i \in DOMAIN rfBuffer : i < rfFlush' => i < rfFlush \/ i = rfFlush
    BY <1>1, <1>3, InBuffer
  <2> QED
    BY <1>2, <1>3, <1>5, <2>1
<1>11. \A t \in 1 .. rfReported : t = rfSending \/ t \in RangeOf(rfBuffer) =>
           Gone(t)' \/ t = rfSending' \/ t \in RangeOf(rfBuffer')
  BY <1>3
<1> QED
  BY <1>3, <1>4, <1>5, <1>6, <1>7, <1>8, <1>9, <1>10, <1>11, LoudStep

\* A trade goes from the queue to the counts.
LEMMA HandleTradeStep ==
    ASSUME FeedIInv, HandleTrade
    PROVE  FeedIInv'
<1>1. FeedTypes /\ ClientSound /\ NotTooOften /\ FlushedIsGone /\ ReportsArrive
  BY DEF FeedIInv
<1>2. PICK S : S = 1 .. rfReported
  OBVIOUS
<1>3. PICK q \in Seq(S) : q = rfQueue
  BY <1>1, <1>2 DEF FeedTypes
<1>4. PICK h : h = Head(q)
  OBVIOUS
<1>5. /\ q # <<>> /\ rfCount' = [rfCount EXCEPT ![h] = @ + 1] /\ rfQueue' = Tail(q)
      /\ UNCHANGED <<rfReported, rfOnline, rfSending, rfBuffer, rfFlush, rfTwice, rfLost, rfListening, rfDaily, rfSaved>>
  BY <1>3, <1>4 DEF HandleTrade, clientVars
<1>6. h \in S /\ Tail(q) \in Seq(S) /\ S \subseteq Reports
  BY <1>1, <1>2, <1>3, <1>4, <1>5, InBuffer
<1>7. /\ \A t \in Reports : rfCount[t] \in Nat /\ rfSaved[t] \in Nat
      /\ \A t \in Reports : rfCount'[t] = IF t = h THEN rfCount[t] + 1 ELSE rfCount[t]
      /\ rfCount' \in [Reports -> Nat]
  BY <1>1, <1>5, <1>6 DEF FeedTypes
<1>8. FeedTypes'
  <2>1. rfQueue' \in Seq(1 .. rfReported)
    BY <1>2, <1>5, <1>6
  <2> QED
    BY <1>1, <1>5, <1>7, <2>1 DEF FeedTypes
<1>9. ClientSound'
  BY <1>1, <1>5 DEF ClientSound, RangeOf
<1>10. ASSUME NEW t \in Reports
       PROVE  /\ Cardinality(Places(q, t)) \in Nat /\ Cardinality(Places(Tail(q), t)) \in Nat
              /\ Cardinality(Places(q, t)) = Cardinality(Places(Tail(q), t)) + (IF h = t THEN 1 ELSE 0)
  BY <1>4, <1>5, <1>6, PlacesFinite, TakeCounts
<1>11. NotTooOften'
  <2>1. ASSUME NEW t \in Reports
        PROVE  /\ rfSaved'[t] <= rfCount'[t]
               /\ t > rfReported' => rfCount'[t] = 0
               /\ rfCount'[t] + Cardinality(Places(rfQueue', t)) + (IF MayCome(t)' THEN 1 ELSE 0)
                     <= IF t \in rfTwice' THEN 2 ELSE 1
    <3>1. MayCome(t)' <=> MayCome(t)
      BY <1>5 DEF MayCome
    <3>2. /\ rfSaved[t] <= rfCount[t]
          /\ t > rfReported => rfCount[t] = 0
          /\ rfCount[t] + Cardinality(Places(rfQueue, t)) + (IF MayCome(t) THEN 1 ELSE 0)
                <= IF t \in rfTwice THEN 2 ELSE 1
      BY <1>1 DEF NotTooOften
    <3>3. PICK c, d, p, r, m, k :
              /\ c = rfCount[t] /\ d = rfCount'[t] /\ p = Cardinality(Places(q, t)) /\ r = Cardinality(Places(Tail(q), t))
              /\ m = (IF MayCome(t) THEN 1 ELSE 0) /\ k = (IF t \in rfTwice THEN 2 ELSE 1)
      OBVIOUS
    <3>4. m = (IF MayCome(t)' THEN 1 ELSE 0) /\ k = (IF t \in rfTwice' THEN 2 ELSE 1)
      BY <1>5, <3>1, <3>3
    <3>5. {m, k} \subseteq Nat
      BY <3>3
    <3>6. {c, d, p, r} \subseteq Nat /\ c + p + m <= k /\ d + r = c + p /\ c <= d
      <4>1. c + p + m <= k
        BY <1>3, <3>2, <3>3
      <4>2. c \in Nat /\ d = IF t = h THEN c + 1 ELSE c
        BY <1>7, <3>3
      <4>3. p \in Nat /\ r \in Nat /\ p = r + (IF h = t THEN 1 ELSE 0)
        BY <1>10, <3>3
      <4> QED
        BY <4>1, <4>2, <4>3
    <3>7. d + r + m <= k
      BY <3>5, <3>6
    <3>8. rfSaved'[t] <= d
      BY <1>5, <1>7, <3>2, <3>3, <3>6
    <3>9. t > rfReported' => rfCount'[t] = 0
      <4>1. t \in Nat /\ h \in 1 .. rfReported /\ rfReported \in Nat
        BY <1>1, <1>2, <1>6, InBuffer DEF Reports
      <4> QED
        BY <1>5, <1>7, <3>2, <4>1
    <3> QED
      BY <1>5, <3>3, <3>4, <3>7, <3>8, <3>9
  <2> QED
    BY <2>1 DEF NotTooOften
<1>12. \A t \in Reports : Gone(t) => Gone(t)'
  <2>1. ASSUME NEW t \in RangeOf(q) PROVE t = h \/ t \in RangeOf(Tail(q))
    <3>1. PICK i \in 1 .. Len(q) : q[i] = t
      BY <2>1 DEF RangeOf
    <3>2. CASE i = 1
      BY <1>3, <1>4, <1>5, <3>1, <3>2
    <3>3. CASE i # 1
      <4>1. i - 1 \in 1 .. Len(Tail(q)) /\ Tail(q)[i - 1] = t
        BY <1>3, <1>5, <3>1, <3>3
      <4> QED
        BY <4>1 DEF RangeOf
    <3> QED
      BY <3>2, <3>3
  <2>2. ASSUME NEW t \in Reports, Gone(t) PROVE Gone(t)'
    <3>1. CASE t \in rfLost
      BY <1>5, <3>1 DEF Gone
    <3>2. CASE rfCount[t] > 0
      <4>1. rfCount'[t] > 0
        BY <1>7, <3>2
      <4> QED
        BY <4>1 DEF Gone
    <3>3. CASE t \in RangeOf(rfQueue)
      <4>1. t = h \/ t \in RangeOf(rfQueue')
        BY <1>3, <1>5, <2>1, <3>3
      <4>2. t = h => rfCount'[t] > 0
        BY <1>7
      <4> QED
        BY <4>1, <4>2 DEF Gone, RangeOf
    <3> QED
      BY <2>2, <3>1, <3>2, <3>3 DEF Gone
  <2> QED
    BY <2>2
<1>13. FlushedIsGone'
  <2>1. ASSUME NEW i \in DOMAIN rfBuffer, i < rfFlush
        PROVE  rfBuffer[i] \in rfLost' \cup RangeOf(rfQueue') \/ rfCount'[rfBuffer[i]] > 0
    <3>1. PICK t \in Reports : t = rfBuffer[i]
      BY <1>1, InBuffer
    <3>2. Gone(t)
      BY <1>1, <2>1, <3>1 DEF FlushedIsGone, Gone
    <3>3. Gone(t)'
      BY <1>12, <3>2
    <3> QED
      BY <3>1, <3>3 DEF Gone, RangeOf
  <2> QED
    BY <1>5, <2>1 DEF FlushedIsGone, RangeOf
<1>14. ReportsArrive'
  <2>1. ASSUME NEW t \in 1 .. rfReported PROVE Gone(t)' \/ t = rfSending \/ t \in RangeOf(rfBuffer)
    <3>1. t \in Reports
      BY <1>1, InBuffer
    <3>2. Gone(t) \/ t = rfSending \/ t \in RangeOf(rfBuffer)
      BY <1>1 DEF ReportsArrive, Gone
    <3> QED
      BY <1>12, <3>1, <3>2
  <2> QED
    BY <1>5, <2>1 DEF ReportsArrive, Gone, RangeOf
<1> QED
  BY <1>8, <1>9, <1>11, <1>13, <1>14 DEF FeedIInv

LEMMA SequenceDomain ==
    ASSUME NEW S, NEW queue \in Seq(S)
    PROVE  /\ DOMAIN queue = 1 .. Len(queue) /\ Len(queue) \in Nat
           /\ \A i \in DOMAIN queue : queue[i] \in S /\ i \in Nat /\ i >= 1
  OBVIOUS

\* What a report leaves in the buffer of a client that is not connected.
Buffered(q, e) ==
    IF Len(q) >= FeedBuffer THEN SubSeq(Append(q, e), Len(q) + 2 - FeedBuffer, Len(q) + 1) ELSE Append(q, e)

LEMMA BufferedReport ==
    ASSUME NEW T, NEW e \in T, NEW q \in Seq(T),
           \A i \in DOMAIN q : q[i] # e,
           \A i, j \in DOMAIN q : q[i] = q[j] => i = j
    PROVE  /\ Buffered(q, e) \in Seq(T)
           /\ \A i, j \in DOMAIN Buffered(q, e) : Buffered(q, e)[i] = Buffered(q, e)[j] => i = j
           /\ \A i \in DOMAIN Buffered(q, e) : Buffered(q, e)[i] = e \/ \E j \in DOMAIN q : Buffered(q, e)[i] = q[j]
           /\ \E i \in DOMAIN Buffered(q, e) : Buffered(q, e)[i] = e
           /\ \A j \in DOMAIN q : \/ \E i \in DOMAIN Buffered(q, e) : Buffered(q, e)[i] = q[j]
                                  \/ Len(q) >= FeedBuffer /\ j \in 1 .. (Len(q) + 1 - FeedBuffer)
<1>6. PICK n \in Nat : n = Len(q)
  OBVIOUS
<1>7. PICK limit \in Nat : limit = FeedBuffer /\ limit # 0
  BY FeedAssumption
<1>8. PICK p : p = Buffered(q, e)
  OBVIOUS
<1>9. /\ n >= limit => p = SubSeq(Append(q, e), n + 2 - limit, n + 1)
      /\ ~(n >= limit) => p = Append(q, e)
  BY <1>6, <1>7, <1>8 DEF Buffered
<1>10. SUFFICES /\ p \in Seq(T)
                /\ \A i, j \in DOMAIN p : p[i] = p[j] => i = j
                /\ \A i \in DOMAIN p : p[i] = e \/ \E j \in DOMAIN q : p[i] = q[j]
                /\ \E i \in DOMAIN p : p[i] = e
                /\ \A j \in DOMAIN q : \/ \E i \in DOMAIN p : p[i] = q[j]
                                       \/ n >= limit /\ j \in 1 .. (n + 1 - limit)
  BY <1>6, <1>7, <1>8
<1>1. PICK all \in Seq(T) : all = Append(q, e)
  BY Publishes
<1>2. /\ Len(all) = n + 1 /\ DOMAIN all = 1 .. (n + 1) /\ DOMAIN q = 1 .. n
      /\ \A i \in DOMAIN q : all[i] = q[i]
      /\ all[n + 1] = e
  <2>1. Len(all) = n + 1 /\ DOMAIN all = DOMAIN q \cup {n + 1}
    BY <1>1, <1>6, Publishes
  <2>2. DOMAIN all = 1 .. Len(all) /\ DOMAIN q = 1 .. n
    BY <1>6
  <2>3. (\A i \in DOMAIN q : all[i] = q[i]) /\ all[n + 1] = e
    BY <1>1, <1>6, Publishes
  <2> QED
    BY <2>1, <2>2, <2>3
<1>3. \A i, j \in DOMAIN all : all[i] = all[j] => i = j
  <2>1. ASSUME NEW i \in DOMAIN all, NEW j \in DOMAIN all, all[i] = all[j] PROVE i = j
    <3>1. CASE i \in DOMAIN q /\ j \in DOMAIN q
      BY <1>2, <2>1, <3>1
    <3>2. CASE i = n + 1 \/ j = n + 1
      BY <1>2, <2>1, <3>2
    <3> QED
      BY <1>2, <3>1, <3>2
  <2> QED
    BY <2>1
<1>4. CASE n >= limit
  <2>1. PICK a \in Nat \ {0} : a = n + 2 - limit /\ a <= n + 1
    BY <1>4, <1>7
  <2>2. p = SubSeq(all, a, n + 1)
    BY <1>1, <1>4, <1>9, <2>1
  <2>3. /\ p \in Seq(T)
        /\ \A i \in DOMAIN p : i + a - 1 \in DOMAIN all /\ p[i] = all[i + a - 1]
        /\ \A i \in DOMAIN all : a <= i /\ i <= n + 1 =>
              i - a + 1 \in DOMAIN p /\ p[i - a + 1] = all[i]
    <3>1. PICK b \in Nat : b = n + 1
      OBVIOUS
    <3>2. p = SubSeq(all, a, b) /\ b <= Len(all)
      BY <1>2, <2>2, <3>1
    <3>3. p \in Seq(T) /\ Len(p) = b - a + 1 /\ \A i \in 1 .. (b - a + 1) : p[i] = all[i + a - 1]
      BY <2>1, <3>1, <3>2, CutOf
    <3>4. DOMAIN p = 1 .. (b - a + 1) /\ DOMAIN all = 1 .. b
      BY <1>2, <3>1, <3>3, SequenceDomain
    <3>5. \A i \in DOMAIN p : i + a - 1 \in DOMAIN all /\ p[i] = all[i + a - 1]
      BY <2>1, <3>1, <3>3, <3>4
    <3>6. ASSUME NEW i \in DOMAIN all, a <= i, i <= n + 1
          PROVE  i - a + 1 \in DOMAIN p /\ p[i - a + 1] = all[i]
      <4>1. PICK k \in 1 .. (b - a + 1) : k = i - a + 1
        BY <2>1, <3>1, <3>4, <3>6
      <4>2. k + a - 1 = i
        BY <3>4, <4>1
      <4> QED
        BY <3>3, <3>4, <4>1, <4>2
    <3> QED
      BY <3>3, <3>5, <3>6
  <2>4. \A i \in DOMAIN p : i \in Nat
    BY <2>3, SequenceDomain
  <2>5. \A i, j \in DOMAIN p : p[i] = p[j] => i = j
    <3>1. ASSUME NEW i \in DOMAIN p, NEW j \in DOMAIN p, p[i] = p[j] PROVE i = j
      <4>1. i + a - 1 = j + a - 1
        BY <1>3, <2>3, <3>1
      <4> QED
        BY <2>4, <4>1
    <3> QED
      BY <3>1
  <2>6. \A i \in DOMAIN p : p[i] = e \/ \E j \in DOMAIN q : p[i] = q[j]
    <3>1. ASSUME NEW i \in DOMAIN p PROVE p[i] = e \/ \E j \in DOMAIN q : p[i] = q[j]
      <4>1. PICK k \in DOMAIN all : k = i + a - 1 /\ p[i] = all[k]
        BY <2>3
      <4>2. k = n + 1 \/ k \in DOMAIN q
        BY <1>2
      <4> QED
        BY <1>2, <4>1, <4>2
    <3> QED
      BY <3>1
  <2>7. \E i \in DOMAIN p : p[i] = e
    <3>1. n + 1 \in DOMAIN all /\ a <= n + 1 /\ n + 1 <= n + 1
      BY <1>2, <2>1
    <3>2. (n + 1) - a + 1 \in DOMAIN p /\ p[(n + 1) - a + 1] = all[n + 1]
      BY <2>3, <3>1
    <3> QED
      BY <1>2, <3>2
  <2>8. \A j \in DOMAIN q : (\E i \in DOMAIN p : p[i] = q[j]) \/ j \in 1 .. (n + 1 - limit)
    <3>1. ASSUME NEW j \in DOMAIN q PROVE (\E i \in DOMAIN p : p[i] = q[j]) \/ j \in 1 .. (n + 1 - limit)
      <4>1. CASE a <= j
        <5>1. j \in DOMAIN all /\ j <= n + 1
          BY <1>2
        <5>2. j - a + 1 \in DOMAIN p /\ p[j - a + 1] = all[j]
          BY <2>3, <4>1, <5>1
        <5> QED
          BY <1>2, <5>2
      <4>2. CASE ~(a <= j)
        BY <1>2, <1>4, <2>1, <4>2
      <4> QED
        BY <4>1, <4>2
    <3> QED
      BY <3>1
  <2> QED
    BY <1>4, <2>3, <2>5, <2>6, <2>7, <2>8
<1>5. CASE ~(n >= limit)
  <2>1. p = all
    BY <1>1, <1>5, <1>9
  <2>2. \A i \in DOMAIN all : all[i] = e \/ \E j \in DOMAIN q : all[i] = q[j]
    BY <1>2
  <2>3. n + 1 \in DOMAIN all /\ all[n + 1] = e
    BY <1>2
  <2>4. \A j \in DOMAIN q : \E i \in DOMAIN all : all[i] = q[j]
    BY <1>2
  <2> QED
    BY <1>3, <2>1, <2>2, <2>3, <2>4
<1> QED
  BY <1>4, <1>5

LEMMA FeedReportStep ==
    ASSUME FeedIInv, FeedReport
    PROVE  FeedIInv'
<1>1. FeedTypes /\ ClientSound /\ NotTooOften /\ ReportsArrive /\ FeedAssumption
  BY FeedAssumption DEF FeedIInv
<1>2. PICK r \in Nat : r = rfReported
  BY <1>1, InBuffer
<1>3. PICK q \in Seq(1 .. r) : q = rfBuffer
  BY <1>1, <1>2 DEF FeedTypes
<1>4. PICK p : p = rfBuffer'
  OBVIOUS
<1>5. /\ rfReported < FeedTrades /\ rfSending = 0 /\ rfFlush = 0 /\ rfReported' = r + 1
      /\ \/ rfOnline /\ rfSending' = r + 1 /\ p = q /\ rfLost' = rfLost
         \/ /\ ~rfOnline /\ rfSending' = 0
            /\ p = IF Len(q) >= FeedBuffer THEN SubSeq(Append(q, r + 1), Len(q) + 2 - FeedBuffer, Len(q) + 1)
                   ELSE Append(q, r + 1)
            /\ rfLost' = IF Len(q) >= FeedBuffer THEN rfLost \cup {q[i] : i \in 1..(Len(q) + 1 - FeedBuffer)} ELSE rfLost
      /\ UNCHANGED <<rfOnline, rfFlush, rfTwice, rfQueue, rfListening, rfCount, rfDaily, rfSaved>>
  BY <1>2, <1>3, <1>4 DEF FeedReport, listenerVars
<1>6. r + 1 \in Reports /\ (\A i \in DOMAIN q : q[i] \in 1 .. r) /\ q \in Seq(1 .. r + 1)
  <2>1. r + 1 \in Reports
    BY <1>1, <1>2, <1>5 DEF FeedAssumption, Reports
  <2>2. \A i \in DOMAIN q : q[i] \in 1 .. r
    OBVIOUS
  <2>3. 1 .. r \subseteq 1 .. r + 1
    OBVIOUS
  <2>4. \A S, T : S \subseteq T => \A s \in Seq(S) : s \in Seq(T)
    OBVIOUS
  <2>5. q \in Seq(1 .. r + 1)
    BY <2>3, <2>4
  <2> QED
    BY <2>1, <2>2, <2>5
<1>7. /\ p \in Seq(1 .. r + 1)
      /\ \A i, j \in DOMAIN p : p[i] = p[j] => i = j
      /\ \A i \in DOMAIN p : (p[i] = r + 1 /\ rfSending' = 0) \/ \E j \in DOMAIN q : p[i] = q[j]
      /\ r + 1 = rfSending' \/ \E i \in DOMAIN p : p[i] = r + 1
      /\ \A j \in DOMAIN q : (\E i \in DOMAIN p : p[i] = q[j]) \/ q[j] \in rfLost'
      /\ rfLost \subseteq rfLost'
  <2>1. \A i, j \in DOMAIN q : q[i] = q[j] => i = j
    BY <1>1, <1>3 DEF ClientSound
  <2>2. CASE p = q /\ rfSending' = r + 1 /\ rfLost' = rfLost
    BY <1>6, <2>1, <2>2
  <2>3. CASE ~rfOnline
    <3>1. PICK T : T = 1 .. r + 1
      OBVIOUS
    <3>2. PICK e \in T : e = r + 1
      BY <3>1
    <3>3. q \in Seq(T) /\ \A i \in DOMAIN q : q[i] # e
      BY <1>6, <3>1, <3>2
    <3>4. p = Buffered(q, e) /\ rfSending' = 0
      BY <1>5, <2>3, <3>2 DEF Buffered
    <3>5. /\ p \in Seq(T)
          /\ \A i, j \in DOMAIN p : p[i] = p[j] => i = j
          /\ \A i \in DOMAIN p : p[i] = e \/ \E j \in DOMAIN q : p[i] = q[j]
          /\ \E i \in DOMAIN p : p[i] = e
          /\ \A j \in DOMAIN q : \/ \E i \in DOMAIN p : p[i] = q[j]
                                 \/ Len(q) >= FeedBuffer /\ j \in 1 .. (Len(q) + 1 - FeedBuffer)
      BY <2>1, <3>3, <3>4, BufferedReport
    <3>6. rfLost' = IF Len(q) >= FeedBuffer THEN rfLost \cup {q[i] : i \in 1..(Len(q) + 1 - FeedBuffer)} ELSE rfLost
      BY <1>5, <2>3
    <3>7. /\ \A j \in DOMAIN q : (\E i \in DOMAIN p : p[i] = q[j]) \/ q[j] \in rfLost'
          /\ rfLost \subseteq rfLost'
      BY <3>5, <3>6
    <3> QED
      BY <3>1, <3>2, <3>4, <3>5, <3>7
  <2> QED
    BY <1>5, <2>2, <2>3
<1>8. FeedTypes'
  <2>1. r + 1 \in 0 .. FeedTrades /\ rfSending' \in 0 .. r + 1
    BY <1>1, <1>2, <1>5 DEF FeedAssumption
  <2>2. rfQueue \in Seq(1 .. r + 1) /\ rfTwice \subseteq 1 .. r + 1
    <3>1. 1 .. r \subseteq 1 .. r + 1
      OBVIOUS
    <3>2. \A S, T : S \subseteq T => \A s \in Seq(S) : s \in Seq(T)
      OBVIOUS
    <3> QED
      BY <1>1, <1>2, <3>1, <3>2 DEF FeedTypes
  <2> QED
    BY <1>1, <1>4, <1>5, <1>7, <2>1, <2>2 DEF FeedTypes
<1>9. \A t : t \in RangeOf(p) <=> \E i \in DOMAIN p : p[i] = t
  <2>1. DOMAIN p = 1 .. Len(p)
    BY <1>7
  <2> QED
    BY <2>1 DEF RangeOf
<1>10. r + 1 \notin rfTwice /\ r + 1 \notin RangeOf(rfQueue) /\ r + 1 \notin RangeOf(q)
  <2>1. \A i \in 1 .. Len(rfQueue) : rfQueue[i] \in 1 .. r
    BY <1>1, <1>2 DEF FeedTypes
  <2>2. \A i \in 1 .. Len(q) : q[i] \in 1 .. r
    OBVIOUS
  <2> QED
    BY <1>1, <1>2, <2>1, <2>2 DEF FeedTypes, RangeOf
<1>11. ClientSound'
  <2>1. \A i, j \in DOMAIN rfBuffer' : rfBuffer'[i] = rfBuffer'[j] => i = j
    BY <1>4, <1>7
  <2>2. rfSending' # 0 => rfOnline /\ p = q /\ rfSending' = r + 1
    BY <1>5
  <2> QED
    BY <1>3, <1>4, <1>5, <1>10, <2>1, <2>2 DEF ClientSound, RangeOf
<1>12. \A t \in Reports : MayCome(t)' => MayCome(t) \/ t = r + 1
  <2>1. ASSUME NEW t, NEW i \in DOMAIN p, p[i] = t PROVE t = r + 1 \/ MayCome(t)
    <3>1. ASSUME NEW j \in DOMAIN q, p[i] = q[j] PROVE MayCome(t)
      <4>1. j >= rfFlush
        BY <1>5
      <4> QED
        BY <1>3, <2>1, <3>1, <4>1 DEF MayCome
    <3> QED
      BY <1>7, <2>1, <3>1
  <2>2. \A t \in Reports : t = rfSending' => t = r + 1
    BY <1>5 DEF Reports
  <2> QED
    BY <1>4, <2>1, <2>2 DEF MayCome
<1>13. NotTooOften'
  <2>1. ASSUME NEW t \in Reports
        PROVE  /\ rfSaved[t] <= rfCount[t]
               /\ t > r + 1 => rfCount[t] = 0
               /\ rfCount[t] + Cardinality(Places(rfQueue, t)) + (IF MayCome(t)' THEN 1 ELSE 0)
                     <= IF t \in rfTwice THEN 2 ELSE 1
    <3>1. /\ rfSaved[t] <= rfCount[t]
          /\ t > r => rfCount[t] = 0
          /\ rfCount[t] + Cardinality(Places(rfQueue, t)) + (IF MayCome(t) THEN 1 ELSE 0)
                <= IF t \in rfTwice THEN 2 ELSE 1
      BY <1>1, <1>2 DEF NotTooOften
    <3>2. PICK c, u, m, n, k :
              /\ c = rfCount[t] /\ u = Cardinality(Places(rfQueue, t))
              /\ m = (IF MayCome(t) THEN 1 ELSE 0) /\ n = (IF MayCome(t)' THEN 1 ELSE 0)
              /\ k = (IF t \in rfTwice THEN 2 ELSE 1)
      OBVIOUS
    <3>3. c \in Nat /\ u \in Nat /\ m \in Nat /\ n \in 0 .. 1 /\ k \in 1 .. 2 /\ t \in Nat
      <4>1. c \in Nat
        BY <1>1, <3>2 DEF FeedTypes
      <4>2. u \in Nat
        BY <1>1, <3>2, QueueCounts
      <4>3. m \in Nat /\ n \in 0 .. 1 /\ k \in 1 .. 2
        BY <3>2
      <4> QED
        BY <4>1, <4>2, <4>3 DEF Reports
    <3>4. c + u + n <= k
      <4>1. CASE t = r + 1
        <5>1. c = 0 /\ u = 0
          BY <1>1, <1>10, <3>1, <3>2, <4>1, QueueOf
        <5> QED
          BY <3>3, <5>1
      <4>2. CASE t # r + 1
        <5>1. n <= m
          BY <1>12, <3>2, <4>2
        <5>2. c + u + m <= k
          BY <3>1, <3>2
        <5> QED
          BY <3>3, <5>1, <5>2
      <4> QED
        BY <4>1, <4>2
    <3>5. t > r + 1 => rfCount[t] = 0
      BY <3>1, <3>3
    <3> QED
      BY <3>1, <3>2, <3>4, <3>5
  <2> QED
    BY <1>5, <2>1 DEF NotTooOften
<1>14. FlushedIsGone'
  <2>1. \A i \in DOMAIN rfBuffer' : ~(i < rfFlush')
    <3>1. \A i \in DOMAIN p : i \in Nat /\ i >= 1
      <4>1. \A S : \A s \in Seq(S) : \A i \in DOMAIN s : i \in Nat /\ i >= 1
        BY SequenceDomain
      <4> QED
        BY <1>7, <4>1
    <3> QED
      BY <1>4, <1>5, <3>1
  <2> QED
    BY <2>1 DEF FlushedIsGone
<1>15. ReportsArrive'
  <2>1. ASSUME NEW t \in 1 .. r + 1
        PROVE  t \in rfLost' \/ t = rfSending' \/ rfCount[t] > 0 \/ t \in RangeOf(p) \cup RangeOf(rfQueue)
    <3>1. CASE t = r + 1
      BY <1>7, <1>9, <3>1
    <3>2. CASE t \in 1 .. r
      <4>1. t \in rfLost \/ rfCount[t] > 0 \/ t \in RangeOf(q) \cup RangeOf(rfQueue)
        <5>1. t # rfSending
          BY <1>5, <3>2
        <5> QED
          BY <1>1, <1>2, <1>3, <3>2, <5>1 DEF ReportsArrive
      <4>2. ASSUME t \in RangeOf(q) PROVE t \in RangeOf(p) \/ t \in rfLost'
        <5>1. PICK j \in DOMAIN q : q[j] = t
          BY <4>2 DEF RangeOf
        <5> QED
          BY <1>7, <1>9, <5>1
      <4> QED
        BY <1>7, <4>1, <4>2
    <3> QED
      BY <3>1, <3>2
  <2> QED
    BY <1>4, <1>5, <2>1 DEF ReportsArrive, RangeOf
<1> QED
  BY <1>8, <1>11, <1>13, <1>14, <1>15 DEF FeedIInv

LEMMA FeedStep == FeedIInv /\ [FeedNext]_rfVars => FeedIInv'
  BY FeedReportStep, PublishedStep, ConnectStep, PublishRaisesStep, FlushOneStep, ListenerStep,
     HandleTradeStep DEF FeedNext

LEMMA FeedHolds == FeedIInv => CountedOnce /\ ReportsArrive
<1> SUFFICES ASSUME FeedIInv PROVE CountedOnce
  BY DEF FeedIInv
<1>1. FeedTypes /\ NotTooOften
  BY DEF FeedIInv
<1>2. ASSUME NEW t \in Reports PROVE rfCount[t] <= (IF t \in rfTwice THEN 2 ELSE 1)
  <2>1. rfCount[t] \in Nat /\ Cardinality(Places(rfQueue, t)) \in Nat
    BY <1>1, QueueCounts DEF FeedTypes
  <2>2. rfCount[t] + Cardinality(Places(rfQueue, t)) + (IF MayCome(t) THEN 1 ELSE 0)
           <= IF t \in rfTwice THEN 2 ELSE 1
    BY <1>1 DEF NotTooOften
  <2>3. PICK m \in Nat : m = (IF MayCome(t) THEN 1 ELSE 0)
    OBVIOUS
  <2>4. PICK k \in Nat : k = (IF t \in rfTwice THEN 2 ELSE 1)
    OBVIOUS
  <2> QED
    BY <2>1, <2>2, <2>3, <2>4
<1> QED
  BY <1>2 DEF CountedOnce

\* The way of a trade to the reward service, for any number of trades and size of the
\* buffer: it is counted once, or twice after a publish that raised, and is on its way
\* or counted unless one of the named losses hit it (mqtt_client.py, reward_service.py).
THEOREM FeedDelivers == FeedSpec => [](CountedOnce /\ ReportsArrive)
  BY FeedHolds, FeedInitHolds, FeedStep, PTL DEF FeedSpec

------------------------------------------------------------------------------
(* The desk that composes them. *)

RecordsIInv == LogIInv /\ AuditIInv /\ VaultIInv /\ SharedIInv /\ FeedIInv /\ TowerIInv

\* A step of the desk is a step of one of them, or leaves them alone.
LEMMA DeskRecordsApart ==
    [DeskNext]_deskVars => /\ [LogNext]_elVars /\ [AuditNext]_atVars /\ [VaultNext]_vaVars
                           /\ [SharedNext]_srVars /\ [FeedNext]_rfVars /\ [TowerNext]_ctVars
<1> SUFFICES ASSUME [DeskNext]_deskVars
             PROVE  /\ [LogNext]_elVars /\ [AuditNext]_atVars /\ [VaultNext]_vaVars
                    /\ [SharedNext]_srVars /\ [FeedNext]_rfVars /\ [TowerNext]_ctVars
  OBVIOUS
<1>1. CASE UNCHANGED deskVars
  BY <1>1 DEF deskVars
<1>2. CASE DeskNext
  <2>1. /\ UNCHANGED elVars \/ which = "log"
        /\ UNCHANGED atVars \/ which = "audit"
        /\ UNCHANGED vaVars \/ which = "vault"
        /\ UNCHANGED srVars \/ which = "shared"
        /\ UNCHANGED rfVars \/ which = "feed"
        /\ UNCHANGED ctVars \/ which = "tower"
    BY <1>2, ZenonT(60) DEF DeskNext, Only
  <2>2. /\ which = "log" => LogNext
        /\ which = "audit" => AuditNext
        /\ which = "vault" => VaultNext
        /\ which = "shared" => SharedNext
        /\ which = "feed" => FeedNext
        /\ which = "tower" => TowerNext
    BY <1>2, ZenonT(60) DEF DeskNext, Only
  <2> QED
    BY <2>1, <2>2
<1> QED
  BY <1>1, <1>2

LEMMA RecordsHold == RecordsIInv => RecordsAreKept
  BY AuditHolds, VaultHolds, FeedHolds DEF RecordsIInv, LogIInv, SharedIInv, TowerIInv,
     LoggedIsKept, OneCollectorEach, RecordsAreKept

\* On the desk, a logged event is indexed once, a burst of failures is alerted, a secret
\* is what was last stored, a save loses no reward that was read, a trade is counted
\* once and a market collected by one task, but for the causes that are named.
THEOREM DeskRecords == DeskSpec => []RecordsAreKept
<1>1. DeskInit => RecordsIInv
  BY LogInitHolds, AuditInitHolds, VaultInitHolds, SharedInitHolds, FeedInitHolds, TowerInitHolds
     DEF DeskInit, RecordsIInv
<1>2. RecordsIInv /\ [DeskNext]_deskVars => RecordsIInv'
  BY DeskRecordsApart, LogStep, AuditStep, VaultStep, SharedStep, FeedStep, TowerStep DEF RecordsIInv
<1> QED
  BY <1>1, <1>2, RecordsHold, PTL DEF DeskSpec

------------------------------------------------------------------------------
(* The verification center.  A result is that of a signal the generator makes, *)
(* and its nine scores bound what may have failed.                             *)

\* What the generator makes.
Made(s) ==
    /\ s.confidence \in 0..100 /\ s.size \in 10..20
    /\ s.entry \in Nat /\ s.entry >= 100 /\ s.stop \in Int /\ s.target \in Int

\* A step's score is at most best, at most worst when the step failed, and at least
\* least when it did not.
Bounded(step, best, worst, least) ==
    /\ step.score \in 0..best
    /\ step.status = "failed" => step.score <= worst
    /\ step.status # "failed" => step.score >= least

LEMMA FreshnessBounded == ASSUME NEW age \in Nat PROVE Bounded(Freshness(age), 100, 0, 60)
<1>1. PICK q : q = (20 * age) \div 300
  OBVIOUS
<1>2. q \in Nat /\ (age <= 300 => q <= 20)
  BY <1>1
<1>3. PICK score : score = IF age <= 300 THEN 100 - q ELSE IF age <= 600 THEN 60 ELSE 0
  OBVIOUS
<1>4. Freshness(age) = Step(score, age <= 300, age <= 600)
  BY <1>1, <1>3 DEF Freshness, Graded
<1>5. /\ score \in 0..100 /\ (~(age <= 300) /\ ~(age <= 600) => score <= 0)
      /\ (age <= 300 \/ age <= 600 => score >= 60)
  BY <1>2, <1>3
<1> QED
  BY <1>4, <1>5 DEF Bounded, Step

LEMMA PriceBounded == ASSUME NEW deviation \in Nat \cup {None} PROVE Bounded(PriceConsistency(deviation), 100, 50, 60)
<1>1. CASE deviation = None
  BY <1>1 DEF PriceConsistency, Bounded, Step
<1>2. CASE deviation # None
  <2>0. deviation \in Nat
    BY <1>2
  <2>1. PICK score : score = IF deviation <= 2 THEN 100 - 10 * deviation
                             ELSE IF deviation <= 4 THEN 60 ELSE AtLeastZero(100 - 10 * deviation)
    OBVIOUS
  <2>2. PriceConsistency(deviation) = Step(score, deviation <= 2, deviation <= 4)
    BY <1>2, <2>1 DEF PriceConsistency, Graded
  <2>3. /\ score \in 0..100 /\ (~(deviation <= 2) /\ ~(deviation <= 4) => score <= 50)
        /\ (deviation <= 2 \/ deviation <= 4 => score >= 60)
    BY <2>0, <2>1 DEF AtLeastZero
  <2> QED
    BY <2>0, <2>2, <2>3 DEF Bounded, Step
<1> QED
  BY <1>1, <1>2

LEMMA VolumeBounded == ASSUME NEW ratio \in Nat \cup {None} PROVE Bounded(VolumeStep(ratio), 100, 20, 10)
<1>1. CASE ratio = None
  BY <1>1 DEF VolumeStep, Bounded, Step
<1>2. CASE ratio # None
  <2>0. ratio \in Nat
    BY <1>2
  <2>1. PICK score : score = IF ratio >= 10 THEN Capped(ratio) ELSE IF ratio >= 5 THEN 50 ELSE 5 * ratio
    OBVIOUS
  <2>2. VolumeStep(ratio) = Step(score, ratio >= 10, ratio >= 5)
    BY <1>2, <2>1 DEF VolumeStep
  <2>3. /\ score \in 0..100 /\ (~(ratio >= 10) /\ ~(ratio >= 5) => score <= 20)
        /\ (ratio >= 10 \/ ratio >= 5 => score >= 10)
    BY <2>0, <2>1 DEF Capped
  <2> QED
    BY <2>0, <2>2, <2>3 DEF Bounded, Step
<1> QED
  BY <1>1, <1>2

LEMMA QuotientIsNat == ASSUME NEW a \in Nat, NEW b \in Nat, b > 0 PROVE a \div b \in Nat
  OBVIOUS

LEMMA VolatilityBounded ==
    ASSUME NEW s, Made(s), NEW ind \in IndicatorValues
    PROVE  Bounded(Volatility(s, ind), 100, 0, 60)
<1>1. PICK ratio : ratio = (100 * ind.atr) \div s.entry
  OBVIOUS
<1>2. ratio \in Nat
  <2>1. 100 * ind.atr \in Nat /\ s.entry \in Nat /\ s.entry > 0
    BY DEF Made, IndicatorValues
  <2> QED
    BY <1>1, <2>1, QuotientIsNat
<1>3. PICK score : score = IF ratio <= 5 THEN 100 - 6 * ratio
                           ELSE IF ratio <= 10 THEN 60 ELSE AtLeastZero(100 - 10 * ratio)
  OBVIOUS
<1>4. Volatility(s, ind) = Step(score, ratio <= 5, ratio <= 10)
  BY <1>1, <1>3 DEF Volatility, Graded
<1>5. /\ score \in 0..100 /\ (~(ratio <= 5) /\ ~(ratio <= 10) => score <= 0)
      /\ (ratio <= 5 \/ ratio <= 10 => score >= 60)
  BY <1>2, <1>3 DEF AtLeastZero
<1> QED
  BY <1>2, <1>4, <1>5 DEF Bounded, Step

LEMMA LiquidityBounded == ASSUME NEW spread \in Nat \cup {None} PROVE Bounded(Liquidity(spread), 100, 0, 50)
<1>1. CASE spread = None
  BY <1>1 DEF Liquidity, Bounded, Step
<1>2. CASE spread # None
  <2>0. spread \in Nat
    BY <1>2
  <2>1. PICK score : score = IF spread <= 5 THEN 100 - 6 * spread
                             ELSE IF spread <= 15 THEN 60 ELSE AtLeastZero(100 - 10 * spread)
    OBVIOUS
  <2>2. Liquidity(spread) = Step(score, spread <= 5, spread <= 15)
    BY <1>2, <2>1 DEF Liquidity, Graded
  <2>3. /\ score \in 0..100 /\ (~(spread <= 5) /\ ~(spread <= 15) => score <= 0)
        /\ (spread <= 5 \/ spread <= 15 => score >= 50)
    BY <2>0, <2>1 DEF AtLeastZero
  <2> QED
    BY <2>0, <2>2, <2>3 DEF Bounded, Step
<1> QED
  BY <1>1, <1>2

\* A score of either step of the trend is compared with 70 and 40.
LEMMA TrendLike ==
    ASSUME NEW score \in Nat, score <= 100
    PROVE  Bounded(Step(score, score >= 70, score >= 40), 100, 39, 40)
<1>1. /\ score \in 0..100 /\ (~(score >= 70) /\ ~(score >= 40) => score <= 39)
      /\ (score >= 70 \/ score >= 40 => score >= 40)
  OBVIOUS
<1> QED
  BY <1>1 DEF Bounded, Step

LEMMA TrendBounded == ASSUME NEW s, NEW ind PROVE Bounded(Trend(s, ind), 100, 39, 40)
<1>1. PICK x \in {0, 40}, y \in {0, 30}, z \in {0, 30} :
          Trend(s, ind) = Step(x + y + z, x + y + z >= 70, x + y + z >= 40)
  BY DEF Trend
<1>2. PICK score : score = x + y + z
  OBVIOUS
<1>3. score \in Nat /\ score <= 100 /\ Trend(s, ind) = Step(score, score >= 70, score >= 40)
  BY <1>1, <1>2
<1> QED
  BY <1>3, TrendLike

LEMMA MomentumBounded == ASSUME NEW s, NEW ind PROVE Bounded(Momentum(s, ind), 100, 20, 50)
<1>1. PICK x \in {0, 20, 50}, y \in {0, 50} :
          Momentum(s, ind) = Step(x + y, x + y >= 70, x + y >= 40)
  BY DEF Momentum
<1>2. PICK score : score = x + y
  OBVIOUS
<1>3. /\ score \in 0..100 /\ (~(score >= 70) /\ ~(score >= 40) => score <= 20)
      /\ (score >= 70 \/ score >= 40 => score >= 50)
  BY <1>2
<1>4. Momentum(s, ind) = Step(score, score >= 70, score >= 40)
  BY <1>1, <1>2
<1> QED
  BY <1>3, <1>4 DEF Bounded, Step

LEMMA QualityBounded ==
    ASSUME NEW s, Made(s), NEW backtest \in Nat \cup {None}
    PROVE  Bounded(Quality(s, backtest), 100, 49, 50)
<1>0. s.confidence \in 0..100
  BY DEF Made
<1>1. PICK c : c = s.confidence
  OBVIOUS
<1>2. PICK score : score = IF backtest = None THEN c
                           ELSE IF backtest >= 55 THEN Capped((c + backtest) \div 2) ELSE (c * 7) \div 10
  OBVIOUS
<1>3. Quality(s, backtest) = Step(score, score >= 55, score >= 50)
  BY <1>1, <1>2 DEF Quality
<1>4. score \in 0..100
  <2>1. CASE backtest = None
    BY <1>0, <1>1, <1>2, <2>1
  <2>2. CASE backtest # None
    <3>1. backtest \in Nat /\ c \in Nat /\ c <= 100
      BY <1>0, <1>1, <2>2
    <3>2. PICK half, less : half = (c + backtest) \div 2 /\ less = (c * 7) \div 10
      OBVIOUS
    <3>3. half \in Nat
      BY <3>1, <3>2
    <3>4. less \in 0..100
      BY <3>1, <3>2
    <3> QED
      BY <1>2, <2>2, <3>2, <3>3, <3>4 DEF Capped
  <2> QED
    BY <2>1, <2>2
<1>5. (~(score >= 55) /\ ~(score >= 50) => score <= 49) /\ (score >= 55 \/ score >= 50 => score >= 50)
  BY <1>4
<1> QED
  BY <1>3, <1>4, <1>5 DEF Bounded, Step

\* A signal's size is within its limit, so that the step of the risk never fails.
LEMMA RiskBounded == ASSUME NEW s, Made(s) PROVE Bounded(Risk(s), 100, 0, 70)
<1>1. PICK risk, reward : risk = Distance(s.entry, s.stop) /\ reward = Distance(s.target, s.entry)
  OBVIOUS
<1>2. risk \in Nat /\ reward \in Nat
  BY <1>1 DEF Distance, Made
<1>3. PICK base : base = 100 - (IF s.size > 20 THEN 30 ELSE 0) - (IF risk * 100 > s.entry * 5 THEN 10 ELSE 0)
  OBVIOUS
<1>4. base \in {90, 100}
  BY <1>3 DEF Made
<1>5. PICK score : score = IF reward >= 2 * risk THEN Capped(base + 10) ELSE IF reward < risk THEN base - 20 ELSE base
  OBVIOUS
<1>6. score \in 70..100
  BY <1>4, <1>5 DEF Capped
<1>7. Risk(s) = Step(score, score >= 80, score >= 50)
  BY <1>1, <1>3, <1>5 DEF Risk
<1> QED
  BY <1>6, <1>7 DEF Bounded, Step

------------------------------------------------------------------------------
(* The nine steps together *)

\* The steps of a result, each within its bounds.
NineBounded(steps) ==
    /\ Bounded(steps[1], 100, 0, 60) /\ Bounded(steps[2], 100, 50, 60) /\ Bounded(steps[3], 100, 20, 10)
    /\ Bounded(steps[4], 100, 0, 60) /\ Bounded(steps[5], 100, 0, 50) /\ Bounded(steps[6], 100, 39, 40)
    /\ Bounded(steps[7], 100, 20, 50) /\ Bounded(steps[8], 100, 49, 50) /\ Bounded(steps[9], 100, 0, 70)

SumOf(steps) ==
    10 * steps[1].score + 15 * steps[2].score + 10 * steps[3].score + 10 * steps[4].score
        + 10 * steps[5].score + 15 * steps[6].score + 10 * steps[7].score + 10 * steps[8].score
        + 10 * steps[9].score

LEMMA WeightsAre ==
    /\ Weight[1] = 10 /\ Weight[2] = 15 /\ Weight[3] = 10 /\ Weight[4] = 10 /\ Weight[5] = 10
    /\ Weight[6] = 15 /\ Weight[7] = 10 /\ Weight[8] = 10 /\ Weight[9] = 10
  BY DEF Weight

LEMMA ExecuteBounded ==
    ASSUME NEW s, Made(s), NEW ind \in IndicatorValues, NEW cond \in Conditions,
           NEW r, r = Execute(s, ind, cond)
    PROVE  /\ r.signal = s /\ Len(r.steps) = 9 /\ NineBounded(r.steps)
           /\ r.score = SumOf(r.steps) /\ r.status = Status(r.score)
<1>1. PICK steps : steps = Steps(s, ind, cond)
  OBVIOUS
<1>2. /\ cond.age \in Nat /\ cond.deviation \in Nat \cup {None} /\ cond.ratio \in Nat \cup {None}
      /\ cond.spread \in Nat \cup {None} /\ cond.backtest \in Nat \cup {None}
  BY VerificationAssumption
<1>3. /\ steps[1] = Freshness(cond.age) /\ steps[2] = PriceConsistency(cond.deviation)
      /\ steps[3] = VolumeStep(cond.ratio) /\ steps[4] = Volatility(s, ind)
      /\ steps[5] = Liquidity(cond.spread) /\ steps[6] = Trend(s, ind) /\ steps[7] = Momentum(s, ind)
      /\ steps[8] = Quality(s, cond.backtest) /\ steps[9] = Risk(s)
      /\ Len(steps) = 9
  BY <1>1 DEF Steps
<1>4. Bounded(steps[1], 100, 0, 60) /\ Bounded(steps[2], 100, 50, 60) /\ Bounded(steps[3], 100, 20, 10)
  BY <1>2, <1>3, FreshnessBounded, PriceBounded, VolumeBounded
<1>5. Bounded(steps[4], 100, 0, 60) /\ Bounded(steps[5], 100, 0, 50) /\ Bounded(steps[6], 100, 39, 40)
  <2>1. Bounded(Volatility(s, ind), 100, 0, 60)
    BY VolatilityBounded
  <2>2. Bounded(Liquidity(cond.spread), 100, 0, 50)
    BY <1>2, LiquidityBounded
  <2>3. Bounded(Trend(s, ind), 100, 39, 40)
    BY TrendBounded
  <2> QED
    BY <1>3, <2>1, <2>2, <2>3
<1>6. Bounded(steps[7], 100, 20, 50) /\ Bounded(steps[8], 100, 49, 50) /\ Bounded(steps[9], 100, 0, 70)
  <2>1. Bounded(Momentum(s, ind), 100, 20, 50)
    BY MomentumBounded
  <2>2. Bounded(Quality(s, cond.backtest), 100, 49, 50)
    BY <1>2, QualityBounded
  <2>3. Bounded(Risk(s), 100, 0, 70)
    BY RiskBounded
  <2> QED
    BY <1>3, <2>1, <2>2, <2>3
<1>7. r = [signal |-> s, steps |-> steps, score |-> SumOf(steps), status |-> Status(SumOf(steps))]
  <2>1. r = LET Weighted(i) == Weight[i] * steps[i].score
                score == Weighted(1) + Weighted(2) + Weighted(3) + Weighted(4) + Weighted(5) + Weighted(6)
                             + Weighted(7) + Weighted(8) + Weighted(9)
            IN  [signal |-> s, steps |-> steps, score |-> score, status |-> Status(score)]
    BY <1>1 DEF Execute
  <2> QED
    BY <2>1, WeightsAre DEF SumOf
<1> QED
  BY <1>3, <1>4, <1>5, <1>6, <1>7 DEF NineBounded

\* How many of the nine are in a set, one after the other.
Tally(F, i) == IF i \in F THEN 1 ELSE 0

LEMMA OneMore ==
    ASSUME NEW F, NEW n \in Nat, IsFiniteSet(F \cap (1..n))
    PROVE  /\ IsFiniteSet(F \cap (1..n+1))
           /\ Cardinality(F \cap (1..n+1)) = Cardinality(F \cap (1..n)) + Tally(F, n + 1)
<1>1. n + 1 \notin F \cap (1..n)
  OBVIOUS
<1>2. Cardinality(F \cap (1..n)) \in Nat
  BY FS_CardinalityType
<1>3. CASE n + 1 \in F
  <2>1. PICK old, new : old = F \cap (1..n) /\ new = F \cap (1..n+1)
    OBVIOUS
  <2>2. new = old \cup {n + 1}
    BY <1>3, <2>1
  <2>3. n + 1 \notin old /\ IsFiniteSet(old)
    BY <1>1, <2>1
  <2>4. IsFiniteSet(old \cup {n + 1}) /\ Cardinality(old \cup {n + 1}) = Cardinality(old) + 1
    BY <2>3, FS_AddElement
  <2> QED
    BY <1>3, <2>1, <2>2, <2>4 DEF Tally
<1>4. CASE n + 1 \notin F
  <2>1. F \cap (1..n+1) = F \cap (1..n)
    BY <1>4
  <2> QED
    BY <1>2, <1>4, <2>1 DEF Tally
<1> QED
  BY <1>3, <1>4

LEMMA NineCounted ==
    ASSUME NEW F, F \subseteq 1..9
    PROVE  Cardinality(F) = Tally(F, 1) + Tally(F, 2) + Tally(F, 3) + Tally(F, 4) + Tally(F, 5)
                                + Tally(F, 6) + Tally(F, 7) + Tally(F, 8) + Tally(F, 9)
<1> DEFINE C(n) == Cardinality(F \cap (1..n))
           Fin(n) == IsFiniteSet(F \cap (1..n))
<1>0. Fin(0) /\ C(0) = 0
  <2>1. F \cap (1..0) = {}
    OBVIOUS
  <2> QED
    BY <2>1, FS_EmptySet
<1>1. \A n \in Nat : Fin(n) => Fin(n + 1) /\ C(n + 1) = C(n) + Tally(F, n + 1)
  BY OneMore
<1>2. F \cap (1..9) = F
  OBVIOUS
<1>3. C(9) = Cardinality(F)
  BY <1>2
<1>4. \A i : Tally(F, i) \in {0, 1}
  BY DEF Tally
<1> HIDE DEF C, Fin
<1>5. Fin(1) /\ C(1) = Tally(F, 1)
  BY <1>0, <1>1, <1>4
<1>6. Fin(2) /\ C(2) = C(1) + Tally(F, 2)
  BY <1>1, <1>5
<1>7. Fin(3) /\ C(3) = C(2) + Tally(F, 3)
  BY <1>1, <1>6
<1>8. Fin(4) /\ C(4) = C(3) + Tally(F, 4)
  BY <1>1, <1>7
<1>9. Fin(5) /\ C(5) = C(4) + Tally(F, 5)
  BY <1>1, <1>8
<1>10. Fin(6) /\ C(6) = C(5) + Tally(F, 6)
  BY <1>1, <1>9
<1>11. Fin(7) /\ C(7) = C(6) + Tally(F, 7)
  BY <1>1, <1>10
<1>12. Fin(8) /\ C(8) = C(7) + Tally(F, 8)
  BY <1>1, <1>11
<1>13. Fin(9) /\ C(9) = C(8) + Tally(F, 9)
  BY <1>1, <1>12
<1> QED
  BY <1>3, <1>5, <1>6, <1>7, <1>8, <1>9, <1>10, <1>11, <1>12, <1>13

\* What the sum of the nine lies in.
ScoreFits(r) == r.score \in Nat /\ r.score <= 10000

\* Within their bounds, the weighted sum tells how many steps may have failed.
LEMMA SumTellsFailures ==
    ASSUME NEW r, NineBounded(r.steps), r.score = SumOf(r.steps), r.status = Status(r.score)
    PROVE  /\ ScoreFits(r)
           /\ r.status = "passed" => Cardinality(FailedSteps(r)) <= 3
           /\ r.status = "warning" => Cardinality(FailedSteps(r)) <= 6
           /\ r.status = "failed" => FailedSteps(r) # {}
<1>1. PICK F : F = FailedSteps(r)
  OBVIOUS
<1>2. F \subseteq 1..9 /\ \A i \in 1..9 : i \in F <=> r.steps[i].status = "failed"
  BY <1>1 DEF FailedSteps
<1>3. PICK f1, f2, f3, f4, f5, f6, f7, f8, f9 :
          /\ f1 = Tally(F, 1) /\ f2 = Tally(F, 2) /\ f3 = Tally(F, 3) /\ f4 = Tally(F, 4)
          /\ f5 = Tally(F, 5) /\ f6 = Tally(F, 6) /\ f7 = Tally(F, 7) /\ f8 = Tally(F, 8) /\ f9 = Tally(F, 9)
  OBVIOUS
<1>4. Cardinality(F) = f1 + f2 + f3 + f4 + f5 + f6 + f7 + f8 + f9
  BY <1>2, <1>3, NineCounted
<1>5. PICK s1, s2, s3, s4, s5, s6, s7, s8, s9 :
          /\ s1 = r.steps[1].score /\ s2 = r.steps[2].score /\ s3 = r.steps[3].score
          /\ s4 = r.steps[4].score /\ s5 = r.steps[5].score /\ s6 = r.steps[6].score
          /\ s7 = r.steps[7].score /\ s8 = r.steps[8].score /\ s9 = r.steps[9].score
  OBVIOUS
<1>6. /\ s1 \in 0..100 /\ f1 \in {0, 1} /\ (f1 = 1 => s1 <= 0) /\ (f1 = 0 => s1 >= 60)
      /\ s2 \in 0..100 /\ f2 \in {0, 1} /\ (f2 = 1 => s2 <= 50) /\ (f2 = 0 => s2 >= 60)
      /\ s3 \in 0..100 /\ f3 \in {0, 1} /\ (f3 = 1 => s3 <= 20) /\ (f3 = 0 => s3 >= 10)
  <2>1. Bounded(r.steps[1], 100, 0, 60) /\ (1 \in F <=> r.steps[1].status = "failed")
    BY <1>2 DEF NineBounded
  <2>2. Bounded(r.steps[2], 100, 50, 60) /\ (2 \in F <=> r.steps[2].status = "failed")
    BY <1>2 DEF NineBounded
  <2>3. Bounded(r.steps[3], 100, 20, 10) /\ (3 \in F <=> r.steps[3].status = "failed")
    BY <1>2 DEF NineBounded
  <2> QED
    BY <1>3, <1>5, <2>1, <2>2, <2>3 DEF Bounded, Tally
<1>7. /\ s4 \in 0..100 /\ f4 \in {0, 1} /\ (f4 = 1 => s4 <= 0) /\ (f4 = 0 => s4 >= 60)
      /\ s5 \in 0..100 /\ f5 \in {0, 1} /\ (f5 = 1 => s5 <= 0) /\ (f5 = 0 => s5 >= 50)
      /\ s6 \in 0..100 /\ f6 \in {0, 1} /\ (f6 = 1 => s6 <= 39) /\ (f6 = 0 => s6 >= 40)
  <2>1. Bounded(r.steps[4], 100, 0, 60) /\ (4 \in F <=> r.steps[4].status = "failed")
    BY <1>2 DEF NineBounded
  <2>2. Bounded(r.steps[5], 100, 0, 50) /\ (5 \in F <=> r.steps[5].status = "failed")
    BY <1>2 DEF NineBounded
  <2>3. Bounded(r.steps[6], 100, 39, 40) /\ (6 \in F <=> r.steps[6].status = "failed")
    BY <1>2 DEF NineBounded
  <2> QED
    BY <1>3, <1>5, <2>1, <2>2, <2>3 DEF Bounded, Tally
<1>8. /\ s7 \in 0..100 /\ f7 \in {0, 1} /\ (f7 = 1 => s7 <= 20) /\ (f7 = 0 => s7 >= 50)
      /\ s8 \in 0..100 /\ f8 \in {0, 1} /\ (f8 = 1 => s8 <= 49) /\ (f8 = 0 => s8 >= 50)
      /\ s9 \in 0..100 /\ f9 \in {0, 1} /\ (f9 = 1 => s9 <= 0) /\ (f9 = 0 => s9 >= 70)
  <2>1. Bounded(r.steps[7], 100, 20, 50) /\ (7 \in F <=> r.steps[7].status = "failed")
    BY <1>2 DEF NineBounded
  <2>2. Bounded(r.steps[8], 100, 49, 50) /\ (8 \in F <=> r.steps[8].status = "failed")
    BY <1>2 DEF NineBounded
  <2>3. Bounded(r.steps[9], 100, 0, 70) /\ (9 \in F <=> r.steps[9].status = "failed")
    BY <1>2 DEF NineBounded
  <2> QED
    BY <1>3, <1>5, <2>1, <2>2, <2>3 DEF Bounded, Tally
<1>9. r.score = 10 * s1 + 15 * s2 + 10 * s3 + 10 * s4 + 10 * s5 + 15 * s6 + 10 * s7 + 10 * s8 + 10 * s9
  BY <1>5 DEF SumOf
<1>10. ScoreFits(r) /\ r.score \in Int
  <2>1. /\ s1 \in Int /\ s2 \in Int /\ s3 \in Int /\ s4 \in Int /\ s5 \in Int
        /\ s6 \in Int /\ s7 \in Int /\ s8 \in Int /\ s9 \in Int
    BY <1>6, <1>7, <1>8
  <2>2. /\ 0 <= s1 /\ 0 <= s2 /\ 0 <= s3 /\ 0 <= s4 /\ 0 <= s5
        /\ 0 <= s6 /\ 0 <= s7 /\ 0 <= s8 /\ 0 <= s9
    BY <1>6, <1>7, <1>8
  <2>3. /\ s1 <= 100 /\ s2 <= 100 /\ s3 <= 100 /\ s4 <= 100 /\ s5 <= 100
        /\ s6 <= 100 /\ s7 <= 100 /\ s8 <= 100 /\ s9 <= 100
    BY <1>6, <1>7, <1>8
  <2>4. r.score \in Int
    BY ONLY <1>9, <2>1
  <2>5. 0 <= r.score /\ r.score <= 10000
    BY ONLY <1>9, <2>1, <2>2, <2>3
  <2> QED
    BY ONLY <2>4, <2>5 DEF ScoreFits
<1>11. /\ r.score >= 7500 => f1 + f2 + f3 + f4 + f5 + f6 + f7 + f8 + f9 <= 3
       /\ r.score >= 5000 => f1 + f2 + f3 + f4 + f5 + f6 + f7 + f8 + f9 <= 6
       /\ f1 + f2 + f3 + f4 + f5 + f6 + f7 + f8 + f9 = 0 => r.score >= 5000
  BY <1>6, <1>7, <1>8, <1>9
<1>12. F = {} => Cardinality(F) = 0
  BY FS_EmptySet
<1>14. /\ r.score >= 7500 => Cardinality(FailedSteps(r)) <= 3
       /\ r.score >= 5000 => Cardinality(FailedSteps(r)) <= 6
       /\ ~(r.score >= 5000) => FailedSteps(r) # {}
  BY <1>1, <1>4, <1>11, <1>12
<1>15. /\ r.status = "passed" => r.score >= 7500
       /\ r.status = "warning" => r.score >= 5000
       /\ r.status = "failed" => ~(r.score >= 5000)
  BY DEF Status
<1> QED
  BY ONLY <1>10, <1>14, <1>15

------------------------------------------------------------------------------
(* The signals. *)

LEMMA ThreeMet ==
    ASSUME NEW met, DOMAIN met = 1..3
    PROVE  /\ Percent(met, 3) \in 0..100
           /\ Percent(met, 3) > 60 => (met[1] /\ met[2]) \/ (met[1] /\ met[3]) \/ (met[2] /\ met[3])
<1>1. PICK F : F = {c \in DOMAIN met : met[c]}
  OBVIOUS
<1>2. /\ F \subseteq 1..9 /\ (1 \in F <=> met[1]) /\ (2 \in F <=> met[2]) /\ (3 \in F <=> met[3])
      /\ 4 \notin F /\ 5 \notin F /\ 6 \notin F /\ 7 \notin F /\ 8 \notin F /\ 9 \notin F
  BY <1>1
<1>3. PICK f1, f2, f3 : f1 = Tally(F, 1) /\ f2 = Tally(F, 2) /\ f3 = Tally(F, 3)
  OBVIOUS
<1>4. Tally(F, 4) = 0 /\ Tally(F, 5) = 0 /\ Tally(F, 6) = 0 /\ Tally(F, 7) = 0 /\ Tally(F, 8) = 0 /\ Tally(F, 9) = 0
  BY <1>2 DEF Tally
<1>5. f1 \in {0, 1} /\ f2 \in {0, 1} /\ f3 \in {0, 1}
  BY <1>3 DEF Tally
<1>6. Cardinality(F) = f1 + f2 + f3
  <2>1. Cardinality(F) = Tally(F, 1) + Tally(F, 2) + Tally(F, 3) + Tally(F, 4) + Tally(F, 5)
                             + Tally(F, 6) + Tally(F, 7) + Tally(F, 8) + Tally(F, 9)
    BY <1>2, NineCounted
  <2> QED
    BY ONLY <1>3, <1>4, <1>5, <2>1
<1>7. PICK c : c = (100 * (f1 + f2 + f3)) \div 3
  OBVIOUS
<1>8. Percent(met, 3) = c
  BY <1>1, <1>6, <1>7 DEF Percent
<1>9. c \in 0..100 /\ (c > 60 => f1 + f2 + f3 >= 2)
  <2>1. PICK k \in 0..3 : k = f1 + f2 + f3
    BY <1>5
  <2> QED
    BY <1>7, <2>1
<1>10. c > 60 => (f1 = 1 /\ f2 = 1) \/ (f1 = 1 /\ f3 = 1) \/ (f2 = 1 /\ f3 = 1)
  BY <1>5, <1>9
<1>11. (f1 = 1 => 1 \in F) /\ (f2 = 1 => 2 \in F) /\ (f3 = 1 => 3 \in F)
  BY <1>3 DEF Tally
<1>12. c > 60 => (met[1] /\ met[2]) \/ (met[1] /\ met[3]) \/ (met[2] /\ met[3])
  BY <1>2, <1>10, <1>11
<1> QED
  BY <1>8, <1>9, <1>12

LEMMA FourMet == ASSUME NEW met, DOMAIN met = 1..4 PROVE Percent(met, 4) \in 0..100
<1>1. PICK F : F = {c \in DOMAIN met : met[c]}
  OBVIOUS
<1>2. F \subseteq 1..9 /\ 5 \notin F /\ 6 \notin F /\ 7 \notin F /\ 8 \notin F /\ 9 \notin F
  BY <1>1
<1>3. PICK f1, f2, f3, f4 : f1 = Tally(F, 1) /\ f2 = Tally(F, 2) /\ f3 = Tally(F, 3) /\ f4 = Tally(F, 4)
  OBVIOUS
<1>4. Tally(F, 5) = 0 /\ Tally(F, 6) = 0 /\ Tally(F, 7) = 0 /\ Tally(F, 8) = 0 /\ Tally(F, 9) = 0
  BY <1>2 DEF Tally
<1>5. f1 \in {0, 1} /\ f2 \in {0, 1} /\ f3 \in {0, 1} /\ f4 \in {0, 1}
  BY <1>3 DEF Tally
<1>6. Cardinality(F) = f1 + f2 + f3 + f4
  <2>1. Cardinality(F) = Tally(F, 1) + Tally(F, 2) + Tally(F, 3) + Tally(F, 4) + Tally(F, 5)
                             + Tally(F, 6) + Tally(F, 7) + Tally(F, 8) + Tally(F, 9)
    BY <1>2, NineCounted
  <2> QED
    BY ONLY <1>3, <1>4, <1>5, <2>1
<1>7. PICK k \in 0..4 : k = f1 + f2 + f3 + f4
  BY <1>5
<1>8. Percent(met, 4) = (100 * k) \div 4
  BY <1>1, <1>6, <1>7 DEF Percent
<1>9. PICK c : c = (100 * k) \div 4
  OBVIOUS
<1>10. c \in 0..100
  BY <1>7, <1>9
<1> QED
  BY <1>8, <1>9, <1>10

\* What StopsProtect says of one signal.
Protected(s, ind) ==
    /\ s.direction = "long" => s.stop < s.entry
    /\ s.direction = "short" => s.entry < s.stop
    /\ s.direction = "long" /\ s.target <= s.entry =>
           s.type = "mean_reversion" /\ ind.lower * 101 > ind.sma20 * 100
    /\ s.direction = "short" /\ s.target >= s.entry =>
           s.type = "mean_reversion" /\ ind.upper * 99 < ind.sma20 * 100

LEMMA Parts == 
    ASSUME NEW price \in Nat, price >= 100
    PROVE  /\ (price * 97) \div 100 \in Int /\ (price * 97) \div 100 < price
           /\ (price * 106) \div 100 \in Int /\ (price * 106) \div 100 > price
           /\ (price * 108) \div 100 \in Int /\ (price * 108) \div 100 > price
           /\ (price * 95) \div 100 \in Int /\ (price * 95) \div 100 < price
           /\ (price * 105) \div 100 \in Int /\ (price * 105) \div 100 > price
  OBVIOUS

LEMMA MomentumSound ==
    ASSUME NEW price \in Nat, price >= 100, NEW ind \in IndicatorValues, NEW s \in MomentumSignals(price, ind)
    PROVE  Made(s) /\ Protected(s, ind)
<1>1. PICK met : met = <<ind.rsi > 50, ind.macd > 0, price > ind.sma20, ind.busy>>
  OBVIOUS
<1>2. PICK c : c = Percent(met, 4)
  OBVIOUS
<1>3. c \in 0..100
  <2>1. DOMAIN met = 1..4
    BY <1>1
  <2> QED
    BY <1>2, <2>1, FourMet
<1>4. PICK stop, target : stop = (price * 97) \div 100 /\ target = (price * 106) \div 100
  OBVIOUS
<1>5. stop \in Int /\ target \in Int /\ stop < price /\ target > price
  BY <1>4, Parts
<1>6. s = Signal("momentum", "long", c, price, stop, target, 15)
  BY <1>1, <1>2, <1>4 DEF MomentumSignals
<1>7. /\ s.type = "momentum" /\ s.direction = "long" /\ s.confidence = c /\ s.entry = price
      /\ s.stop = stop /\ s.target = target /\ s.size = 15
  BY <1>6 DEF Signal
<1>8. Made(s)
  BY <1>3, <1>5, <1>7 DEF Made
<1>9. ~(s.target <= s.entry) /\ s.stop < s.entry /\ s.direction # "short"
  BY <1>5, <1>7
<1> QED
  BY <1>7, <1>8, <1>9 DEF Protected

LEMMA BreakoutSound ==
    ASSUME NEW price \in Nat, price >= 100, NEW high \in Nat, NEW ind \in IndicatorValues,
           NEW s \in BreakoutSignals(price, high, ind)
    PROVE  Made(s) /\ Protected(s, ind)
<1>1. PICK met : met = <<TRUE, price * 1000 > ind.upper * 995, ind.rsi \in 41..74, ind.atr * 100 < price * 3>>
  BY ZenonT(30)
<1>2. PICK c : c = Percent(met, 4)
  OBVIOUS
<1>3. c \in 0..100
  <2>1. DOMAIN met = 1..4
    BY <1>1
  <2> QED
    BY <1>2, <2>1, FourMet
<1>4. PICK stop, target, size : stop = (high * 98) \div 100 /\ target = (price * 108) \div 100
                                /\ size = IF c = 75 THEN 18 ELSE 20
  OBVIOUS
<1>5. s = Signal("breakout", "long", c, price, stop, target, size) /\ price * 100 > high * 101
  BY <1>1, <1>2, <1>4 DEF BreakoutSignals
<1>6. target \in Int /\ target > price
  BY <1>4, Parts
<1>7. stop \in Int /\ stop < price
  BY <1>4, <1>5
<1>8. /\ s.type = "breakout" /\ s.direction = "long" /\ s.confidence = c /\ s.entry = price
      /\ s.stop = stop /\ s.target = target /\ s.size = size
  BY <1>5 DEF Signal
<1>9. size \in 10..20
  BY <1>4
<1>10. Made(s)
  BY <1>3, <1>6, <1>7, <1>8, <1>9 DEF Made
<1>11. ~(s.target <= s.entry) /\ s.stop < s.entry /\ s.direction # "short"
  BY <1>6, <1>7, <1>8
<1> QED
  BY <1>8, <1>10, <1>11 DEF Protected

LEMMA ReversionSound ==
    ASSUME NEW price \in Nat, price >= 100, NEW ind \in IndicatorValues, NEW s \in ReversionSignals(price, ind)
    PROVE  Made(s) /\ Protected(s, ind)
<1>0. ind.lower \in Int /\ ind.upper \in Nat /\ ind.sma20 \in Nat
  BY DEF IndicatorValues
<1>1. PICK low, high :
          /\ low = <<ind.rsi < 35, price * 100 < ind.lower * 101, price * 100 < ind.sma20 * 98>>
          /\ high = <<ind.rsi > 65, price * 100 > ind.upper * 99, price * 100 > ind.sma20 * 102>>
  OBVIOUS
<1>2. PICK c, d : c = Percent(low, 3) /\ d = Percent(high, 3)
  OBVIOUS
<1>3. /\ DOMAIN low = 1..3 /\ DOMAIN high = 1..3
      /\ low[2] => price * 100 < ind.lower * 101
      /\ low[3] => price * 100 < ind.sma20 * 98
      /\ high[2] => price * 100 > ind.upper * 99
      /\ high[3] => price * 100 > ind.sma20 * 102
  <2>1. DOMAIN low = 1..3 /\ DOMAIN high = 1..3
    BY <1>1
  <2>2. /\ low[2] = (price * 100 < ind.lower * 101) /\ low[3] = (price * 100 < ind.sma20 * 98)
        /\ high[2] = (price * 100 > ind.upper * 99) /\ high[3] = (price * 100 > ind.sma20 * 102)
    BY <1>1
  <2> QED
    BY <2>1, <2>2
<1>4. c \in 0..100 /\ (c > 60 => low[2] \/ low[3])
  BY <1>2, <1>3, ThreeMet
<1>5. d \in 0..100 /\ (d > 60 => high[2] \/ high[3])
  BY <1>2, <1>3, ThreeMet
<1>6. PICK below, above : below = (price * 95) \div 100 /\ above = (price * 105) \div 100
  OBVIOUS
<1>7. below \in Int /\ above \in Int /\ below < price /\ above > price
  BY <1>6, Parts
<1>8. \/ c > 60 /\ s = Signal("mean_reversion", "long", c, price, below, ind.sma20, 10)
      \/ d > 60 /\ s = Signal("mean_reversion", "short", d, price, above, ind.sma20, 10)
  BY <1>1, <1>2, <1>6 DEF ReversionSignals
<1>9. CASE c > 60 /\ s = Signal("mean_reversion", "long", c, price, below, ind.sma20, 10)
  <2>1. /\ s.type = "mean_reversion" /\ s.direction = "long" /\ s.confidence = c /\ s.entry = price
        /\ s.stop = below /\ s.target = ind.sma20 /\ s.size = 10
    BY <1>9 DEF Signal
  <2>2. Made(s)
    BY <1>0, <1>4, <1>7, <2>1 DEF Made
  <2>3. price * 100 < ind.lower * 101 \/ price * 100 < ind.sma20 * 98
    BY <1>3, <1>4, <1>9
  <2>4. s.target <= s.entry => ind.lower * 101 > ind.sma20 * 100
    BY <1>0, <2>1, <2>3
  <2>5. s.stop < s.entry
    BY <1>7, <2>1
  <2> QED
    BY <2>1, <2>2, <2>4, <2>5 DEF Protected
<1>10. CASE d > 60 /\ s = Signal("mean_reversion", "short", d, price, above, ind.sma20, 10)
  <2>1. /\ s.type = "mean_reversion" /\ s.direction = "short" /\ s.confidence = d /\ s.entry = price
        /\ s.stop = above /\ s.target = ind.sma20 /\ s.size = 10
    BY <1>10 DEF Signal
  <2>2. Made(s)
    BY <1>0, <1>5, <1>7, <2>1 DEF Made
  <2>3. price * 100 > ind.upper * 99 \/ price * 100 > ind.sma20 * 102
    BY <1>3, <1>5, <1>10
  <2>4. s.target >= s.entry => ind.upper * 99 < ind.sma20 * 100
    BY <1>0, <2>1, <2>3
  <2>5. s.entry < s.stop
    BY <1>7, <2>1
  <2> QED
    BY <2>1, <2>2, <2>4, <2>5 DEF Protected
<1> QED
  BY <1>8, <1>9, <1>10

LEMMA GeneratedSound ==
    ASSUME NEW datum \in Data, NEW ind \in IndicatorValues, NEW s \in Generate(datum, ind)
    PROVE  Made(s) /\ Protected(s, ind)
<1>1. datum.price \in Nat /\ datum.price >= 100 /\ datum.high \in Nat
  BY VerificationAssumption
<1>2. CASE s \in MomentumSignals(datum.price, ind)
  BY <1>1, <1>2, MomentumSound
<1>3. CASE s \in BreakoutSignals(datum.price, datum.high, ind)
  BY <1>1, <1>3, BreakoutSound
<1>4. CASE s \in ReversionSignals(datum.price, ind)
  BY <1>1, <1>4, ReversionSound
<1> QED
  BY <1>2, <1>3, <1>4 DEF Generate

------------------------------------------------------------------------------
(* The center. *)

\* The cache holds readings, and none for a length the history has yet to reach.
CacheSound ==
    /\ svCache \in [EnoughHistory..MaxHistory -> SUBSET IndicatorValues]
    /\ ~svStale => \A n \in EnoughHistory..MaxHistory : n > svLength => svCache[n] = {}

VerifyIInv ==
    /\ VerifyTypeOK /\ CacheSound
    /\ VerdictFollowsSteps /\ IndicatorsAreCurrent /\ StopsProtect

LEMMA VerifyInitHolds == VerifyInit => VerifyIInv
<1> SUFFICES ASSUME VerifyInit PROVE VerifyIInv
  OBVIOUS
<1> USE VerificationAssumption DEF VerifyInit
<1>1. VerifyTypeOK
  <2>1. svLength \in 0..MaxHistory
    OBVIOUS
  <2>3. svStale \in BOOLEAN
    OBVIOUS
  <2>2. svResults = {}
    OBVIOUS
  <2> QED
    BY <2>1, <2>2, <2>3 DEF VerifyTypeOK
<1>2. CacheSound
  BY DEF CacheSound
<1>3. VerdictFollowsSteps /\ IndicatorsAreCurrent /\ StopsProtect
  BY DEF VerdictFollowsSteps, IndicatorsAreCurrent, StopsProtect
<1> QED
  BY <1>1, <1>2, <1>3 DEF VerifyIInv

LEMMA ProcessStep ==
    ASSUME VerifyIInv, NEW datum \in Data, NEW cond \in Conditions, ProcessData(datum, cond)
    PROVE  VerifyIInv'
<1>1. PICK n : n = IF svLength = MaxHistory THEN MaxHistory ELSE svLength + 1
  OBVIOUS
<1>2. PICK ind : ind = Indicators(datum, n)
  OBVIOUS
<1>3. PICK signals : signals = Generate(datum, ind)
  OBVIOUS
<1>4. /\ n >= EnoughHistory /\ svLength' = n
      /\ svCache' = [svCache EXCEPT ![n] = {ind}]
      /\ svUsed' = <<ind, datum.indicators>>
      /\ svStale' = (svStale \/ svLength = MaxHistory)
      /\ svResults' = IF cond.zoned THEN {} ELSE {Execute(s, ind, cond) : s \in signals}
  BY <1>1, <1>2, <1>3 DEF ProcessData
<1>5. svLength \in 0..MaxHistory /\ MaxHistory \in Nat /\ EnoughHistory \in Nat /\ svStale \in BOOLEAN
  BY VerificationAssumption DEF VerifyIInv, VerifyTypeOK
<1>6. n \in EnoughHistory..MaxHistory /\ n \in 0..MaxHistory
  BY <1>1, <1>4, <1>5
<1>7. svCache[n] \subseteq IndicatorValues /\ datum.indicators \in IndicatorValues
  BY <1>6, VerificationAssumption DEF VerifyIInv, CacheSound
<1>8. ind \in IndicatorValues
  BY <1>2, <1>7 DEF Indicators
<1>9. ~svStale' => ind = datum.indicators
  <2>1. ~svStale' => ~svStale /\ svLength # MaxHistory
    BY <1>4, <1>5
  <2>2. svLength # MaxHistory => n > svLength
    BY <1>1, <1>5
  <2>3. ~svStale' => svCache[n] = {}
    BY <1>6, <2>1, <2>2 DEF VerifyIInv, CacheSound
  <2> QED
    BY <1>2, <2>3 DEF Indicators
<1>10. ASSUME NEW r \in svResults'
       PROVE  /\ ScoreFits(r) /\ Len(r.steps) = 9
              /\ r.status = "passed" => Cardinality(FailedSteps(r)) <= 3
              /\ r.status = "warning" => Cardinality(FailedSteps(r)) <= 6
              /\ r.status = "failed" => FailedSteps(r) # {}
              /\ Protected(r.signal, ind)
  <2>1. PICK s \in signals : r = Execute(s, ind, cond)
    BY <1>4, <1>10
  <2>2. Made(s) /\ Protected(s, ind)
    BY <1>3, <1>8, <2>1, GeneratedSound
  <2>3. /\ r.signal = s /\ Len(r.steps) = 9 /\ NineBounded(r.steps)
        /\ r.score = SumOf(r.steps) /\ r.status = Status(r.score)
    BY <1>8, <2>1, <2>2, ExecuteBounded
  <2>4. /\ ScoreFits(r)
        /\ r.status = "passed" => Cardinality(FailedSteps(r)) <= 3
        /\ r.status = "warning" => Cardinality(FailedSteps(r)) <= 6
        /\ r.status = "failed" => FailedSteps(r) # {}
    BY <2>3, SumTellsFailures
  <2> QED
    BY <2>2, <2>3, <2>4
<1>11. VerifyTypeOK'
  <2>1. svStale' \in BOOLEAN
    BY <1>4
  <2>2. \A r \in svResults' : r.score \in Nat /\ r.score <= 10000 /\ Len(r.steps) = 9
    BY <1>10 DEF ScoreFits
  <2> QED
    BY <1>4, <1>6, <2>1, <2>2 DEF VerifyTypeOK
<1>12. CacheSound'
  <2>1. svCache' \in [EnoughHistory..MaxHistory -> SUBSET IndicatorValues]
    BY <1>4, <1>6, <1>8 DEF VerifyIInv, CacheSound
  <2>2. ASSUME ~svStale', NEW m \in EnoughHistory..MaxHistory, m > svLength' PROVE svCache'[m] = {}
    <3>1. ~svStale /\ svLength # MaxHistory
      BY <1>4, <1>5, <2>2
    <3>2. m > svLength /\ m # n
      BY <1>1, <1>4, <1>5, <2>2, <3>1
    <3>3. svCache[m] = {}
      BY <3>1, <3>2 DEF VerifyIInv, CacheSound
    <3> QED
      BY <1>4, <3>2, <3>3 DEF VerifyIInv, CacheSound
  <2> QED
    BY <2>1, <2>2 DEF CacheSound
<1>13. VerdictFollowsSteps'
  BY <1>10 DEF VerdictFollowsSteps
<1>14. IndicatorsAreCurrent'
  BY <1>4, <1>9 DEF IndicatorsAreCurrent
<1>15. StopsProtect'
  <2>1. svUsed'[1] = ind
    BY <1>4
  <2> QED
    BY <1>10, <2>1 DEF StopsProtect, Protected
<1> QED
  BY <1>11, <1>12, <1>13, <1>14, <1>15 DEF VerifyIInv

LEMMA VerifyStep == VerifyIInv /\ [VerifyNext]_svVars => VerifyIInv'
<1> SUFFICES ASSUME VerifyIInv, [VerifyNext]_svVars PROVE VerifyIInv'
  OBVIOUS
<1>2. ASSUME UNCHANGED <<svCache, svUsed, svResults>>, svLength' \in 0..MaxHistory,
             (svStale' = svStale /\ svLength' >= svLength) \/ svStale' = TRUE
      PROVE  VerifyIInv'
  <2>1. svLength \in Int /\ svLength' \in Int /\ svStale \in BOOLEAN
    BY <1>2 DEF VerifyIInv, VerifyTypeOK
  <2>2. VerifyTypeOK'
    <3>1. \A r \in svResults : r.score \in Nat /\ r.score <= 10000 /\ Len(r.steps) = 9
      BY DEF VerifyIInv, VerifyTypeOK
    <3>2. svStale' \in BOOLEAN
      BY <1>2, <2>1
    <3> QED
      BY <1>2, <3>1, <3>2 DEF VerifyTypeOK
  <2>3. CacheSound'
    <3>1. ASSUME ~svStale', NEW m \in EnoughHistory..MaxHistory, m > svLength' PROVE svCache[m] = {}
      <4>1. ~svStale /\ m > svLength
        BY <1>2, <2>1, <3>1, VerificationAssumption
      <4> QED
        BY <4>1 DEF VerifyIInv, CacheSound
    <3> QED
      BY <1>2, <3>1 DEF VerifyIInv, CacheSound
  <2>4. VerdictFollowsSteps' /\ StopsProtect'
    BY <1>2 DEF VerifyIInv, VerdictFollowsSteps, StopsProtect
  <2>5. IndicatorsAreCurrent'
    BY <1>2 DEF VerifyIInv, IndicatorsAreCurrent
  <2> QED
    BY <2>2, <2>3, <2>4, <2>5 DEF VerifyIInv
<1>3. svLength \in 0..MaxHistory /\ MaxHistory \in Nat /\ EnoughHistory \in Nat /\ EnoughHistory < MaxHistory
  BY VerificationAssumption DEF VerifyIInv, VerifyTypeOK
<1>1. CASE UNCHANGED svVars
  <2>1. svLength \in 0..MaxHistory
    BY DEF VerifyIInv, VerifyTypeOK
  <2> QED
    BY <1>1, <1>2, <1>3, <2>1 DEF svVars
<1>4. CASE GatherData
  <2>1. svLength' \in 0..MaxHistory /\ svLength' >= svLength
    BY <1>3, <1>4 DEF GatherData
  <2> QED
    BY <1>2, <1>4, <2>1 DEF GatherData
<1>5. CASE ClearHistory
  BY <1>2, <1>3, <1>5 DEF ClearHistory
<1>6. CASE \E datum \in Data, cond \in Conditions : ProcessData(datum, cond)
  BY <1>6, ProcessStep
<1> QED
  BY <1>1, <1>4, <1>5, <1>6 DEF VerifyNext

\* The verification center, for any data and conditions: a verdict follows its nine
\* steps, indicators are those of the datum until the history was full or cleared, and
\* a signal's stop protects it (verification_pipeline.py, indicators.py, signal_generator.py).
THEOREM VerdictsAreSound == VerifySpec => [](VerdictFollowsSteps /\ IndicatorsAreCurrent /\ StopsProtect)
<1>1. VerifyIInv => VerdictFollowsSteps /\ IndicatorsAreCurrent /\ StopsProtect
  BY DEF VerifyIInv
<1> QED
  BY <1>1, VerifyInitHolds, VerifyStep, PTL DEF VerifySpec

------------------------------------------------------------------------------
(* The verification service: what was answered comes before what is under way, *)
(* and that before what waits, and no check is later than the last of its key. *)

RawMessages == [number : Nat, body : RawSignals]
Answers == [number : Nat, key : Keys, answer : {"verified", "rejected"}, checked : Nat]

HandlerStates ==
    {PipelineFree} \cup [pc : {"started"}, signal : RawMessages]
        \cup [pc : {"publishing"}, signal : RawMessages, checked : Nat, answer : {"verified", "rejected"}]

PipelineTypes ==
    /\ vpRunning \in BOOLEAN /\ vpConnected \in BOOLEAN
    /\ vpSent \in Nat /\ vpClock \in Nat
    /\ vpQueue \in Seq(RawMessages) /\ vpAt \in HandlerStates
    /\ vpRecent \in [Keys -> {Never} \cup Nat]
    /\ vpAnswers \in Seq(Answers) /\ vpStopped \in {0, 1}

\* What is given out is in the order of the numbers.
Ascending(s) == \A i, j \in DOMAIN s : i < j => s[i].number < s[j].number
AllBelow(s, n) == \A i \in DOMAIN s : s[i].number < n
AllAbove(s, n) == \A i \in DOMAIN s : s[i].number > n

AnswerOrder ==
    /\ Ascending(vpAnswers) /\ Ascending(vpQueue)
    /\ AllBelow(vpAnswers, vpSent) /\ AllBelow(vpQueue, vpSent)
    /\ \A i \in DOMAIN vpQueue : AllBelow(vpAnswers, vpQueue[i].number)
    /\ vpAt # PipelineFree =>
           /\ vpAt.signal.number < vpSent
           /\ AllBelow(vpAnswers, vpAt.signal.number) /\ AllAbove(vpQueue, vpAt.signal.number)

\* After a stop one answer is given at most, and then the handler is free.
OneAfterStop == vpStopped = 1 => ~vpRunning /\ vpAt = PipelineFree

\* No verified signal was checked after the last check of its key.
NotLater(recent, answers) ==
    \A i \in DOMAIN answers :
        answers[i].answer = "verified" =>
            recent[answers[i].key] # Never /\ answers[i].checked <= recent[answers[i].key]

Apart(answers, key, checked) ==
    \A i \in DOMAIN answers :
        answers[i].answer = "verified" /\ answers[i].key = key => checked - answers[i].checked >= Cooldown

CooledDown ==
    /\ CooldownKept
    /\ \A k \in Keys : vpRecent[k] # Never => vpRecent[k] <= vpClock
    /\ NotLater(vpRecent, vpAnswers)
    /\ vpAt.pc = "publishing" /\ vpAt.answer = "verified" =>
           /\ vpRecent[vpAt.signal.body.key] = vpAt.checked
           /\ Apart(vpAnswers, vpAt.signal.body.key, vpAt.checked)

PipelineIInv == PipelineTypes /\ AnswerOrder /\ OneAfterStop /\ CooledDown

LEMMA HandlerIs ==
    ASSUME NEW at, at \in HandlerStates
    PROVE  /\ at.pc \in {"free", "started", "publishing"}
           /\ at.pc = "free" <=> at = PipelineFree
           /\ at.pc = "started" => at.signal \in RawMessages
           /\ at.pc = "publishing" => at.signal \in RawMessages /\ at.checked \in Nat
                                      /\ at.answer \in {"verified", "rejected"}
<1>1. CASE at = PipelineFree
  BY <1>1 DEF PipelineFree
<1>2. CASE at \in [pc : {"started"}, signal : RawMessages]
  BY <1>2 DEF PipelineFree
<1>3. CASE at \in [pc : {"publishing"}, signal : RawMessages, checked : Nat, answer : {"verified", "rejected"}]
  BY <1>3 DEF PipelineFree
<1> QED
  BY <1>1, <1>2, <1>3 DEF HandlerStates

LEMMA PipelineInitHolds == PipelineInit => PipelineIInv
<1> SUFFICES ASSUME PipelineInit PROVE PipelineIInv
  OBVIOUS
<1> USE DEF PipelineInit
<1>1. PipelineTypes
  <2>1. vpQueue \in Seq(RawMessages)
    OBVIOUS
  <2>2. vpAnswers \in Seq(Answers)
    OBVIOUS
  <2>3. vpRecent \in [Keys -> {Never} \cup Nat]
    OBVIOUS
  <2> QED
    BY <2>1, <2>2, <2>3 DEF PipelineTypes, HandlerStates
<1>2. AnswerOrder
  BY DEF AnswerOrder, Ascending, AllBelow, AllAbove
<1>3. OneAfterStop
  BY DEF OneAfterStop
<1>4. CooledDown
  BY DEF CooledDown, CooldownKept, NotLater, Apart, PipelineFree
<1> QED
  BY <1>1, <1>2, <1>3, <1>4 DEF PipelineIInv

\* A step that leaves the answers alone, and takes nothing from the queue but all of it.
LEMMA PipelineQuiet ==
    ASSUME PipelineIInv, UNCHANGED <<vpAnswers, vpStopped, vpRecent>>,
           vpRunning' \in BOOLEAN, vpRunning' => vpRunning, vpConnected' \in BOOLEAN,
           vpClock' \in Nat, vpClock' >= vpClock, vpSent' = vpSent,
           vpQueue' = vpQueue \/ vpQueue' = <<>>,
           vpAt' = vpAt \/ vpAt' = PipelineFree
    PROVE  PipelineIInv'
<1>1. PipelineTypes /\ AnswerOrder /\ OneAfterStop /\ CooledDown
  BY DEF PipelineIInv
<1>2. PipelineTypes'
  <2>1. vpQueue' \in Seq(RawMessages)
    <3>1. <<>> \in Seq(RawMessages)
      OBVIOUS
    <3> QED
      BY <1>1, <3>1 DEF PipelineTypes
  <2>2. vpAt' \in HandlerStates
    BY <1>1 DEF PipelineTypes, HandlerStates
  <2> QED
    BY <1>1, <2>1, <2>2 DEF PipelineTypes
<1>3. AnswerOrder'
  <2>1. CASE vpQueue' = vpQueue
    BY <1>1, <2>1 DEF AnswerOrder
  <2>2. CASE vpQueue' = <<>>
    <3>1. Ascending(<<>>) /\ \A n : AllBelow(<<>>, n) /\ AllAbove(<<>>, n)
      BY DEF Ascending, AllBelow, AllAbove
    <3>2. DOMAIN vpQueue' = {}
      BY <2>2
    <3> QED
      BY <1>1, <2>2, <3>1, <3>2 DEF AnswerOrder
  <2> QED
    BY <2>1, <2>2
<1>4. OneAfterStop'
  BY <1>1 DEF OneAfterStop, PipelineTypes
<1>5. CooledDown'
  <2>1. CooldownKept' /\ NotLater(vpRecent, vpAnswers)'
    BY <1>1 DEF CooledDown, CooldownKept, NotLater
  <2>2. ASSUME NEW k \in Keys, vpRecent'[k] # Never PROVE vpRecent'[k] <= vpClock'
    <3>1. vpRecent[k] \in Nat /\ vpClock \in Nat /\ vpRecent[k] <= vpClock
      BY <1>1, <2>2 DEF CooledDown, PipelineTypes
    <3> QED
      BY <3>1
  <2>3. vpAt'.pc = "publishing" => vpAt' = vpAt
    BY DEF PipelineFree
  <2> QED
    BY <1>1, <2>1, <2>2, <2>3 DEF CooledDown
<1> QED
  BY <1>2, <1>3, <1>4, <1>5 DEF PipelineIInv

LEMMA HeadAndTail ==
    ASSUME NEW T, NEW q \in Seq(T), q # <<>>
    PROVE  /\ 1 \in DOMAIN q /\ Head(q) = q[1] /\ Head(q) \in T /\ Tail(q) \in Seq(T)
           /\ \A i \in DOMAIN Tail(q) : i \in Nat /\ i + 1 \in DOMAIN q /\ Tail(q)[i] = q[i + 1] /\ i >= 1
  OBVIOUS

LEMMA TakeStep == ASSUME PipelineIInv, TakeMessage PROVE PipelineIInv'
<1>1. PipelineTypes /\ AnswerOrder /\ OneAfterStop /\ CooledDown
  BY DEF PipelineIInv
<1>2. CASE ~vpRunning
  <2>1. /\ vpConnected' = FALSE /\ vpQueue' = <<>> /\ vpAt' = vpAt
        /\ UNCHANGED <<vpRunning, vpSent, vpRecent, vpClock, vpAnswers, vpStopped>>
    BY <1>2 DEF TakeMessage
  <2>2. vpRunning' \in BOOLEAN /\ (vpRunning' => vpRunning) /\ vpConnected' \in BOOLEAN
    BY <1>1, <2>1 DEF PipelineTypes
  <2>3. vpClock' \in Nat /\ vpClock' >= vpClock
    BY <1>1, <2>1 DEF PipelineTypes
  <2> QED
    BY <2>1, <2>2, <2>3, PipelineQuiet
<1>3. CASE vpRunning
  <2>1. /\ vpQueue # <<>> /\ vpAt = PipelineFree
        /\ vpAt' = [pc |-> "started", signal |-> Head(vpQueue)] /\ vpQueue' = Tail(vpQueue)
        /\ UNCHANGED <<vpRunning, vpConnected, vpSent, vpRecent, vpClock, vpAnswers, vpStopped>>
    BY <1>3 DEF TakeMessage
  <2>2. PICK m : m = Head(vpQueue)
    OBVIOUS
  <2>3. /\ m \in RawMessages /\ m = vpQueue[1] /\ 1 \in DOMAIN vpQueue /\ vpQueue' \in Seq(RawMessages)
        /\ \A i \in DOMAIN vpQueue' :
              i \in Nat /\ i + 1 \in DOMAIN vpQueue /\ vpQueue'[i] = vpQueue[i + 1] /\ i >= 1
    <3>1. vpQueue \in Seq(RawMessages)
      BY <1>1 DEF PipelineTypes
    <3> QED
      BY <2>1, <2>2, <3>1, HeadAndTail
  <2>4. vpAt'.pc = "started" /\ vpAt'.signal = m /\ vpAt' # PipelineFree
    BY <2>1, <2>2 DEF PipelineFree
  <2>5. PipelineTypes'
    <3>1. vpAt' \in HandlerStates
      BY <2>1, <2>2, <2>3 DEF HandlerStates
    <3> QED
      BY <1>1, <2>1, <2>3, <3>1 DEF PipelineTypes
  <2>6. AnswerOrder'
    <3>1. Ascending(vpAnswers)' /\ AllBelow(vpAnswers, vpSent)'
      BY <1>1, <2>1 DEF AnswerOrder, Ascending, AllBelow
    <3>2. Ascending(vpQueue')
      <4> SUFFICES ASSUME NEW i \in DOMAIN vpQueue', NEW j \in DOMAIN vpQueue', i < j
                   PROVE  vpQueue'[i].number < vpQueue'[j].number
        BY DEF Ascending
      <4>1. i + 1 \in DOMAIN vpQueue /\ j + 1 \in DOMAIN vpQueue /\ i + 1 < j + 1
        BY <2>3
      <4>2. vpQueue[i + 1].number < vpQueue[j + 1].number
        BY <1>1, <4>1 DEF AnswerOrder, Ascending
      <4> QED
        BY <2>3, <4>2
    <3>3. AllBelow(vpQueue', vpSent)
      BY <1>1, <2>3 DEF AnswerOrder, AllBelow
    <3>4. \A i \in DOMAIN vpQueue' : AllBelow(vpAnswers, vpQueue'[i].number)
      BY <1>1, <2>3 DEF AnswerOrder
    <3>5. m.number < vpSent /\ AllBelow(vpAnswers, m.number)
      BY <1>1, <2>3 DEF AnswerOrder, AllBelow
    <3>6. AllAbove(vpQueue', m.number)
      <4> SUFFICES ASSUME NEW i \in DOMAIN vpQueue' PROVE vpQueue'[i].number > m.number
        BY DEF AllAbove
      <4>1. i + 1 \in DOMAIN vpQueue /\ 1 < i + 1 /\ vpQueue'[i] = vpQueue[i + 1]
        BY <2>3
      <4>2. vpQueue[1].number < vpQueue[i + 1].number
        BY <1>1, <2>3, <4>1 DEF AnswerOrder, Ascending
      <4>3. vpQueue[1] \in RawMessages /\ vpQueue[i + 1] \in RawMessages
        BY <1>1, <2>3, <4>1 DEF PipelineTypes
      <4>4. vpQueue[1].number \in Nat /\ vpQueue[i + 1].number \in Nat
        BY <4>3 DEF RawMessages
      <4> QED
        BY <2>3, <4>1, <4>2, <4>4
    <3> QED
      BY <2>1, <2>4, <3>1, <3>2, <3>3, <3>4, <3>5, <3>6 DEF AnswerOrder
  <2>7. OneAfterStop'
    BY <1>1, <1>3, <2>1 DEF OneAfterStop
  <2>8. CooledDown'
    BY <1>1, <2>1, <2>4 DEF CooledDown, CooldownKept, NotLater
  <2> QED
    BY <2>5, <2>6, <2>7, <2>8 DEF PipelineIInv
<1> QED
  BY <1>2, <1>3

LEMMA ProcessSignalStep == ASSUME PipelineIInv, ProcessSignal PROVE PipelineIInv'
<1>1. PipelineTypes /\ AnswerOrder /\ OneAfterStop /\ CooledDown
  BY DEF PipelineIInv
<1>2. vpAt.pc = "started" /\ vpAt \in HandlerStates
  BY <1>1 DEF ProcessSignal, PipelineTypes
<1>3. vpAt.signal \in RawMessages /\ vpAt # PipelineFree
  BY <1>2, HandlerIs DEF PipelineFree
<1>4. PICK s : s = vpAt.signal.body
  OBVIOUS
<1>5. s \in RawSignals /\ s.key \in Keys
  BY <1>3, <1>4 DEF RawMessages, Keys
<1>6. PICK answer \in {"verified", "rejected"} :
          /\ vpAt' = [pc |-> "publishing", signal |-> vpAt.signal, checked |-> vpClock, answer |-> answer]
          /\ \/ vpRecent' = vpRecent /\ answer = "rejected"
             \/ vpRecent' = [vpRecent EXCEPT ![s.key] = vpClock] /\ ~Cooling(s)
          /\ UNCHANGED <<vpRunning, vpConnected, vpQueue, vpSent, vpClock, vpAnswers, vpStopped>>
  BY <1>4, Zenon DEF ProcessSignal, Stamp
<1>7. /\ vpAt'.pc = "publishing" /\ vpAt'.signal = vpAt.signal /\ vpAt'.checked = vpClock
      /\ vpAt'.answer = answer /\ vpAt' # PipelineFree
  BY <1>6 DEF PipelineFree
<1>8. vpClock \in Nat /\ vpRecent \in [Keys -> {Never} \cup Nat] /\ vpClock # Never
  BY <1>1 DEF PipelineTypes, Never
<1>9. PipelineTypes'
  <2>1. vpAt' \in HandlerStates
    BY <1>3, <1>6, <1>8 DEF HandlerStates
  <2>2. vpRecent' \in [Keys -> {Never} \cup Nat]
    BY <1>6, <1>8
  <2> QED
    BY <1>1, <1>6, <2>1, <2>2 DEF PipelineTypes
<1>10. AnswerOrder'
  BY <1>1, <1>3, <1>6, <1>7 DEF AnswerOrder
<1>11. OneAfterStop'
  BY <1>1, <1>3, <1>6 DEF OneAfterStop, PipelineTypes
<1>12. CooledDown'
  <2>1. CooldownKept'
    BY <1>1, <1>6 DEF CooledDown, CooldownKept
  <2>2. CASE vpRecent' = vpRecent /\ answer = "rejected"
    BY <1>1, <1>6, <1>7, <2>1, <2>2 DEF CooledDown, NotLater
  <2>3. CASE vpRecent' = [vpRecent EXCEPT ![s.key] = vpClock] /\ ~Cooling(s)
    <3>1. /\ vpRecent'[s.key] = vpClock
          /\ \A k \in Keys : k # s.key => vpRecent'[k] = vpRecent[k]
      BY <1>5, <1>8, <2>3
    <3>2. \A k \in Keys : vpRecent'[k] # Never => vpRecent'[k] <= vpClock
      BY <1>1, <1>8, <3>1 DEF CooledDown
    <3>3. ASSUME NEW i \in DOMAIN vpAnswers, vpAnswers[i].answer = "verified"
          PROVE  /\ vpRecent'[vpAnswers[i].key] # Never
                 /\ vpAnswers[i].checked <= vpRecent'[vpAnswers[i].key]
                 /\ vpAnswers[i].key = s.key => vpClock - vpAnswers[i].checked >= Cooldown
      <4>1. PICK k, c : k = vpAnswers[i].key /\ c = vpAnswers[i].checked
        OBVIOUS
      <4>2. k \in Keys /\ c \in Nat
        <5>1. vpAnswers[i] \in Answers
          BY <1>1 DEF PipelineTypes
        <5> QED
          BY <4>1, <5>1 DEF Answers
      <4>3. vpRecent[k] # Never /\ c <= vpRecent[k]
        BY <1>1, <3>3, <4>1 DEF CooledDown, NotLater
      <4>4. vpRecent[k] \in Nat /\ vpRecent[k] <= vpClock
        BY <1>1, <1>8, <4>2, <4>3 DEF CooledDown
      <4>5. k = s.key => vpClock - vpRecent[k] >= Cooldown
        BY <1>8, <2>3, <4>3, <4>4, PipelineAssumption DEF Cooling
      <4>6. vpRecent'[k] # Never /\ c <= vpRecent'[k]
        BY <1>8, <3>1, <4>2, <4>3, <4>4
      <4>7. k = s.key => vpClock - c >= Cooldown
        BY <1>8, <4>2, <4>3, <4>4, <4>5, PipelineAssumption
      <4> QED
        BY <4>1, <4>6, <4>7
    <3>4. NotLater(vpRecent', vpAnswers) /\ Apart(vpAnswers, s.key, vpClock)
      BY <3>3 DEF NotLater, Apart
    <3> QED
      BY <1>4, <1>6, <1>7, <2>1, <3>1, <3>2, <3>4 DEF CooledDown
  <2> QED
    BY <1>6, <2>2, <2>3
<1> QED
  BY <1>9, <1>10, <1>11, <1>12 DEF PipelineIInv

LEMMA OneMoreAnswer ==
    ASSUME NEW T, NEW s \in Seq(T), NEW x \in T
    PROVE  /\ Append(s, x) \in Seq(T)
           /\ \A i \in DOMAIN Append(s, x) : \/ i \in DOMAIN s /\ Append(s, x)[i] = s[i]
                                             \/ i = Len(s) + 1 /\ Append(s, x)[i] = x
           /\ \A i \in DOMAIN s : i \in Nat /\ i < Len(s) + 1 /\ i >= 1
           /\ Len(s) \in Nat
  OBVIOUS

LEMMA AnswerStep ==
    ASSUME PipelineIInv, vpAt.pc = "publishing", VerdictGiven, vpAt' = PipelineFree,
           UNCHANGED <<vpRunning, vpConnected, vpQueue, vpSent, vpRecent, vpClock>>
    PROVE  PipelineIInv'
<1>1. PipelineTypes /\ AnswerOrder /\ OneAfterStop /\ CooledDown
  BY DEF PipelineIInv
<1>2. vpAt.signal \in RawMessages /\ vpAt # PipelineFree /\ vpAt.checked \in Nat
      /\ vpAt.answer \in {"verified", "rejected"}
  <2>1. vpAt \in HandlerStates
    BY <1>1 DEF PipelineTypes
  <2>2. vpAt # PipelineFree
    BY DEF PipelineFree
  <2> QED
    BY <2>1, <2>2, HandlerIs
<1>3. PICK a : a = [number |-> vpAt.signal.number, key |-> vpAt.signal.body.key,
                    answer |-> vpAt.answer, checked |-> vpAt.checked]
  OBVIOUS
<1>4. /\ a.number = vpAt.signal.number /\ a.key = vpAt.signal.body.key
      /\ a.answer = vpAt.answer /\ a.checked = vpAt.checked
  BY <1>3
<1>5. a \in Answers
  <2>1. vpAt.signal.number \in Nat /\ vpAt.signal.body.key \in Keys
    BY <1>2 DEF RawMessages, Keys
  <2> QED
    BY <1>2, <1>3, <2>1 DEF Answers
<1>6. vpAnswers' = Append(vpAnswers, a) /\ vpStopped' = IF vpRunning THEN 0 ELSE vpStopped + 1
  BY <1>3 DEF VerdictGiven
<1>7. vpAnswers \in Seq(Answers)
  BY <1>1 DEF PipelineTypes
<1>8. /\ vpAnswers' \in Seq(Answers) /\ Len(vpAnswers) \in Nat
      /\ \A i \in DOMAIN vpAnswers' : \/ i \in DOMAIN vpAnswers /\ vpAnswers'[i] = vpAnswers[i]
                                      \/ i = Len(vpAnswers) + 1 /\ vpAnswers'[i] = a
      /\ \A i \in DOMAIN vpAnswers : i \in Nat /\ i < Len(vpAnswers) + 1 /\ i >= 1
  BY <1>5, <1>6, <1>7, OneMoreAnswer
<1>9. vpStopped = 0 /\ vpStopped' \in {0, 1} /\ (vpStopped' = 1 => ~vpRunning)
  BY <1>1, <1>2, <1>6 DEF OneAfterStop, PipelineTypes
<1>10. PipelineTypes'
  <2>1. vpAt' \in HandlerStates
    BY DEF HandlerStates
  <2> QED
    BY <1>1, <1>8, <1>9, <2>1 DEF PipelineTypes
<1>11. AnswerOrder'
  <2>1. Ascending(vpAnswers')
    <3> SUFFICES ASSUME NEW i \in DOMAIN vpAnswers', NEW j \in DOMAIN vpAnswers', i < j
                 PROVE  vpAnswers'[i].number < vpAnswers'[j].number
      BY DEF Ascending
    <3>1. i \in DOMAIN vpAnswers /\ vpAnswers'[i] = vpAnswers[i]
      BY <1>8
    <3>2. CASE j \in DOMAIN vpAnswers /\ vpAnswers'[j] = vpAnswers[j]
      BY <1>1, <3>1, <3>2 DEF AnswerOrder, Ascending
    <3>3. CASE vpAnswers'[j] = a
      BY <1>1, <1>2, <1>4, <3>1, <3>3 DEF AnswerOrder, AllBelow
    <3> QED
      BY <1>8, <3>2, <3>3
  <2>2. ASSUME NEW n, AllBelow(vpAnswers, n), a.number < n PROVE AllBelow(vpAnswers', n)
    BY <1>8, <2>2 DEF AllBelow
  <2>3. AllBelow(vpAnswers', vpSent)
    BY <1>1, <1>2, <1>4, <2>2 DEF AnswerOrder
  <2>4. ASSUME NEW i \in DOMAIN vpQueue PROVE AllBelow(vpAnswers', vpQueue[i].number)
    <3>1. vpQueue[i].number > vpAt.signal.number
      BY <1>1, <1>2 DEF AnswerOrder, AllAbove
    <3>2. vpQueue[i] \in RawMessages
      BY <1>1 DEF PipelineTypes
    <3>3. a.number < vpQueue[i].number
      BY <1>2, <1>4, <3>1, <3>2 DEF RawMessages
    <3>4. AllBelow(vpAnswers, vpQueue[i].number)
      BY <1>1 DEF AnswerOrder
    <3> QED
      BY <2>2, <3>3, <3>4
  <2> QED
    BY <1>1, <2>1, <2>3, <2>4 DEF AnswerOrder
<1>12. OneAfterStop'
  BY <1>9 DEF OneAfterStop
<1>13. CooledDown'
  <2>1. ASSUME NEW i \in DOMAIN vpAnswers', NEW j \in DOMAIN vpAnswers',
               i < j, vpAnswers'[i].key = vpAnswers'[j].key,
               vpAnswers'[i].answer = "verified", vpAnswers'[j].answer = "verified"
        PROVE  vpAnswers'[j].checked - vpAnswers'[i].checked >= Cooldown
    <3>1. i \in DOMAIN vpAnswers /\ vpAnswers'[i] = vpAnswers[i]
      BY <1>8, <2>1
    <3>2. CASE j \in DOMAIN vpAnswers /\ vpAnswers'[j] = vpAnswers[j]
      BY <1>1, <2>1, <3>1, <3>2 DEF CooledDown, CooldownKept
    <3>3. CASE vpAnswers'[j] = a
      <4>1. Apart(vpAnswers, vpAt.signal.body.key, vpAt.checked)
        BY <1>1, <1>4, <2>1, <3>3 DEF CooledDown
      <4> QED
        BY <1>4, <2>1, <3>1, <3>3, <4>1 DEF Apart
    <3> QED
      BY <1>8, <3>2, <3>3
  <2>2. CooldownKept'
    BY <2>1 DEF CooldownKept
  <2>3. NotLater(vpRecent, vpAnswers')
    <3> SUFFICES ASSUME NEW i \in DOMAIN vpAnswers', vpAnswers'[i].answer = "verified"
                 PROVE  /\ vpRecent[vpAnswers'[i].key] # Never
                        /\ vpAnswers'[i].checked <= vpRecent[vpAnswers'[i].key]
      BY DEF NotLater
    <3>1. CASE i \in DOMAIN vpAnswers /\ vpAnswers'[i] = vpAnswers[i]
      BY <1>1, <3>1 DEF CooledDown, NotLater
    <3>2. CASE vpAnswers'[i] = a
      <4>1. vpRecent[a.key] = a.checked /\ a.checked \in Nat
        BY <1>1, <1>2, <1>4, <3>2 DEF CooledDown
      <4> QED
        BY <3>2, <4>1 DEF Never
    <3> QED
      BY <1>8, <3>1, <3>2
  <2>4. vpAt'.pc # "publishing"
    BY DEF PipelineFree
  <2> QED
    BY <1>1, <2>2, <2>3, <2>4 DEF CooledDown
<1> QED
  BY <1>10, <1>11, <1>12, <1>13 DEF PipelineIInv

LEMMA ArriveStep == ASSUME PipelineIInv, NEW s \in RawSignals, RawArrives(s) PROVE PipelineIInv'
<1>1. PipelineTypes /\ AnswerOrder /\ OneAfterStop /\ CooledDown
  BY DEF PipelineIInv
<1>2. PICK m : m = [number |-> vpSent, body |-> s]
  OBVIOUS
<1>3. /\ vpSent' = vpSent + 1 /\ (vpQueue' = vpQueue \/ vpQueue' = Append(vpQueue, m))
      /\ UNCHANGED <<vpRunning, vpConnected, vpAt, vpRecent, vpClock, vpAnswers, vpStopped>>
  BY <1>2 DEF RawArrives
<1>4. vpSent \in Nat /\ m \in RawMessages /\ m.number = vpSent
  BY <1>1, <1>2 DEF PipelineTypes, RawMessages
<1>5. /\ vpQueue' \in Seq(RawMessages) /\ Len(vpQueue) \in Nat
      /\ \A i \in DOMAIN vpQueue' : \/ i \in DOMAIN vpQueue /\ vpQueue'[i] = vpQueue[i]
                                    \/ i = Len(vpQueue) + 1 /\ vpQueue'[i] = m
      /\ \A i \in DOMAIN vpQueue : i \in Nat /\ i < Len(vpQueue) + 1 /\ i >= 1
  <2>1. vpQueue \in Seq(RawMessages)
    BY <1>1 DEF PipelineTypes
  <2>2. CASE vpQueue' = vpQueue
    BY <2>1, <2>2
  <2>3. CASE vpQueue' = Append(vpQueue, m)
    BY <1>4, <2>1, <2>3, OneMoreAnswer
  <2> QED
    BY <1>3, <2>2, <2>3
<1>6. PipelineTypes'
  BY <1>1, <1>3, <1>4, <1>5 DEF PipelineTypes
<1>7. ASSUME NEW i \in DOMAIN vpAnswers PROVE vpAnswers[i].number \in Nat /\ vpAnswers[i].number < vpSent
  <2>1. vpAnswers[i] \in Answers
    BY <1>1 DEF PipelineTypes
  <2> QED
    BY <1>1, <2>1 DEF Answers, AnswerOrder, AllBelow
<1>8. ASSUME NEW i \in DOMAIN vpQueue PROVE vpQueue[i].number \in Nat /\ vpQueue[i].number < vpSent
  <2>1. vpQueue[i] \in RawMessages
    BY <1>1 DEF PipelineTypes
  <2> QED
    BY <1>1, <2>1 DEF RawMessages, AnswerOrder, AllBelow
<1>9. AnswerOrder'
  <2>1. Ascending(vpAnswers) /\ AllBelow(vpAnswers, vpSent) /\ AllBelow(vpAnswers, vpSent + 1)
    BY <1>1, <1>4, <1>7 DEF AnswerOrder, AllBelow
  <2>2. Ascending(vpQueue')
    <3> SUFFICES ASSUME NEW i \in DOMAIN vpQueue', NEW j \in DOMAIN vpQueue', i < j
                 PROVE  vpQueue'[i].number < vpQueue'[j].number
      BY DEF Ascending
    <3>1. i \in DOMAIN vpQueue /\ vpQueue'[i] = vpQueue[i]
      BY <1>5
    <3>2. CASE j \in DOMAIN vpQueue /\ vpQueue'[j] = vpQueue[j]
      BY <1>1, <3>1, <3>2 DEF AnswerOrder, Ascending
    <3>3. CASE vpQueue'[j] = m
      BY <1>4, <1>8, <3>1, <3>3
    <3> QED
      BY <1>5, <3>2, <3>3
  <2>3. AllBelow(vpQueue', vpSent + 1)
    <3> SUFFICES ASSUME NEW i \in DOMAIN vpQueue' PROVE vpQueue'[i].number < vpSent + 1
      BY DEF AllBelow
    <3>1. CASE i \in DOMAIN vpQueue /\ vpQueue'[i] = vpQueue[i]
      BY <1>4, <1>8, <3>1
    <3>2. CASE vpQueue'[i] = m
      BY <1>4, <3>2
    <3> QED
      BY <1>5, <3>1, <3>2
  <2>4. \A i \in DOMAIN vpQueue' : AllBelow(vpAnswers, vpQueue'[i].number)
    BY <1>1, <1>4, <1>5, <2>1 DEF AnswerOrder
  <2>5. ASSUME vpAt # PipelineFree
        PROVE  /\ vpAt.signal.number < vpSent + 1 /\ AllBelow(vpAnswers, vpAt.signal.number)
               /\ AllAbove(vpQueue', vpAt.signal.number)
    <3>1. /\ vpAt.signal.number < vpSent /\ AllBelow(vpAnswers, vpAt.signal.number)
          /\ AllAbove(vpQueue, vpAt.signal.number)
      BY <1>1, <2>5 DEF AnswerOrder
    <3>2. vpAt.signal.number \in Nat
      <4>1. vpAt \in HandlerStates
        BY <1>1 DEF PipelineTypes
      <4>2. vpAt.signal \in RawMessages
        BY <2>5, <4>1, HandlerIs
      <4> QED
        BY <4>2 DEF RawMessages
    <3>3. vpAt.signal.number < vpSent + 1
      BY <1>4, <3>1, <3>2
    <3>4. ASSUME NEW i \in DOMAIN vpQueue' PROVE vpQueue'[i].number > vpAt.signal.number
      <4>1. CASE i \in DOMAIN vpQueue /\ vpQueue'[i] = vpQueue[i]
        BY <3>1, <4>1 DEF AllAbove
      <4>2. CASE vpQueue'[i] = m
        BY <1>4, <3>1, <3>2, <4>2
      <4> QED
        BY <1>5, <4>1, <4>2
    <3> QED
      BY <3>1, <3>3, <3>4 DEF AllAbove
  <2> QED
    BY <1>3, <2>1, <2>2, <2>3, <2>4, <2>5 DEF AnswerOrder
<1>10. OneAfterStop' /\ CooledDown'
  BY <1>1, <1>3 DEF OneAfterStop, CooledDown, CooldownKept, NotLater
<1> QED
  BY <1>6, <1>9, <1>10 DEF PipelineIInv

LEMMA PipelineStep == PipelineIInv /\ [PipelineNext]_vpVars => PipelineIInv'
<1> SUFFICES ASSUME PipelineIInv, [PipelineNext]_vpVars PROVE PipelineIInv'
  OBVIOUS
<1>1. vpRunning \in BOOLEAN /\ vpConnected \in BOOLEAN /\ vpClock \in Nat
  BY DEF PipelineIInv, PipelineTypes
<1>2. CASE UNCHANGED vpVars
  BY <1>1, <1>2, PipelineQuiet DEF vpVars
<1>3. CASE PipelineConnects
  BY <1>1, <1>3, PipelineQuiet DEF PipelineConnects
<1>4. CASE TakeMessage
  BY <1>4, TakeStep
<1>5. CASE ProcessSignal
  BY <1>5, ProcessSignalStep
<1>6. CASE PublishEnds
  BY <1>6, AnswerStep DEF PublishEnds
<1>7. CASE PublishFails
  <2>1. CASE VerdictGiven
    BY <1>7, <2>1, AnswerStep DEF PublishFails
  <2>2. CASE UNCHANGED <<vpAnswers, vpStopped>>
    BY <1>1, <1>7, <2>2, PipelineQuiet DEF PublishFails
  <2> QED
    BY <1>7, <2>1, <2>2 DEF PublishFails
<1>8. CASE PipelineLoses
  <2>1. vpRunning' \in BOOLEAN /\ (vpRunning' => vpRunning) /\ vpConnected' \in BOOLEAN
    BY <1>1, <1>8 DEF PipelineLoses
  <2>2. vpClock' \in Nat /\ vpClock' >= vpClock
    BY <1>1, <1>8 DEF PipelineLoses
  <2> QED
    BY <1>8, <2>1, <2>2, PipelineQuiet DEF PipelineLoses
<1>9. CASE StopPipeline
  <2>1. vpRunning' \in BOOLEAN /\ (vpRunning' => vpRunning) /\ vpConnected' \in BOOLEAN
    BY <1>1, <1>9 DEF StopPipeline
  <2>2. vpClock' \in Nat /\ vpClock' >= vpClock
    BY <1>1, <1>9 DEF StopPipeline
  <2> QED
    BY <1>9, <2>1, <2>2, PipelineQuiet DEF StopPipeline
<1>10. CASE VpTick
  BY <1>1, <1>10, PipelineQuiet DEF VpTick
<1>11. CASE \E s \in RawSignals : RawArrives(s)
  BY <1>11, ArriveStep
<1> QED
  BY <1>2, <1>3, <1>4, <1>5, <1>6, <1>7, <1>8, <1>9, <1>10, <1>11 DEF PipelineNext

LEMMA PipelineHolds == PipelineIInv => CooldownKept /\ AnsweredInOrder
<1> SUFFICES ASSUME PipelineIInv PROVE CooldownKept /\ AnsweredInOrder
  OBVIOUS
<1>1. CooldownKept
  BY DEF PipelineIInv, CooledDown
<1>2. AnsweredInOrder
  BY DEF PipelineIInv, PipelineTypes, AnswerOrder, Ascending, AnsweredInOrder
<1> QED
  BY <1>1, <1>2

\* The verification service, for any signals, cooldown and number of reconnections: two
\* verified signals of a key were checked a cooldown apart, every signal is answered once at
\* most, in the order it came, and one at most after a stop (department_2/src/verification_pipeline.py).
THEOREM PipelineAnswers == PipelineSpec => [](CooldownKept /\ AnsweredInOrder)
  BY PipelineHolds, PipelineInitHolds, PipelineStep, PTL DEF PipelineSpec

------------------------------------------------------------------------------
(* The ensemble.  Five agents add the same to every score, so that what the    *)
(* other two add decides.                                                      *)

\* What the technical agent and the risk manager add, and what they weigh.
TechnicalPart(rsi) == IF rsi < 0 THEN 0 ELSE IF rsi < 30 THEN 1600 ELSE IF rsi > 70 THEN -1600 ELSE 0
RiskPart(volatility) == IF volatility > 80 THEN -900 ELSE 0
TechnicalWeight(rsi) == IF rsi < 0 THEN 0 ELSE 20
RiskWeight(volatility) == IF volatility < 0 THEN 0 ELSE 10

LEMMA OpinionsAre ==
    ASSUME NEW market, market.rsi \in Int, market.volatility \in Int, NEW o, o = Opinions(market)
    PROVE  /\ DOMAIN o \subseteq DOMAIN WeightOf /\ DOMAIN Constant \subseteq DOMAIN o
           /\ "technical" \in DOMAIN o <=> market.rsi >= 0
           /\ "risk" \in DOMAIN o <=> market.volatility >= 0
           /\ \A a \in DOMAIN Constant : o[a] = Constant[a]
           /\ "technical" \in DOMAIN o => o["technical"] = Technical(market.rsi)
           /\ "risk" \in DOMAIN o => o["risk"] = RiskManager(market.volatility)
<1>1. PICK D : D = DOMAIN Constant \cup (IF market.rsi < 0 THEN {} ELSE {"technical"})
                           \cup (IF market.volatility < 0 THEN {} ELSE {"risk"})
  OBVIOUS
<1>2. DOMAIN Constant = {"fundamental", "sentiment", "news", "researcher", "trader"}
  BY DEF Constant
<1>3. DOMAIN WeightOf = {"fundamental", "sentiment", "news", "technical", "researcher", "trader", "risk"}
  BY DEF WeightOf
<1>4. o = [a \in D |-> CASE a = "technical" -> Technical(market.rsi)
                         [] a = "risk" -> RiskManager(market.volatility)
                         [] OTHER -> Constant[a]]
  BY <1>1 DEF Opinions
<1>5. DOMAIN o = D
  BY <1>4
<1>6. "technical" \in D <=> market.rsi >= 0
  BY <1>1, <1>2
<1>7. "risk" \in D <=> market.volatility >= 0
  BY <1>1, <1>2
<1>8. D \subseteq DOMAIN WeightOf /\ DOMAIN Constant \subseteq D
  BY <1>1, <1>2, <1>3
<1>9. \A a \in DOMAIN Constant : a # "technical" /\ a # "risk"
  BY <1>2
<1>10. \A a \in DOMAIN Constant : o[a] = Constant[a]
  BY <1>4, <1>8, <1>9
<1>11. "technical" \in D => o["technical"] = Technical(market.rsi)
  BY <1>4
<1>12. "risk" \in D => o["risk"] = RiskManager(market.volatility)
  BY <1>4
<1> QED
  BY <1>5, <1>6, <1>7, <1>8, <1>10, <1>11, <1>12

\* An agent adds its confidence times its weight, on the side it is on.
LEMMA AddsAre ==
    ASSUME NEW o, NEW a
    PROVE  /\ a \notin DOMAIN o => Adds(o, a) = 0 /\ Weighs(o, a) = 0
           /\ a \in DOMAIN o => Weighs(o, a) = WeightOf[a]
           /\ a \in DOMAIN o /\ o[a][1] = "buy" => Adds(o, a) = o[a][2] * WeightOf[a]
           /\ a \in DOMAIN o /\ o[a][1] = "sell" => Adds(o, a) = -(o[a][2] * WeightOf[a])
           /\ a \in DOMAIN o /\ o[a][1] = "hold" => Adds(o, a) = 0
<1>1. a \in Says(o, "buy") <=> a \in DOMAIN o /\ o[a][1] = "buy"
  BY DEF Says
<1>2. a \in Says(o, "sell") <=> a \in DOMAIN o /\ o[a][1] = "sell"
  BY DEF Says
<1>3. ~(a \in Says(o, "buy") /\ a \in Says(o, "sell"))
  BY <1>1, <1>2
<1>4. a \in Says(o, "buy") => Adds(o, a) = o[a][2] * WeightOf[a]
  BY <1>3 DEF Adds
<1>5. a \in Says(o, "sell") => Adds(o, a) = -(o[a][2] * WeightOf[a])
  BY <1>3 DEF Adds
<1>6. a \notin Says(o, "buy") /\ a \notin Says(o, "sell") => Adds(o, a) = 0
  BY DEF Adds
<1> QED
  BY <1>1, <1>2, <1>4, <1>5, <1>6 DEF Weighs

LEMMA WeightsOfAgents ==
    /\ WeightOf["fundamental"] = 15 /\ WeightOf["sentiment"] = 15 /\ WeightOf["news"] = 10
    /\ WeightOf["technical"] = 20 /\ WeightOf["researcher"] = 15 /\ WeightOf["trader"] = 15
    /\ WeightOf["risk"] = 10
  BY DEF WeightOf

LEMMA ScoreIs ==
    ASSUME NEW market, market.rsi \in Int, market.volatility \in Int, NEW o, o = Opinions(market)
    PROVE  /\ WeightedScore(o) = 3075 + TechnicalPart(market.rsi) + RiskPart(market.volatility)
           /\ TotalWeight(o) = 70 + TechnicalWeight(market.rsi) + RiskWeight(market.volatility)
<1>1. /\ o["fundamental"] = <<"hold", 60>> /\ o["sentiment"] = <<"buy", 70>> /\ o["news"] = <<"hold", 50>>
      /\ o["researcher"] = <<"buy", 65>> /\ o["trader"] = <<"buy", 70>>
      /\ "fundamental" \in DOMAIN o /\ "sentiment" \in DOMAIN o /\ "news" \in DOMAIN o
      /\ "researcher" \in DOMAIN o /\ "trader" \in DOMAIN o
  BY OpinionsAre DEF Constant
<1>2. Adds(o, "fundamental") = 0 /\ Adds(o, "news") = 0
  BY <1>1, AddsAre
<1>3. Adds(o, "sentiment") = 1050 /\ Adds(o, "researcher") = 975 /\ Adds(o, "trader") = 1050
  <2>1. Adds(o, "sentiment") = 70 * 15
    BY <1>1, AddsAre, WeightsOfAgents
  <2>2. Adds(o, "researcher") = 65 * 15
    BY <1>1, AddsAre, WeightsOfAgents
  <2>3. Adds(o, "trader") = 70 * 15
    BY <1>1, AddsAre, WeightsOfAgents
  <2> QED
    BY <2>1, <2>2, <2>3
<1>4. /\ Weighs(o, "fundamental") = 15 /\ Weighs(o, "sentiment") = 15 /\ Weighs(o, "news") = 10
      /\ Weighs(o, "researcher") = 15 /\ Weighs(o, "trader") = 15
  BY <1>1, AddsAre, WeightsOfAgents
<1>5. Adds(o, "technical") = TechnicalPart(market.rsi)
  <2>1. CASE market.rsi < 0
    <3>1. "technical" \notin DOMAIN o
      BY <2>1, OpinionsAre
    <3> QED
      BY <2>1, <3>1, AddsAre DEF TechnicalPart
  <2>2. CASE market.rsi >= 0
    <3>1. "technical" \in DOMAIN o /\ o["technical"] = Technical(market.rsi)
      BY <2>2, OpinionsAre
    <3>2. CASE market.rsi < 30
      <4>1. o["technical"] = <<"buy", 80>>
        BY <3>1, <3>2 DEF Technical
      <4>2. Adds(o, "technical") = 80 * 20
        BY <3>1, <4>1, AddsAre, WeightsOfAgents
      <4> QED
        BY <2>2, <3>2, <4>2 DEF TechnicalPart
    <3>3. CASE ~(market.rsi < 30) /\ market.rsi > 70
      <4>1. o["technical"] = <<"sell", 80>>
        BY <3>1, <3>3 DEF Technical
      <4>2. Adds(o, "technical") = -(80 * 20)
        BY <3>1, <4>1, AddsAre, WeightsOfAgents
      <4> QED
        BY <2>2, <3>3, <4>2 DEF TechnicalPart
    <3>4. CASE ~(market.rsi < 30) /\ ~(market.rsi > 70)
      <4>1. o["technical"] = <<"hold", 50>>
        BY <3>1, <3>4 DEF Technical
      <4>2. Adds(o, "technical") = 0
        BY <3>1, <4>1, AddsAre
      <4> QED
        BY <2>2, <3>4, <4>2 DEF TechnicalPart
    <3> QED
      BY <3>2, <3>3, <3>4
  <2> QED
    BY <2>1, <2>2
<1>6. Adds(o, "risk") = RiskPart(market.volatility)
  <2>1. CASE market.volatility < 0
    <3>1. "risk" \notin DOMAIN o
      BY <2>1, OpinionsAre
    <3> QED
      BY <2>1, <3>1, AddsAre DEF RiskPart
  <2>2. CASE market.volatility >= 0
    <3>1. "risk" \in DOMAIN o /\ o["risk"] = RiskManager(market.volatility)
      BY <2>2, OpinionsAre
    <3>2. CASE market.volatility > 80
      <4>1. o["risk"] = <<"sell", 90>>
        BY <3>1, <3>2 DEF RiskManager
      <4>2. Adds(o, "risk") = -(90 * 10)
        BY <3>1, <4>1, AddsAre, WeightsOfAgents
      <4> QED
        BY <3>2, <4>2 DEF RiskPart
    <3>3. CASE ~(market.volatility > 80)
      <4>1. o["risk"][1] = "hold"
        BY <3>1, <3>3 DEF RiskManager
      <4>2. Adds(o, "risk") = 0
        BY <3>1, <4>1, AddsAre
      <4> QED
        BY <3>3, <4>2 DEF RiskPart
    <3> QED
      BY <3>2, <3>3
  <2> QED
    BY <2>1, <2>2
<1>7. Weighs(o, "technical") = TechnicalWeight(market.rsi)
  BY OpinionsAre, AddsAre, WeightsOfAgents DEF TechnicalWeight
<1>8. Weighs(o, "risk") = RiskWeight(market.volatility)
  BY OpinionsAre, AddsAre, WeightsOfAgents DEF RiskWeight
<1>9. DOMAIN WeightOf = {"fundamental", "sentiment", "news", "technical", "researcher", "trader", "risk"}
  BY DEF WeightOf
<1>10. WeightedScore(o) = Adds(o, "fundamental") + Adds(o, "sentiment") + Adds(o, "news")
            + Adds(o, "technical") + Adds(o, "researcher") + Adds(o, "trader") + Adds(o, "risk")
  <2>1. PICK f : f = [a \in DOMAIN WeightOf |-> Adds(o, a)]
    OBVIOUS
  <2>2. WeightedScore(o) = f.fundamental + f.sentiment + f.news + f.technical + f.researcher + f.trader + f.risk
    BY <2>1 DEF WeightedScore, OfAll
  <2>3. \A a \in DOMAIN WeightOf : f[a] = Adds(o, a)
    BY <2>1
  <2>4. /\ f["fundamental"] = Adds(o, "fundamental") /\ f["sentiment"] = Adds(o, "sentiment")
        /\ f["news"] = Adds(o, "news") /\ f["technical"] = Adds(o, "technical")
        /\ f["researcher"] = Adds(o, "researcher") /\ f["trader"] = Adds(o, "trader")
        /\ f["risk"] = Adds(o, "risk")
    BY <1>9, <2>3
  <2> QED
    BY <2>2, <2>4
<1>11. TotalWeight(o) = Weighs(o, "fundamental") + Weighs(o, "sentiment") + Weighs(o, "news")
            + Weighs(o, "technical") + Weighs(o, "researcher") + Weighs(o, "trader") + Weighs(o, "risk")
  <2>1. PICK f : f = [a \in DOMAIN WeightOf |-> Weighs(o, a)]
    OBVIOUS
  <2>2. TotalWeight(o) = f.fundamental + f.sentiment + f.news + f.technical + f.researcher + f.trader + f.risk
    BY <2>1 DEF TotalWeight, OfAll
  <2>3. \A a \in DOMAIN WeightOf : f[a] = Weighs(o, a)
    BY <2>1
  <2>4. /\ f["fundamental"] = Weighs(o, "fundamental") /\ f["sentiment"] = Weighs(o, "sentiment")
        /\ f["news"] = Weighs(o, "news") /\ f["technical"] = Weighs(o, "technical")
        /\ f["researcher"] = Weighs(o, "researcher") /\ f["trader"] = Weighs(o, "trader")
        /\ f["risk"] = Weighs(o, "risk")
    BY <1>9, <2>3
  <2> QED
    BY <2>2, <2>4
<1>12. TechnicalPart(market.rsi) \in Int /\ RiskPart(market.volatility) \in Int
       /\ TechnicalWeight(market.rsi) \in Int /\ RiskWeight(market.volatility) \in Int
  BY DEF TechnicalPart, RiskPart, TechnicalWeight, RiskWeight
<1>13. WeightedScore(o) = 3075 + TechnicalPart(market.rsi) + RiskPart(market.volatility)
  BY <1>2, <1>3, <1>5, <1>6, <1>10, <1>12
<1>14. TotalWeight(o) = 70 + TechnicalWeight(market.rsi) + RiskWeight(market.volatility)
  BY <1>4, <1>7, <1>8, <1>11, <1>12
<1> QED
  BY <1>13, <1>14

\* What a signal is made from.
EnsembleIInv ==
    \A s \in enSignals :
        /\ s.market.rsi \in Int /\ s.market.volatility \in Int
        /\ s.final = FinalSignal(Opinions(s.market)) /\ s.weight = TotalWeight(Opinions(s.market))

LEMMA EnsembleInitHolds == EnsembleInit => EnsembleIInv
  BY DEF EnsembleInit, EnsembleIInv

LEMMA EnsembleStep == EnsembleIInv /\ [EnsembleNext]_enVars => EnsembleIInv'
<1> SUFFICES ASSUME EnsembleIInv, [EnsembleNext]_enVars PROVE EnsembleIInv'
  OBVIOUS
<1>1. CASE UNCHANGED enVars
  BY <1>1 DEF enVars, EnsembleIInv
<1>2. ASSUME NEW rsi \in RsiValues, NEW volatility \in Volatilities,
             GenerateSignal([rsi |-> rsi, volatility |-> volatility])
      PROVE  EnsembleIInv'
  <2>1. PICK m : m = [rsi |-> rsi, volatility |-> volatility]
    OBVIOUS
  <2>2. m.rsi \in Int /\ m.volatility \in Int
    BY <2>1, EnsembleAssumption
  <2>3. PICK s : /\ s.market = m /\ s.final = FinalSignal(Opinions(m)) /\ s.weight = TotalWeight(Opinions(m))
                 /\ enSignals' = enSignals \cup {s}
    BY <1>2, <2>1 DEF GenerateSignal
  <2> QED
    BY <2>2, <2>3 DEF EnsembleIInv
<1> QED
  BY <1>1, <1>2 DEF EnsembleNext

\* A score that is no higher, of the same weight, is no nearer to a buy.
Leaning(score, weight) == IF score > 20 * weight THEN "buy" ELSE IF score < -(20 * weight) THEN "sell" ELSE "hold"

LEMMA EnsembleHolds == EnsembleIInv => SignalFollowsMarket
<1> SUFFICES ASSUME EnsembleIInv, NEW s \in enSignals, NEW t \in enSignals,
                    s.weight = t.weight, s.market.rsi >= t.market.rsi,
                    s.market.volatility >= t.market.volatility
             PROVE  [sell |-> 0, hold |-> 1, buy |-> 2][s.final] <= [sell |-> 0, hold |-> 1, buy |-> 2][t.final]
  BY DEF SignalFollowsMarket
<1>1. PICK x, y : x = WeightedScore(Opinions(s.market)) /\ y = WeightedScore(Opinions(t.market))
  OBVIOUS
<1>2. PICK w, v : w = TotalWeight(Opinions(s.market)) /\ v = TotalWeight(Opinions(t.market))
  OBVIOUS
<1>3. /\ s.market.rsi \in Int /\ s.market.volatility \in Int /\ t.market.rsi \in Int /\ t.market.volatility \in Int
      /\ s.weight = w /\ t.weight = v
      /\ s.final = FinalSignal(Opinions(s.market)) /\ t.final = FinalSignal(Opinions(t.market))
  BY <1>2 DEF EnsembleIInv
<1>4. PICK a, b, c, d : a = s.market.rsi /\ b = t.market.rsi /\ c = s.market.volatility /\ d = t.market.volatility
  OBVIOUS
<1>5. a \in Int /\ b \in Int /\ c \in Int /\ d \in Int /\ a >= b /\ c >= d
  BY <1>3, <1>4
<1>6. x = 3075 + TechnicalPart(a) + RiskPart(c) /\ w = 70 + TechnicalWeight(a) + RiskWeight(c)
  BY <1>1, <1>2, <1>3, <1>4, ScoreIs
<1>7. y = 3075 + TechnicalPart(b) + RiskPart(d) /\ v = 70 + TechnicalWeight(b) + RiskWeight(d)
  BY <1>1, <1>2, <1>3, <1>4, ScoreIs
<1>8. w = v
  BY <1>3
<1>9. TechnicalWeight(a) = TechnicalWeight(b)
  BY <1>5, <1>6, <1>7, <1>8 DEF TechnicalWeight, RiskWeight
<1>10. TechnicalPart(a) <= TechnicalPart(b) /\ RiskPart(c) <= RiskPart(d)
  BY <1>5, <1>9 DEF TechnicalPart, RiskPart, TechnicalWeight
<1>11. x \in Int /\ y \in Int /\ w \in Int /\ x <= y
  BY <1>6, <1>7, <1>10 DEF TechnicalPart, RiskPart, TechnicalWeight, RiskWeight
<1>12. s.final = Leaning(x, w) /\ t.final = Leaning(y, w)
  BY <1>1, <1>2, <1>3, <1>8 DEF FinalSignal, Leaning
<1>13. /\ t.final = "sell" => s.final = "sell"
       /\ s.final = "buy" => t.final = "buy"
       /\ s.final \in {"buy", "sell", "hold"} /\ t.final \in {"buy", "sell", "hold"}
  <2>1. y < -(20 * w) => x < -(20 * w)
    BY <1>11
  <2>2. x > 20 * w => y > 20 * w
    BY <1>11
  <2>3. w >= 0
    BY <1>6 DEF TechnicalWeight, RiskWeight
  <2>4. ~(y > 20 * w /\ y < -(20 * w)) /\ ~(x > 20 * w /\ x < -(20 * w))
    BY <1>11, <2>3
  <2> QED
    BY <1>12, <2>1, <2>2, <2>4 DEF Leaning
<1> QED
  BY <1>13

\* The ensemble, for any markets: of two signals with the same agents, that of the market
\* that is less overbought and no more volatile is no nearer to a sell (multi_llm_ensemble.py).
THEOREM EnsembleFollows == EnsembleSpec => []SignalFollowsMarket
  BY EnsembleHolds, EnsembleInitHolds, EnsembleStep, PTL DEF EnsembleSpec

------------------------------------------------------------------------------
(* The desk and its signals. *)

SignalsIInv == VerifyIInv /\ PipelineIInv /\ EnsembleIInv

\* A step of the desk is a step of the part that makes signals, or leaves it alone.
LEMMA DeskSignalsApart ==
    [DeskNext]_deskVars => [VerifyNext]_svVars /\ [PipelineNext]_vpVars /\ [EnsembleNext]_enVars
<1> SUFFICES ASSUME [DeskNext]_deskVars
             PROVE  [VerifyNext]_svVars /\ [PipelineNext]_vpVars /\ [EnsembleNext]_enVars
  OBVIOUS
<1>1. CASE UNCHANGED deskVars
  BY <1>1 DEF deskVars
<1>2. CASE DeskNext
  <2>1. /\ UNCHANGED svVars \/ which = "verify"
        /\ UNCHANGED vpVars \/ which = "signals"
        /\ UNCHANGED enVars \/ which = "ensemble"
    BY <1>2, ZenonT(60) DEF DeskNext, Only
  <2>2. /\ which = "verify" => VerifyNext
        /\ which = "signals" => PipelineNext
        /\ which = "ensemble" => EnsembleNext
    BY <1>2, ZenonT(60) DEF DeskNext, Only
  <2> QED
    BY <2>1, <2>2
<1> QED
  BY <1>1, <1>2

LEMMA SignalsHold == SignalsIInv => SignalsAreSound
  BY PipelineHolds, EnsembleHolds DEF SignalsIInv, VerifyIInv, SignalsAreSound

\* On the desk, a verdict on a signal follows its steps, its indicators are current and its
\* stop protects it, the service answers once, in order and not too soon, and the ensemble
\* follows the market.
THEOREM DeskSignals == DeskSpec => []SignalsAreSound
<1>1. DeskInit => SignalsIInv
  BY VerifyInitHolds, PipelineInitHolds, EnsembleInitHolds DEF DeskInit, SignalsIInv
<1>2. SignalsIInv /\ [DeskNext]_deskVars => SignalsIInv'
  BY DeskSignalsApart, VerifyStep, PipelineStep, EnsembleStep DEF SignalsIInv
<1> QED
  BY <1>1, <1>2, SignalsHold, PTL DEF DeskSpec
==============================================================================
