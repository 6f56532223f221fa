------------------------------ MODULE Security ------------------------------
(* The security library (src/occore/security): the audit log, the vault of the *)
(* keys and the blocks of addresses.  Three parts, each with its own state.  *)
EXTENDS Integers, Sequences, FiniteSets

------------------------------------------------------------------------------
(* The audit log of the security library (src/occore/security/audit.py): rows    *)
(* are written by several threads, each with a connection of its own; a failed   *)
(* attempt is counted, with those before it, after it was stored and its copy    *)
(* in Elasticsearch (elasticsearch_adapter.py) was made, failed or timed out.   *)

CONSTANTS AuditThreads,
          Addresses,
          FailureWindow, \* minutes failures are counted over, 5 in the code
          TooMany,       \* failures that raise an alert, 5 in the code
          KeepFor,       \* age that cleanup_old_logs keeps, 90 days in the code
          MaxRows,       \* bound: rows logged
          AtMaxTime      \* bound: minutes

ASSUME AuditAssumption ==
    /\ FailureWindow \in Nat \ {0} /\ TooMany \in Nat \ {0}
    /\ KeepFor \in Nat /\ KeepFor >= FailureWindow

VARIABLES atRows,     \* the rows of access_attempts and security_alerts
          atThread,   \* where a thread is, and with which address
          atNext,     \* ids handed out
          atTime

atVars == <<atRows, atThread, atNext, atTime>>

Unoccupied == [at |-> "idle", ip |-> "none"]

AuditInit ==
    /\ atRows = {} /\ atThread = [t \in AuditThreads |-> Unoccupied]
    /\ atNext = 1 /\ atTime = 0

NewRow(table, ip, failed) ==
    [id |-> atNext, table |-> table, ip |-> ip, failed |-> failed, at |-> atTime, resolved |-> FALSE]

Insert(t, row, then) ==
    /\ atNext <= MaxRows /\ atNext' = atNext + 1
    /\ atRows' = atRows \cup {row}
    /\ atThread' = [atThread EXCEPT ![t] = [at |-> then, ip |-> row.ip]]

\* log_access_attempt: the row is committed first.
LogAccessAttempt(t, ip, failed) ==
    /\ atThread[t] = Unoccupied
    /\ Insert(t, NewRow("attempts", ip, failed), IF failed THEN "copy-count" ELSE "copy")
    /\ UNCHANGED atTime

\* index_log answers, with or without a copy: nothing is tried again.
CopyRow(t) ==
    /\ atThread[t].at \in {"copy", "copy-count"}
    /\ atThread' = [atThread EXCEPT ![t] = IF @.at = "copy-count" THEN [@ EXCEPT !.at = "count"] ELSE Unoccupied]
    /\ UNCHANGED <<atRows, atNext, atTime>>

\* Failures of an address in the window: timestamp > now - 5 minutes.
FailuresOf(ip) ==
    {r \in atRows : r.table = "attempts" /\ r.failed /\ r.ip = ip /\ r.at > atTime - FailureWindow}

RaiseAlert(t) ==
    Insert(t, NewRow("alerts", atThread[t].ip, FALSE), "copy")

\* mutant of CountFailures: an alert nobody has resolved stands for the next burst
CountFailures_Once(t) ==
    /\ atThread[t].at = "count"
    /\ IF /\ Cardinality(FailuresOf(atThread[t].ip)) >= TooMany
          /\ ~\E r \in atRows : r.table = "alerts" /\ r.ip = atThread[t].ip /\ ~r.resolved
       THEN RaiseAlert(t)
       ELSE atThread' = [atThread EXCEPT ![t] = Unoccupied] /\ UNCHANGED <<atRows, atNext>>
    /\ UNCHANGED atTime

\* _check_failed_attempts: every further failure raises one more alert.
CountFailures(t) ==
    /\ atThread[t].at = "count"
    /\ IF Cardinality(FailuresOf(atThread[t].ip)) >= TooMany THEN RaiseAlert(t)
       ELSE atThread' = [atThread EXCEPT ![t] = Unoccupied] /\ UNCHANGED <<atRows, atNext>>
    /\ UNCHANGED atTime

ResolveAlert(r) ==
    /\ r.table = "alerts" /\ atRows' = (atRows \ {r}) \cup {[r EXCEPT !.resolved = TRUE]}
    /\ UNCHANGED <<atThread, atNext, atTime>>

\* cleanup_old_logs: logs and attempts; alerts are kept.
CleanupOldLogs ==
    /\ atRows' = {r \in atRows : r.table = "alerts" \/ r.at >= atTime - KeepFor}
    /\ UNCHANGED <<atThread, atNext, atTime>>

MinutePasses ==
    /\ atTime < AtMaxTime /\ atTime' = atTime + 1
    /\ UNCHANGED <<atRows, atThread, atNext>>

AuditNext ==
    \/ CleanupOldLogs \/ MinutePasses
    \/ \E t \in AuditThreads :
         \/ CopyRow(t) \/ CountFailures(t)
         \/ \E ip \in Addresses, failed \in BOOLEAN : LogAccessAttempt(t, ip, failed)
    \/ \E r \in atRows : ResolveAlert(r)

AuditSpec == AuditInit /\ [][AuditNext]_atVars

------------------------------------------------------------------------------
AuditTypeOK ==
    /\ atThread \in [AuditThreads -> [at : {"idle", "copy", "copy-count", "count"},
                                   ip : Addresses \cup {"none"}]]
    /\ atNext \in 1..(MaxRows + 1) /\ atTime \in 0..AtMaxTime
    /\ {r.id : r \in atRows} \subseteq 1..MaxRows

\* A burst of failures is never missed, however the threads that log them
\* interleave and however long the copies take: once they have all returned, an
\* alert for the address is no older than the window.
BurstIsAlerted ==
    \A ip \in Addresses :
        /\ Cardinality(FailuresOf(ip)) >= TooMany
        /\ \A t \in AuditThreads : atThread[t] = Unoccupied
        => \E r \in atRows : r.table = "alerts" /\ r.ip = ip /\ r.at > atTime - FailureWindow

------------------------------------------------------------------------------
(* The vault of the keys (src/occore/security/vault.py): one encrypted file,   *)
(* which every call reads and writes back whole, and a cache in each instance. *)
(* get_vault and init_vault make instances that share the file and nothing     *)
(* else: each has its own cache, master key and idea of the last rotation.     *)

CONSTANTS Vaults,        \* instances of Vault
          Secrets,       \* keys of secrets
          MasterKeys,    \* master keys, numbered from 1
          KeepReplaced,  \* entries kept of a secret's history, 5 in the code
          RotationDays,  \* rotation_days, 30 in the code
          MaxStored,     \* bound: values stored, the n-th store stores n
          MaxDays        \* bound: days that pass

ASSUME VaultAssumption ==
    MasterKeys \subseteq Nat \ {0} /\ KeepReplaced \in Nat /\ RotationDays \in Nat /\ MaxDays \in Nat

VARIABLES vaKey,       \* master_key of each instance, 0 before it is made
          vaCache,     \* _cache of each instance: the value, 0 for none
          vaSeen,      \* _last_rotation of each instance: a day, -1 for None
          vaFile,      \* the file: its master key (0: no file), secrets, histories, last_rotation
          vaDay,
          vaStored,    \* values stored so far
          vaPromised,  \* history: what the last call that succeeded left of each secret
          vaBehind,    \* history: secrets another instance wrote since this one cached them
          vaRotated,   \* history: the day of the last rotation, -1 before
          vaSaved      \* history: something was saved after that rotation

vaVars == <<vaKey, vaCache, vaSeen, vaFile, vaDay, vaStored, vaPromised, vaBehind, vaRotated, vaSaved>>

NoSecrets == [n \in Secrets |-> 0]

VaultInit ==
    /\ vaKey = [v \in Vaults |-> 0] /\ vaCache = [v \in Vaults |-> NoSecrets]
    /\ vaSeen = [v \in Vaults |-> -1]
    /\ vaFile = [key |-> 0, secrets |-> NoSecrets, replaced |-> [n \in Secrets |-> <<>>], stamp |-> -1]
    /\ vaDay = 0 /\ vaStored = 0 /\ vaPromised = NoSecrets
    /\ vaBehind = [v \in Vaults |-> {}] /\ vaRotated = -1 /\ vaSaved = FALSE

\* mutant of Opens: a file that cannot be decrypted is taken for an empty one
Opens_Empty(v) == vaKey[v] # 0

\* _load: no file, or a file encrypted with this instance's key; it raises otherwise.
Opens(v) == vaKey[v] # 0 /\ vaFile.key \in {0, vaKey[v]}

\* What _load gives, and _save writes: the whole of it, stamped with the day.
Loaded(v) == IF vaFile.key = vaKey[v] THEN vaFile.secrets ELSE NoSecrets
SaveFile(key, secrets, replaced) ==
    vaFile' = [key |-> key, secrets |-> secrets, replaced |-> replaced, stamp |-> vaDay]

\* Vault(master_key), by get_vault or init_vault.
OpenVault(v, key) ==
    /\ vaKey' = [vaKey EXCEPT ![v] = key] /\ vaCache' = [vaCache EXCEPT ![v] = NoSecrets]
    /\ vaSeen' = [vaSeen EXCEPT ![v] = IF vaFile.key = key THEN vaFile.stamp ELSE -1]
    /\ vaBehind' = [vaBehind EXCEPT ![v] = {}]
    /\ UNCHANGED <<vaFile, vaDay, vaStored, vaPromised, vaRotated, vaSaved>>

Tail5(s) == IF Len(s) > KeepReplaced THEN SubSeq(s, Len(s) - KeepReplaced + 1, Len(s)) ELSE s

OthersBehind(v, n) ==
    vaBehind' = [w \in Vaults |-> IF w = v THEN vaBehind[w] \ {n} ELSE vaBehind[w] \cup {n}]

Store(v, n) ==
    LET secrets == Loaded(v) IN
    /\ Opens(v) /\ vaStored < MaxStored
    /\ vaStored' = vaStored + 1
    /\ SaveFile(vaKey[v], [secrets EXCEPT ![n] = vaStored + 1],
                IF secrets[n] = 0 THEN vaFile.replaced
                ELSE [vaFile.replaced EXCEPT ![n] = Tail5(Append(@, secrets[n]))])
    /\ vaCache' = [vaCache EXCEPT ![v][n] = vaStored + 1]
    /\ vaPromised' = [vaPromised EXCEPT ![n] = vaStored + 1]
    /\ OthersBehind(v, n) /\ vaSaved' = TRUE
    /\ UNCHANGED <<vaKey, vaSeen, vaDay, vaRotated>>

\* retrieve: the cache answers even when the file can no longer be read.
Retrieve(v, n) ==
    /\ vaCache[v][n] = 0 /\ Opens(v) /\ Loaded(v)[n] # 0
    /\ vaCache' = [vaCache EXCEPT ![v][n] = Loaded(v)[n]]
    /\ vaBehind' = [vaBehind EXCEPT ![v] = @ \ {n}]
    /\ UNCHANGED <<vaKey, vaSeen, vaFile, vaDay, vaStored, vaPromised, vaRotated, vaSaved>>

\* mutant of Forgotten: a deleted secret stays cached
Forgotten_Cached(v, n) == vaCache

Forgotten(v, n) == [vaCache EXCEPT ![v][n] = 0]

\* delete: the history of the secret stays.
DeleteSecret(v, n) ==
    /\ Opens(v) /\ Loaded(v)[n] # 0
    /\ SaveFile(vaKey[v], [Loaded(v) EXCEPT ![n] = 0], vaFile.replaced)
    /\ vaCache' = Forgotten(v, n)
    /\ vaPromised' = [vaPromised EXCEPT ![n] = 0]
    /\ OthersBehind(v, n) /\ vaSaved' = TRUE
    /\ UNCHANGED <<vaKey, vaSeen, vaDay, vaStored, vaRotated>>

\* rotate_key, with the key it had or a new one.
RotateKey(v, key) ==
    /\ Opens(v) /\ vaKey' = [vaKey EXCEPT ![v] = key]
    /\ SaveFile(key, Loaded(v), vaFile.replaced)
    /\ vaSeen' = [vaSeen EXCEPT ![v] = vaDay] /\ vaRotated' = vaDay /\ vaSaved' = FALSE
    /\ UNCHANGED <<vaCache, vaDay, vaStored, vaPromised, vaBehind>>

ClearCache(v) ==
    /\ vaCache[v] # NoSecrets
    /\ vaCache' = [vaCache EXCEPT ![v] = NoSecrets] /\ vaBehind' = [vaBehind EXCEPT ![v] = {}]
    /\ UNCHANGED <<vaKey, vaSeen, vaFile, vaDay, vaStored, vaPromised, vaRotated, vaSaved>>

DayPasses ==
    /\ vaDay < MaxDays /\ vaDay' = vaDay + 1
    /\ UNCHANGED <<vaKey, vaCache, vaSeen, vaFile, vaStored, vaPromised, vaBehind, vaRotated, vaSaved>>

VaultNext ==
    \/ \E v \in Vaults, key \in MasterKeys : OpenVault(v, key) \/ RotateKey(v, key)
    \/ \E v \in Vaults, n \in Secrets : Store(v, n) \/ Retrieve(v, n) \/ DeleteSecret(v, n)
    \/ \E v \in Vaults : ClearCache(v)
    \/ DayPasses

VaultSpec == VaultInit /\ [][VaultNext]_vaVars

\* check_rotation_needed
RotationNeeded(v) == vaSeen[v] = -1 \/ vaDay - vaSeen[v] >= RotationDays

------------------------------------------------------------------------------
VaultTypeOK ==
    /\ vaKey \in [Vaults -> MasterKeys \cup {0}] /\ vaSeen \in [Vaults -> -1..MaxDays]
    /\ vaFile.key \in MasterKeys \cup {0}
    /\ \A n \in Secrets : Len(vaFile.replaced[n]) <= KeepReplaced

\* The file holds for each secret what the last store or delete that did not
\* raise left, whoever made it and whoever changed the master key since: an
\* instance that cannot read the file does not write over it.
SecretsSurvive == vaFile.secrets = vaPromised

\* An instance answers with a value that is not the file's only if another one
\* wrote that secret after this one had it cached.
CacheIsCurrent ==
    \A v \in Vaults, n \in Secrets :
        vaCache[v][n] # 0 /\ vaCache[v][n] # vaFile.secrets[n] => n \in vaBehind[v]

\* No rotation is asked for long after the last one only where something was
\* stored since: a save stamps the file like a rotation.
RotationIsAsked ==
    \A v \in Vaults :
        vaRotated # -1 /\ vaDay - vaRotated >= RotationDays /\ ~RotationNeeded(v) => vaSaved

------------------------------------------------------------------------------
(* Blocks of addresses (src/occore/security/threat_monitor.py, with the calls  *)
(* it makes of acl.py and audit.py).  The monitor keeps the end of every block *)
(* in memory, the access control the blocked addresses in its file; a          *)
(* background thread ends what has expired.  Every method holds one lock.      *)

CONSTANTS FailThreshold, FailWindow,  \* failed_attempt_threshold, .._window_minutes
          BlockTime,                  \* auto_block_duration_minutes
          RateThreshold, RateBlock,   \* request_rate_threshold in a minute, its block
          BlockTimes,                 \* durations an administrator gives
          AbMaxTime                   \* bound: the clock, in minutes

ASSUME BlockAssumption ==
    /\ FailThreshold \in Nat \ {0} /\ FailWindow \in Nat \ {0} /\ RateThreshold \in Nat
    /\ {BlockTime, RateBlock} \cup BlockTimes \subseteq Nat

VARIABLES abNow,
          abFails,     \* _failed_attempts, at most one in a minute
          abRequests,  \* _request_counts: of the running minute
          abUntil,     \* _blocked_until, 0 for no block
          abAcl,       \* _blocked_ips of the access control, and its file
          abLog,       \* access_attempts of the audit database: the failures
          abAlerts,    \* addresses the audit has raised a brute_force_attempt for
          abPromise,   \* history: the end of the last block by failures or by hand, or 0
          abDropped,   \* history: addresses whose block was dropped outside the cleanup
          abSeen       \* history: failures since the start or an administrator's act

abVars == <<abNow, abFails, abRequests, abUntil, abAcl, abLog, abAlerts, abPromise, abDropped,
            abSeen>>

\* The clock starts late enough for a window to lie before it.
BlocksInit ==
    /\ abNow = FailWindow
    /\ abFails = [p \in Addresses |-> {}] /\ abRequests = [p \in Addresses |-> 0]
    /\ abUntil = [p \in Addresses |-> 0] /\ abAcl = {}
    /\ abLog = [p \in Addresses |-> {}] /\ abAlerts = {}
    /\ abPromise = [p \in Addresses |-> 0] /\ abDropped = {} /\ abSeen = [p \in Addresses |-> {}]

RecentFailures(failures, now) == {z \in failures : z > now - FailWindow /\ z <= now}

\* acl.block_ip and the end of the block, as by failures and by hand.
Block(p, end) ==
    /\ abUntil' = [abUntil EXCEPT ![p] = end]
    /\ abAcl' = abAcl \cup {p}
    /\ abPromise' = [abPromise EXCEPT ![p] = end]
    /\ abDropped' = abDropped \ {p}

RecordFailedAttempt(p) ==
    /\ abNow \notin abFails[p]
    /\ abFails' = [abFails EXCEPT ![p] = @ \cup {abNow}]
    /\ abSeen' = [abSeen EXCEPT ![p] = @ \cup {abNow}]
    /\ abLog' = [abLog EXCEPT ![p] = @ \cup {abNow}]
    /\ abAlerts' = IF Cardinality(RecentFailures(abLog'[p], abNow)) >= FailThreshold THEN abAlerts \cup {p}
                   ELSE abAlerts
    /\ IF Cardinality(RecentFailures(abFails'[p], abNow)) >= FailThreshold
       THEN Block(p, abNow + BlockTime)
       ELSE UNCHANGED <<abUntil, abAcl, abPromise, abDropped>>
    /\ UNCHANGED <<abNow, abRequests>>

\* mutant of RecordRequest: the rate is looked at first
RecordRequest_Rate(p) ==
    /\ abRequests[p] <= RateThreshold
    /\ abRequests' = [abRequests EXCEPT ![p] = @ + 1]
    /\ abUntil' = IF abRequests'[p] > RateThreshold THEN [abUntil EXCEPT ![p] = abNow + RateBlock]
                  ELSE abUntil
    /\ UNCHANGED <<abNow, abFails, abAcl, abLog, abAlerts, abPromise, abDropped, abSeen>>

\* record_request refuses during a block and forgets one that is over, without a
\* word to the access control; too many requests in a minute are a block of the
\* monitor alone.
RecordRequest(p) ==
    /\ abNow >= abUntil[p]
    /\ abRequests[p] <= RateThreshold
    /\ abRequests' = [abRequests EXCEPT ![p] = @ + 1]
    /\ abUntil' = [abUntil EXCEPT ![p] = IF abRequests'[p] > RateThreshold THEN abNow + RateBlock ELSE 0]
    /\ abDropped' = IF abUntil'[p] = 0 THEN abDropped \cup ({p} \cap abAcl) ELSE abDropped
    /\ UNCHANGED <<abNow, abFails, abAcl, abLog, abAlerts, abPromise, abSeen>>

Expired == {p \in Addresses : abUntil[p] > 0 /\ abNow > abUntil[p]}

\* mutant of CleanUp: the access control keeps the address
CleanUp_KeepsAcl ==
    /\ abUntil' = [p \in Addresses |-> IF p \in Expired THEN 0 ELSE abUntil[p]]
    /\ abFails' = [p \in Addresses |-> {z \in abFails[p] : z >= abNow - FailWindow}]
    /\ UNCHANGED <<abNow, abRequests, abAcl, abLog, abAlerts, abPromise, abDropped, abSeen>>

\* mutant of CleanUp: failures are kept for the running minute only
CleanUp_Forgets ==
    /\ abUntil' = [p \in Addresses |-> IF p \in Expired THEN 0 ELSE abUntil[p]]
    /\ abAcl' = abAcl \ Expired
    /\ abFails' = [p \in Addresses |-> {z \in abFails[p] : z >= abNow}]
    /\ UNCHANGED <<abNow, abRequests, abLog, abAlerts, abPromise, abDropped, abSeen>>

\* _cleanup_old_data, every thirty seconds.
CleanUp ==
    /\ abUntil' = [p \in Addresses |-> IF p \in Expired THEN 0 ELSE abUntil[p]]
    /\ abAcl' = abAcl \ Expired
    /\ abFails' = [p \in Addresses |-> {z \in abFails[p] : z >= abNow - FailWindow}]
    /\ UNCHANGED <<abNow, abRequests, abLog, abAlerts, abPromise, abDropped, abSeen>>

ManualBlock(p, minutes) ==
    /\ Block(p, abNow + minutes)
    /\ abSeen' = [abSeen EXCEPT ![p] = {}]
    /\ UNCHANGED <<abNow, abFails, abRequests, abLog, abAlerts>>

Unblock(p) ==
    /\ abUntil[p] > 0
    /\ abUntil' = [abUntil EXCEPT ![p] = 0]
    /\ abAcl' = abAcl \ {p}
    /\ abPromise' = [abPromise EXCEPT ![p] = 0]
    /\ abSeen' = [abSeen EXCEPT ![p] = {}]
    /\ UNCHANGED <<abNow, abFails, abRequests, abLog, abAlerts, abDropped>>

\* The process is started again: the file and the database are what is left.
RestartMonitor ==
    /\ abFails' = [p \in Addresses |-> {}] /\ abRequests' = [p \in Addresses |-> 0]
    /\ abUntil' = [p \in Addresses |-> 0]
    /\ abSeen' = [p \in Addresses |-> {}]
    /\ abDropped' = abDropped \cup abAcl
    /\ UNCHANGED <<abNow, abAcl, abLog, abAlerts, abPromise>>

BlockMinutePasses ==
    /\ abNow < AbMaxTime
    /\ abNow' = abNow + 1
    /\ abRequests' = [p \in Addresses |-> 0]
    /\ UNCHANGED <<abFails, abUntil, abAcl, abLog, abAlerts, abPromise, abDropped, abSeen>>

BlocksNext ==
    \/ \E p \in Addresses :
           \/ RecordFailedAttempt(p) \/ RecordRequest(p) \/ Unblock(p)
           \/ \E minutes \in BlockTimes : ManualBlock(p, minutes)
    \/ CleanUp \/ RestartMonitor \/ BlockMinutePasses

BlocksSpec == BlocksInit /\ [][BlocksNext]_abVars

------------------------------------------------------------------------------
BlocksTypeOK ==
    /\ abNow \in Nat /\ abAcl \cup abAlerts \cup abDropped \subseteq Addresses
    /\ \A p \in Addresses : abUntil[p] \in Nat /\ abRequests[p] \in 0..(RateThreshold + 1)

\* The access control denies an address to the end of the block that failures or
\* an administrator gave it last, over requests above the rate and cleanups, unless
\* a restart of the monitor has lost the end of the block.
BlockHolds ==
    \A p \in Addresses \ abDropped : abPromise[p] > 0 /\ abNow <= abPromise[p] => p \in abAcl

\* An address the access control denies has a block the cleanup will end, unless a
\* request after its end or a restart has dropped the block.
BlockIsTracked == abAcl \subseteq abDropped \cup {p \in Addresses : abUntil[p] > 0}

\* As many failures as the threshold within the window deny the address for the
\* time of a block, whenever the cleanup ran between them.
FailuresBlock ==
    \A p \in Addresses : \A z \in abSeen[p] :
        Cardinality(RecentFailures(abSeen[p], z)) >= FailThreshold /\ abNow <= z + BlockTime => p \in abAcl
==============================================================================
