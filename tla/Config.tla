------------------------------- MODULE Config -------------------------------
(***************************************************************************)
(* The log level kept in etcd and followed by every server process          *)
(* (server/src/config/runtime-config.service.ts): read the key, watch from  *)
(* the revision after it, and start over when the watch breaks, when etcd   *)
(* has compacted what it missed, or when its token is no longer good.       *)
(***************************************************************************)
EXTENDS Naturals, Sequences, Absent

CONSTANTS
    Levels,             \* VALID_LOG_LEVELS
    EnvLevel,           \* LOG_LEVEL, until etcd says otherwise
    Garbage,            \* a value that is no level, or a delete
    MaxPuts            \* how many times the key is written

ASSUME ConfigAssumption ==
    /\ EnvLevel \in Levels /\ Garbage \notin Levels /\ MaxPuts \in Nat

VARIABLES
    puts,           \* etcd: the key's history, the n-th write at revision n
    compacted,      \* etcd: revisions up to here are gone
    level,          \* logger.level
    latestRevision, \* the revision this process has seen up to, or None
    needsSync,      \* the key must be read again before a watch
    authToken,      \* "none", "good", or "stale" once etcd has expired it
    phase,          \* "boot", "loop", "watching", "backoff" or "stopped"
    watch           \* the revision the open watch delivers next

configVars == <<puts, compacted, level, latestRevision, needsSync, authToken, phase, watch>>
processVars == <<level, latestRevision, needsSync, authToken, phase, watch>>

Revision == Len(puts)
Watching == phase = "watching"

ConfigInit ==
    /\ puts = <<>> /\ compacted = 0
    /\ level = EnvLevel /\ latestRevision = None /\ needsSync = FALSE
    /\ authToken = "none" /\ phase = "boot" /\ watch = 0

-----------------------------------------------------------------------------
(* etcd *)

Put(value) ==
    /\ Revision < MaxPuts /\ puts' = Append(puts, value)
    /\ UNCHANGED <<compacted, processVars>>

Compact ==
    /\ compacted < Revision /\ compacted' = Revision
    /\ UNCHANGED <<puts, processVars>>

ExpireToken ==
    /\ authToken = "good" /\ authToken' = "stale"
    /\ UNCHANGED <<puts, compacted, level, latestRevision, needsSync, phase, watch>>

-----------------------------------------------------------------------------
(* The process *)

\* applyLogLevel: what is no level changes nothing.
ApplyLogLevel(value) == level' = IF value \in Levels THEN value ELSE level

\* fetchInitialLogLevel: the value and etcd's revision, from one answer.
FetchInitialLogLevel ==
    /\ authToken = "good" /\ latestRevision' = Revision
    /\ IF puts = <<>> THEN UNCHANGED level ELSE ApplyLogLevel(puts[Revision])

\* start: authenticate and read; whatever fails is left to the loop.
Start ==
    /\ phase = "boot" /\ phase' = "loop"
    /\ \/ authToken' = "none" /\ needsSync' = TRUE /\ UNCHANGED <<level, latestRevision>>
       \/ authToken' = "good" /\ needsSync' = TRUE /\ UNCHANGED <<level, latestRevision>>
       \/ /\ authToken' = "good" /\ latestRevision' = Revision /\ UNCHANGED needsSync
          /\ IF puts = <<>> THEN UNCHANGED level ELSE ApplyLogLevel(puts[Revision])
    /\ UNCHANGED <<puts, compacted, watch>>

Authenticate ==
    /\ phase = "loop" /\ authToken = "none" /\ authToken' = "good"
    /\ UNCHANGED <<puts, compacted, level, latestRevision, needsSync, phase, watch>>

Resync ==
    /\ phase = "loop" /\ needsSync /\ FetchInitialLogLevel /\ needsSync' = FALSE
    /\ UNCHANGED <<puts, compacted, authToken, phase, watch>>

\* watchStream: from the revision after the last one seen, or from now.
OpenWatch ==
    /\ phase = "loop" /\ authToken = "good" /\ ~ needsSync
    /\ phase' = "watching"
    /\ watch' = IF latestRevision = None THEN Revision + 1 ELSE latestRevision + 1
    /\ UNCHANGED <<puts, compacted, level, latestRevision, needsSync, authToken>>

\* An expired token: HTTP 401 on a read, or a watch cancelled in its body.
TokenRefused ==
    /\ authToken = "stale" /\ (phase = "loop" \/ Watching)
    /\ authToken' = "none" /\ phase' = "backoff"
    /\ UNCHANGED <<puts, compacted, level, latestRevision, needsSync, watch>>

\* The next revision was compacted away.
\* Mutant: the watch begins again from now, and the key is not read.
CompactedNoSync ==
    /\ Watching /\ watch <= compacted /\ phase' = "backoff"
    /\ latestRevision' = None
    /\ UNCHANGED <<puts, compacted, level, needsSync, authToken, watch>>
Compacted ==
    /\ Watching /\ watch <= compacted /\ phase' = "backoff"
    /\ needsSync' = TRUE /\ latestRevision' = None
    /\ UNCHANGED <<puts, compacted, level, authToken, watch>>

\* handleWatchPayload: one event.
HandleEvent ==
    /\ Watching /\ compacted < watch /\ watch <= Revision
    /\ ApplyLogLevel(puts[watch]) /\ latestRevision' = watch
    /\ watch' = watch + 1
    /\ UNCHANGED <<puts, compacted, needsSync, authToken, phase>>

\* The connection breaks, is closed cleanly, or is refused; the retry comes after a pause.
Interrupted ==
    /\ phase = "loop" \/ Watching
    /\ phase' = "backoff"
    /\ UNCHANGED <<puts, compacted, level, latestRevision, needsSync, authToken, watch>>
Reconnect ==
    /\ phase = "backoff" /\ phase' = "loop"
    /\ UNCHANGED <<puts, compacted, level, latestRevision, needsSync, authToken, watch>>

Stop ==
    /\ phase # "stopped" /\ phase' = "stopped"
    /\ UNCHANGED <<puts, compacted, level, latestRevision, needsSync, authToken, watch>>

ConfigNext ==
    \/ \E value \in Levels \cup {Garbage} : Put(value)
    \/ Compact \/ ExpireToken
    \/ Start \/ Authenticate \/ Resync \/ OpenWatch \/ TokenRefused \/ Compacted \/ HandleEvent
    \/ Interrupted \/ Reconnect \/ Stop

-----------------------------------------------------------------------------
(* Properties *)

\* A process whose watch has caught up logs at the level the key holds, however often the
\* watch broke, was compacted under it or lost its token: no write falls between a read
\* and the watch that follows it.
LevelFollows ==
    Watching /\ watch > Revision /\ puts # <<>> /\ puts[Revision] \in Levels =>
        level = puts[Revision]
=============================================================================
