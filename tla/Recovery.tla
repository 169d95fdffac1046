------------------------------ MODULE Recovery ------------------------------
(***************************************************************************)
(* The recovery exception of assistant-session: host processes that open   *)
(* outbound.db read-write when no container is alive, next to a container  *)
(* that starts, beats, claims, stops or dies.  The container is the only   *)
(* writer otherwise; the two agree through its status row, the heartbeat   *)
(* file and a lock file that only recoveries look at.                      *)
(***************************************************************************)
EXTENDS Naturals, FiniteSets

CONSTANTS Recoverers,               \* host processes that recover
          MaxStarts                 \* bound on starts of the container

VARIABLES container,                \* "down", "starting", "up" or "stopping"
          status,                   \* container_state: "none", "alive" or "stopped"
          heartbeat,                \* the file: "absent", "fresh" or "old"
          acks,                     \* processing_ack: the start that claimed
          lock,                     \* the lock file exists
          host,                     \* host -> "idle", "checked", "locked" or "open"
          starts, seen              \* history: starts, and those at a recovery's last check

recoveryVars == <<container, status, heartbeat, acks, lock, host, starts, seen>>

-----------------------------------------------------------------------------
(* The container *)

setStatus(value) == status' = value

start ==
    /\ container = "down" /\ starts < MaxStarts
    /\ container' = "starting" /\ starts' = starts + 1
    /\ setStatus("alive")
    /\ UNCHANGED <<heartbeat, acks, lock, host, seen>>

\* The first beat ends the start, later ones are the loop's.
Beat ==
    /\ container \in {"starting", "up"}
    /\ container' = "up" /\ heartbeat' = "fresh"
    /\ UNCHANGED <<status, acks, lock, host, starts, seen>>

claim ==
    /\ container = "up"
    /\ acks' = acks \union {starts}
    /\ UNCHANGED <<container, status, heartbeat, lock, host, starts, seen>>

stop ==
    /\ container \in {"starting", "up"}
    /\ container' = "stopping"
    /\ setStatus("stopped")
    /\ UNCHANGED <<heartbeat, acks, lock, host, starts, seen>>

RemoveHeartbeat ==
    /\ container = "stopping"
    /\ container' = "down" /\ heartbeat' = "absent"
    /\ UNCHANGED <<status, acks, lock, host, starts, seen>>

\* Killed: the row and the file stay as they are.
Die ==
    /\ container # "down"
    /\ container' = "down"
    /\ UNCHANGED <<status, heartbeat, acks, lock, host, starts, seen>>

\* A beat is older than the limit; a container at work may be late.
HeartbeatAges ==
    /\ heartbeat = "fresh"
    /\ heartbeat' = "old"
    /\ UNCHANGED <<container, status, acks, lock, host, starts, seen>>

-----------------------------------------------------------------------------
(* Recoveries *)

heartbeat_fresh == heartbeat = "fresh"
container_state_alive == status = "alive"
Alive == heartbeat_fresh \/ container_state_alive

Becomes(h, pc) == host' = [host EXCEPT ![h] = pc]

\* open_outbound_recovery, first check.
Check(h) ==
    /\ host[h] = "idle" /\ ~Alive
    /\ Becomes(h, "checked")
    /\ UNCHANGED <<container, status, heartbeat, acks, lock, starts, seen>>

\* The file is created by one; the others give up.
acquire(h) ==
    /\ host[h] = "checked"
    /\ Becomes(h, IF lock THEN "idle" ELSE "locked")
    /\ lock' = TRUE
    /\ UNCHANGED <<container, status, heartbeat, acks, starts, seen>>

(* Mutant: what was checked before the lock is believed. *)
MutantNoRecheck(h) ==
    /\ host[h] = "locked"
    /\ Becomes(h, "open")
    /\ seen' = [seen EXCEPT ![h] = starts]
    /\ UNCHANGED <<container, status, heartbeat, acks, lock, starts>>

\* The check again, under the lock, which is dropped when a container came up
\* or the database cannot be opened or migrated.
Recheck(h) ==
    /\ host[h] = "locked"
    /\ \/ /\ ~Alive
          /\ Becomes(h, "open") /\ UNCHANGED lock
          /\ seen' = [seen EXCEPT ![h] = starts]
       \/ /\ Becomes(h, "idle") /\ lock' = FALSE
          /\ UNCHANGED seen
    /\ UNCHANGED <<container, status, heartbeat, acks, starts>>

cleanup_stale_acks(h) ==
    /\ host[h] = "open"
    /\ acks' = {}
    /\ UNCHANGED <<container, status, heartbeat, lock, host, starts, seen>>

\* The guard is dropped, and its lock with it.
drop(h) ==
    /\ host[h] = "open"
    /\ Becomes(h, "idle") /\ lock' = FALSE
    /\ UNCHANGED <<container, status, heartbeat, acks, starts, seen>>

\* A process that dies leaves its lock file, which nothing removes.
HostDies(h) ==
    /\ host[h] # "idle"
    /\ Becomes(h, "idle")
    /\ UNCHANGED <<container, status, heartbeat, acks, lock, starts, seen>>

RecoveryInit ==
    /\ container = "down" /\ status = "none" /\ heartbeat = "absent" /\ acks = {} /\ lock = FALSE
    /\ host = [h \in Recoverers |-> "idle"] /\ starts = 0 /\ seen = [h \in Recoverers |-> 0]

RecoveryNext ==
    \/ start \/ Beat \/ claim \/ stop \/ RemoveHeartbeat \/ Die \/ HeartbeatAges
    \/ \E h \in Recoverers :
         Check(h) \/ acquire(h) \/ Recheck(h) \/ cleanup_stale_acks(h) \/ drop(h) \/ HostDies(h)

-----------------------------------------------------------------------------
(* Properties *)

\* One recovery at a time has outbound.db open, and the only container it can
\* meet there is one that started after its check under the lock: whoever was
\* running before has stopped or died, whatever became of its heartbeat
\* (open_outbound_recovery checks, locks and checks again).
RecoveryAlone ==
    /\ Cardinality({h \in Recoverers : host[h] = "open"}) <= 1
    /\ \A h \in Recoverers : host[h] \in {"locked", "open"} => lock
    /\ \A h \in Recoverers : host[h] = "open" /\ container \in {"starting", "up"} => starts > seen[h]
=============================================================================
