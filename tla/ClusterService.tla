--------------------------- MODULE ClusterService ---------------------------
(***************************************************************************)
(* ClusterService: the primary process forks a worker for each CPU,        *)
(* replaces those that die and, on gracefulShutdown, waits for them to     *)
(* exit.  (index.ts creates the service; its calls of initialize and       *)
(* gracefulShutdown are commented out.)                                    *)
(*                                                                         *)
(* A worker dies in the operating system; the 'exit' event that tells the  *)
(* primary comes later.  All listeners of an event run in one go.          *)
(***************************************************************************)
EXTENDS Naturals, FiniteSets

CONSTANTS
    numCPUs,
    MaxForks    \* bound on the workers ever forked

ClusterConstants ==
    /\ numCPUs \in Nat \ {0}
    /\ MaxForks \in Nat /\ numCPUs <= MaxForks

WorkerIds == 1..MaxForks

VARIABLES
    phase,      \* "new", "running", "stopping" (gracefulShutdown) or "stopped"
    lastId,     \* cluster.fork counts its workers
    alive,      \* workers whose process runs
    exiting,    \* dead ones whose 'exit' event is still to come
    workers,    \* the Map of the service
    awaited     \* workers whose promise gracefulShutdown still awaits

clusterVars == <<phase, lastId, alive, exiting, workers, awaited>>

ClusterTypeOK ==
    /\ phase \in {"new", "running", "stopping", "stopped"}
    /\ lastId \in 0..MaxForks
    /\ alive \subseteq 1..lastId /\ exiting \subseteq 1..lastId
    /\ workers \subseteq 1..lastId
    /\ awaited \subseteq 1..lastId

ClusterInit ==
    /\ phase = "new"
    /\ lastId = 0
    /\ alive = {} /\ exiting = {} /\ workers = {} /\ awaited = {}

\* initialize: one fork and one setupWorkerProcess for each CPU.
Initialize ==
    /\ phase = "new"
    /\ phase' = "running"
    /\ lastId' = numCPUs
    /\ alive' = 1..numCPUs
    /\ workers' = 1..numCPUs
    /\ UNCHANGED <<exiting, awaited>>

\* The bound leaves an id for every replacement that is due.
WorkerDies(w) ==
    /\ w \in alive /\ lastId + Cardinality(exiting) < MaxForks
    /\ alive' = alive \ {w}
    /\ exiting' = exiting \cup {w}
    /\ UNCHANGED <<phase, lastId, workers, awaited>>

\* The listeners of 'exit': the one of setupWorkerProcess forks a replacement
\* and sets that up, whatever the phase; the one of gracefulShutdown resolves.
WorkerExit(w) ==
    /\ w \in exiting
    /\ exiting' = exiting \ {w}
    /\ lastId' = lastId + 1
    /\ alive' = alive \cup {lastId + 1}
    /\ workers' = (workers \ {w}) \cup {lastId + 1}
    /\ awaited' = awaited \ {w}
    /\ UNCHANGED phase

\* The listener of 'message' takes the worker, alive as it is, out of the Map.
WorkerMessage(w) ==
    /\ w \in alive /\ w \in workers
    /\ workers' = workers \ {w}
    /\ UNCHANGED <<phase, lastId, alive, exiting, awaited>>

\* gracefulShutdown sends 'shutdown' to the workers in the Map, a message that
\* none of them listens to.
GracefulShutdown ==
    /\ phase = "running"
    /\ phase' = "stopping"
    /\ awaited' = workers
    /\ UNCHANGED <<lastId, alive, exiting, workers>>

AllShutDown ==
    /\ phase = "stopping" /\ awaited = {}
    /\ phase' = "stopped"
    /\ UNCHANGED <<lastId, alive, exiting, workers, awaited>>

ClusterNext ==
    \/ Initialize
    \/ \E w \in WorkerIds : WorkerDies(w) \/ WorkerExit(w) \/ WorkerMessage(w)
    \/ GracefulShutdown
    \/ AllShutDown

ClusterSpec == ClusterInit /\ [][ClusterNext]_clusterVars

-----------------------------------------------------------------------------
(* Properties *)

\* "It will replace the dead worker with a new worker": while the cluster runs, one
\* for each, no matter how many die before the primary hears of the first.
FullStrength ==
    phase = "running" => Cardinality(alive \cup exiting) = numCPUs

\* The Map holds no worker whose exit was handled: gracefulShutdown, which waits
\* for an exit of each worker in it, never waits for one that is over.
AwaitedCanExit == workers \cup awaited \subseteq alive \cup exiting
=============================================================================
