--------------------------- MODULE ServerProperties ---------------------------
(***************************************************************************)
(* What can be relied on when the process starts, stops and dies.          *)
(***************************************************************************)
EXTENDS Server

Places == {"new", "queued", "refused", "finished", "joined", "reset", "cut"} \cup Busy

Typed ==
    /\ main \in {"starting", "running", "ended", "failed", "killed"}
    /\ https \in {"binding", "accepting", "draining", "done"}
    /\ http \in {"binding", "serving", "stopping", "done"}
    /\ signal \in {"unhandled", "handled", "pending", "received", "lost"}
    /\ {ready, scraping, endpoint} \subseteq BOOLEAN
    /\ task \in [Connections -> Places]
    /\ left \subseteq Connections
    /\ verdict \in {"none", "ready", "unready"}

(* The process is on its way out, or gone. *)
Leaving == Shutdown \/ main \in {"failed", "killed"}

Coherent ==
    /\ main = "starting" => https = "binding" /\ http = "binding" /\ signal = "unhandled"
    /\ ready <=> https # "binding"
    /\ (endpoint \/ verdict = "ready") => ready
    /\ https \in {"draining", "done"} \/ http \in {"stopping", "done"} => Shutdown
    /\ ~Listening => \A c \in Connections : task[c] # "queued"
    /\ https \in {"binding", "done"} => InJoinSet = {}
    /\ ~Running => Held = {}
    /\ main \notin {"failed", "killed"} => \A c \in Connections : task[c] # "cut"
    /\ main = "ended" => https = "done" /\ http = "done"

(* How the two servers, the signal and the connections hang together: only *)
(* a bound server is ready, and the kubelet believes it of no other; only  *)
(* a shutdown drains; nothing waits in a backlog that nothing listens to;  *)
(* no task outlives the JoinSet (run_https_server) or the process; and the *)
(* descriptors suffice for the tasks.                                      *)
TypeOK == Typed /\ Coherent /\ Cardinality(Held) <= MaxOpen

(* A client that the service sends here before the process is told to stop *)
(* finds the HTTPS listener, and what waits in its backlog is not reset:   *)
(* ready is set after bind (main.rs:65-70), and the kubelet learns of it   *)
(* through the other server, whenever that came up and however late the    *)
(* kubelet acts on what it found.                                          *)
RoutedIsServed ==
    \A c \in Connections : task[c] \in {"refused", "reset"} => Leaving

(* A replica that shuts down or dies gets no new connections in the end,   *)
(* though nothing ever resets the ready flag (main.rs:70) and a drain may  *)
(* take forever: the HTTP server stops first, and readyz is silent.        *)
Withdrawn == Leaving ~> []~endpoint

(* No client keeps its connection for good. *)
Polite == \A c \in Connections : WF_vars(Leave(c))

(* A connection in the backlog is taken in the end, also when accept has   *)
(* failed for want of descriptors (main.rs:79-82), unless the replica is   *)
(* told to stop; the other clients must leave some day.                    *)
QueuedIsTaken ==
    Polite => \A c \in Connections : task[c] = "queued" ~> task[c] \notin {"queued", "reset"} \/ Leaving

(* A signal that is caught ends the process, at whatever moment of the     *)
(* start it comes (shutdown_signal and its two receivers).                 *)
SignalEnds == signal = "pending" ~> main # "running"

(* A signal, or a panic of the task that waits for it, which drops the     *)
(* sender (main.rs:224), ends the process if no client keeps its           *)
(* connection: neither server misses it or goes on without the other.      *)
DrainEnds == Polite => (signal \in {"pending", "lost"} ~> main # "running")

State ==
    CASE main = "ended"               -> "ended"
      [] main \in {"failed", "killed"} -> "dead"
      [] OTHER -> CASE https = "binding"   -> "closed"
                    [] https = "accepting" -> "serving"
                    [] OTHER               -> "draining"

Graceful == INSTANCE GracefulShutdown WITH
    state <- State, held <- Held, dropped <- {c \in Connections : task[c] = "cut"}

(* The server keeps what "graceful" promises: it takes no connection once  *)
(* it drains, drops none unless the process dies, and ends when none is    *)
(* left (main.rs:55, :85-87, :115, :226).                                  *)
Promise == Graceful!Spec
===============================================================================
