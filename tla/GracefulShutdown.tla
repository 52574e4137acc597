-------------------------- MODULE GracefulShutdown --------------------------
(***************************************************************************)
(* What "graceful shutdown" promises the clients of a server (the words of *)
(* main.rs when a signal comes and when the process ends): it takes        *)
(* connections only while it serves, it ends only when it holds none, and  *)
(* a connection it holds is lost only if the process dies.                 *)
(***************************************************************************)
CONSTANT Connections

VARIABLES
    state,      \* of the server
    held,       \* the connections it has taken and that are not over
    dropped     \* the connections it took and lost

vars == <<state, held, dropped>>

Init == state = "closed" /\ held = {} /\ dropped = {}

Open ==
    /\ state = "closed"
    /\ state' = "serving"
    /\ UNCHANGED <<held, dropped>>

Take(c) ==
    /\ state = "serving"
    /\ held' = held \cup {c}
    /\ UNCHANGED <<state, dropped>>

(* The connection is over. *)
Release(c) ==
    /\ c \in held
    /\ held' = held \ {c}
    /\ UNCHANGED <<state, dropped>>

Drain ==
    /\ state = "serving"
    /\ state' = "draining"
    /\ UNCHANGED <<held, dropped>>

End ==
    /\ state = "draining"
    /\ held = {}
    /\ state' = "ended"
    /\ UNCHANGED <<held, dropped>>

(* The process is killed or fails. *)
Die ==
    /\ state \in {"closed", "serving", "draining"}
    /\ state' = "dead"
    /\ dropped' = held
    /\ held' = {}

Next == Open \/ Drain \/ End \/ Die \/ \E c \in Connections : Take(c) \/ Release(c)

Spec == Init /\ [][Next]_vars /\ WF_vars(End)
=============================================================================
