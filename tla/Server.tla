-------------------------------- MODULE Server --------------------------------
(***************************************************************************)
(* One life of the process (main.rs): the two servers, the ready flag that *)
(* readyz reports (health.rs), the accept loop and the tasks of the        *)
(* connections, the signal and the drain.  Around it stand the clients of  *)
(* the webhook, which reach it while the service lists its endpoint, the   *)
(* kubelet, which probes readyz for that, and a scraper.                   *)
(***************************************************************************)
EXTENDS Integers, FiniteSets

CONSTANTS
    Connections,   \* those that clients make, each once
    FirstProcess,  \* whether it is process 1, whose unhandled signals the kernel ignores
    MaxOpen        \* how many connections its file descriptors suffice for

ASSUME ServerAssumption ==
    /\ IsFiniteSet(Connections)
    /\ FirstProcess \in BOOLEAN
    /\ MaxOpen \in Nat \ {0}

VARIABLES
    main,       \* the process
    https,      \* run_https_server
    http,       \* run_http_server
    ready,      \* the flag HealthState shares with run_https_server
    signal,     \* how far shutdown_signal is
    task,       \* where each connection is
    left,       \* the connections whose client has hung up
    scraping,   \* whether the HTTP server has a request under way
    verdict,    \* what the last probe of the kubelet found, until it acts on it
    endpoint    \* whether the service sends new connections here

clientVars == <<task, left>>
podVars == <<verdict, endpoint>>
serverVars == <<main, https, http, ready, signal, scraping>>
vars == <<serverVars, clientVars, podVars>>

Running == main = "running"

(* What the receivers of the watch channel see, whenever they look: a signal *)
(* was received, or the sender was dropped by a panic.                       *)
Shutdown == signal \in {"received", "lost"}

(* The tasks that run, and those the JoinSet holds: it keeps what has ended until it is joined. *)
Busy == {"handshaking", "open", "asked"}
Held == {c \in Connections : task[c] \in Busy}
InJoinSet == {c \in Connections : task[c] \in Busy \cup {"finished"}}

(* The HTTPS listener exists until run_https_server returns, also while it drains. *)
Listening == Running /\ https \in {"accepting", "draining"}

(* The kernel resets what waits in the backlog of a listener that is closed. *)
Unserved == [c \in Connections |-> IF task[c] = "queued" THEN "reset" ELSE task[c]]

Init ==
    /\ main = "starting"
    /\ https = "binding"
    /\ http = "binding"
    /\ ready = FALSE
    /\ signal = "unhandled"
    /\ task = [c \in Connections |-> "new"]
    /\ left = {}
    /\ scraping = FALSE
    /\ verdict = "none"
    /\ endpoint = FALSE

-------------------------------------------------------------------------------
(* The process is gone, with every task and socket. *)
Die(how) ==
    /\ main' = how
    /\ task' = [c \in Connections |-> IF c \in Held THEN "cut" ELSE Unserved[c]]
    /\ scraping' = FALSE
    /\ UNCHANGED <<https, http, ready, signal, left, podVars>>

(* Faulty: the flag is set when the servers are started. *)
StartReady ==
    /\ main = "starting"
    /\ main' = "running"
    /\ ready' = TRUE
    /\ UNCHANGED <<https, http, signal, scraping, clientVars, podVars>>

(* The configuration, the certificate and the addresses are good. *)
Start ==
    /\ main = "starting"
    /\ main' = "running"
    /\ UNCHANGED <<https, http, ready, signal, scraping, clientVars, podVars>>

(* They are not, or one of the servers cannot bind: its panic ends main, which joins both. *)
Fail ==
    /\ main = "starting" \/ (Running /\ "binding" \in {https, http})
    /\ Die("failed")

(* SIGKILL, after the grace period or for memory. *)
Kill == main \in {"starting", "running"} /\ Die("killed")

(* Both servers have returned. *)
End ==
    /\ Running
    /\ https = "done" /\ http = "done"
    /\ main' = "ended"
    /\ UNCHANGED <<https, http, ready, signal, scraping, clientVars, podVars>>

-------------------------------------------------------------------------------
(* shutdown_signal, and the signals that come before it, in it and after it. *)
Signals(from, to) ==
    /\ signal = from
    /\ signal' = to
    /\ Running
    /\ UNCHANGED <<main, https, http, ready, scraping, clientVars, podVars>>

(* The task is first polled, some time after both servers are spawned. *)
InstallHandler == Signals("unhandled", "handled")
InstallFails == Signals("unhandled", "lost")

(* SIGTERM or SIGINT; once one has been received the others are caught and dropped. *)
SignalCaught == Signals("handled", "pending")

(* Faulty: a server that does not accept yet does not learn of it. *)
ReceiveSignalOnce == Signals("pending", IF https = "accepting" THEN "received" ELSE "handled")

(* shutdown_tx.send *)
ReceiveSignal == Signals("pending", "received")

(* Nothing catches it: it ends the process, unless that is process 1, which does not notice. *)
SignalUncaught ==
    /\ main \in {"starting", "running"}
    /\ signal \in {"unhandled", "lost"}
    /\ ~FirstProcess
    /\ Die("killed")

-------------------------------------------------------------------------------
(* run_https_server and the tasks it spawns. *)
BindHttps ==
    /\ Running
    /\ https = "binding"
    /\ https' = "accepting"
    /\ ready' = TRUE
    /\ UNCHANGED <<main, http, signal, scraping, clientVars, podVars>>

Moves(c, from, to) ==
    /\ Running
    /\ task[c] \in from
    /\ task' = [task EXCEPT ![c] = to]
    /\ UNCHANGED <<serverVars, left, podVars>>

(* The next connection of the backlog gets a descriptor and a task. *)
Accept(c) ==
    /\ https = "accepting"
    /\ Cardinality(Held) < MaxOpen
    /\ Moves(c, {"queued"}, "handshaking")

(* Faulty: the loop is left. *)
LoopBroken == "draining"

(* An error of accept is logged, and the loop goes on. *)
LoopContinued == https

(* There is no descriptor for the next connection. *)
AcceptFails ==
    /\ Listening /\ https = "accepting"
    /\ Cardinality(Held) >= MaxOpen
    /\ \E c \in Connections : task[c] = "queued"
    /\ https' = LoopContinued
    /\ UNCHANGED <<main, http, ready, signal, scraping, clientVars, podVars>>

(* The handshake; nothing limits its time, and a client may not trust the certificate. *)
Handshake(c) == c \notin left /\ Moves(c, {"handshaking"}, "open")
HandshakeFails(c) == Moves(c, {"handshaking"}, "finished")

(* The client asks, the handler answers, and the connection stays open. *)
Ask(c) == c \notin left /\ Moves(c, {"open"}, "asked")
Answer(c) == Moves(c, {"asked"}, "open")

(* The task reads the end of the stream and returns. *)
EndTask(c) == c \in left /\ Moves(c, Busy, "finished")

(* The loop ends; no task is told to. *)
StopAccepting ==
    /\ Running
    /\ https = "accepting"
    /\ Shutdown
    /\ https' = "draining"
    /\ UNCHANGED <<main, http, ready, signal, scraping, clientVars, podVars>>

(* join_next returns. *)
Join(c) == https = "draining" /\ Moves(c, {"finished"}, "joined")

(* Faulty: the set is dropped instead of joined, and its tasks are aborted. *)
EndHttpsAtOnce ==
    /\ Running
    /\ https = "draining"
    /\ https' = "done"
    /\ task' = [c \in Connections |-> IF c \in InJoinSet THEN "cut" ELSE Unserved[c]]
    /\ UNCHANGED <<main, http, ready, signal, scraping, left, podVars>>

(* None is left to join; the listener is closed. *)
EndHttps ==
    /\ Running
    /\ https = "draining"
    /\ InJoinSet = {}
    /\ https' = "done"
    /\ task' = Unserved
    /\ UNCHANGED <<main, http, ready, signal, scraping, left, podVars>>

-------------------------------------------------------------------------------
(* run_http_server: axum::serve with a graceful shutdown. *)
HttpGoes(from, to) ==
    /\ Running
    /\ http = from
    /\ http' = to
    /\ UNCHANGED <<main, https, ready, signal, scraping, clientVars, podVars>>

BindHttp == HttpGoes("binding", "serving")

(* Faulty: it serves until the webhook has drained. *)
StopHttpLast == https = "done" /\ HttpGoes("serving", "stopping")

(* The listener is closed at once, and so are idle connections. *)
StopHttp == Shutdown /\ HttpGoes("serving", "stopping")

(* It returns when no request is under way. *)
EndHttp == ~scraping /\ HttpGoes("stopping", "done")

-------------------------------------------------------------------------------
(* The kernel completes the connection, or refuses it if nothing listens. *)
Connect(c) ==
    /\ endpoint
    /\ task[c] = "new"
    /\ task' = [task EXCEPT ![c] = IF Listening THEN "queued" ELSE "refused"]
    /\ UNCHANGED <<serverVars, left, podVars>>

Leave(c) ==
    /\ task[c] \in Busy \cup {"queued"}
    /\ c \notin left
    /\ left' = left \cup {c}
    /\ UNCHANGED <<serverVars, task, podVars>>

(* A request to the HTTP server, and its end. *)
Scrape ==
    /\ Running
    /\ http = "serving" \/ scraping
    /\ scraping' = ~scraping
    /\ UNCHANGED <<main, https, http, ready, signal, clientVars, podVars>>

(* readyz, if the HTTP server is there to answer *)
Probe ==
    /\ verdict = "none"
    /\ verdict' = IF Running /\ http = "serving" /\ ready THEN "ready" ELSE "unready"
    /\ UNCHANGED <<serverVars, clientVars, endpoint>>

(* The kubelet acts on it later. *)
ActOnProbe ==
    /\ verdict # "none"
    /\ endpoint' = (verdict = "ready")
    /\ verdict' = "none"
    /\ UNCHANGED <<serverVars, clientVars>>

-------------------------------------------------------------------------------
Process == Start \/ Fail \/ Kill \/ End
Signal == InstallHandler \/ InstallFails \/ SignalCaught \/ ReceiveSignal \/ SignalUncaught
Https == BindHttps \/ AcceptFails \/ StopAccepting \/ EndHttps
Connection(c) ==
    \/ Connect(c) \/ Accept(c) \/ Handshake(c) \/ HandshakeFails(c) \/ Ask(c) \/ Answer(c)
    \/ Leave(c) \/ EndTask(c) \/ Join(c)
Http == BindHttp \/ StopHttp \/ EndHttp \/ Scrape
Kubelet == Probe \/ ActOnProbe

Next == Process \/ Signal \/ Https \/ (\E c \in Connections : Connection(c)) \/ Http \/ Kubelet

(* The runtime runs what is ready to run, a request to the HTTP server (which *)
(* has no body and a short answer) ends, and the kubelet goes on probing.     *)
Fairness ==
    /\ WF_vars(Start \/ Fail) /\ WF_vars(End)
    /\ WF_vars(InstallHandler \/ InstallFails) /\ WF_vars(ReceiveSignal)
    /\ WF_vars(BindHttps \/ Fail) /\ WF_vars(StopAccepting) /\ WF_vars(EndHttps)
    /\ \A c \in Connections :
        WF_vars(Accept(c)) /\ WF_vars(Answer(c)) /\ WF_vars(EndTask(c)) /\ WF_vars(Join(c))
    /\ WF_vars(BindHttp \/ Fail) /\ WF_vars(StopHttp) /\ WF_vars(EndHttp)
    /\ WF_vars(scraping /\ Scrape)
    /\ WF_vars(Probe) /\ WF_vars(ActOnProbe)

Spec == Init /\ [][Next]_vars /\ Fairness
===============================================================================
