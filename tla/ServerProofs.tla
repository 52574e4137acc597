----------------------------- MODULE ServerProofs -----------------------------
(***************************************************************************)
(* Proofs about the life of the process, for any number of clients and of  *)
(* descriptors, whether or not it is process 1.                            *)
(***************************************************************************)
EXTENDS ServerProperties, FiniteSetTheorems, TLAPS

(* The actions by what they touch, expanded together. *)
USE DEF Running, Busy

(* A step that starts no task keeps within the descriptors. *)
LEMMA HeldShrinks ==
    ASSUME TypeOK, Held' \subseteq Held
    PROVE  Cardinality(Held') <= MaxOpen
<1>1. IsFiniteSet(Held)
    BY ServerAssumption, FS_Subset DEF Held
<1>2. Cardinality(Held') <= Cardinality(Held) /\ Cardinality(Held) \in Nat /\ Cardinality(Held') \in Nat
    BY <1>1, FS_Subset, FS_CardinalityType
<1> QED
    BY <1>2, ServerAssumption DEF TypeOK

(* Every step but Accept leaves the tasks that run, or fewer. *)
LEMMA NoNewTask ==
    ASSUME TypeOK, Next, \A c \in Connections : ~Accept(c)
    PROVE  Held' \subseteq Held
<1> SUFFICES ASSUME NEW c \in Connections, task'[c] \in Busy PROVE task[c] \in Busy
    BY DEF Held
<1>1. CASE UNCHANGED task
    BY <1>1
<1>2. CASE \E how : Die(how)
    BY <1>2 DEF Die, Unserved, Held, TypeOK, Typed
<1>3. CASE EndHttps
    BY <1>3 DEF EndHttps, Unserved, TypeOK, Typed
<1>4. CASE \E d \in Connections : Connection(d)
    BY <1>4 DEF Connection, Connect, Accept, Handshake, HandshakeFails, Ask, Answer, Leave, EndTask,
                Join, Moves, clientVars, TypeOK, Typed
<1> QED
    BY <1>1, <1>2, <1>3, <1>4
    DEF Next, Process, Signal, Https, Http, Kubelet, Start, Fail, Kill, End, InstallHandler,
        InstallFails, SignalCaught, ReceiveSignal, SignalUncaught, Signals, BindHttps, AcceptFails,
        StopAccepting, BindHttp, StopHttp, EndHttp, HttpGoes, Scrape, Probe, ActOnProbe, clientVars

LEMMA InitTyped == Init => TypeOK
<1> SUFFICES ASSUME Init PROVE TypeOK
    OBVIOUS
<1>1. Held = {} /\ InJoinSet = {}
    BY DEF Init, Held, InJoinSet
<1>2. Typed /\ Coherent
    BY <1>1 DEF Init, Typed, Coherent, Places
<1> QED
    BY <1>1, <1>2, FS_EmptySet, ServerAssumption DEF TypeOK

(* The types and what hangs together, action by action.  Die is the last *)
(* step of several actions: it ends all tasks and empties the backlog.   *)
LEMMA DieKeeps ==
    ASSUME TypeOK, NEW how \in {"failed", "killed"}, Die(how)
    PROVE  Typed' /\ Coherent'
<1>1. Held' = {} /\ \A c \in Connections : task'[c] # "queued"
    BY DEF Die, Held, Unserved, TypeOK, Typed
<1>2. InJoinSet = {} => InJoinSet' = {}
    BY DEF Die, InJoinSet, Held, Unserved, TypeOK, Typed
<1>3. Typed'
    BY DEF Die, Held, Unserved, podVars, TypeOK, Typed, Places
<1> QED
    BY <1>1, <1>2, <1>3 DEF Die, podVars, TypeOK, Coherent, Shutdown

LEMMA ProcessKeeps ==
    ASSUME TypeOK, Process \/ Signal
    PROVE  Typed' /\ Coherent'
<1>1. CASE Start
    BY <1>1 DEF Start, clientVars, podVars, TypeOK, Typed, Coherent, Listening, InJoinSet, Held, Shutdown
<1>2. CASE Fail \/ Kill \/ SignalUncaught
    BY <1>2, DieKeeps DEF Fail, Kill, SignalUncaught
<1>3. CASE End
    BY <1>3 DEF End, clientVars, podVars, TypeOK, Typed, Coherent, Listening, InJoinSet, Held, Shutdown
<1>4. CASE InstallHandler \/ InstallFails \/ SignalCaught \/ ReceiveSignal
    BY <1>4 DEF InstallHandler, InstallFails, SignalCaught, ReceiveSignal, Signals, clientVars, podVars,
                TypeOK, Typed, Coherent, Listening, InJoinSet, Held, Shutdown
<1> QED
    BY <1>1, <1>2, <1>3, <1>4 DEF Process, Signal

LEMMA HttpsKeeps ==
    ASSUME TypeOK, Https
    PROVE  Typed' /\ Coherent'
<1>1. CASE BindHttps
    BY <1>1 DEF BindHttps, clientVars, podVars, TypeOK, Typed, Coherent, Listening, InJoinSet, Held, Shutdown
<1>2. CASE AcceptFails
    BY <1>2 DEF AcceptFails, LoopContinued, clientVars, podVars, TypeOK, Typed, Coherent, Listening,
                InJoinSet, Held, Shutdown
<1>3. CASE StopAccepting
    BY <1>3 DEF StopAccepting, clientVars, podVars, TypeOK, Typed, Coherent, Listening, InJoinSet, Held,
                Shutdown
<1>4. CASE EndHttps
  <2>1. Typed'
    BY <1>4 DEF EndHttps, Unserved, podVars, TypeOK, Typed, Places
  <2>2. InJoinSet' = {} /\ \A c \in Connections : task'[c] \notin {"queued", "cut"}
    BY <1>4 DEF EndHttps, Unserved, InJoinSet, TypeOK, Typed, Coherent
  <2> QED
    BY <1>4, <2>1, <2>2 DEF EndHttps, podVars, TypeOK, Typed, Coherent, Shutdown
<1> QED
    BY <1>1, <1>2, <1>3, <1>4 DEF Https

LEMMA HttpKeeps ==
    ASSUME TypeOK, Http \/ Kubelet
    PROVE  Typed' /\ Coherent'
<1>1. CASE BindHttp \/ StopHttp \/ EndHttp
    BY <1>1 DEF BindHttp, StopHttp, EndHttp, HttpGoes, clientVars, podVars, TypeOK, Typed, Coherent,
                Listening, InJoinSet, Held, Shutdown
<1>2. CASE Scrape
    BY <1>2 DEF Scrape, clientVars, podVars, TypeOK, Typed, Coherent, Listening, InJoinSet, Held, Shutdown
<1>3. CASE Probe
    BY <1>3 DEF Probe, clientVars, serverVars, TypeOK, Typed, Coherent, Listening, InJoinSet, Held, Shutdown
<1>4. CASE ActOnProbe
  <2>1. endpoint' \in BOOLEAN /\ (endpoint' => verdict = "ready")
    BY <1>4, Zenon DEF ActOnProbe
  <2> QED
    BY <1>4, <2>1 DEF ActOnProbe, clientVars, serverVars, TypeOK, Typed, Coherent, Listening, InJoinSet,
                      Held, Shutdown
<1> QED
    BY <1>1, <1>2, <1>3, <1>4 DEF Http, Kubelet

LEMMA ConnectionKeeps ==
    ASSUME TypeOK, NEW c \in Connections, Connection(c)
    PROVE  Typed' /\ Coherent'
<1>1. CASE Connect(c)
    BY <1>1 DEF Connect, serverVars, podVars, TypeOK, Typed, Coherent, Places, Listening, InJoinSet, Held,
                Shutdown
<1>2. CASE Leave(c)
    BY <1>2 DEF Leave, serverVars, podVars, TypeOK, Typed, Coherent, Listening, InJoinSet, Held, Shutdown
<1>3. ASSUME NEW from \in {{"queued"}, {"handshaking"}, {"open"}, {"asked"}, Busy, {"finished"}},
             NEW to \in Busy \cup {"finished", "joined"}, Moves(c, from, to),
             \/ https = "accepting"
             \/ from # {"queued"}
      PROVE  Typed' /\ Coherent'
    BY <1>3 DEF Moves, serverVars, podVars, TypeOK, Typed, Coherent, Places, Listening, InJoinSet, Held,
                Shutdown
<1> QED
    BY <1>1, <1>2, <1>3
    DEF Connection, Accept, Handshake, HandshakeFails, Ask, Answer, EndTask, Join

(* The types and the coherence of the state are an invariant. *)
THEOREM ServerTyped == Spec => []TypeOK
<1>1. TypeOK /\ [Next]_vars => TypeOK'
  <2> SUFFICES ASSUME TypeOK, Next PROVE TypeOK'
    BY DEF vars, serverVars, clientVars, podVars, TypeOK, Typed, Coherent, Listening, InJoinSet, Held,
           Shutdown
  <2>1. Typed' /\ Coherent'
    BY ProcessKeeps, HttpsKeeps, HttpKeeps, ConnectionKeeps DEF Next
  <2>2. Cardinality(Held') <= MaxOpen
    <3>1. CASE \A c \in Connections : ~Accept(c)
      BY <3>1, NoNewTask, HeldShrinks
    <3>2. ASSUME NEW c \in Connections, Accept(c)
          PROVE  Cardinality(Held') <= MaxOpen
      <4>1. Held' = Held \cup {c} /\ c \notin Held
        BY <3>2 DEF Accept, Moves, Held, TypeOK, Typed
      <4>2. IsFiniteSet(Held)
        BY ServerAssumption, FS_Subset DEF Held
      <4>3. Cardinality(Held') = Cardinality(Held) + 1 /\ Cardinality(Held) \in Nat
        BY <4>1, <4>2, FS_AddElement, FS_CardinalityType
      <4> QED
        BY <3>2, <4>3, ServerAssumption DEF Accept
    <3> QED
      BY <3>1, <3>2
  <2> QED
    BY <2>1, <2>2 DEF TypeOK
<1> QED
    BY InitTyped, <1>1, PTL DEF Spec

(* While the process is not told to stop and lives, no client the service *)
(* sends here is refused or reset, however late the kubelet is.           *)
THEOREM RoutedServed == Spec => []RoutedIsServed
<1>1. Init => RoutedIsServed
    BY DEF Init, RoutedIsServed
<1>2. TypeOK /\ TypeOK' /\ RoutedIsServed /\ [Next]_vars => RoutedIsServed'
  <2> SUFFICES ASSUME TypeOK, RoutedIsServed, [Next]_vars,
                      NEW c \in Connections, task'[c] \in {"refused", "reset"}
               PROVE  Leaving'
    BY DEF RoutedIsServed
  <2>1. Leaving => Leaving'
    BY DEF Leaving, Shutdown, vars, serverVars, Next, Process, Signal, Https, Http, Kubelet, Connection,
           Start, Fail, Kill, End, Die, InstallHandler, InstallFails, SignalCaught, ReceiveSignal,
           SignalUncaught, Signals, BindHttps, AcceptFails, StopAccepting, EndHttps, BindHttp, StopHttp,
           EndHttp, HttpGoes, Scrape, Probe, ActOnProbe, Connect, Accept, Handshake, HandshakeFails, Ask,
           Answer, Leave, EndTask, Join, Moves, TypeOK, Typed
  <2>2. CASE task[c] \in {"refused", "reset"}
    BY <2>1, <2>2 DEF RoutedIsServed
  <2>3. CASE Fail \/ Kill \/ SignalUncaught
    BY <2>3 DEF Fail, Kill, SignalUncaught, Die, Leaving
  <2>4. CASE EndHttps
    BY <2>1, <2>4 DEF EndHttps, Leaving, TypeOK, Coherent
  <2>5. CASE Connect(c)
    BY <2>1, <2>5 DEF Connect, Listening, Leaving, TypeOK, Typed, Coherent
  <2>6. task'[c] = task[c] \/ Fail \/ Kill \/ SignalUncaught \/ EndHttps \/ Connect(c)
    BY DEF vars, serverVars, clientVars, Next, Process, Signal, Https, Http, Kubelet, Connection,
           Start, End, InstallHandler, InstallFails, SignalCaught, ReceiveSignal,
           Signals, BindHttps, AcceptFails, StopAccepting, BindHttp, StopHttp,
           EndHttp, HttpGoes, Scrape, Probe, ActOnProbe, Connect, Accept, Handshake, HandshakeFails, Ask,
           Answer, Leave, EndTask, Join, Moves, TypeOK, Typed
  <2> QED
    BY <2>2, <2>3, <2>4, <2>5, <2>6
<1> QED
    BY <1>1, <1>2, ServerTyped, PTL DEF Spec

-------------------------------------------------------------------------------
(* What the abstract server sees is untouched if these are. *)
Cut == {c \in Connections : task[c] = "cut"}

LEMMA Unseen ==
    ASSUME TypeOK, TypeOK', State' = State, Held' = Held, Cut' = Cut
    PROVE  UNCHANGED Graceful!vars
  BY DEF Graceful!vars, Cut

(* A death is a death of the abstract server: it drops what was held. *)
LEMMA DieIsDie ==
    ASSUME TypeOK, main \in {"starting", "running"}, NEW how \in {"failed", "killed"}, Die(how)
    PROVE  Graceful!Next
<1>1. State \in {"closed", "serving", "draining"} /\ State' = "dead"
    BY DEF State, Die
<1>2. Held' = {}
    BY DEF Die, Held, Unserved, TypeOK, Typed
<1>3. Cut' = Held
    BY DEF Die, Held, Cut, Unserved, TypeOK, Typed, Coherent
<1> QED
    BY <1>1, <1>2, <1>3 DEF Graceful!Next, Graceful!Die, Cut

(* A connection that is taken, that goes on or that is over. *)
LEMMA MovesIsStep ==
    ASSUME TypeOK, TypeOK', NEW c \in Connections,
           NEW from \in {{"queued"}, {"handshaking"}, {"open"}, {"asked"}, Busy, {"finished"}},
           NEW to \in Busy \cup {"finished", "joined"}, Moves(c, from, to),
           from = {"queued"} => https = "accepting" /\ to \in Busy,
           from = {"finished"} => to = "joined"
    PROVE  [Graceful!Next]_Graceful!vars
<1>1. State' = State /\ Cut' = Cut
    BY DEF Moves, serverVars, State, Cut, TypeOK, Typed
<1>2. CASE from = {"queued"}
  <2>1. Held' = Held \cup {c}
    BY <1>2 DEF Moves, Held, TypeOK, Typed
  <2>2. State = "serving"
    BY <1>2 DEF Moves, State
  <2> QED
    BY <1>1, <2>1, <2>2 DEF Graceful!Next, Graceful!Take, Cut
<1>3. CASE from \subseteq Busy /\ to \notin Busy
  <2>1. c \in Held /\ Held' = Held \ {c}
    BY <1>3 DEF Moves, Held, TypeOK, Typed
  <2> QED
    BY <1>1, <2>1 DEF Graceful!Next, Graceful!Release, Cut
<1>4. CASE \/ from \subseteq Busy /\ to \in Busy
           \/ from = {"finished"}
  <2>1. Held' = Held
    BY <1>4 DEF Moves, Held, TypeOK, Typed
  <2> QED
    BY <1>1, <2>1, Unseen
<1> QED
    BY <1>2, <1>3, <1>4

LEMMA HttpsIsStep ==
    ASSUME TypeOK, TypeOK', Https
    PROVE  [Graceful!Next]_Graceful!vars
<1>1. CASE BindHttps
  <2>1. State = "closed" /\ State' = "serving" /\ Held' = Held /\ Cut' = Cut
    BY <1>1 DEF BindHttps, State, Held, Cut, clientVars
  <2> QED
    BY <2>1 DEF Graceful!Next, Graceful!Open, Cut
<1>2. CASE AcceptFails
  <2>1. State' = State /\ Held' = Held /\ Cut' = Cut
    BY <1>2 DEF AcceptFails, LoopContinued, State, Held, Cut, clientVars
  <2> QED
    BY <2>1, Unseen
<1>3. CASE StopAccepting
  <2>1. State = "serving" /\ State' = "draining" /\ Held' = Held /\ Cut' = Cut
    BY <1>3 DEF StopAccepting, State, Held, Cut, clientVars
  <2> QED
    BY <2>1 DEF Graceful!Next, Graceful!Drain, Cut
<1>4. CASE EndHttps
  <2>1. State' = State
    BY <1>4 DEF EndHttps, State
  <2>2. Held' = Held /\ Cut' = Cut
    BY <1>4 DEF EndHttps, Unserved, Held, Cut, TypeOK, Typed
  <2> QED
    BY <2>1, <2>2, Unseen
<1> QED
    BY <1>1, <1>2, <1>3, <1>4 DEF Https

LEMMA ConnectionIsStep ==
    ASSUME TypeOK, TypeOK', NEW c \in Connections, Connection(c)
    PROVE  [Graceful!Next]_Graceful!vars
<1>1. CASE Connect(c) \/ Leave(c)
  <2>1. State' = State /\ Held' = Held /\ Cut' = Cut
    BY <1>1 DEF Connect, Leave, State, Held, Cut, serverVars, TypeOK, Typed
  <2> QED
    BY <2>1, Unseen
<1> QED
    BY <1>1, MovesIsStep
    DEF Connection, Accept, Handshake, HandshakeFails, Ask, Answer, EndTask, Join

(* The rest: the process, the signal, the other server and the kubelet. *)
LEMMA OtherIsStep ==
    ASSUME TypeOK, TypeOK', Process \/ Signal \/ Http \/ Kubelet
    PROVE  [Graceful!Next]_Graceful!vars
<1>1. CASE Fail \/ Kill \/ SignalUncaught
    BY <1>1, DieIsDie DEF Fail, Kill, SignalUncaught
<1>2. CASE End
  <2>1. State = "draining" /\ State' = "ended"
    BY <1>2 DEF End, State
  <2>2. Held = {}
    BY <1>2 DEF End, TypeOK, Coherent, InJoinSet, Held
  <2>3. Held' = Held /\ Cut' = Cut
    BY <1>2 DEF End, Held, Cut, clientVars
  <2> QED
    BY <2>1, <2>2, <2>3 DEF Graceful!Next, Graceful!End, Cut
<1>3. CASE Start
  <2>1. State' = State /\ Held' = Held /\ Cut' = Cut
    BY <1>3 DEF Start, State, Held, Cut, clientVars, TypeOK, Coherent
  <2> QED
    BY <2>1, Unseen
<1>4. CASE \/ InstallHandler \/ InstallFails \/ SignalCaught \/ ReceiveSignal \/ Http \/ Kubelet
  <2>1. State' = State /\ Held' = Held /\ Cut' = Cut
    BY <1>4 DEF InstallHandler, InstallFails, SignalCaught, ReceiveSignal, Signals, Http, BindHttp,
                StopHttp, EndHttp, HttpGoes, Scrape, Kubelet, Probe, ActOnProbe, State, Held, Cut,
                clientVars, serverVars
  <2> QED
    BY <2>1, Unseen
<1> QED
    BY <1>1, <1>2, <1>3, <1>4 DEF Process, Signal

(* The server implements GracefulShutdown: it takes no connection while it *)
(* drains, loses none unless it dies, and ends when it holds none.         *)
THEOREM ImplementsShutdown == Spec => Graceful!Init /\ [][Graceful!Next]_Graceful!vars
<1>1. Init => Graceful!Init
  <2> SUFFICES ASSUME Init PROVE Graceful!Init
    OBVIOUS
  <2>1. State = "closed"
    BY DEF Init, State
  <2>2. Held = {} /\ Cut = {}
    BY DEF Init, Held, Cut
  <2> QED
    BY <2>1, <2>2 DEF Graceful!Init, Cut
<1>2. TypeOK /\ TypeOK' /\ [Next]_vars => [Graceful!Next]_Graceful!vars
  <2> SUFFICES ASSUME TypeOK, TypeOK', [Next]_vars PROVE [Graceful!Next]_Graceful!vars
    OBVIOUS
  <2>1. CASE Next
    BY <2>1, HttpsIsStep, ConnectionIsStep, OtherIsStep DEF Next
  <2>2. CASE UNCHANGED vars
    <3>1. State' = State /\ Held' = Held /\ Cut' = Cut
      BY <2>2 DEF vars, serverVars, clientVars, State, Held, Cut
    <3> QED
      BY <3>1, Unseen
  <2> QED
    BY <2>1, <2>2
<1> QED
    BY <1>1, <1>2, ServerTyped, PTL DEF Spec
===============================================================================
