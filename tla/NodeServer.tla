----------------------------- MODULE NodeServer -----------------------------
(***************************************************************************)
(* The DcNode process, one per collection node: the heartbeat thread       *)
(* (SendHeartBeat with RegisterClient and HeartBeatWork) and the thread    *)
(* that serves ClusterWork.  Source: src/DcNode/src/NodeServer.cpp.        *)
(*                                                                         *)
(* An RPC is two steps: the call, and its return with the value that       *)
(* RegisterClient or HeartBeatWork computes from the reply or from the     *)
(* exception.  What happens in between is the network's (module Cluster).  *)
(***************************************************************************)
EXTENDS Integers

CONSTANTS
  Nodes,
  HB_WAIT      \* 30*1000 ms: the wait between two rounds of the loop

VARIABLES
  now,
  npc,             \* where each node's heartbeat thread is, or why it has none
  m_bregister_ok,
  nwake,           \* when its wait ends
  serving          \* nodes whose Thrift server accepts ClusterWork calls

nodeVars == <<npc, m_bregister_ok, nwake, serving>>

\* No process; a process whose main thread only waits in getchar(); one whose
\* main thread waits in StopServer for the service thread, which never ends.
Threadless == {"down", "failed", "joining"}
Beats(n) == npc[n] \notin Threadless

InitNodes ==
  /\ npc = [n \in Nodes |-> "down"]
  /\ m_bregister_ok = [n \in Nodes |-> FALSE]
  /\ nwake = [n \in Nodes |-> 0]
  /\ serving = {}

NodeTypeOK ==
  /\ npc \in [Nodes -> Threadless \cup {"top", "register", "heartbeat", "wait"}]
  /\ m_bregister_ok \in [Nodes -> BOOLEAN]
  /\ nwake \in [Nodes -> Nat]
  /\ serving \subseteq Nodes

\* StartServer creates the service thread and the heartbeat thread; the
\* service thread need not listen yet when the other one registers.
StartServer(n) ==
  /\ npc[n] = "down"
  /\ npc' = [npc EXCEPT ![n] = "top"]
  /\ m_bregister_ok' = [m_bregister_ok EXCEPT ![n] = FALSE]
  /\ UNCHANGED <<now, nwake, serving>>

\* A step of StartServer fails: the semaphore or the service thread (nothing
\* runs then), or the heartbeat thread, when StopServer joins the service
\* thread.  That the pool, which is never used, cannot be created stops nothing.
StartFails(n) ==
  /\ npc[n] = "down"
  /\ \E stop \in {"failed", "joining"} : npc' = [npc EXCEPT ![n] = stop]
  /\ UNCHANGED <<now, m_bregister_ok, nwake, serving>>

\* StartService: server.serve() accepts connections from here on.
StartService(n) ==
  /\ npc[n] \notin {"down", "failed"} /\ n \notin serving
  /\ serving' = serving \cup {n}
  /\ UNCHANGED <<now, npc, m_bregister_ok, nwake>>

\* The process dies.
Crash(n) ==
  /\ npc[n] # "down"
  /\ npc' = [npc EXCEPT ![n] = "down"]
  /\ m_bregister_ok' = [m_bregister_ok EXCEPT ![n] = FALSE]
  /\ nwake' = [nwake EXCEPT ![n] = 0]
  /\ serving' = serving \ {n}
  /\ UNCHANGED now

\* if (SWARTZ_FALSE == m_bregister_ok) RegisterClient()
RegisterCall(n) ==
  /\ npc[n] = "top" /\ ~m_bregister_ok[n]
  /\ npc' = [npc EXCEPT ![n] = "register"]
  /\ UNCHANGED <<now, m_bregister_ok, nwake, serving>>

Sleep(n) ==
  /\ npc' = [npc EXCEPT ![n] = "wait"]
  /\ nwake' = [nwake EXCEPT ![n] = now + HB_WAIT]

\* Success goes on to the heartbeat of the same round, failure to the wait.
RegisterReturn(n, ok) ==
  /\ npc[n] = "register"
  /\ m_bregister_ok' = [m_bregister_ok EXCEPT ![n] = ok]
  /\ \/ ok = TRUE /\ npc' = [npc EXCEPT ![n] = "top"] /\ UNCHANGED nwake
     \/ ok = FALSE /\ Sleep(n)
  /\ UNCHANGED <<now, serving>>

\* if (m_bregister_ok) HeartBeatWork()
HeartBeatCall(n) ==
  /\ npc[n] = "top" /\ m_bregister_ok[n]
  /\ npc' = [npc EXCEPT ![n] = "heartbeat"]
  /\ UNCHANGED <<now, m_bregister_ok, nwake, serving>>

\* (Mutant: the node goes on beating without registering again.)
HeartBeatIgnored(n, ok) ==
  /\ npc[n] = "heartbeat" /\ Sleep(n)
  /\ UNCHANGED <<now, m_bregister_ok, serving>>

\* A failed or refused heartbeat clears m_bregister_ok; the wait follows.
HeartBeatReturn(n, ok) ==
  /\ npc[n] = "heartbeat"
  /\ m_bregister_ok' = [m_bregister_ok EXCEPT ![n] = ok]
  /\ Sleep(n)
  /\ UNCHANGED <<now, serving>>

\* swartz_sem_wait(m_sem, 30*1000) times out: the next round.
Wake(n) ==
  /\ npc[n] = "wait" /\ now >= nwake[n]
  /\ npc' = [npc EXCEPT ![n] = "top"]
  /\ UNCHANGED <<now, m_bregister_ok, nwake, serving>>
=============================================================================
