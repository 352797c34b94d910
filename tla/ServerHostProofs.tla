-------------------------- MODULE ServerHostProofs --------------------------
(***************************************************************************)
(* One server per runtime root, for any number of processes.               *)
(***************************************************************************)
EXTENDS ServerHost, TLAPS

\* Where a process is tells whether it may hold the lock and must listen.
OwnerSteps == {"locked", "found", "stale", "cleared", "bound", "serving",
               "cleaning", "check", "unlink"}
LockFollows ==
    \A p \in Servers :
        /\ server[p] \in OwnerSteps => ownerLock = p
        /\ ownerLock = p => server[p] \notin {"down", "built", "close"}
        /\ server[p] \in {"bound", "serving"} => p \in listening
        /\ p \in listening =>
              /\ server[p] \in {"bound", "serving", "stop-inference", "stop-control"}
              /\ ownerLock = p
        /\ p \in inferring => server[p] \in {"serving", "stop-inference"} /\ p \in listening
        /\ conn[p] # "none" => ownerLock = p \/ server[p] = "close"

\* Once an owner is past the stale socket, the only socket at the path is the
\* one it binds; and what was found there stays until somebody else changes it.
PathFollows ==
    \A p \in Servers :
        /\ ownerLock = p /\ server[p] \notin {"locked", "found", "stale"} /\ path \in Sockets
              => path = Socket(p)
        /\ p \in listening => path \in Sockets \/ disturbed
        /\ server[p] \in {"stale", "cleaning", "unlink"} => path \in Sockets \/ disturbed

\* The inductive invariant: the typing, and the discipline.
HostIInv == HostTypeOK /\ LockFollows /\ PathFollows

\* Sockets of different processes differ, and none is a file or nothing.
LEMMA PathKinds ==
  /\ \A p, q \in Servers : Socket(p) = Socket(q) => p = q
  /\ \A p \in Servers : Socket(p) \in Sockets /\ Socket(p) # Nothing /\ Socket(p) # File
  /\ Nothing \notin Sockets /\ File \notin Sockets /\ Nothing # File
<1>1. \A p, q : Socket(p) = Socket(q) => p = q
  <2> TAKE p, q
  <2>1. Socket(p).socket = p /\ Socket(q).socket = q
    BY DEF Socket
  <2>2. QED BY <2>1
<1>2. \A p : Socket(p) # Nothing /\ Socket(p) # File
  <2> TAKE p
  <2>1. "socket" \in DOMAIN Socket(p) /\ "socket" \notin DOMAIN Nothing /\ "socket" \notin DOMAIN File
    BY DEF Socket, Nothing, File
  <2>2. QED BY <2>1
<1>3. Nothing # File
  <2>1. Nothing.kind = "nothing" /\ File.kind = "file"
    BY DEF Nothing, File
  <2>2. QED BY <2>1
<1>4. QED BY <1>1, <1>2, <1>3 DEF Sockets

\* No process runs at first.
LEMMA HostInitIInv == HostInit => HostIInv
  BY ServerHostAssumption, PathKinds
  DEF HostInit, HostIInv, HostTypeOK, LockFollows, PathFollows, OwnerSteps

\* A step of one process, of its connection or of somebody else on the host
\* preserves the invariant.
LEMMA HostStepIInv == HostIInv /\ [HostNext]_hostVars => HostIInv'
<1> SUFFICES ASSUME HostIInv, [HostNext]_hostVars PROVE HostIInv'
  OBVIOUS
<1> USE ServerHostAssumption, PathKinds
    DEF HostIInv, HostTypeOK, LockFollows, PathFollows, OwnerSteps, Move, Owns, Starting,
        Ending, SamePath, SameHold, JustMoves, Elsewhere, Unlocked, Gone
<1>1. ASSUME NEW p \in Servers, Launch(p) PROVE HostIInv'
  BY <1>1 DEF Launch
<1>2. ASSUME NEW p \in Servers, AcquireOwnerLock(p) PROVE HostIInv'
  BY <1>2 DEF AcquireOwnerLock
<1>3. ASSUME NEW p \in Servers, LookForStale(p) PROVE HostIInv'
  BY <1>3 DEF LookForStale
<1>4. ASSUME NEW p \in Servers, CheckStale(p) PROVE HostIInv'
  BY <1>4 DEF CheckStale, IsSocket
<1>5. ASSUME NEW p \in Servers, RemoveStale(p) PROVE HostIInv'
  BY <1>5 DEF RemoveStale
<1>6. ASSUME NEW p \in Servers, Bind(p) PROVE HostIInv'
  BY <1>6 DEF Bind, Retreat
<1>7. ASSUME NEW p \in Servers, StartInference(p) PROVE HostIInv'
  BY <1>7 DEF StartInference
<1>8. ASSUME NEW p \in Servers, BeginStop(p) PROVE HostIInv'
  BY <1>8 DEF BeginStop
<1>9. ASSUME NEW p \in Servers, StopInference(p) PROVE HostIInv'
  BY <1>9 DEF StopInference
<1>10. ASSUME NEW p \in Servers, CloseListener(p) PROVE HostIInv'
  <2>1. HostTypeOK'
    BY <1>10 DEF CloseListener
  <2>2. LockFollows'
    BY <1>10 DEF CloseListener
  <2>3. PathFollows'
    BY <1>10 DEF CloseListener
  <2>4. QED BY <2>1, <2>2, <2>3
<1>11. ASSUME NEW p \in Servers, CleanUp(p) PROVE HostIInv'
  BY <1>11 DEF CleanUp
<1>12. ASSUME NEW p \in Servers, WaitClosed(p) PROVE HostIInv'
  BY <1>12 DEF WaitClosed
<1>13. ASSUME NEW p \in Servers, LookForSocket(p) PROVE HostIInv'
  BY <1>13 DEF LookForSocket, OwnsPath
<1>14. ASSUME NEW p \in Servers, CheckSocket(p) PROVE HostIInv'
  <2>1. HostTypeOK'
    BY <1>14 DEF CheckSocket, IsSocket, StopRaises
  <2>2. LockFollows'
    BY <1>14 DEF CheckSocket, IsSocket, StopRaises
  <2>3. PathFollows'
    BY <1>14 DEF CheckSocket, IsSocket, StopRaises
  <2>4. QED BY <2>1, <2>2, <2>3
<1>15. ASSUME NEW p \in Servers, UnlinkSocket(p) PROVE HostIInv'
  BY <1>15 DEF UnlinkSocket, StopRaises
<1>16. ASSUME NEW p \in Servers, UnlockOwner(p) PROVE HostIInv'
  BY <1>16 DEF UnlockOwner
<1>17. ASSUME NEW p \in Servers, CloseRuntime(p) PROVE HostIInv'
  BY <1>17 DEF CloseRuntime
<1>18. ASSUME NEW p \in Servers, Kill(p) PROVE HostIInv'
  BY <1>18 DEF Kill
<1>19. ASSUME NEW p \in Servers, Connect(p) PROVE HostIInv'
  BY <1>19 DEF Connect
<1>20. ASSUME NEW p \in Servers, FrameArrives(p) PROVE HostIInv'
  BY <1>20 DEF FrameArrives, Answer, MayAnswer, LoopRuns
<1>21. ASSUME NEW p \in Servers, FrameTimeout(p) PROVE HostIInv'
  BY <1>21 DEF FrameTimeout, Answer, MayAnswer, LoopRuns
<1>22. ASSUME NEW p \in Servers, CloseConnection(p) PROVE HostIInv'
  BY <1>22 DEF CloseConnection
<1>23. CASE Intrude
  BY <1>23 DEF Intrude
<1>24. CASE UNCHANGED hostVars
  BY <1>24 DEF hostVars
<1>25. QED
  BY <1>1, <1>2, <1>3, <1>4, <1>5, <1>6, <1>7, <1>8, <1>9, <1>10, <1>11, <1>12, <1>13, <1>14, <1>15, <1>16, <1>17, <1>18, <1>19, <1>20, <1>21, <1>22, <1>23, <1>24 DEF HostNext, ServerStep

\* The invariant holds of every behaviour (run_server, UnixControlServer).
THEOREM HostInvariantHolds == HostSpec => []HostIInv
  BY HostInitIInv, HostStepIInv, PTL DEF HostSpec

\* One server per runtime root, where clients look for it unless somebody else
\* took it away, and commands run only in it, however many processes are
\* started, refused, stopped or killed (start, stop, _handle_connection).
THEOREM ServerAlwaysReachable == HostSpec => []ServerReachable
<1>1. HostIInv => ServerReachable
  BY PathKinds DEF HostIInv, HostTypeOK, LockFollows, PathFollows, OwnerSteps,
     ServerReachable, MayAnswer, LoopRuns
<1>2. QED BY <1>1, HostInvariantHolds, PTL

\* The check before each unlink still holds when it comes to it: the lock keeps
\* the other servers away from the path for as long as it takes
\* (_remove_stale_socket, stop).
THEOREM DeadSocketAlwaysUnlinked == HostSpec => []UnlinksDeadSocket
<1>1. HostIInv => UnlinksDeadSocket
  BY PathKinds DEF HostIInv, HostTypeOK, LockFollows, PathFollows, OwnerSteps,
     UnlinksDeadSocket
<1>2. QED BY <1>1, HostInvariantHolds, PTL
=============================================================================
