----------------------------- MODULE ServerHost -----------------------------
(***************************************************************************)
(* The server processes started on one runtime root: run_server            *)
(* (server/app.py) bringing up and taking down UnixControlServer           *)
(* (server/control_server.py) and the inference listener, and the control  *)
(* connections of the processes.  They share the lock file and the path of *)
(* the control socket, which others on the host may also write to.  A step *)
(* of a process is what it does between two awaits or two system calls on  *)
(* what is shared: exists, lstat and unlink of the path are three steps.   *)
(***************************************************************************)
EXTENDS Naturals, FiniteSets

CONSTANTS Servers, Free,
          Waiting     \* the processes whose asyncio has a wait_closed that waits

ASSUME ServerHostAssumption == Free \notin Servers /\ Waiting \subseteq Servers

VARIABLES server,     \* where each process is in run_server
          ownerLock,  \* who holds oven-server.lock
          path,       \* what is at control/oven-server.sock
          listening,  \* whose control socket accepts connections
          inferring,  \* whose inference port does
          conn,       \* conn[p]: p's open control connection, if any
          retreating, \* who is in the stop that a failed start calls
          disturbed   \* history: somebody else changed the path since an owner
                      \* last bound or checked it

hostVars == <<server, ownerLock, path, listening, inferring, conn, retreating, disturbed>>

\* A socket at the path is the one p bound, whether or not p still lives.
Socket(p) == [socket |-> p]
Sockets   == {Socket(p) : p \in Servers}
Nothing   == [kind |-> "nothing"]
File      == [kind |-> "file"]      \* anything that is not a socket

Starting == {"built", "locked", "found", "stale", "cleared", "bound"}
Ending   == {"stop-inference", "stop-control", "cleaning", "draining",
             "look", "check", "unlink", "unlock", "close"}

HostTypeOK ==
    /\ server \in [Servers -> {"down", "serving"} \cup Starting \cup Ending]
    /\ ownerLock \in Servers \cup {Free}
    /\ path \in Sockets \cup {Nothing, File}
    /\ listening \subseteq Servers
    /\ inferring \subseteq Servers
    /\ conn \in [Servers -> {"none", "reading", "answering"}]
    /\ retreating \subseteq Servers
    /\ disturbed \in BOOLEAN

HostInit == /\ server = [p \in Servers |-> "down"]
            /\ ownerLock = Free
            /\ path \in {Nothing, File}
            /\ listening = {}
            /\ inferring = {}
            /\ conn = [p \in Servers |-> "none"]
            /\ retreating = {}
            /\ disturbed = FALSE

Move(p, from, to) == server[p] = from /\ server' = [server EXCEPT ![p] = to]
Owns(p)           == ownerLock = p
Unlocked(p)       == ownerLock' = IF Owns(p) THEN Free ELSE ownerLock

\* What a step leaves alone: everything but the path, but the locks and
\* listeners, or but where the process is.
SamePath  == UNCHANGED <<path, disturbed>>
SameHold  == UNCHANGED <<ownerLock, listening, inferring, conn, retreating>>
JustMoves == SamePath /\ SameHold

-----------------------------------------------------------------------------
\* Coming up.  An exception anywhere leads to the finally block of run_server.

Launch(p) == Move(p, "down", "built") /\ JustMoves

\* flock, not blocking.
AcquireOwnerLock(p) ==
    /\ \/ ownerLock = Free /\ ownerLock' = p /\ Move(p, "built", "locked")
       \/ ownerLock # Free /\ UNCHANGED ownerLock /\ Move(p, "built", "stop-inference")
    /\ SamePath /\ UNCHANGED <<listening, inferring, conn, retreating>>

\* Mutant of IsSocket: whatever exists is taken for a socket.
IsThere == path # Nothing

\* lstat, and S_ISSOCK of its mode.
IsSocket == path \in Sockets

\* exists().  It follows links, so one that leads nowhere does not exist.
LookForStale(p) ==
    /\ \/ path # Nothing /\ Move(p, "locked", "found")
       \/ path \notin Sockets /\ Move(p, "locked", "cleared")
    /\ JustMoves

\* lstat(): anything else than a socket is refused, and what has gone raises.
CheckStale(p) ==
    /\ \/ IsSocket /\ Move(p, "found", "stale")
       \/ ~IsSocket /\ Move(p, "found", "stop-inference")
    /\ disturbed' = FALSE
    /\ UNCHANGED path /\ SameHold

\* unlink(), of what is at the path by now; it raises when nothing is, or a
\* directory.
RemoveStale(p) ==
    /\ \/ path # Nothing /\ path' = Nothing /\ Move(p, "stale", "cleared")
       \/ path \notin Sockets /\ UNCHANGED path /\ Move(p, "stale", "stop-inference")
    /\ UNCHANGED disturbed /\ SameHold

Retreat(p) == Move(p, "cleared", "stop-control") /\ retreating' = retreating \cup {p}

\* start_unix_server, chmod and the check of the mode; that others change the
\* path between them shows as if they did it afterwards.  A name that is taken
\* cannot be bound.  start calls stop when any of it fails.
Bind(p) ==
    /\ \/ /\ path = Nothing
          /\ path' = Socket(p)
          /\ disturbed' = FALSE
          /\ listening' = listening \cup {p}
          /\ Retreat(p) \/ (Move(p, "cleared", "bound") /\ UNCHANGED retreating)
       \/ SamePath /\ UNCHANGED listening /\ Retreat(p)
    /\ UNCHANGED <<ownerLock, inferring, conn>>

\* The port may be taken, or not be a loopback port after all.
StartInference(p) ==
    /\ \/ inferring' = inferring \cup {p} /\ Move(p, "bound", "serving")
       \/ UNCHANGED inferring /\ Move(p, "bound", "stop-inference")
    /\ SamePath /\ UNCHANGED <<ownerLock, listening, conn, retreating>>

-----------------------------------------------------------------------------
\* Going down: the finally block of run_server, and stop of each listener.

\* The stop event, or a ready file that cannot be written.
BeginStop(p) == Move(p, "serving", "stop-inference") /\ JustMoves

StopInference(p) == /\ Move(p, "stop-inference", "stop-control")
                    /\ inferring' = inferring \ {p}
                    /\ SamePath /\ UNCHANGED <<ownerLock, listening, conn, retreating>>

\* From Python 3.13 on, closing also looks whether the socket that it bound is
\* still there, and if so unlinks it.
CloseListener(p) ==
    /\ listening' = listening \ {p}
    /\ \/ Move(p, "stop-control", "draining") /\ UNCHANGED disturbed
       \/ /\ p \in listening /\ path = Socket(p)
          /\ Move(p, "stop-control", "cleaning")
          /\ disturbed' = FALSE
    /\ UNCHANGED <<path, ownerLock, inferring, conn, retreating>>

\* The unlink of asyncio, which ignores that it failed.
CleanUp(p) == /\ Move(p, "cleaning", "draining")
              /\ path' \in {Nothing} \cup ({path} \ Sockets)
              /\ UNCHANGED disturbed /\ SameHold

\* wait_closed waits for the open connections from Python 3.12 on.
WaitClosed(p) == /\ p \in Waiting => conn[p] = "none"
                 /\ Move(p, "draining", "look")
                 /\ JustMoves

\* Everything the process holds goes with it; its socket's name stays.
Gone(p) == /\ server' = [server EXCEPT ![p] = "down"]
           /\ Unlocked(p)
           /\ listening' = listening \ {p}
           /\ inferring' = inferring \ {p}
           /\ conn' = [conn EXCEPT ![p] = "none"]
           /\ retreating' = retreating \ {p}

\* stop raises.  In a start that failed, run_server calls it once more, when
\* only the path and the lock are left to see to; otherwise the process exits,
\* with the lock and without runtime.close.
StopRaises(p) ==
    \/ /\ p \in retreating
       /\ retreating' = retreating \ {p}
       /\ server' = [server EXCEPT ![p] = "look"]
       /\ UNCHANGED <<ownerLock, listening, inferring, conn>>
    \/ p \notin retreating /\ Gone(p)

\* Mutant of OwnsPath: any process that stops cleans up the socket.
OwnsPathAnyway(p) == TRUE

\* owns_path: the lock was not refused.
OwnsPath(p) == Owns(p)

\* exists(), by the owner only.
LookForSocket(p) ==
    /\ \/ OwnsPath(p) /\ path # Nothing /\ Move(p, "look", "check")
       \/ ~OwnsPath(p) /\ Move(p, "look", "unlock")
       \/ path \notin Sockets /\ Move(p, "look", "unlock")
    /\ JustMoves

\* lstat(): anything else than a socket is left; what has gone raises.
CheckSocket(p) ==
    /\ disturbed' = FALSE
    /\ UNCHANGED path
    /\ \/ IsSocket /\ Move(p, "check", "unlink") /\ SameHold
       \/ path = File /\ ~IsSocket /\ Move(p, "check", "unlock") /\ SameHold
       \/ path = Nothing /\ server[p] = "check" /\ StopRaises(p)

\* unlink(), of what is at the path by now.
UnlinkSocket(p) ==
    /\ UNCHANGED disturbed
    /\ \/ path # Nothing /\ path' = Nothing /\ Move(p, "unlink", "unlock") /\ SameHold
       \/ /\ path \notin Sockets /\ UNCHANGED path
          /\ server[p] = "unlink" /\ StopRaises(p)

\* After the stop of a failed start, the one in run_server finds nothing to do.
UnlockOwner(p) == /\ Move(p, "unlock", "close")
                  /\ Unlocked(p)
                  /\ SamePath /\ UNCHANGED <<listening, inferring, conn, retreating>>

\* runtime.close, with the lock already released, and the end of the process.
CloseRuntime(p) == server[p] = "close" /\ Gone(p) /\ SamePath

Kill(p) == server[p] # "down" /\ Gone(p) /\ SamePath

-----------------------------------------------------------------------------
\* One request per connection: _handle_connection, control_exchange.

Elsewhere == UNCHANGED <<server, ownerLock, listening, inferring, retreating>>

Connect(p) == /\ path = Socket(p) /\ p \in listening
              /\ conn[p] = "none"
              /\ conn' = [conn EXCEPT ![p] = "reading"]
              /\ SamePath /\ Elsewhere

\* From wait_closed to its exit the process never gives the loop back, nor
\* while it closes the listener.
LoopRuns(p) == server[p] \notin {"cleaning", "look", "check", "unlink", "unlock", "close"}

MayAnswer(p) == conn[p] = "reading" /\ LoopRuns(p)

Answer(p) == /\ MayAnswer(p)
             /\ conn' = [conn EXCEPT ![p] = "answering"]
             /\ SamePath /\ Elsewhere

\* A frame arrives: the command runs, or is refused, and either is answered.
FrameArrives(p) == Answer(p)

\* Mutant of FrameTimeout: readuntil without wait_for.
FrameAwaited(p) == FALSE

\* The client hangs up, or 10 s pass without a frame: an error is answered.
FrameTimeout(p) == Answer(p)

CloseConnection(p) == /\ conn[p] = "answering"
                      /\ LoopRuns(p)
                      /\ conn' = [conn EXCEPT ![p] = "none"]
                      /\ SamePath /\ Elsewhere

\* Somebody else on the host removes what is at the path, a socket included,
\* or puts a file there, in the place of a socket too.
Intrude == /\ path' \in {Nothing, File} \ {path}
           /\ disturbed' = TRUE
           /\ UNCHANGED server /\ SameHold

-----------------------------------------------------------------------------
\* What a process does of itself.
ServerStep(p) ==
    \/ AcquireOwnerLock(p) \/ LookForStale(p) \/ CheckStale(p) \/ RemoveStale(p)
    \/ Bind(p) \/ StartInference(p)
    \/ StopInference(p) \/ CloseListener(p) \/ CleanUp(p) \/ WaitClosed(p)
    \/ LookForSocket(p) \/ CheckSocket(p) \/ UnlinkSocket(p)
    \/ UnlockOwner(p) \/ CloseRuntime(p)

HostNext == \/ \E p \in Servers :
                  \/ Launch(p) \/ ServerStep(p) \/ BeginStop(p) \/ Kill(p)
                  \/ Connect(p) \/ FrameArrives(p) \/ FrameTimeout(p)
                  \/ CloseConnection(p)
            \/ Intrude

HostSpec == HostInit /\ [][HostNext]_hostVars

\* The system runs every process, and its loop runs every ready task: the
\* timeout of wait_for fires.  Clients owe nothing.
HostFairSpec == /\ HostSpec
                /\ \A p \in Servers : /\ WF_hostVars(ServerStep(p))
                                      /\ WF_hostVars(FrameTimeout(p))
                                      /\ WF_hostVars(CloseConnection(p))

-----------------------------------------------------------------------------
\* One server per runtime root, and clients find it: a process that accepts
\* control or inference connections holds the owner lock, and the path is the
\* socket it bound itself, until it has stopped listening, or until somebody
\* else on the host took it away, and then it is no other server's; and every
\* control command runs in the process that holds the lock.  A second start, a
\* refused start cleaning up after itself, or a restart that finds a dead
\* process's socket never takes it away (start, stop, _remove_stale_socket).
ServerReachable ==
    /\ \A p \in listening : /\ ownerLock = p
                            /\ path = Socket(p) \/ (disturbed /\ path \notin Sockets)
    /\ \A p \in inferring : ownerLock = p /\ p \in listening
    /\ \A p \in Servers : MayAnswer(p) => ownerLock = p

\* What was checked still holds when it is acted on: whatever other servers
\* did since the lstat, a process about to unlink the path removes no socket
\* that accepts connections, in its own stop no socket but its own, and a file
\* (control_server.py:78: "refusing to replace non-socket control path") only
\* if somebody else on the host put it there between the check and the unlink.
UnlinksDeadSocket ==
    \A p \in Servers : server[p] \in {"stale", "cleaning", "unlink"} =>
        /\ \A q \in listening : path # Socket(q)
        /\ server[p] # "stale" /\ path \in Sockets => path = Socket(p)
        /\ path \in Sockets \/ disturbed

\* A process that starts comes up or goes away, and one that stops is gone in
\* the end: no silent client, and no other server, can hold it up (the frame
\* timeout, the non-blocking lock).
StartAndStopEnd ==
    \A p \in Servers :
        /\ server[p] \in Starting ~> server[p] \in {"serving", "down"}
        /\ server[p] \in Ending ~> server[p] = "down"
=============================================================================
