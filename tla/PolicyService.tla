--------------------------- MODULE PolicyService ---------------------------
(***************************************************************************)
(* What the policy server promises its one client: a server that executes  *)
(* one command at a time, has at most one trial and one session, and may   *)
(* fail, lose its session or be restarted at any moment.  PolicyRuntime,   *)
(* with its threads and locks, implements it (PolicyRuntimeProperties);    *)
(* the orchestrator is modelled against it.                                *)
(***************************************************************************)
EXTENDS Naturals

CONSTANTS Trials, NoTrial, Sessions, NoSession, Skills, NoSkill

VARIABLES service,   \* what the server is serving
          opened,    \* session ids handed out so far
          trials     \* trials[t]: the server's evidence of trial t

serviceState == <<service, opened, trials>>

Verdicts == {"COMMITTED", "ABORTED", "AMBIGUOUS_INFERENCE"}

ServiceTypeOK ==
    /\ service \in [state    : {"STARTING", "READY", "FAILED", "STOPPING"},
                    skill    : Skills \cup {NoSkill},
                    trial    : Trials \cup {NoTrial},
                    session  : Sessions \cup {NoSession},
                    instance : Nat]
    /\ opened \subseteq Sessions
    /\ trials \in [Trials -> [verdict  : Verdicts \cup {"unused", "open", "unfinished"},
                              skill    : Skills \cup {NoSkill},
                              recorded : Nat]]

Started(n) == [state |-> "STARTING", skill |-> NoSkill, trial |-> NoTrial,
               session |-> NoSession, instance |-> n]

ServiceInit ==
    /\ service = Started(1)
    /\ opened = {}
    /\ trials = [t \in Trials |-> [verdict |-> "unused", skill |-> NoSkill, recorded |-> 0]]

HasTrial   == service.trial # NoTrial
HasSession == service.session # NoSession
Serving    == service.state = "READY"
Running    == service.state # "STOPPING"

Judge(v) == trials' = [trials EXCEPT ![service.trial].verdict = v]

-----------------------------------------------------------------------------
PrepareSkill(k) ==
    /\ service.state \in {"STARTING", "READY"}
    /\ ~HasTrial
    /\ service' = [service EXCEPT !.state = "READY", !.skill = k, !.session = NoSession]
    /\ UNCHANGED <<opened, trials>>

CanBegin(t) == /\ Serving
               /\ ~HasTrial
               /\ service.skill # NoSkill
               /\ trials[t].verdict = "unused"

BeginTrial(t) ==
    /\ CanBegin(t)
    /\ service' = [service EXCEPT !.trial = t]
    /\ trials' = [trials EXCEPT ![t].verdict = "open", ![t].skill = service.skill]
    /\ UNCHANGED opened

\* The id is spent on a directory that could not be completed.
BeginTrialFails(t) ==
    /\ CanBegin(t)
    /\ \E k \in {NoSkill, service.skill} :
          trials' = [trials EXCEPT ![t].verdict = "unfinished", ![t].skill = k]
    /\ UNCHANGED <<service, opened>>

OpenSession(s) ==
    /\ Serving
    /\ HasTrial
    /\ ~HasSession
    /\ s \in Sessions \ opened
    /\ service' = [service EXCEPT !.session = s]
    /\ opened' = opened \cup {s}
    /\ UNCHANGED trials

\* A request for trial t that was admitted under session s; the server may
\* fail, and lose the session, while the policy computes it.
Admitted(s, t) ==
    /\ HasTrial
    /\ service.trial = t
    /\ service.session = s \/ (service.state = "FAILED" /\ s \in opened)

Recorded(t) == trials' = [trials EXCEPT ![t].recorded = @ + 1]

Infer(s, t) == Admitted(s, t) /\ Recorded(t) /\ UNCHANGED <<service, opened>>

Failed == [service EXCEPT !.state = "FAILED", !.session = NoSession]

\* The line is on file and the request failed.
InferFails(s, t) == Admitted(s, t) /\ Recorded(t) /\ service' = Failed /\ UNCHANGED opened

CloseSession(s) ==
    /\ service.session = s
    /\ s \in Sessions
    /\ service' = [service EXCEPT !.session = NoSession]
    /\ UNCHANGED <<opened, trials>>

EndTrial ==
    /\ Running
    /\ HasTrial
    /\ ~HasSession
    /\ service' = [service EXCEPT !.trial = NoTrial]
    /\ Judge("COMMITTED")
    /\ UNCHANGED opened

Abort ==
    /\ Running
    /\ service' = [service EXCEPT !.trial = NoTrial, !.session = NoSession]
    /\ IF HasTrial THEN Judge("ABORTED") ELSE UNCHANGED trials
    /\ UNCHANGED opened

-----------------------------------------------------------------------------
\* What the server does of its own accord.

Expire == /\ HasSession
          /\ service' = [service EXCEPT !.session = NoSession]
          /\ UNCHANGED <<opened, trials>>

Fail == /\ Running
        /\ service' = Failed
        /\ UNCHANGED <<opened, trials>>

\* A response could not be sent while its session was live.
Ambiguous == /\ HasSession
             /\ HasTrial
             /\ service' = [Failed EXCEPT !.trial = NoTrial]
             /\ Judge("AMBIGUOUS_INFERENCE")
             /\ UNCHANGED opened

Close == /\ Running
         /\ \/ /\ HasTrial
               /\ Judge("ABORTED")
               /\ service' = [service EXCEPT !.state = "STOPPING", !.trial = NoTrial,
                                             !.session = NoSession]
            \/ /\ service' = [service EXCEPT !.state = "STOPPING", !.session = NoSession]
               /\ UNCHANGED trials
         /\ UNCHANGED opened

\* A new process: an open trial is left as it is found on disk.
Restart == /\ service' = Started(service.instance + 1)
           /\ \/ ~HasTrial /\ UNCHANGED trials
              \/ HasTrial /\ \E v \in Verdicts \cup {"unfinished"} : Judge(v)
           /\ UNCHANGED opened

Misfortune == Expire \/ Fail \/ Ambiguous \/ Close \/ Restart

ServiceNext ==
    \/ \E k \in Skills : PrepareSkill(k)
    \/ \E t \in Trials : BeginTrial(t) \/ BeginTrialFails(t)
    \/ \E s \in Sessions : OpenSession(s) \/ CloseSession(s)
    \/ \E s \in Sessions, t \in Trials : Infer(s, t) \/ InferFails(s, t)
    \/ EndTrial \/ Abort \/ Misfortune

ServiceSpec == ServiceInit /\ [][ServiceNext]_serviceState
=============================================================================
