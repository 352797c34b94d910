---------------------------- MODULE Observation ----------------------------
(***************************************************************************)
(* What an edge process sees: the topic caches of RosObservationSource     *)
(* (edge/ros2_observation.py), filled by its ROS callbacks, and what the   *)
(* pipeline thread reads from them: the samples that ObservationValidator  *)
(* lets into a request, and the front image that TorchResnetChecker        *)
(* judges.  A message is its age in ticks; callbacks and ticks fall        *)
(* between any two steps of the pipeline thread.                           *)
(***************************************************************************)
EXTENDS Naturals

CONSTANTS Skills, NoSkill,
          ArmOf,           \* skill_arms
          Missing,         \* nothing was received on a topic yet
          MessageAge,      \* max_message_age_sec, for the preflight
          ObservationAge,  \* observation_max_age_ms, for a request
          ImageAge,        \* max_image_age_sec, for the checker
          Old              \* bound: ages stop counting here, past every limit

ASSUME ObservationAssumption ==
    /\ NoSkill \notin Skills
    /\ ArmOf \in [Skills -> {"left", "right"}]
    /\ {MessageAge, ObservationAge, ImageAge} \subseteq 0 .. Old - 1
    /\ Old \in Nat
    /\ Missing \notin Nat

Topics == {"left_joint", "right_joint", "left_image", "right_image", "front_image"}
Joint(arm) == IF arm = "left" THEN "left_joint" ELSE "right_joint"
Wrist(arm) == IF arm = "left" THEN "left_image" ELSE "right_image"

VARIABLES cache,     \* age of the latest message of each topic, or Missing
          step,      \* where the pipeline thread is
          skill,     \* the skill it samples or checks for
          held,      \* the messages it took from the cache, with their ages
          captured,  \* age by captured_at_monotonic_ns
          model      \* the checker's _active_skill and _active_model

obsVars == <<cache, step, skill, held, captured, model>>

Ages  == 0 .. Old
Steps == {"preflight", "ready", "sampled", "asked", "prepared", "captured",
          "judged", "over"}

ObservationTypeOK ==
    /\ cache \in [Topics -> Ages \cup {Missing}]
    /\ step \in Steps
    /\ skill \in Skills \cup {NoSkill}
    /\ \E parts \in SUBSET Topics : held \in [parts -> Ages]
    /\ captured \in Ages
    /\ model \in Skills \cup {NoSkill}

Nothing == [t \in {} |-> 0]

ObservationInit == /\ cache = [t \in Topics |-> Missing]
                   /\ step = "preflight"
                   /\ skill = NoSkill
                   /\ held = Nothing
                   /\ captured = 0
                   /\ model = NoSkill

-----------------------------------------------------------------------------
\* The callbacks.  A joint state that is short or not finite is dropped.
Receive(t) == /\ step # "over"
              /\ cache' = [cache EXCEPT ![t] = 0]
              /\ UNCHANGED <<step, skill, held, captured, model>>

Older(age) == IF age = Missing \/ age = Old THEN age ELSE age + 1

\* time.monotonic_ns
Tick == /\ step # "over"
        /\ cache' = [t \in Topics |-> Older(cache[t])]
        /\ held' = [t \in DOMAIN held |-> Older(held[t])]
        /\ captured' = Older(captured)
        /\ UNCHANGED <<step, skill, model>>

-----------------------------------------------------------------------------
\* The pipeline thread.  A fault ends the run.
Fault == /\ step' = "over"
         /\ held' = Nothing
         /\ UNCHANGED <<cache, skill, captured, model>>

\* Mutant of Required: only the joints of the arms that have a skill.
RequiredOfArms ==
    {"front_image"} \cup UNION {{Joint(ArmOf[k]), Wrist(ArmOf[k])} : k \in Skills}

\* What _messages_fresh asks for: both joints, and the wrist camera of every
\* arm that has a skill.
Required == {"left_joint", "right_joint", "front_image"}
            \cup {Wrist(ArmOf[k]) : k \in Skills}

MessagesFresh == \A t \in Required : cache[t] # Missing /\ cache[t] <= MessageAge

Preflight == /\ step = "preflight"
             /\ MessagesFresh
             /\ step' = "ready"
             /\ UNCHANGED <<cache, skill, held, captured, model>>

\* The deadline passes.
PreflightFails == step = "preflight" /\ Fault

Parts(k) == {Joint(ArmOf[k]), Wrist(ArmOf[k]), "front_image"}

\* Mutant of CapturedAt: the age of the youngest part.
CapturedLast(parts) ==
    CHOOSE age \in {cache[t] : t \in parts} : \A t \in parts : age <= cache[t]

\* min over the receive times: the age of the oldest part.
CapturedAt(parts) ==
    CHOOSE age \in {cache[t] : t \in parts} : \A t \in parts : age >= cache[t]

\* sample, under _data_lock.  Past the preflight no part is missing
\* (NothingMissing), so its fault for that is never raised.
Sample(k) ==
    /\ step = "ready"
    /\ \A t \in Parts(k) : cache[t] # Missing
    /\ held' = [t \in Parts(k) |-> cache[t]]
    /\ captured' = CapturedAt(Parts(k))
    /\ skill' = k
    /\ step' = "sampled"
    /\ UNCHANGED <<cache, model>>

\* ObservationValidator.validate, after the images were converted.
Validate == /\ step = "sampled"
            /\ captured <= ObservationAge
            /\ step' = "asked"
            /\ UNCHANGED <<cache, skill, held, captured, model>>

ValidateStale == step = "sampled" /\ captured > ObservationAge /\ Fault

\* The answer was executed, or the verdict filed.
Proceed == /\ step \in {"asked", "judged"}
           /\ step' = "ready"
           /\ held' = Nothing
           /\ captured' = 0
           /\ skill' = NoSkill
           /\ UNCHANGED <<cache, model>>

-----------------------------------------------------------------------------
\* TorchResnetChecker.evaluate: the model, then the image, then the verdict.

Loaded(k) == model = k

PrepareChecker(k) ==
    /\ step = "ready"
    /\ model' = IF Loaded(k) THEN model ELSE k
    /\ skill' = k
    /\ step' = "prepared"
    /\ UNCHANGED <<cache, held, captured>>

\* The asset is missing, is not the one the profile names, or does not load.
PrepareCheckerFails(k) == step = "ready" /\ ~Loaded(k) /\ Fault

\* front_rgb
CaptureFront ==
    /\ step = "prepared"
    /\ cache["front_image"] # Missing
    /\ held' = [t \in {"front_image"} |-> cache[t]]
    /\ captured' = cache["front_image"]
    /\ step' = "captured"
    /\ UNCHANGED <<cache, skill, model>>

Judge == /\ step = "captured"
         /\ captured <= ImageAge
         /\ step' = "judged"
         /\ UNCHANGED <<cache, skill, held, captured, model>>

JudgeStale == step = "captured" /\ captured > ImageAge /\ Fault

ObservationNext ==
    \/ \E t \in Topics : Receive(t)
    \/ Tick \/ Preflight \/ PreflightFails
    \/ \E k \in Skills : Sample(k) \/ PrepareChecker(k) \/ PrepareCheckerFails(k)
    \/ Validate \/ ValidateStale \/ Proceed
    \/ CaptureFront \/ Judge \/ JudgeStale

ObservationSpec == ObservationInit /\ [][ObservationNext]_obsVars

-----------------------------------------------------------------------------
\* S-010: when a request is let out, every part of it, the joints and both
\* images, was received no longer than observation_max_age_ms ago, though the
\* parts come from different topics, one of which may have gone silent, and
\* time passed while they were converted; and a verdict is given by the model
\* of the skill it was asked for, on an image at most max_image_age_sec old,
\* however long the model took to load (sample, validate, evaluate).
DecidedOnFreshData ==
    [][step' # step =>
        /\ step' = "asked" => /\ DOMAIN held = Parts(skill)
                              /\ \A t \in DOMAIN held : held[t] <= ObservationAge
        /\ step' = "judged" => /\ held["front_image"] <= ImageAge
                               /\ model = skill]_obsVars

\* Once the preflight is over every part of every sample is there, and a pose
\* of both arms to hold, whichever arms have skills: joint_snapshot never
\* raises, so stop never skips the hold in silence (stop, _messages_fresh).
NothingMissing ==
    step \notin {"preflight", "over"} =>
        \A t \in {"left_joint", "right_joint"} \cup UNION {Parts(k) : k \in Skills} :
            cache[t] # Missing
=============================================================================
