--------------------------- MODULE ModelRegistry ---------------------------
(***************************************************************************)
(* Life of machine-learning models and their shadow predictions            *)
(* (ml/registry/service.py, ml/registry/artifacts.py, ml/registry/         *)
(* loading.py, ml/inference, ml/services.py, ml/router.py, ml/cli.py).     *)
(*                                                                         *)
(* A request that moves a model reads its row without a lock, looks for    *)
(* another model in SHADOW, and writes status and event in one flush; a    *)
(* partial unique index of the database stands behind the second check.    *)
(* A shadow run predicts inside the session of the categorization it       *)
(* accompanies and swallows its own errors.                                *)
(*                                                                         *)
(* One realm, one categorization and one artifact path: rows of others are *)
(* never compared with these, and a shared path is the worst case.         *)
(***************************************************************************)
EXTENDS OrmSession, Integers, FiniteSets

CONSTANTS
    Models,       \* ids of models
    Moves,        \* requests for a transition at a time
    Shadows,      \* categorizations of the transaction at a time
    MlEnabled,    \* ML_ENABLED
    MaxSaves      \* bound: artifacts saved under the path

ASSUME RegistryAssumption == MlEnabled \in BOOLEAN /\ MaxSaves \in Nat

VARIABLES
    model,        \* ml_model rows
    mlEvent,      \* the latest ml_model_event row of each model
    artifact,     \* the file: 0 if there is none, else the number of its save
    move,         \* requests for a transition
    shadow,       \* shadow runs
    predicted     \* models with an ml_prediction and ml_shadow_evaluation row

registryVars == <<model, mlEvent, artifact, move, shadow, predicted>>

ModelStatuses == {"CANDIDATE", "VALIDATED", "SHADOW", "CHAMPION", "REJECTED", "RETIRED"}
NoStatus == "none"
NoModel  == "no model"

\* _VALID_TRANSITIONS
Allowed(status) ==
    CASE status = "CANDIDATE" -> {"VALIDATED", "REJECTED"}
      [] status = "VALIDATED" -> {"SHADOW", "REJECTED"}
      [] status \in {"SHADOW", "CHAMPION"} -> {"RETIRED"}
      [] OTHER -> {}

\* hash: artifact_sha256, 0 for none.  An id stands for name and version, which
\* are unique; promoted_at and retired_at tell when the status was written.
ModelRow == [status : ModelStatuses \cup {NoStatus}, hash : Nat]
Unregistered == [status |-> NoStatus, hash |-> 0]

\* History: after is what the event before it said, overtaken that it was
\* committed after the row had been read for this one.
ModelEvent == [old : ModelStatuses \cup {NoStatus}, new : ModelStatuses \cup {NoStatus},
               after : ModelStatuses \cup {NoStatus}, overtaken : BOOLEAN]
NoEvent == [old |-> NoStatus, new |-> NoStatus, after |-> NoStatus, overtaken |-> FALSE]

NewMove   == [pc |-> "idle", of |-> NoModel, target |-> NoStatus,
              loaded |-> Unregistered, overtaken |-> FALSE]
NewShadow == [pc |-> "idle", of |-> NoModel]

Registered == {m \in Models : model[m].status # NoStatus}
InShadow   == {m \in Models : model[m].status = "SHADOW"}

RegistryTypeOK ==
    /\ model \in [Models -> ModelRow]
    /\ mlEvent \in [Models -> ModelEvent]
    /\ artifact \in 0..MaxSaves
    /\ \A q \in Moves : move[q].pc \in {"idle", "check", "write"}
    /\ \A s \in Shadows : shadow[s].pc \in {"idle", "flush", "stored", "doomed"}
    /\ predicted \subseteq Models

RegistryInit ==
    /\ model = [m \in Models |-> Unregistered]
    /\ mlEvent = [m \in Models |-> NoEvent]
    /\ artifact = 0
    /\ move = [q \in Moves |-> NewMove]
    /\ shadow = [s \in Shadows |-> NewShadow]
    /\ predicted = {}

-----------------------------------------------------------------------------
(* Artifacts and registration.                                             *)

\* The file is written beside the path and moved there: a crash before the move
\* changes nothing.
SaveArtifact ==
    /\ artifact < MaxSaves
    /\ artifact' = artifact + 1
    /\ UNCHANGED <<model, mlEvent, move, shadow, predicted>>

\* A second row of one name and version is refused.
RegisterModel(m, hash) ==
    /\ model[m].status = NoStatus /\ hash <= artifact
    /\ model' = [model EXCEPT ![m] = [status |-> "CANDIDATE", hash |-> hash]]
    /\ mlEvent' = [mlEvent EXCEPT ![m] = [NoEvent EXCEPT !.new = "CANDIDATE"]]
    /\ UNCHANGED <<artifact, move, shadow, predicted>>

-----------------------------------------------------------------------------
(* Transitions.                                                            *)

\* The row is read and the table consulted; a refused request changes nothing.
\* PRIMARY is no status, and nothing leads to CHAMPION.
ReadModel(q, m, target) ==
    /\ move[q].pc = "idle" /\ m \in Registered
    /\ target \in Allowed(model[m].status)
    /\ move' = [move EXCEPT ![q] =
                  [pc |-> IF target = "SHADOW" THEN "check" ELSE "write",
                   of |-> m, target |-> target, loaded |-> model[m],
                   overtaken |-> FALSE]]
    /\ UNCHANGED <<model, mlEvent, artifact, shadow, predicted>>

CheckShadow(q) ==
    /\ move[q].pc = "check"
    /\ move' = [move EXCEPT ![q] = IF InShadow \ {@.of} = {}
                                   THEN [@ EXCEPT !.pc = "write"]
                                   ELSE NewMove]
    /\ UNCHANGED <<model, mlEvent, artifact, shadow, predicted>>

\* Mutant: without the index.
IndexRefuses_Never(m, status) == FALSE

\* uq_model_shadow_per_realm
IndexRefuses(m, status) == status = "SHADOW" /\ InShadow \ {m} # {}

\* Mutant: the event is made after the status was assigned.
EventOf_AfterAssignment(q) ==
    [old |-> move[q].target, new |-> move[q].target,
     after |-> mlEvent[move[q].of].new, overtaken |-> move[q].overtaken]

EventOf(q) ==
    [old |-> move[q].loaded.status, new |-> move[q].target,
     after |-> mlEvent[move[q].of].new, overtaken |-> move[q].overtaken]

\* UPDATE, event and commit.
WriteStatus(q) ==
    /\ move[q].pc = "write"
    /\ LET m   == move[q].of
           old == move[q].loaded
           new == [old EXCEPT !.status = move[q].target]
       IN IF IndexRefuses(m, new.status)
          THEN /\ move' = [move EXCEPT ![q] = NewMove]
               /\ UNCHANGED <<model, mlEvent>>
          ELSE /\ model' = [model EXCEPT ![m] = Flushed(old, new, @)]
               /\ mlEvent' = [mlEvent EXCEPT ![m] = EventOf(q)]
               /\ move' = [o \in Moves |->
                             CASE o = q -> NewMove
                               [] o # q /\ move[o].of = m ->
                                     [move[o] EXCEPT !.overtaken = TRUE]
                               [] OTHER -> move[o]]
    /\ UNCHANGED <<artifact, shadow, predicted>>

-----------------------------------------------------------------------------
(* Shadow runs.  One that has no prediction writes nothing and lets the    *)
(* categorization go on: no model in shadow, no artifact or hash, a file   *)
(* that is not the registered one, no features, no class mapping, no valid *)
(* account, or an exception.                                               *)

GoesOn(s, new) ==
    /\ shadow' = [shadow EXCEPT ![s] = new]
    /\ UNCHANGED <<model, mlEvent, artifact, move>>

\* load_registered_model
Loads(m) == model[m].hash # 0 /\ model[m].hash = artifact

\* get_active_shadow, the artifact and the prediction, which only read.
PredictInShadow(s) ==
    /\ shadow[s].pc = "idle" /\ MlEnabled
    /\ \E m \in InShadow : Loads(m) /\ GoesOn(s, [pc |-> "flush", of |-> m])
    /\ UNCHANGED predicted

\* Mutant: one prediction for a transaction, whatever the model.
IdentityTaken_ByAny(m) == predicted # {}

\* uq_prediction_identity
IdentityTaken(m) == m \in predicted

\* An INSERT waits for one of the same key that is not committed yet.
FlushPrediction(s) ==
    /\ shadow[s].pc = "flush"
    /\ \A o \in Shadows : shadow[o].pc = "stored" => shadow[o].of # shadow[s].of
    /\ GoesOn(s, [shadow[s] EXCEPT !.pc = IF IdentityTaken(shadow[s].of)
                                          THEN "doomed" ELSE "stored"])
    /\ UNCHANGED predicted

\* The caller's commit, which also inserts the evaluation.  A failed flush has
\* doomed the session, whoever caught the exception.
CommitCategorization(s) ==
    /\ shadow[s].pc \in {"stored", "doomed"}
    /\ GoesOn(s, NewShadow)
    /\ predicted' = IF shadow[s].pc = "stored" THEN predicted \cup {shadow[s].of}
                    ELSE predicted

\* The caller fails or the process dies before its commit.
CategorizationDies(s) ==
    /\ shadow[s].pc \in {"flush", "stored"}
    /\ GoesOn(s, NewShadow)
    /\ UNCHANGED predicted

RegistryNext ==
    \/ SaveArtifact
    \/ \E m \in Models, hash \in 0..MaxSaves : RegisterModel(m, hash)
    \/ \E q \in Moves :
          \/ \E m \in Models, target \in ModelStatuses :
                ReadModel(q, m, target)
          \/ CheckShadow(q)
          \/ WriteStatus(q)
    \/ \E s \in Shadows :
          \/ PredictInShadow(s) \/ FlushPrediction(s)
          \/ CommitCategorization(s) \/ CategorizationDies(s)

RegistrySpec == RegistryInit /\ [][RegistryNext]_registryVars

-----------------------------------------------------------------------------
(* Properties.                                                             *)

\* A realm has one model in shadow, also when two are activated at once and each
\* sees none (service.py:192): the partial index refuses the second.
OneShadow == Cardinality(InShadow) <= 1

\* The events of a model explain its status: the latest one names it, follows
\* the table, and continues the one before it unless that one was committed
\* while its request was under way.  (Then even REJECTED and RETIRED are left.)
EventsExplainStatus ==
    \A m \in Registered :
        LET e == mlEvent[m]
        IN /\ e.new = model[m].status
           /\ e.old # NoStatus => e.new \in Allowed(e.old)
           /\ ~e.overtaken => e.old = e.after

\* A shadow costs its caller the categorization only when the same model has
\* predicted the transaction before: no model, a missing or foreign file, a
\* failed prediction never do.
ShadowCostsOnlyRepeats ==
    \A s \in Shadows : shadow[s].pc = "doomed" => shadow[s].of \in predicted
=============================================================================
