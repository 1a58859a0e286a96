\* A new learner: two workers whose leases end at any time, a deployment, an
\* approval and a dialogue that finishes a task.
CONSTANTS
    add = add
    money = money
    Jobs = {j1, j2}
    Workers = {w1, w2}
    Approvers = {a1}
    Dialogues = {d1}
    Skills = {add, money}
    Bodies <- NewLearner
    BatchSize = 2
    InitialLevel <- Unknown
    Errors = {"MODEL_NOT_FOUND", "MODEL_INFERENCE_FAILED"}
    None = None
    MaxAttempts = 2
    MaxRequeues = 1
SPECIFICATION FairSpec
CHECK_DEADLOCK FALSE
PROPERTIES
    AnalysisIsFenced
    ApprovalAppliesToItsLevel
    JobSettles
