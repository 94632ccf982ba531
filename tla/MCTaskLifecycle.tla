--------------------------- MODULE MCTaskLifecycle ---------------------------
(* Instances of TaskLifecycle for TLC.                                      *)
EXTENDS TaskLifecycle

\* Feature f1 is a spec -> plan -> impl pipeline; f2 depends on f1 and holds one
\* task that is also blocked_by the spec.
PipelineType == [spec |-> "spec", plan |-> "plan", impl |-> "impl", follow |-> "task"]
PipelineFeatureOf == [t \in DOMAIN PipelineType |-> IF t = "follow" THEN "f2" ELSE "f1"]
PipelineFeatureDeps == [f1 |-> {}, f2 |-> {"f1"}]
PipelineDependsOn == [t \in DOMAIN PipelineType |-> IF t = "follow" THEN {"spec"} ELSE {}]

\* Two plain tasks of one feature, one of them a close-off task.
PairType == [work |-> "task", close |-> "task"]
PairFeatureOf == [t \in DOMAIN PairType |-> "f1"]
PairFeatureDeps == [f1 |-> {}]
PairDependsOn == [t \in DOMAIN PairType |-> {}]
=============================================================================
