SPECIFICATION PipelineFairSpec
CONSTANTS
  Injectable = {"none", "producer", "execution", "consensus"}
  MayCrash = {"producer", "execution", "consensus"}
\* The program ends.
CHECK_DEADLOCK FALSE
INVARIANTS
  PipelineTypeOK
  OkMeansProof
PROPERTY RunnerReturns
