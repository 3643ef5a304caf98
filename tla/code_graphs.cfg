SPECIFICATION Spec
CONSTANT Units <- AllUnits
CONSTANT Questions <- AllQuestions
CONSTANT Candidates <- AllCandidates
INVARIANTS FlowFollowsRuns ReachingIsExact CallsAreAccounted AnswerIsHonest
CHECK_DEADLOCK FALSE
