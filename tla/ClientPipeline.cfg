SPECIFICATION PipelineSpec
CONSTANTS
  Valid <- MCValid
  Environments <- MCEnvironments
  Company <- MCCompany
  Answers <- MCAnswers
  Draws <- MCDraws
  AlwaysRate = 1
  Responses = {0, 200, 401, 429, 501}
  MaxItems = 2
  MaxPosts = 2
  MaxRefreshes = 2
INVARIANTS SampledTogether DecisionsAgree OneIdPerEvent FaithfulWire
CHECK_DEADLOCK FALSE
