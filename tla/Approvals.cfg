SPECIFICATION Spec
CONSTANTS
  ann = ann
  pat = pat
  N = 2
  People = {ann, pat}
  Approvers = {pat}
  AskerOf <- OneAsker
  Tagged = {2}
  Handlers = {p1, p2}
  Nobody = Nobody
  MaxAnswers = 2
INVARIANTS
  ApprovalsInv
  RunWasAnswered
  TaggedNeedsApprover
PROPERTIES
  AnswerIsFinal
  RequestsClose
CHECK_DEADLOCK FALSE
