SPECIFICATION Spec
CONSTANTS
  Requests = {r1, r2}
  Users = {u1, u2}
  NoUser = NoUser
INVARIANTS
  ControllersHaveWhatTheyRead
  AnswersFollowTheGates
  RefusedChangedNothing
PROPERTIES
  EveryRequestIsAnswered
CHECK_DEADLOCK FALSE
