\* One start and stop, with two requests; one key of each kind.
SPECIFICATION LiveSpec
CONSTANTS
  Request = {r1, r2}
  PositiveKeys = {"exp_formula_coefficient"}
  RequiredKeys = {"exp_win"}
INVARIANTS
  SuccessAnswersAll
  HandledUnderValidConfig
  StatementsKeepTheirConnection
  ExitClosesAll
PROPERTIES
  StopsWhenAsked
CHECK_DEADLOCK FALSE
