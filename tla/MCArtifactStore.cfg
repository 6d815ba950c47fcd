SPECIFICATION Spec
CONSTANTS
  Graphs = {g1, g2}
  Directories = {"ontoly-output", ".ontoly"}
  Default = ".ontoly"
  Linking = {"ontoly-output"}
  Programs <- MCPrograms
  Builders = {"b1", "b2"}
  Readers = {"r1", "r2"}
  Questions <- MCQuestions
  Budgets <- MCBudgets
  Initial = g1
  Absent = Absent
  Torn = Torn
  None = None
INVARIANTS AnswersAreCurrent IndexIsOfItsGraph SettledDirectoryAgrees
PROPERTY IndexIsRepaired
CHECK_DEADLOCK FALSE
