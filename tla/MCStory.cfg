SPECIFICATION Spec
CONSTANTS
  NumDecisions = 2
  NumExperiments = 2
  Wording = {m1, m2}
  Tab = {t1}
  MaxChanges = 6
  Nothing = Nothing
SYMMETRY Symmetry
INVARIANTS TypeOK NoopSaveKeepsStory EditorMatchesStory
PROPERTIES VisibilityIsChosen
