SPECIFICATION Spec
CONSTANTS
  Categories <- RivergateCategories
  Priorities <- RivergatePriorities
  ConfidenceFloor <- RivergateFloor
  Rules <- RivergateRules
  DefaultRoute <- RivergateDefault
  Taxonomy <- RivergateTaxonomy
  Answers <- MCAnswers
  Texts <- MCTexts
  MaxHits = 4
  Confidences = {0, 40, 59, 60, 61, 74, 75, 90, 100}
INVARIANTS
  RoutesAsDocumented
  ConfidenceIsMonotone
  NeverAGuess
  MoreEvidenceIsSurer
  SplitEvidenceDefers
PROPERTY ApprovalConfirms
