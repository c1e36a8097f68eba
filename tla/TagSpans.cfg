\* All hypotheses of up to four tokens, a type with and one without underscore.
CONSTANTS
  Types = {GPE, WORK_OF_ART}
  Underscored = {WORK_OF_ART}
  NoTag = NoTag
  MaxTokens = 4
SPECIFICATION Spec
INVARIANTS TypeOK NoSpanIsLost InnerSpansAreWords
