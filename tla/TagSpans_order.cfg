\* Two tokens are enough: a word, and an entity after it.
CONSTANTS
  Types = {GPE, PERSON}
  Underscored = {}
  NoTag = NoTag
  MaxTokens = 2
SPECIFICATION Spec
INVARIANT SpansAreWords
