CONSTANT Vocabularies <- MCVocabularies
CHECK_DEADLOCK FALSE
SPECIFICATION FairSpec
INVARIANTS MeansGrammar ThrowsOnlyAtErrors
PROPERTY Terminates
