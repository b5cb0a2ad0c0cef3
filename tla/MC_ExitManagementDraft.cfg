SPECIFICATION Spec
CONSTANTS
  Authors <- MCAuthors
INVARIANTS LoaderTakesComposerTakes
PROPERTIES SavedIsSound AcceptedIsNotStripped
CHECK_DEADLOCK FALSE
