SPECIFICATION Spec
CONSTANTS
  Authors <- MCAuthors
INVARIANTS StoredContextsSound StoredIdsDistinct
PROPERTIES SaveKeepsWhatIsShown
CHECK_DEADLOCK FALSE
