SPECIFICATION Spec
INVARIANTS
  ElfLoadsSoundly
  PlaysWhatWasAsked
  ConversionsExact
PROPERTIES
  EventsPlayOnce
  GameIsCalledSensibly
CHECK_DEADLOCK FALSE
