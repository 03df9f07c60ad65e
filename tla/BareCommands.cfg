\* Two organizers with up to three rounds between them.
SPECIFICATION Spec
CONSTANTS
  Organizers = {o1, o2}
  MaxRounds = 3
  MaxClock = 2
  Nobody = Nobody
SYMMETRY Symmetry
INVARIANTS
  TypeOK
  BareCommandIsUnambiguous
PROPERTY
  CommandsFollowLifecycle
