\* Two rates, a known and an unknown resolution name beside the listed ones.
CONSTANTS
  Names <- NamesInUse
  Asked <- AskedFor
  Rates = {r1, r2}
  BuiltIn = BuiltIn
  Undefined = Undefined
  None = None
SPECIFICATION Spec
SYMMETRY Symmetry
INVARIANTS
  TypeOK
  SourceFollowsLastRead
  EncoderIsOneAnswer
  BoundsAreOfLastAnswer
  ListedIsKept
