\* Bodies of up to three members, and bodies that are damaged; pairs of
\* timestamps; amounts with an average of zero; heads of up to three fields.
\* A minute is one of quantScale.
SPECIFICATION Spec
CONSTANTS
  MaxInt = 2047
  NoRecord = NoRecord
  NoQuery = NoQuery
  NoRequest = NoRequest
  MaxBody = 40
  Inputs <- MCInputs
  Counts = {0, 3}
  quantScale = 1440
  ExponentBound = 5
  norm <- MCNorm
  mccRisk <- MCRisk
  timestamps <- MCTimestamps
INVARIANTS
  TypedIsParsed
  PayloadIsDocument
  ParsedIsPayload
  VectorForm
  TimesAreCalendar
  HeadsAreRead
PROPERTIES
  BodiesAnswered
