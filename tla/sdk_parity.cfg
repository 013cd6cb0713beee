SPECIFICATION WeightedSpec
CONSTANTS
  None = None
  MaxPrerequisiteDepth = 2
  FullWeight = 4
  BigNumber = 10000
  Relates <- TextRelation
  Matches <- GoPatterns
  JsMatches <- JsPatterns
  JsString <- JsStrings
  ParseFloat <- GoFloats
  RFC3339 <- GoTimes
  SemVer <- GoVersions
  Decimal <- Decimals
  JsParseFloat <- JsFloats
  DateParse <- JsTimes
  JsSemVer <- JsVersions
  Asked = {"f1", "f2", "f3", "none"}
INVARIANTS
  Parity
