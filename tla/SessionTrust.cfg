CONSTANTS
  Family = "postgres"
  Keys <- MCKeys
  Lower <- MCLower
  Upper <- MCUpper
  Texts <- MCTexts
  UserTexts = {"$user"}
  Statements <- PlainStatements
  Null = Null
  DefaultPath = DefaultPath
  Login = Login
SPECIFICATION TrustSpec
INVARIANTS TypeOK PathTrusted LogLagsOnlyInRole
