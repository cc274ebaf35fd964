CONSTANTS
  AuthCookieNames <- MCAuthCookieNames
  PreferredName = "sb-p-auth-token"
  NoName = "no name"
  Sessions = {"short", "long", "longer", "stale", "other", "empty"}
  Pieces <- MCPieces
  Tokenless = {"empty"}
  NoToken = "no token"
  OtherNames = {"Content-Type"}
  MaxBodyBytes = 3
  AuditLimits = {1, 2, 3, 4}
  MaxInt = 7
  MaxText <- MCMaxText
  MaxSize = 4
  Valid = {"short", "long", "longer", "other"}
  UserOf <- MCUserOf
  OtherName = "sb-a-auth-token"
  Others = {"stale", "other"}
  Exchanges <- MCExchanges
  Anytime <- MCAnytime
SPECIFICATION Spec
INVARIANT ClientReadsOneId
