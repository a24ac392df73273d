\* Two tokens, two bases and two quotes; the reference is Band's, none, or an account without code.
SPECIFICATION Spec
CONSTANTS
  Token = {weth, coti}
  Base = {ETH, COTI}
  Quote = {USDC, USDT}
  Usdc = USDC
  StdRef = {ref, eoa}
  Deployed = {ref}
  None = None
  Price = {1}
  Limit = {0, 1}
  Future = 1
  MaxAge = 2
  Broken = Broken
  Reverts = Reverts
INVARIANTS
  BulkAgrees
  AnswersFresh
