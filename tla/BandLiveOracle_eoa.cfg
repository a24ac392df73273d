\* The owner may take an account without code for Band's contract.
SPECIFICATION Spec
CONSTANTS
  Token = {weth}
  Base = {ETH}
  Quote = {USDC, USDT}
  Usdc = USDC
  StdRef = {ref, eoa}
  Deployed = {ref}
  None = None
  Price = {1}
  Limit = {0, 1}
  Future = 1
  MaxAge = 2
  Broken = Broken
  Reverts = Reverts
INVARIANTS
  NeverReverts
