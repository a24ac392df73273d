\* Three tokens for two legs, so that a replaced token can come back.
SPECIFICATION Spec
CONSTANTS
  Token = {weth, coti, usdc}
  NoToken = NoToken
  Adapter = {band}
  NoAdapter = NoAdapter
  Price = {1}
  Reverts = Reverts
  Interval = {0, 2}
  MaxInterval = 2
PROPERTIES
  ReplacedLegNotGated
