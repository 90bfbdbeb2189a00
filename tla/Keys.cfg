SPECIFICATION Spec
CONSTANTS
  Pem <- MCPem
  BlockLen <- MCBlockLen
  Headers <- MCHeaders
  NameOf <- MCNameOf
  Args <- MCArgs
  Requests = {0, 1, 2, 3}
  Decodable <- MCDecodable
  HeaderLen = 5
INVARIANTS
  LeftOutFitsNothing
  OneGame
  OthersKeysDoNoHarm
  DecryptedIsPlaintext
CHECK_DEADLOCK FALSE
