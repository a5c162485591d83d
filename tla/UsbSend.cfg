CONSTANTS
  Endpoint = {2, 3}
  Data = {p, q}
  Banks = 2
  TxTimeout = 2
SPECIFICATION FairSpec
PROPERTIES ImplementsPipe Returns
