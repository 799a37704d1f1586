SPECIFICATION Spec
CONSTANTS
  NodeIds = {1, 2}
  Numbers = {0, 50, 500, 1000}
  Alphas = {30}
  Word32 = 1000
PROPERTY UnsetIsDefault
