SPECIFICATION ToldSpec
CONSTANTS
  TreeKeys = {}
  TableKeys = {}
  Keys = {1, 2}
  Values = {"v", "w"}
  Times = {1, 2, 4}
  max_items = 1
  hash <- MCHash
INVARIANT ExpiresAsTold
