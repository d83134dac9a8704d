\* A token for the first item is taken up after the sink has moved on.
SPECIFICATION Spec
CONSTANTS
  None = None  first = first  second = second  loose = loose  k1 = k1  k2 = k2  k3 = k3  i1 = i1  i2 = i2  i3 = i3  dataset = dataset
  MaxTokens = 3
  Batches = {first}
  Keys = {k1, k2, k3}
  ItemIds = {i1, i2, i3}
  Datasets = {dataset}
  SinkBound = {first}
  Target <- MCTarget
  DatasetOf <- MCDatasetOf
INVARIANTS
  RewindRefused
