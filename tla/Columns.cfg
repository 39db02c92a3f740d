\* Columns of up to 4 values of up to 3 rows, NULL and 0 rows.
SPECIFICATION Spec
CONSTANTS
  None = None
  Random = Random
  Buckets = 2
  Units = 24
  LowCardinality = 2
  MaxDistinct = 3
  MaxGroups = 1
  MinBuckets = 2
  MinDistinct = 3
  ExactValues = 2
  RowsPerValue = 2
  FewYears = 2
  Radix = 2
  MaxFrequency = 3
  MaxValues = 4
  Inputs <- MCInputs
INVARIANTS FkValuesExist FrequenciesKept NoNewDistinct BucketsShareValues DifferencesAgree RewrittenSelectsSame
CHECK_DEADLOCK FALSE
