SPECIFICATION Spec
CONSTANTS
  Workers = {w1, w2}
  Parts = {"deliveries", "jobs", "indexing", "answers"}
  r1 = r1
PROPERTY WorkEnds
CHECK_DEADLOCK FALSE
