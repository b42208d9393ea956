\* Three producers of two records each on a queue of two, so that it fills and empties.
CONSTANTS
  p1 = p1  p2 = p2  p3 = p3
  Producers <- MCProducers
  per_producer = 2
  capacity = 2
SPECIFICATION Spec
INVARIANTS NoneLostOrDuplicated StopsOnlyWhenDrained CountersAreTruthful
PROPERTIES Terminates
