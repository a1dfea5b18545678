SPECIFICATION GapSpec
CONSTANT MaxU64 = 4
INVARIANTS WatermarkIsMax GapsAccounting
PROPERTY GapsNeverRetracted
