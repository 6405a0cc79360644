SPECIFICATION Spec
CONSTANT
  Garbage <- MCGarbage
  ForeignHeaders <- MCForeignHeaders
  CreatedLengths <- MCCreatedLengths
  Vehicles <- MCVehicles
  CutSizes <- MCCutSizes
  OtherDatagrams <- MCOtherDatagrams
INVARIANT HandlersReadInBounds
INVARIANT CreatedIsUnderstood
INVARIANT VehicleInfoUnderstood
