SPECIFICATION SensorFairSpec
CONSTANT PipeBound = 4
INVARIANTS OneEventPerActivation NoLostWakeup
PROPERTY PressIsReported
