SPECIFICATION RevocationSpec
CONSTANTS
  Token = {t1, t2}
  TokenLife = 2
  Second = 2
  MaxKafkaFaults = 0
  MaxCrashes = 1
INVARIANTS NoRevocationSkipped
