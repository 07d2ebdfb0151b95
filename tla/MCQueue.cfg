CONSTANTS
  Package <- MCPackage
  Client = {"c", "d", "e"}
  Name = {"m", "n"}
  NameOf <- MCNameOf
  MaxGet = 4
  Mixes <- MCMixes
  BufferSize = 2
SPECIFICATION FairSpec
INVARIANTS PackageIsInOnePlace AckRemovesItsPackage OneConsumerPerName FlushedIsWritten
PROPERTIES FlushEnds
CHECK_DEADLOCK FALSE
