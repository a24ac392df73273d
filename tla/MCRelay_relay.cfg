\* One lane with a relay and other miners; the other chain answers once.
SPECIFICATION FairSpec
CONSTANTS
  Relay = {r1}
  SourceOf <- MCSourceOf
  Users = {1}
  TargetFee <- MCTargetFee
  Overhead <- MCOverhead
  From = {0, 1}
  Length = {0, 2}
  MaxSent <- MCMaxSent
  MaxPending = 2
  MaxFaults = 1
INVARIANTS
  RelayTypeOK
  NothingSkipped
  NoGapSubmitted
  FullStipend
PROPERTIES
  FitRequestsArrive
