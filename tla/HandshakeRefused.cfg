CONSTANTS
  Mode = {"lockstep"}
  Offer <- Offers
  Host <- Hosts
  Port <- Ports
  AddrLen = 2
SPECIFICATION Spec
INVARIANT TargetMeansAuthenticated
