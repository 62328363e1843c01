CONSTANTS
  Mode = {"lockstep", "pipelining"}
  Offer <- Offers
  Host <- Hosts
  Port <- Ports
  AddrLen = 2
SPECIFICATION Spec
INVARIANT AnswersFollowMessages ChosenAuthIsRequired TargetIsRequested
PROPERTY LockstepAnswered GoneIsNoticed
