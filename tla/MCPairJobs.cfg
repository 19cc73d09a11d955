\* Four pairs, two at a time: slots are refilled twice, and a poll can find
\* both jobs ended.
CONSTANTS
  N = 4
  MaxInFlight = 2
  Thrashing <- MCThrashing
  ClientFails = TRUE
SPECIFICATION MCSpec
INVARIANTS
  SlotsKeptFull
PROPERTIES
  ImplementsCampaign
  LocalImplementsCampaign
  CampaignEnds
\* submit_jobs has returned or raised.
CHECK_DEADLOCK FALSE
