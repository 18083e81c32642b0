CONSTANT MaxToggles = 3
SPECIFICATION FairSpec
CHECK_DEADLOCK FALSE
INVARIANTS ObeyedOnce LoneTogglesObeyed
PROPERTIES LoneToggleReachesLight
