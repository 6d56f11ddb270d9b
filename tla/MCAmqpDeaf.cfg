CONSTANT Retries = 2
SPECIFICATION FairSpec
PROPERTIES ConnectedListens
CHECK_DEADLOCK FALSE
