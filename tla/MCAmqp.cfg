CONSTANT Retries = 3
SPECIFICATION FairSpec
INVARIANTS TypeOK OneConnection GivesUpLast ConsumersCurrent
PROPERTIES StaysClosed StartCompletes
CHECK_DEADLOCK FALSE
