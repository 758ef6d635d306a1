SPECIFICATION FairSpec
CONSTANTS
    MaxSubagents = 1
    Delegators = {"call", "background", "task", "extension"}
    MaxAgents = 2
INVARIANTS SlotsRespected CallsBacked ToldOnce RecordsTrue
PROPERTIES  QueueMoves CallsEnd DetachedWakes
CHECK_DEADLOCK FALSE
