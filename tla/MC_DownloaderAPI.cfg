SPECIFICATION Spec
CONSTANTS
    c1 = c1
    c2 = c2
    c3 = c3
    Clients <- MCClients
    MaxEvents <- MCMaxEvents
SYMMETRY ClientSymmetry
CHECK_DEADLOCK FALSE
INVARIANT
    DeadPruned
    LiveNotified
    
