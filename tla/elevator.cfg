CONSTANTS
    main = main
    elevator = elevator
    p1 = p1
    p2 = p2
    p3 = p3
    elevator_lk = elevator_lk
    token_lk = token_lk
    passenger_out_cd = passenger_out_cd
    passenger_in_cd = passenger_in_cd
    elevator_active_cd = elevator_active_cd
    finish_broadcast_cd = finish_broadcast_cd
    NULL = NULL
    Thread = {main, elevator, p1, p2, p3}
    MainThread = main
    ElevatorThr = elevator
    Passengers <- ThreePassengers
    Semaphore = {}
    Lock = {elevator_lk, token_lk}
    Condition = {passenger_out_cd, passenger_in_cd, elevator_active_cd, finish_broadcast_cd}
    MaxFloors = 3
    Capacity = 2
    Tests <- AllTests
    UintMod = 16
SPECIFICATION FairSpec
INVARIANTS
    ElevatorInv
    BroadcastAnswered
PROPERTY
    EverybodyTravels
CHECK_DEADLOCK FALSE
