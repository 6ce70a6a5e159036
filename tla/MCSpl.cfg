SPECIFICATION Spec
CONSTANTS
    NumTables = 2
    Capacity <- MCCapacity
    Menus <- MCMenus
    Parties <- MCParties
    MaxCustomers = 4
    MaxOrders = 3
    MaxBelow = 1
    Commands <- MCCommands
    Messages <- MCMessages
    MaxFlight = 2
    MaxJunk = 4
INVARIANTS SeatedAlive ShownAsSent TakenAsTyped
PROPERTIES  OrdersAsStated LogoutEnds
CHECK_DEADLOCK FALSE
