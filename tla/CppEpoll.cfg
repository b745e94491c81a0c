SPECIFICATION Spec
CONSTANTS
    l = l a = a b = b
    Slot <- ThreeSlots
    Listener = l
    Events = 2
    DrainMax = 1
    MaxGen = 2
    EventModules = {"cpp_epoll", "ngx_epoll"}
SYMMETRY ConnSymmetry
INVARIANTS
    TableConsistent
    PostedAreCurrent
    ReadsDelivered
PROPERTY CallsMatchInstance
