SPECIFICATION Spec
CONSTANTS
    l = l a = a b = b
    Slot <- TwoSlots
    Listener = l
    Events = 2
    DrainMax = 1
    MaxGen = 2
    EventModules = {"cpp_epoll"}
INVARIANT ReadinessDelivered
