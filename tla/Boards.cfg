\* Two users' sessions; threads are created, posted to, deleted and listed.
SPECIFICATION Spec
CONSTANTS
    Session = {alice, bob}
    UserOf <- MCUserOf
    Ttl <- MCTtl
    NaN = NaN
    Text = {hello}
    NoText = NoText
    Step <- MCStep
    MaxNow <- MCMaxNow
    MaxThreads = 2
    MaxPosts = 2
    MaxBacklog = 1
SYMMETRY Symmetry
INVARIANTS TypeOK PickedIsShown CopiesAreBeginnings MostUrgentFirst
CHECK_DEADLOCK FALSE
