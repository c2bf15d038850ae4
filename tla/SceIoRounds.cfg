CONSTANTS
    a = a
    b = b
    save = save
    Threads = {a, b}
    NoThread = NoThread
    Files = {save}
    Timings = {"fast", "host"}
    Careless = {}
    MaxOps = 2
    MaxEvents = 2
SPECIFICATION Spec
CHECK_DEADLOCK FALSE
PROPERTIES OperationsInOrder
