SPECIFICATION Spec
CONSTANTS
    a = a  b = b  c1 = c1  c2 = c2
    Clients = {c1, c2}
    Texts = {a, b}
    None = None
    Attempts = 2
    Threshold = 3
    BufferSize = 2
    Failures = {"counted", "limited", "raised"}
INVARIANT OpenOnlyRetries
PROPERTIES ImplementsService
