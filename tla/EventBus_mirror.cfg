\* Two processes and three events: a move to review, its NOTIFICATION_CREATED and one
\* more, or three others; a stream that connects anywhere, and two faults at any step.
CONSTANTS
    Processes = {p1, p2}
    Streams = {s1}
    Tasks = {t1}
    MaxEvents = 3
    MaxFaults = 2
    Off = Off
SYMMETRY Symmetry
SPECIFICATION Spec
INVARIANTS NotifiedOnce StreamInOrder NoSilentGap
