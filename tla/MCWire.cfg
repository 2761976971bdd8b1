\* Both codecs over every message of every type, over two messages one behind
\* the other, and over messages read as another type.
SPECIFICATION Spec
CONSTANT Inputs <- MCInputs
INVARIANTS TypeOK RoundTrip ErrorIsNoList ErrorReadsFalse
\* A reader stops.
CHECK_DEADLOCK FALSE
