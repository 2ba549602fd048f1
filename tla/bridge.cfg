SPECIFICATION Spec
CONSTANTS MaxRecords = 9
          GreetingEnabled = TRUE
INVARIANTS NeverStranded GreetingHandshake 
PROPERTY TurnIsHandedBack
\* a closed call stops, and so does an adapter that could not be built
CHECK_DEADLOCK FALSE
