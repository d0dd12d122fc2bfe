\* One entry that grows older than seven days.
SPECIFICATION Spec
CONSTANTS
    MaxEntries = 1
    MaxFaults = 2
PROPERTY
    DropsOnlySettled
