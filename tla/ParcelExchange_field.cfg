\* Field: Serialize writes alias then col_name; Deserialize reads col_name
\* then alias.
CONSTANTS
    MaxCapacity = 89478485
    Kinds = {"Field"}
    Values <- MCValues
    CorruptAt <- MCCorruptAt
    BadWords <- MCBadWords
SPECIFICATION Spec
INVARIANT RoundTrip
