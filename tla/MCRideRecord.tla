---------------------------- MODULE MCRideRecord ----------------------------
\* Slots, drivers (the information of dLong does not fit a record) and times.
EXTENDS RideRecord

CONSTANTS d1, d2, dLong

MCSlots     == {1, 2}
MCSlot1     == {1}
MCDrivers   == {d1, d2}
MCDriverL   == {d1, dLong}
MCLong      == {dLong}
MCNone      == {}
MCAdjust    == {0}

\* The drivers of MCDrivers are alike; symmetry is used with safety properties only.
MCSymmetry == Permutations({d1, d2})
===============================================================================
