---------------------------- MODULE MCSlotSwitch ----------------------------
EXTENDS SlotSwitch, TLC
=============================================================================
