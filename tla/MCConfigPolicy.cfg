\* Two knobs; every profile of up to three overrides, one of a knob that does not exist among them.
CONSTANTS
  KnobCount = 2
  Values <- MCValues
  MaxCount = 3
SPECIFICATION ConfigSpec
INVARIANTS
  PolicyFollowsProfile
