\* Values on and beyond the bounds of both ranges.
SPECIFICATION ApiSpec
CONSTANT Values = {2, 12}
INVARIANT RecordsAgree
INVARIANT OutputsInRange
