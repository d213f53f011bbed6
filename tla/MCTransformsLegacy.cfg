CONSTANT Cases <- MCLegacyCases
SPECIFICATION Spec
INVARIANT LegacyNeedsConsent
CHECK_DEADLOCK FALSE
