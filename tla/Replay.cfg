CONSTANTS
  Null = Null
  DefaultPath = DefaultPath
SPECIFICATION Spec
INVARIANTS RoundTrip SettingsRestored
