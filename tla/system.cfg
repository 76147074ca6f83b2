\* Two binaries; six CAs, as five places may name one; three failures, kills or edits.
SPECIFICATION Spec
CONSTANTS
  CAs = {ca1, ca2, ca3, ca4, ca5, ca6}
  Versions = {v1, v2}
  None = None
  Torn = Torn
  MaxFaults = 3
INVARIANTS NothingOutlivesCA DoctorSound
PROPERTIES ResetRepairs TrustKept RestartUpdates
