CONSTANTS
  Releases <- MCReleases
  Current <- MCCurrent
  Files <- MCFiles
  Exe = "app.exe"
  Retries = 2
  MaxFaults = 3
SPECIFICATION Spec
INVARIANTS VerifiedOnly InstallInv
PROPERTIES AppComesBack
CHECK_DEADLOCK FALSE
