SPECIFICATION Spec
CONSTANTS
  Alphabet <- MCAlphabet
  Files <- MCFiles
  Dockers <- MCDockers
  Targets <- MCTargets
  Failing <- MCFailing
  Refused <- MCRefused
INVARIANTS
  EverythingIsWritten
  GoodSitesSurvive
PROPERTIES
  StableCaddyfile
