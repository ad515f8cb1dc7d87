\* Every pair of manifests of up to three chunks, any file damaged or lost.
CONSTANTS
  Hash = {h1, h2}
  MaxChunks = 3
SPECIFICATION Spec
INVARIANTS TypeOK UpdateYieldsNewVersion VerdictsHold
