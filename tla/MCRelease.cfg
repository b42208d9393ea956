\* Two workloads, approved, revoked and approved again with another seed; two
\* releases; texts that pass and fail the policy, binaries compiled, changed and raw.
CONSTANTS
  s1 = s1  s2 = s2  u = u  v = v  w = w
  h1 = h1  h2 = h2  h3 = h3  h4 = h4  h5 = h5  h6 = h6  h7 = h7  h8 = h8  h9 = h9  h10 = h10  h11 = h11
  Certs <- MCCerts
  Seeds <- MCSeeds
  Manifests <- MCManifests
  Deliveries <- MCDeliveries
  Texts <- MCTexts
  Blacklist <- MCBlacklist
  Goldlist <- MCGoldlist
  Binaries <- MCBinaries
  sha256 <- MCHash
  gcc <- MCgcc
  AsWritten <- MCAsWritten
  MaxEvents = 3
  MaxReleases = 2
SPECIFICATION CertSpec
INVARIANTS ReleaseIsLicensed DeployedWasReleased AcceptedWasDeclared CertificatePinsBounds
CHECK_DEADLOCK FALSE
