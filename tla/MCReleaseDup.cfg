\* One workload, one release, its last shard delivered twice.
CONSTANTS
  s1 = s1  s2 = s2  u = u  v = v  w = w
  h1 = h1  h2 = h2  h3 = h3  h4 = h4  h5 = h5  h6 = h6  h7 = h7  h8 = h8  h9 = h9  h10 = h10  h11 = h11
  Certs <- MCCerts
  Seeds <- MCSeeds
  Manifests <- MCManifests
  Deliveries <- MCTwice
  Texts <- MCTexts
  Blacklist <- MCBlacklist
  Goldlist <- MCGoldlist
  Binaries <- MCBinaries
  sha256 <- MCHash
  gcc <- MCgcc
  AsWritten <- MCAsWritten
  MaxEvents = 1
  MaxReleases = 1
SPECIFICATION CertSpec
INVARIANTS ManifestMatchesExactly
CHECK_DEADLOCK FALSE
