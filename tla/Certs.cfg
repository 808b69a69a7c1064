\* Every text of up to six characters, and those of seven letters and dots; domains of
\* up to six and labels of up to three, so that either limit decides by itself: a label
\* of four in a domain of six, and labels of three in one of seven.
CONSTANTS
  None = None
  Requests <- MCRequests
  MaxDomain = 6
  MaxLabel = 3
  MaxText = 6
SPECIFICATION CertsSpec
INVARIANTS CertsTypeOK NormalizationIsCorrect DomainsAreDistinct
PROPERTY CertificateIsThere
