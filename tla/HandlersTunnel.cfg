\* The smallest surroundings: only the container and the script matter.
CONSTANTS
  None = None
  Digests = {d1}
  Ports = {p}
  MaxProbes = 1
SPECIFICATION Spec
INVARIANT TunnelSuccessIsReal
