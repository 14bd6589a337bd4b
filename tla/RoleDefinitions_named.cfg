SPECIFICATION Spec
CONSTANTS
  a = a
  b = b
  p = p
  q = q
  Actors = {a, b}
  Perms = {p, q}
  Custom = {r1, r2}
  System = {sys}
  KeyOf <- MCKeyOf
  Held <- OwnerAndDelegate
  Catalogue <- MCCatalogue
  NamesPatches = {TRUE}
  Sessions = {s1, s2, s3}
  NoPerm = NoPerm
  NoRole = NoRole
SYMMETRY Symmetry
INVARIANTS TypeOK OneWritersSet SystemRolesExact
