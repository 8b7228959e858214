\* The requests hook and a path with a character that a URL escapes.
SPECIFICATION Spec
CONSTANTS
  w1 = w1
  w2 = w2
  Workers = {w1}
  Holders = {"h1", "h2"}
  Deployments <- Escaping
  Symbols <- Segments
  NoIdentity = NoIdentity
  Mangled = Mangled
  MaxSent = 1
INVARIANTS
  SignedAsServed
