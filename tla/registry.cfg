SPECIFICATION FairSpec
CONSTANTS
  Writers = {w1}
  Refreshers = {r1, r2}
  Kinds = {bug}
  OrgKinds = {org}
  Scopes = {s1}
  Agents = {a1}
  Published <- MCPublished
  MaxDeclared = 2
  MaxEdits = 3
  MaxKilled = 1
INVARIANT GateHolds
PROPERTY CachesConverge
