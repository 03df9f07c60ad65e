\* Every version from 1 to 4, upgraded and crashed at every statement.
SPECIFICATION Spec
CONSTANT Guilds = {g1, g2}
SYMMETRY Symmetry
INVARIANTS
  TypeOK
  NoStatementFails
  ServesItsSchema
