SPECIFICATION Spec
INVARIANTS
  TypeOK
  NoPanic
  AsciiAgrees
