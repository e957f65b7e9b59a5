\* Up to three signatures: self signatures of every kind, self revocations and
\* revocations by others.
SPECIFICATION Spec
CONSTANTS
  MaxTime = 3
  Times = {0, 1, 2, 3, 4}
  SelfSignatures <- MCSelf
  SelfRevocations <- MCRevs
  OtherRevocations <- MCOthers
  MaxSignatures = 3
INVARIANTS BindingIsNewest HardIsFinal SoftUntilRebound
