\* Two agreements, three invoices, two tasks, an offer, which may come before
\* the statistics listen, and a draft; listeners ahead of theirs throw.
\* The system may stop: everything has been announced and the executor is down.
SPECIFICATION Spec
CONSTANTS
  a1 = a1
  a2 = a2
  i1 = i1
  i2 = i2
  i3 = i3
  Agreements = {a1, a2}
  Invoices = {i1, i2, i3}
  t1 = t1
  t2 = t2
  Tasks = {t1, t2}
  InitialProposals = {p1}
  DraftProposals = {d1}
  EarlyProposals = {p1}
  AgreementOf <- AgreementOfInvoice
  Amount <- Amounts
  ProviderOf <- OneProvider
  HasStartupTimeout = TRUE
  ListenersAheadThrow = TRUE
INVARIANTS
  TypeOK
  PaymentStatusIsTrue
  CostsAgree
  FiguresAgree
  PrintedIsLowerBound
PROPERTIES
  StartupTimeoutIsJustified
  HintIsTrue
SYMMETRY TaskSymmetry
CHECK_DEADLOCK FALSE
