------------------------- MODULE StatsServiceProofs -------------------------
(***************************************************************************)
(* Theorems about StatsService, for any agreements, invoices, tasks and    *)
(* proposals, in whatever order their events come.                         *)
(***************************************************************************)
EXTENDS StatsServiceProperties, SumTheorems

-----------------------------------------------------------------------------
(* What the statistics were told, against what has happened.               *)

(* The two maps of invoices split the sets of invoices by agreement.       *)
LedgersAgree ==
  /\ accepted \subseteq received
  /\ \A i \in received : AgreementOf[i] \in agreements
  /\ \A a \in Agreements :
       /\ invoices[a] = InvoicesOf(a) \cap received
       /\ payments[a] = InvoicesOf(a) \cap accepted

(* A proposal is missed only before the subscription, and then for good;   *)
(* a missed rejection is that of a missed proposal.                        *)
ProposalsAgree ==
  /\ proposals \subseteq offered
  /\ refused \subseteq offered
  /\ proposalsRejected \subseteq refused
  /\ offered \cap DraftProposals \subseteq proposals
  /\ refused \cap proposals \subseteq proposalsRejected

(* Nothing but early proposals comes before the subscription.              *)
NothingComesEarly ==
  /\ phase = "starting" =>
       /\ agreements = {}
       /\ proposals = {}
       /\ ~startupTimeoutId
  /\ startupTimeoutId => phase = "ready"

IndInv == TypeOK /\ LedgersAgree /\ ProposalsAgree /\ NothingComesEarly

-----------------------------------------------------------------------------
(* The sums.                                                               *)

(* Any set of invoices is finite, so that its size is a number. *)
LEMMA FiniteInvoices ==
  ASSUME NEW S \in SUBSET Invoices
  PROVE  IsFiniteSet(S) /\ Cardinality(S) \in Nat
<1>1. IsFiniteSet(Invoices)
  BY StatsAssumption
<1>2. IsFiniteSet(S)
  BY <1>1, FS_Subset
<1>3. QED
  BY <1>2, FS_CardinalityType

(* Any set of agreements is finite, so that its size is a number. *)
LEMMA FiniteAgreements ==
  ASSUME NEW A \in SUBSET Agreements
  PROVE  IsFiniteSet(A) /\ Cardinality(A) \in Nat
<1>1. IsFiniteSet(Agreements)
  BY StatsAssumption
<1>2. IsFiniteSet(A)
  BY <1>1, FS_Subset
<1>3. QED
  BY <1>2, FS_CardinalityType

(* A cost is a number, and more invoices never cost less.                  *)
LEMMA CostGrows ==
  ASSUME NEW S \in SUBSET Invoices, NEW T \in SUBSET S
  PROVE  CostOf(S) \in Nat /\ CostOf(T) \in Nat /\ CostOf(T) <= CostOf(S)
<1>1. \A i \in S : Amount[i] \in Nat
  BY StatsAssumption
<1>2. IsFiniteSet(S) /\ IsFiniteSet(T)
  BY FiniteInvoices
<1>3. SumFunctionOnSet(Amount, S) \in Nat /\ SumFunctionOnSet(Amount, T) \in Nat
  BY <1>1, <1>2, SumType
<1>4. SumFunctionOnSet(Amount, T) <= SumFunctionOnSet(Amount, S)
  BY <1>1, <1>2, SumIsMonotonic
<1>5. QED
  BY <1>3, <1>4 DEF CostOf

(* The totals of getAllCosts are numbers, and its summary has a row for *)
(* each agreement.                                                      *)
LEMMA CostsAreNumbers ==
  ASSUME TypeOK
  PROVE  /\ getAllCosts.total \in Nat
         /\ getAllCosts.paid \in Nat
         /\ Cardinality(DOMAIN getAllCostsSummary) = Cardinality(agreements)
         /\ Cardinality(agreements) \in Nat
<1>1. /\ agreements \in SUBSET Agreements
      /\ UNION {invoices[a] : a \in agreements} \in SUBSET Invoices
      /\ UNION {payments[a] : a \in agreements} \in SUBSET Invoices
  BY DEF TypeOK
<1>2. /\ CostOf(UNION {invoices[a] : a \in agreements}) \in Nat
      /\ CostOf(UNION {payments[a] : a \in agreements}) \in Nat
  BY <1>1, CostGrows
<1>3. DOMAIN getAllCostsSummary = agreements
  BY DEF getAllCostsSummary
<1>4. QED
  BY <1>1, <1>2, <1>3, FiniteAgreements DEF getAllCosts

-----------------------------------------------------------------------------

(* IndInv holds initially. *)
LEMMA InitEstablishes == Init => IndInv
<1>1. SUFFICES ASSUME Init PROVE IndInv
  OBVIOUS
<1>2. TypeOK
  BY <1>1 DEF Init, TypeOK, Hints, NotPrinted
<1>3. LedgersAgree /\ ProposalsAgree
  BY <1>1 DEF Init, LedgersAgree, ProposalsAgree
<1>4. NothingComesEarly
  BY <1>1 DEF Init, NothingComesEarly
<1>5. QED
  BY <1>2, <1>3, <1>4 DEF IndInv

(* Every step keeps the types.                                             *)
LEMMA TypeStays == TypeOK /\ [Next]_vars => TypeOK'
<1>1. SUFFICES ASSUME TypeOK, [Next]_vars PROVE TypeOK'
  OBVIOUS
<1> USE DEF TypeOK, executorVars, marketVars, paymentVars, taskVars
<1>2. CASE UNCHANGED vars
  BY <1>1, <1>2 DEF vars
<1>3. CASE Ready
  BY <1>1, <1>3, StatsAssumption DEF Ready
<1>4. CASE Shutdown
  BY <1>1, <1>4 DEF Shutdown, BeforeEnd
<1>5. CASE StartupTimeout
  BY <1>1, <1>5 DEF StartupTimeout, BeforeEnd, Hint, Hints
<1>6. CASE PrintStats
  <2>1. printed' \in [total : Nat, paid : Nat, agreements : Nat \cup {-1}]
    BY <1>1, <1>6, CostsAreNumbers DEF PrintStats
  <2>2. QED
    BY <1>1, <1>6, <2>1 DEF PrintStats
<1>7. ASSUME NEW p \in Proposals, OfferProposalReceived(p)
      PROVE  TypeOK'
  BY <1>1, <1>7 DEF OfferProposalReceived
<1>8. ASSUME NEW p \in InitialProposals, OfferProposalRejected(p)
      PROVE  TypeOK'
  BY <1>1, <1>8 DEF OfferProposalRejected
<1>9. ASSUME NEW a \in Agreements, AgreementApproved(a)
      PROVE  TypeOK'
  BY <1>1, <1>9 DEF AgreementApproved
<1>10. ASSUME NEW i \in Invoices, InvoiceReceived(i)
       PROVE  TypeOK'
  BY <1>1, <1>10 DEF InvoiceReceived
<1>11. ASSUME NEW i \in Invoices, InvoiceAccepted(i)
       PROVE  TypeOK'
  BY <1>1, <1>11 DEF InvoiceAccepted
<1>12. ASSUME NEW t \in Tasks, NEW a \in Agreements, TaskCompleted(t, a)
       PROVE  TypeOK'
  BY <1>1, <1>12 DEF TaskCompleted
<1>13. ASSUME NEW t \in Tasks, TaskCompletedUncredited(t)
       PROVE  TypeOK'
  BY <1>1, <1>13 DEF TaskCompletedUncredited
<1>14. QED
  BY <1>1, <1>2, <1>3, <1>4, <1>5, <1>6, <1>7, <1>8, <1>9, <1>10, <1>11, <1>12,
     <1>13 DEF Next, MarketStep, PaymentStep, Proposals

(* Invoices come after their agreement, and payments after their invoice.  *)
LEMMA LedgersStayInAgreement ==
  TypeOK /\ LedgersAgree /\ [Next]_vars => LedgersAgree'
<1>1. SUFFICES ASSUME TypeOK, LedgersAgree, [Next]_vars PROVE LedgersAgree'
  OBVIOUS
<1>type. /\ received \subseteq Invoices /\ accepted \subseteq Invoices
         /\ invoices \in [Agreements -> SUBSET Invoices]
         /\ payments \in [Agreements -> SUBSET Invoices]
         /\ AgreementOf \in [Invoices -> Agreements]
  BY <1>1, StatsAssumption DEF TypeOK
<1> USE DEF LedgersAgree, InvoicesOf
<1>same. ASSUME UNCHANGED paymentVars, agreements \subseteq agreements'
         PROVE  LedgersAgree'
  BY <1>1, <1>same DEF paymentVars
<1>2. CASE \E i \in Invoices : InvoiceReceived(i)
  BY <1>1, <1>type, <1>2 DEF InvoiceReceived
<1>3. CASE \E i \in Invoices : InvoiceAccepted(i)
  BY <1>1, <1>type, <1>3 DEF InvoiceAccepted
<1>4. CASE ~PaymentStep
  BY <1>1, <1>same, <1>4 DEF Next, MarketStep, Ready, Shutdown, BeforeEnd,
     StartupTimeout, PrintStats, OfferProposalReceived, OfferProposalRejected,
     AgreementApproved, TaskCompleted, TaskCompletedUncredited, vars
<1>5. QED
  BY <1>2, <1>3, <1>4 DEF PaymentStep

(* Each step keeps the proposals counted in agreement with those that came. *)
LEMMA ProposalsStayInAgreement ==
  TypeOK /\ ProposalsAgree /\ NothingComesEarly /\ [Next]_vars => ProposalsAgree'
<1>1. SUFFICES ASSUME TypeOK, ProposalsAgree, NothingComesEarly, [Next]_vars
               PROVE  ProposalsAgree'
  OBVIOUS
<1>disjoint. /\ InitialProposals \cap DraftProposals = {}
             /\ EarlyProposals \subseteq InitialProposals
  BY StatsAssumption
<1> USE DEF ProposalsAgree
<1>same. ASSUME UNCHANGED marketVars
         PROVE  ProposalsAgree'
  BY <1>1, <1>same DEF marketVars
<1>2. ASSUME NEW p \in Proposals, OfferProposalReceived(p)
      PROVE  ProposalsAgree'
  BY <1>1, <1>2, <1>disjoint DEF OfferProposalReceived, Proposals
<1>3. ASSUME NEW p \in InitialProposals, OfferProposalRejected(p)
      PROVE  ProposalsAgree'
  <2>1. ~Subscribed => proposals = {}
    BY <1>1 DEF NothingComesEarly, Subscribed
  <2>2. QED
    BY <1>1, <1>3, <2>1 DEF OfferProposalRejected
<1>4. CASE Ready \/ Shutdown \/ StartupTimeout \/ PrintStats \/ PaymentStep
           \/ UNCHANGED vars
           \/ \E a \in Agreements : AgreementApproved(a)
  BY <1>same, <1>4 DEF Ready, Shutdown, BeforeEnd, StartupTimeout, PrintStats,
     PaymentStep, InvoiceReceived, InvoiceAccepted, AgreementApproved, vars
<1>5. ASSUME NEW t \in Tasks,
             (\E a \in Agreements : TaskCompleted(t, a))
             \/ TaskCompletedUncredited(t)
      PROVE  ProposalsAgree'
  BY <1>same, <1>5 DEF TaskCompleted, TaskCompletedUncredited
<1>6. QED
  BY <1>1, <1>2, <1>3, <1>4, <1>5 DEF Next, MarketStep, Proposals

(* Nothing comes early at first, and no step brings it.                    *)
LEMMA StartStaysClean ==
  TypeOK /\ NothingComesEarly /\ [Next]_vars => NothingComesEarly'
<1>1. SUFFICES ASSUME TypeOK, NothingComesEarly, [Next]_vars PROVE NothingComesEarly'
  OBVIOUS
<1> USE DEF NothingComesEarly, TypeOK, Subscribed
<1>2. CASE UNCHANGED vars
  BY <1>1, <1>2 DEF vars, executorVars, marketVars, taskVars
<1>3. CASE Ready
  BY <1>1, <1>3 DEF Ready
<1>4. CASE BeforeEnd
  BY <1>1, <1>4 DEF BeforeEnd, taskVars
<1>5. CASE StartupTimeout
  BY <1>1, <1>4, <1>5 DEF StartupTimeout, marketVars, taskVars
<1>6. CASE PrintStats
  BY <1>1, <1>6 DEF PrintStats, taskVars
<1>7. CASE MarketStep
  <2>1. CASE \E p \in Proposals : OfferProposalReceived(p)
    BY <1>1, <2>1 DEF OfferProposalReceived, executorVars, taskVars
  <2>2. CASE \E p \in InitialProposals : OfferProposalRejected(p)
    BY <1>1, <2>2 DEF OfferProposalRejected, executorVars, taskVars
  <2>3. CASE \E a \in Agreements : AgreementApproved(a)
    BY <1>1, <2>3 DEF AgreementApproved, executorVars, marketVars, taskVars
  <2>4. QED
    BY <1>7, <2>1, <2>2, <2>3 DEF MarketStep, Proposals
<1>8. CASE PaymentStep
  <2>1. UNCHANGED <<executorVars, marketVars, taskVars, agreements>>
    BY <1>8 DEF PaymentStep, InvoiceReceived, InvoiceAccepted
  <2>2. QED
    BY <1>1, <2>1 DEF executorVars, marketVars, taskVars
<1>9. ASSUME NEW t \in Tasks,
             (\E a \in Agreements : TaskCompleted(t, a))
             \/ TaskCompletedUncredited(t)
      PROVE  NothingComesEarly'
  BY <1>1, <1>9 DEF TaskCompleted, TaskCompletedUncredited, executorVars, marketVars
<1>10. QED
  BY <1>1, <1>2, <1>3, <1>4, <1>5, <1>6, <1>7, <1>8, <1>9 DEF Next, Shutdown

(* IndInv holds in every reachable state of the statistics, whatever comes *)
(* before they listen and whatever is kept from them.                      *)
THEOREM Invariance == Spec => []IndInv
<1>1. IndInv /\ [Next]_vars => IndInv'
  BY TypeStays, LedgersStayInAgreement, ProposalsStayInAgreement,
     StartStaysClean DEF IndInv
<1>2. QED
  BY <1>1, InitEstablishes, PTL DEF Spec

(* Every variable keeps its type.                                          *)
THEOREM TypeCorrectness == Spec => []TypeOK
<1>1. IndInv => TypeOK
  BY DEF IndInv
<1>2. QED
  BY <1>1, Invariance, PTL

-----------------------------------------------------------------------------
(* The figures.                                                            *)

(* The payments of an agreement are among its invoices, so the comparison  *)
(* of the two lengths compares the two sets.                               *)
THEOREM PaymentStatusCorrectness == Spec => []PaymentStatusIsTrue
<1>1. ASSUME IndInv, NEW a \in agreements
      PROVE  LET due == InvoicesOf(a) \cap received IN
               /\ PaymentStatus(a) = "paid" <=> due # {} /\ due \subseteq accepted
               /\ PaymentStatus(a) = "unpaid" <=> due \cap accepted = {}
  <2> DEFINE due == InvoicesOf(a) \cap received
  <2>1. /\ a \in Agreements
        /\ invoices[a] = due
        /\ payments[a] = due \cap accepted
        /\ due \subseteq Invoices
    BY <1>1 DEF IndInv, TypeOK, LedgersAgree, InvoicesOf
  <2> HIDE DEF due
  <2>2. IsFiniteSet(due)
    BY <2>1, FiniteInvoices
  <2>3. Cardinality(payments[a]) = Cardinality(invoices[a])
          <=> payments[a] = invoices[a]
    BY <2>1, <2>2, FS_Subset
  <2>4. PaymentStatus(a) = "unpaid" <=> due \cap accepted = {}
    BY <2>1 DEF PaymentStatus
  <2>5. PaymentStatus(a) = "paid" <=> due # {} /\ due \subseteq accepted
    BY <2>1, <2>3 DEF PaymentStatus
  <2>6. QED
    BY <2>4, <2>5 DEF due
<1>2. IndInv => PaymentStatusIsTrue
  BY <1>1 DEF PaymentStatusIsTrue
<1>3. QED
  BY <1>2, Invariance, PTL

(* The differences of numbers of keys count the rows they are meant to.    *)
THEOREM FiguresCorrectness == Spec => []FiguresAgree
<1>1. ASSUME IndInv
      PROVE  FiguresAgree
  <2> DEFINE unpaid == {a \in agreements :
                          invoices[a] # {} /\ getAllCostsSummary[a].status = "unpaid"}
             missing == {a \in agreements : InvoicesOf(a) \cap received = {}}
  <2>1. /\ agreements \subseteq Agreements
        /\ \A i \in received : i \in Invoices /\ AgreementOf[i] \in agreements
        /\ \A a \in Agreements :
             /\ invoices[a] = InvoicesOf(a) \cap received
             /\ payments[a] \subseteq invoices[a]
    BY <1>1 DEF IndInv, TypeOK, LedgersAgree
  <2>2. Keys(payments) \subseteq Keys(invoices) /\ Keys(invoices) \subseteq agreements
    BY <2>1 DEF Keys, InvoicesOf
  <2>3. /\ IsFiniteSet(agreements) /\ IsFiniteSet(Keys(invoices))
        /\ IsFiniteSet(Keys(payments))
        /\ Cardinality(agreements) \in Nat
        /\ Cardinality(Keys(payments)) <= Cardinality(agreements)
    <3>1. IsFiniteSet(agreements)
      BY <2>1, FS_Subset, StatsAssumption
    <3>2. Keys(payments) \in SUBSET agreements /\ Keys(invoices) \in SUBSET agreements
      BY <2>2
    <3>3. QED
      BY <3>1, <3>2, FS_Subset, FS_CardinalityType
  <2>4. unpaid = Keys(invoices) \ Keys(payments)
    <3>1. \A a \in agreements : getAllCostsSummary[a].status = PaymentStatus(a)
      BY DEF getAllCostsSummary
    <3>2. \A a \in agreements : PaymentStatus(a) = "unpaid" <=> payments[a] = {}
      BY DEF PaymentStatus
    <3>3. QED
      BY <2>1, <2>2, <3>1, <3>2 DEF Keys
  <2>5. missing = agreements \ Keys(invoices)
    BY <2>1 DEF Keys
  <2> HIDE DEF unpaid, missing
  <2>6. Cardinality(unpaid) = Cardinality(Keys(invoices)) - Cardinality(Keys(payments))
    <3>1. Cardinality(Keys(invoices) \ Keys(payments)) =
            Cardinality(Keys(invoices)) - Cardinality(Keys(invoices) \cap Keys(payments))
      BY <2>3, FS_Difference
    <3>2. Keys(invoices) \cap Keys(payments) = Keys(payments)
      BY <2>2
    <3>3. QED
      BY <2>4, <3>1, <3>2
  <2>7. Cardinality(missing) = Cardinality(agreements) - Cardinality(Keys(invoices))
    <3>1. Cardinality(agreements \ Keys(invoices)) =
            Cardinality(agreements) - Cardinality(agreements \cap Keys(invoices))
      BY <2>3, FS_Difference
    <3>2. agreements \cap Keys(invoices) = Keys(invoices)
      BY <2>2
    <3>3. QED
      BY <2>5, <3>1, <3>2
  <2>8. Cardinality(providers) <= Cardinality(agreements)
    <3> DEFINE f == [a \in agreements |-> ProviderOf[a]]
    <3>1. f \in Surjection(agreements, providers)
      BY DEF Surjection, providers
    <3> HIDE DEF f
    <3>2. QED
      BY <2>3, <3>1, FS_Surjection
  <2>9. Cardinality(Keys(payments)) = Cardinality(agreements) <=>
          \A a \in agreements : getAllCostsSummary[a].status # "unpaid"
    <3>1. Keys(payments) \subseteq agreements
      BY <2>2
    <3>2. Cardinality(Keys(payments)) = Cardinality(agreements)
            <=> Keys(payments) = agreements
      BY <2>3, <3>1, FS_Subset
    <3>3. \A a \in agreements :
            getAllCostsSummary[a].status # "unpaid" <=> a \in Keys(payments)
      BY <2>1 DEF getAllCostsSummary, PaymentStatus, Keys
    <3>4. QED
      BY <3>1, <3>2, <3>3
  <2>10. QED
    BY <2>3, <2>6, <2>7, <2>8, <2>9
       DEF FiguresAgree, getAll, invoicePaymentRate, unpaid, missing
<1>2. QED
  BY <1>1, Invariance, PTL

-----------------------------------------------------------------------------
(* The totals.                                                             *)

(* The invoices of the agreements are the invoices received, each of one   *)
(* agreement.                                                              *)
LEMMA CostsHold ==
  ASSUME IndInv
  PROVE  CostsAgree
<1>1. /\ agreements \in SUBSET Agreements
      /\ received \in SUBSET Invoices /\ accepted \in SUBSET received
      /\ \A i \in received : AgreementOf[i] \in agreements
      /\ \A a \in agreements :
           /\ invoices[a] = InvoicesOf(a) \cap received
           /\ payments[a] = InvoicesOf(a) \cap accepted
  BY DEF IndInv, TypeOK, LedgersAgree
<1>2. /\ UNION {invoices[a] : a \in agreements} = received
      /\ UNION {payments[a] : a \in agreements} = accepted
  BY <1>1 DEF InvoicesOf
<1>3. getAllCosts.total = CostOf(received) /\ getAllCosts.paid = CostOf(accepted)
  BY <1>2 DEF getAllCosts
<1>4. CostOf(accepted) <= CostOf(received)
  BY <1>1, CostGrows
<1> DEFINE row == [a \in agreements |-> getAllCostsSummary[a].cost]
           sum == [a \in agreements |-> SumFunctionOnSet(Amount, invoices[a])]
<1>5. row = sum
  BY DEF getAllCostsSummary, CostOf
<1>6. SumFunctionOnSet(Amount, UNION {invoices[a] : a \in agreements})
        = SumFunctionOnSet(sum, agreements)
  <2>1. IsFiniteSet(agreements)
    BY <1>1, FiniteAgreements
  <2>2. \A a \in agreements : invoices[a] \in SUBSET Invoices
    BY <1>1
  <2>3. \A a \in agreements :
          IsFiniteSet(invoices[a]) /\ \A i \in invoices[a] : Amount[i] \in Nat
    BY <2>2, FiniteInvoices, StatsAssumption
  <2>4. \A a, b \in agreements : a # b => invoices[a] \cap invoices[b] = {}
    BY <1>1 DEF InvoicesOf
  <2>5. QED
    BY <2>1, <2>3, <2>4, SumOfFamily
<1>7. getAllCosts.total = SumFunction(row)
  <2>1. DOMAIN row = agreements
    OBVIOUS
  <2> HIDE DEF row, sum
  <2>2. QED
    BY <1>2, <1>3, <1>5, <1>6, <2>1 DEF CostOf, SumFunction
<1>8. QED
  BY <1>3, <1>4, <1>7 DEF CostsAgree

(* The totals are those of the invoices, and the rows add up (stats.ts:    *)
(* 63-96).                                                                 *)
THEOREM CostsCorrectness == Spec => []CostsAgree
<1>1. IndInv => CostsAgree
  BY CostsHold
<1>2. QED
  BY <1>1, Invariance, PTL

(* Nothing that is counted is taken back.                                  *)
LEMMA FiguresGrow ==
  ASSUME IndInv, IndInv', [Next]_vars
  PROVE  /\ getAllCosts.total <= getAllCosts'.total
         /\ getAllCosts.paid <= getAllCosts'.paid
         /\ Cardinality(agreements) <= Cardinality(agreements')
         /\ getAllCosts'.total \in Nat /\ getAllCosts'.paid \in Nat
         /\ Cardinality(agreements') \in Nat
<1>1. /\ received \subseteq received' /\ accepted \subseteq accepted'
      /\ agreements \subseteq agreements'
  BY DEF Next, MarketStep, PaymentStep, Ready, Shutdown, BeforeEnd, StartupTimeout,
     PrintStats, OfferProposalReceived, OfferProposalRejected, AgreementApproved,
     InvoiceReceived, InvoiceAccepted, TaskCompleted, TaskCompletedUncredited,
     vars, paymentVars
<1>2. /\ received' \in SUBSET Invoices /\ accepted' \in SUBSET Invoices
      /\ agreements' \in SUBSET Agreements
  BY DEF IndInv, TypeOK
<1>3. /\ UNION {invoices[a] : a \in agreements} = received
      /\ UNION {payments[a] : a \in agreements} = accepted
  BY DEF IndInv, TypeOK, LedgersAgree, InvoicesOf
<1>4. /\ UNION {invoices'[a] : a \in agreements'} = received'
      /\ UNION {payments'[a] : a \in agreements'} = accepted'
  BY DEF IndInv, TypeOK, LedgersAgree, InvoicesOf
<1>5. /\ getAllCosts.total = CostOf(received)
      /\ getAllCosts.paid = CostOf(accepted)
  BY <1>3 DEF getAllCosts
<1>6. /\ getAllCosts'.total = CostOf(received')
      /\ getAllCosts'.paid = CostOf(accepted')
  BY <1>4 DEF getAllCosts, CostOf
<1>7. /\ CostOf(received) <= CostOf(received') /\ CostOf(received') \in Nat
      /\ CostOf(accepted) <= CostOf(accepted') /\ CostOf(accepted') \in Nat
  BY <1>1, <1>2, CostGrows
<1>8. /\ Cardinality(agreements) <= Cardinality(agreements')
      /\ Cardinality(agreements') \in Nat
  BY <1>1, <1>2, FiniteAgreements, FS_Subset
<1>9. QED
  BY <1>5, <1>6, <1>7, <1>8

(* The report is printed before the last invoices come in, and stays a     *)
(* lower bound of the figures (executor.ts:334, stats.ts:66-68).           *)
THEOREM PrintedCorrectness == Spec => []PrintedIsLowerBound
<1>1. Init => PrintedIsLowerBound
  BY DEF Init, PrintedIsLowerBound
<1>2. ASSUME IndInv, IndInv', CostsAgree, PrintedIsLowerBound, [Next]_vars
      PROVE  PrintedIsLowerBound'
  <2>1. /\ printed \in [total : Nat, paid : Nat, agreements : Nat \cup {-1}]
        /\ getAllCosts.total \in Nat /\ getAllCosts.paid \in Nat
        /\ Cardinality(agreements) \in Nat
    BY <1>2, CostsAreNumbers DEF IndInv, TypeOK
  <2>2. /\ getAllCosts'.total \in Nat /\ getAllCosts'.paid \in Nat
        /\ Cardinality(agreements') \in Nat
    BY <1>2, FiguresGrow
  <2>3. CASE PrintStats
    <3>1. printed' = [total |-> getAllCosts.total, paid |-> getAllCosts.paid,
                      agreements |-> Cardinality(agreements)]
      BY <1>2, <2>3, CostsAreNumbers DEF PrintStats, IndInv
    <3>2. getAllCosts.paid <= getAllCosts.total
      BY <1>2 DEF CostsAgree
    <3>3. QED
      BY <1>2, <3>1, <3>2, FiguresGrow DEF PrintedIsLowerBound
  <2>4. CASE ~PrintStats
    <3>1. printed' = printed
      BY <1>2, <2>4 DEF Next, MarketStep, PaymentStep, Ready, Shutdown, BeforeEnd,
         StartupTimeout, OfferProposalReceived, OfferProposalRejected,
         AgreementApproved, InvoiceReceived, InvoiceAccepted, TaskCompleted,
         TaskCompletedUncredited, vars,
         executorVars
    <3>2. QED
      BY <1>2, <2>1, <2>2, <3>1, FiguresGrow DEF PrintedIsLowerBound
  <2>5. QED
    BY <2>3, <2>4
<1>3. IndInv => CostsAgree
  BY CostsHold
<1>4. QED
  BY <1>1, <1>2, <1>3, Invariance, PTL DEF Spec

-----------------------------------------------------------------------------
(* The startup timeout.                                                    *)

(* The numbers that the startup timeout reads stand for the sets.          *)
LEMMA ProposalsAreCounted ==
  ASSUME IndInv
  PROVE  /\ getProposalsCount.confirmed = 0 <=> offered \cap DraftProposals = {}
         /\ offered = proposals =>
              LET initial == offered \cap InitialProposals IN
                /\ getProposalsCount.initial = 0 <=> initial = {}
                /\ getProposalsCount.initial = getProposalsCount.rejected
                     <=> initial \subseteq refused
<1>1. /\ IsFiniteSet(InitialProposals) /\ IsFiniteSet(DraftProposals)
  BY StatsAssumption
<1>2. /\ ProposalsAgree
      /\ refused \subseteq InitialProposals
  BY DEF IndInv, TypeOK
<1>3. /\ getProposalsCount.confirmed = Cardinality(proposals \cap DraftProposals)
      /\ getProposalsCount.initial = Cardinality(proposals \cap InitialProposals)
      /\ getProposalsCount.rejected = Cardinality(proposalsRejected)
  BY DEF getProposalsCount
<1>4. getProposalsCount.confirmed = 0 <=> offered \cap DraftProposals = {}
  <2>1. proposals \cap DraftProposals = offered \cap DraftProposals
    BY <1>2 DEF ProposalsAgree
  <2>2. IsFiniteSet(offered \cap DraftProposals)
    BY <1>1, FS_Subset, offered \cap DraftProposals \in SUBSET DraftProposals
  <2>3. QED
    BY <1>3, <2>1, <2>2, FS_EmptySet
<1>5. ASSUME offered = proposals
      PROVE  LET initial == offered \cap InitialProposals IN
               /\ getProposalsCount.initial = 0 <=> initial = {}
               /\ getProposalsCount.initial = getProposalsCount.rejected
                    <=> initial \subseteq refused
  <2> DEFINE initial == offered \cap InitialProposals
  <2>1. proposalsRejected = refused /\ refused \subseteq initial
    BY <1>2, <1>5 DEF ProposalsAgree
  <2>2. getProposalsCount.initial = Cardinality(initial)
    BY <1>3, <1>5
  <2>3. initial \in SUBSET InitialProposals
    OBVIOUS
  <2> HIDE DEF initial
  <2>4. IsFiniteSet(initial)
    BY <1>1, <2>3, FS_Subset
  <2>5. Cardinality(initial) = 0 <=> initial = {}
    BY <2>4, FS_EmptySet
  <2>6. Cardinality(initial) = Cardinality(refused) <=> initial \subseteq refused
    BY <2>1, <2>4, FS_Subset
  <2>7. QED
    BY <1>3, <2>1, <2>2, <2>5, <2>6 DEF initial
<1>6. QED
  BY <1>4, <1>5

(* Only the startup timeout gives a hint.                                  *)
LEMMA HintComesWithTimeout ==
  [Next]_vars /\ hint' # hint =>
    /\ StartupTimeout
    /\ getProposalsCount.confirmed = 0
    /\ hint' = Hint
BY DEF Next, MarketStep, PaymentStep, Ready, Shutdown, StartupTimeout, PrintStats,
   OfferProposalReceived, OfferProposalRejected, AgreementApproved, InvoiceReceived,
   InvoiceAccepted, TaskCompleted, TaskCompletedUncredited, vars,
   executorVars

(* The executor is stopped by its startup timeout only while no provider   *)
(* has confirmed a proposal.                                               *)
THEOREM StartupTimeoutCorrectness == Spec => StartupTimeoutIsJustified
<1>1. ASSUME IndInv, [Next]_vars, startupTimeoutId, ~startupTimeoutId'
      PROVE  /\ hint' # hint => offered \cap DraftProposals = {}
             /\ phase' = "ready" => offered \cap DraftProposals # {}
  <2>1. hint' # hint => offered \cap DraftProposals = {}
    BY <1>1, HintComesWithTimeout, ProposalsAreCounted
  <2>2. phase = "ready"
    BY <1>1 DEF IndInv, NothingComesEarly
  <2>3. Shutdown \/ StartupTimeout
    <3>1. ~UNCHANGED startupTimeoutId
      BY <1>1
    <3>2. QED
      BY <1>1, <2>2, <3>1 DEF Next, MarketStep, PaymentStep, Ready, PrintStats,
         OfferProposalReceived, OfferProposalRejected, AgreementApproved,
         InvoiceReceived, InvoiceAccepted, TaskCompleted,
         TaskCompletedUncredited, vars, executorVars
  <2>4. phase' = "ready" => getProposalsCount.confirmed # 0
    BY <2>3 DEF Shutdown, StartupTimeout, BeforeEnd
  <2>5. QED
    BY <1>1, <2>1, <2>4, ProposalsAreCounted
<1>2. IndInv /\ [Next]_vars =>
        [startupTimeoutId /\ ~startupTimeoutId' =>
           /\ hint' # hint => offered \cap DraftProposals = {}
           /\ phase' = "ready" => offered \cap DraftProposals # {}]_vars
  BY <1>1
<1>3. QED
  BY <1>2, Invariance, PTL DEF Spec, StartupTimeoutIsJustified

(* Its hint is true if no proposal came before the subscription.           *)
THEOREM HintCorrectness == Spec => HintIsTrue
<1>1. ASSUME IndInv, [Next]_vars, hint' # hint, offered = proposals
      PROVE  LET initial == offered \cap InitialProposals IN
               CASE hint' = "demand too restrictive" -> initial = {}
                 [] hint' = "all rejected" -> initial # {} /\ initial \subseteq refused
                 [] OTHER -> ~(initial \subseteq refused)
  <2>1. hint' = Hint
    BY <1>1, HintComesWithTimeout
  <2> DEFINE initial == offered \cap InitialProposals
  <2>2. /\ getProposalsCount.initial = 0 <=> initial = {}
        /\ getProposalsCount.initial = getProposalsCount.rejected
             <=> initial \subseteq refused
    BY <1>1, ProposalsAreCounted
  <2> HIDE DEF initial
  <2>3. CASE initial = {}
    <3>1. hint' = "demand too restrictive"
      BY <2>1, <2>2, <2>3 DEF Hint
    <3>2. QED
      BY <2>3, <3>1 DEF initial
  <2>4. CASE initial # {} /\ initial \subseteq refused
    <3>1. hint' = "all rejected"
      BY <2>1, <2>2, <2>4 DEF Hint
    <3>2. QED
      BY <2>4, <3>1 DEF initial
  <2>5. CASE ~(initial \subseteq refused)
    <3>1. hint' = "filters too restrictive"
      BY <2>1, <2>2, <2>5 DEF Hint
    <3>2. QED
      BY <2>5, <3>1 DEF initial
  <2>6. QED
    BY <2>3, <2>4, <2>5
<1>2. IndInv /\ [Next]_vars =>
        [hint' # hint /\ offered = proposals =>
           LET initial == offered \cap InitialProposals IN
             CASE hint' = "demand too restrictive" -> initial = {}
               [] hint' = "all rejected" -> initial # {} /\ initial \subseteq refused
               [] OTHER -> ~(initial \subseteq refused)]_vars
  BY <1>1
<1>3. QED
  BY <1>2, Invariance, PTL DEF Spec, HintIsTrue
=============================================================================
