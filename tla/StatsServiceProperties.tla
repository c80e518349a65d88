----------------------- MODULE StatsServiceProperties -----------------------
(***************************************************************************)
(* What the figures of StatsService are worth: they agree with what has    *)
(* happened, although each is derived from what the listeners have heard,  *)
(* by counting keys and comparing the lengths of lists.                    *)
(***************************************************************************)
EXTENDS StatsService

Proposals == InitialProposals \cup DraftProposals
Hints == {"demand too restrictive", "all rejected", "filters too restrictive"}

InvoicesOf(a) == {i \in Invoices : AgreementOf[i] = a}

(* Every variable has a value of its type.                                 *)
TypeOK ==
  /\ phase \in {"starting", "ready", "ending", "ended"}
  /\ startupTimeoutId \in BOOLEAN
  /\ hint \in Hints \cup {"none"}
  /\ printed \in [total : Nat, paid : Nat, agreements : Nat \cup {-1}]
  /\ timeInfo \subseteq {"startTime", "stopTime", "duration"}
  /\ offered \subseteq Proposals /\ proposals \subseteq Proposals
  /\ refused \subseteq InitialProposals
  /\ proposalsRejected \subseteq InitialProposals
  /\ received \subseteq Invoices /\ accepted \subseteq Invoices
  /\ agreements \subseteq Agreements
  /\ invoices \in [Agreements -> SUBSET Invoices]
  /\ payments \in [Agreements -> SUBSET Invoices]
  /\ completed \subseteq Tasks
  /\ tasksCompleted \in [Agreements -> SUBSET Tasks]

(* The status of an agreement, decided by comparing two lengths, is right: *)
(* "paid" if it has invoices and all of them are accepted, "unpaid" if     *)
(* none is.                                                                *)
PaymentStatusIsTrue ==
  \A a \in agreements :
    LET due == InvoicesOf(a) \cap received IN
      /\ PaymentStatus(a) = "paid" <=> due # {} /\ due \subseteq accepted
      /\ PaymentStatus(a) = "unpaid" <=> due \cap accepted = {}

(* The totals are those of the invoices received and accepted, no more is  *)
(* paid than is due, and the rows of the summary add up to the total.      *)
CostsAgree ==
  /\ getAllCosts.total = CostOf(received)
  /\ getAllCosts.paid = CostOf(accepted)
  /\ getAllCosts.paid <= getAllCosts.total
  /\ getAllCosts.total =
       SumFunction([a \in agreements |-> getAllCostsSummary[a].cost])

(* The numbers of getAll, differences of numbers of keys, are never        *)
(* negative and count what the summary shows: agreements without a         *)
(* payment, agreements without an invoice; and the payment rate is never   *)
(* above 1, and is 1 when no agreement is shown as unpaid.                 *)
FiguresAgree ==
  LET all == getAll
      rows == getAllCostsSummary IN
    /\ all.invoicesUnpaid =
         Cardinality({a \in agreements :
                        invoices[a] # {} /\ rows[a].status = "unpaid"})
    /\ all.invoicesMissing =
         Cardinality({a \in agreements : InvoicesOf(a) \cap received = {}})
    /\ all.invoicesPaid <= all.agreements
    /\ all.providers <= all.agreements
    /\ all.invoicePaymentRate[1] <= all.invoicePaymentRate[2]
    /\ all.invoicePaymentRate[1] = all.invoicePaymentRate[2] <=>
         \A a \in agreements : rows[a].status # "unpaid"

(* What doShutdown prints is never more than what getStats reports later:  *)
(* invoices may still come in and be accepted, none is taken back.         *)
PrintedIsLowerBound ==
  printed # NotPrinted =>
    /\ printed.paid <= printed.total
    /\ printed.paid <= getAllCosts.paid
    /\ printed.total <= getAllCosts.total
    /\ printed.agreements <= Cardinality(agreements)

-----------------------------------------------------------------------------
(* The startup timeout stops the executor only while no provider has       *)
(* confirmed a proposal, and lets it go on only if one has: what           *)
(* executor.ts:450-452 says.  The documentation of the option, at :109-117, *)
(* says that it only warns unless exitOnNoProposals is set; there is no    *)
(* such option.                                                            *)
StartupTimeoutIsJustified ==
  [][startupTimeoutId /\ ~startupTimeoutId' =>
       /\ hint' # hint => offered \cap DraftProposals = {}
       /\ phase' = "ready" => offered \cap DraftProposals # {}]_vars

(* The hint it gives is true if no proposal came before the subscription:  *)
(* none was offered; some were and all got rejected; some were not.        *)
HintIsTrue ==
  [][hint' # hint /\ offered = proposals =>
       LET initial == offered \cap InitialProposals IN
         CASE hint' = "demand too restrictive" -> initial = {}
           [] hint' = "all rejected" -> initial # {} /\ initial \subseteq refused
           [] OTHER -> ~(initial \subseteq refused)]_vars
=============================================================================
