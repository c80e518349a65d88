---------------------------- MODULE StatsService ----------------------------
(***************************************************************************)
(* The StatsService class (src/src/stats.ts): what it collects from the    *)
(* events of golem-js and of the executor, the figures it derives, and the *)
(* two places of executor.ts that read them: the startup timeout and the   *)
(* report printed by doShutdown.                                           *)
(*                                                                         *)
(* The events come from the market, the payments and the task service at   *)
(* any time; the statistics hear them from the end of init() on, and never *)
(* stop listening.  The variables of the market say what has happened, the *)
(* variables of the class what it has been told.                           *)
(***************************************************************************)
EXTENDS Integers, FiniteSets, Functions

CONSTANTS
  Agreements, Invoices, Tasks,
  AgreementOf,        \* the agreement each invoice is for
  Amount,             \* the amount of each invoice
  ProviderOf,         \* the provider of each agreement
  InitialProposals,   \* the offers the market sends
  DraftProposals,     \* the offers providers confirm in answer to ours
  EarlyProposals,     \* the initial proposals that may come before manyOf
                      \* resolves
  HasStartupTimeout,  \* is ExecutorConfig.startupTimeout a non-zero number?
  ListenersAheadThrow \* may a listener of the user that was added before
                      \* init() throw?  Then those of the statistics are
                      \* not called for that event.

ASSUME StatsAssumption ==
  /\ IsFiniteSet(Agreements) /\ IsFiniteSet(Invoices) /\ IsFiniteSet(Tasks)
  /\ IsFiniteSet(InitialProposals) /\ IsFiniteSet(DraftProposals)
  /\ AgreementOf \in [Invoices -> Agreements]
  /\ Amount \in [Invoices -> Nat]
  /\ InitialProposals \cap DraftProposals = {}
  /\ EarlyProposals \subseteq InitialProposals
  /\ {HasStartupTimeout, ListenersAheadThrow} \subseteq BOOLEAN

VARIABLES
  phase,              \* "starting", "ready", "ending" or "ended"
  startupTimeoutId,   \* is the startup timer armed?
  hint,               \* the hint of the startup timeout, or "none"
  printed,            \* the costs printed by doShutdown, or NotPrinted
  offered, refused,   \* golem-js: the proposals received, those rejected
  received, accepted, \* golem-js: the invoices received, those accepted
  completed,          \* task service: the tasks it has reported as completed
  tasksCompleted, agreements, invoices, payments,
  proposals, proposalsRejected,
  timeInfo            \* the fields of TimeInfo that are set

executorVars == <<phase, startupTimeoutId, hint, printed, timeInfo>>
marketVars == <<offered, refused, proposals, proposalsRejected>>
paymentVars == <<received, accepted, invoices, payments>>
taskVars == <<completed, tasksCompleted>>
vars == <<executorVars, marketVars, paymentVars, taskVars, agreements>>

NotPrinted == [total |-> 0, paid |-> 0, agreements |-> -1]

Init ==
  /\ phase = "starting"
  /\ startupTimeoutId = FALSE
  /\ hint = "none"
  /\ printed = NotPrinted
  /\ offered = {} /\ refused = {}
  /\ received = {} /\ accepted = {}
  /\ completed = {}
  /\ tasksCompleted = [a \in Agreements |-> {}]
  /\ agreements = {}
  /\ invoices = [a \in Agreements |-> {}]
  /\ payments = [a \in Agreements |-> {}]
  /\ proposals = {} /\ proposalsRejected = {}
  /\ timeInfo = {}

(* Have the listeners of the statistics been added?                        *)
Subscribed == phase # "starting"

-----------------------------------------------------------------------------
(* The figures.  A map has a key once its array has an element.            *)

Keys(map) == {a \in Agreements : map[a] # {}}

(* The providers are set together with the agreements.                     *)
providers == {ProviderOf[a] : a \in agreements}

CostOf(S) == SumFunctionOnSet(Amount, S)

(* Mutant of getAllCosts: all invoices of an agreement with a payment.     *)
getAllCostsOfPaidAgreements ==
  [total |-> CostOf(UNION {invoices[a] : a \in agreements}),
   paid |-> CostOf(UNION {invoices[a] : a \in Keys(payments)})]

getAllCosts ==
  [total |-> CostOf(UNION {invoices[a] : a \in agreements}),
   paid |-> CostOf(UNION {payments[a] : a \in agreements})]

(* Mutant of PaymentStatus: the first payment pays the agreement.          *)
PaymentStatusOfFirst(a) ==
  IF payments[a] = {} THEN "unpaid" ELSE "paid"

PaymentStatus(a) ==
  IF payments[a] = {} THEN "unpaid"
  ELSE IF Cardinality(payments[a]) = Cardinality(invoices[a]) THEN "paid"
  ELSE "partially-paid"

(* One row per agreement.                                                  *)
getAllCostsSummary ==
  [a \in agreements |->
    [provider |-> ProviderOf[a],
     tasks |-> Cardinality(tasksCompleted[a]),
     cost |-> CostOf(invoices[a]),
     status |-> PaymentStatus(a)]]

(* A quotient stands for its two numbers: it is NaN if both are zero, as   *)
(* in JavaScript.                                                          *)
invoicePaymentRate == <<Cardinality(Keys(payments)), Cardinality(agreements)>>

(* Mutant of getAll: the invoices paid are taken from the agreements.      *)
getAllFromAgreements ==
  [providers |-> Cardinality(providers),
   agreements |-> Cardinality(agreements),
   invoicesReceived |-> Cardinality(Keys(invoices)),
   invoicesPaid |-> Cardinality(Keys(payments)),
   invoicesUnpaid |-> Cardinality(agreements) - Cardinality(Keys(payments)),
   invoicesMissing |-> Cardinality(agreements) - Cardinality(Keys(invoices)),
   invoicePaymentRate |-> invoicePaymentRate]

getAll ==
  [providers |-> Cardinality(providers),
   agreements |-> Cardinality(agreements),
   invoicesReceived |-> Cardinality(Keys(invoices)),
   invoicesPaid |-> Cardinality(Keys(payments)),
   invoicesUnpaid |-> Cardinality(Keys(invoices)) - Cardinality(Keys(payments)),
   invoicesMissing |-> Cardinality(agreements) - Cardinality(Keys(invoices)),
   invoicePaymentRate |-> invoicePaymentRate]

(* Mutant of getProposalsCount: every proposal counts as confirmed.        *)
getProposalsCountOfAll ==
  [confirmed |-> Cardinality(proposals),
   initial |-> Cardinality(proposals \cap InitialProposals),
   rejected |-> Cardinality(proposalsRejected)]

getProposalsCount ==
  [confirmed |-> Cardinality(proposals \cap DraftProposals),
   initial |-> Cardinality(proposals \cap InitialProposals),
   rejected |-> Cardinality(proposalsRejected)]

-----------------------------------------------------------------------------
(* The executor.                                                           *)

(* init() after manyOf: statsService.run(), the startup timer, and         *)
(* executorReady, which a listener ahead may keep from the statistics.     *)
Ready ==
  /\ phase = "starting"
  /\ phase' = "ready"
  /\ startupTimeoutId' = HasStartupTimeout
  /\ \/ timeInfo' = {"startTime"}
     \/ ListenersAheadThrow /\ UNCHANGED timeInfo
  /\ UNCHANGED <<hint, printed, marketVars, paymentVars, taskVars, agreements>>

(* doShutdown up to its first await.                                       *)
BeforeEnd ==
  /\ phase = "ready"
  /\ phase' = "ending"
  /\ startupTimeoutId' = FALSE
  /\ timeInfo' = timeInfo \cup {"stopTime"} \cup
       (IF "startTime" \in timeInfo THEN {"duration"} ELSE {})
  /\ UNCHANGED <<printed, marketVars, paymentVars, taskVars, agreements>>

Shutdown == BeforeEnd /\ UNCHANGED hint

(* Mutant of Hint: the tests come in the wrong order.                      *)
HintOfRejectedFirst ==
  LET count == getProposalsCount IN
    IF count.initial = count.rejected THEN "all rejected"
    ELSE IF count.initial = 0 THEN "demand too restrictive"
    ELSE "filters too restrictive"

(* The hint of the startup timeout.                                        *)
Hint ==
  LET count == getProposalsCount IN
    IF count.initial = 0 THEN "demand too restrictive"
    ELSE IF count.initial = count.rejected THEN "all rejected"
    ELSE "filters too restrictive"

(* The startup timer is due.                                               *)
StartupTimeout ==
  /\ startupTimeoutId
  /\ \/ /\ getProposalsCount.confirmed = 0
        /\ hint' = Hint
        /\ BeforeEnd
     \/ /\ getProposalsCount.confirmed # 0
        /\ startupTimeoutId' = FALSE
        /\ UNCHANGED <<phase, hint, printed, timeInfo, marketVars, paymentVars,
                       taskVars, agreements>>

(* Mutant of PrintStats: the two sums are swapped.                         *)
PrintStatsSwapped ==
  /\ phase = "ending"
  /\ phase' = "ended"
  /\ printed' = [total |-> getAllCosts.paid, paid |-> getAllCosts.total,
                 agreements |-> Cardinality(DOMAIN getAllCostsSummary)]
  /\ UNCHANGED <<startupTimeoutId, hint, timeInfo, marketVars, paymentVars,
                 taskVars, agreements>>

(* printStats, once golem-js is disconnected, and executorEnd.             *)
PrintStats ==
  /\ phase = "ending"
  /\ phase' = "ended"
  /\ printed' = [total |-> getAllCosts.total, paid |-> getAllCosts.paid,
                 agreements |-> Cardinality(DOMAIN getAllCostsSummary)]
  /\ UNCHANGED <<startupTimeoutId, hint, timeInfo, marketVars, paymentVars,
                 taskVars, agreements>>

-----------------------------------------------------------------------------
(* The events.  That each proposal, agreement and invoice is announced     *)
(* once, that only initial proposals are filtered, that a draft answers an *)
(* initial proposal, and that an invoice is accepted after it is received, *)
(* is assumed of golem-js.                                                 *)

(* offerProposalReceived                                                   *)
OfferProposalReceived(p) ==
  /\ p \notin offered
  /\ Subscribed \/ p \in EarlyProposals
  /\ p \in DraftProposals => offered \cap (InitialProposals \ refused) # {}
  /\ offered' = offered \cup {p}
  /\ proposals' = IF Subscribed THEN proposals \cup {p} ELSE proposals
  /\ UNCHANGED <<executorVars, paymentVars, taskVars, agreements, refused,
                 proposalsRejected>>

(* offerProposalRejectedByProposalFilter, offerProposalRejectedByPriceFilter *)
OfferProposalRejected(p) ==
  /\ p \in offered \ refused
  /\ refused' = refused \cup {p}
  /\ proposalsRejected' = IF Subscribed THEN proposalsRejected \cup {p}
                                        ELSE proposalsRejected
  /\ UNCHANGED <<executorVars, paymentVars, taskVars, agreements, offered,
                 proposals>>

(* agreementApproved: the pool signs agreements once the task service asks *)
(* it to, so never before the end of init().                               *)
AgreementApproved(a) ==
  /\ Subscribed
  /\ a \notin agreements
  /\ agreements' = agreements \cup {a}
  /\ UNCHANGED <<executorVars, marketVars, paymentVars, taskVars>>

(* invoiceReceived                                                         *)
InvoiceReceived(i) ==
  LET a == AgreementOf[i] IN
    /\ a \in agreements
    /\ i \notin received
    /\ received' = received \cup {i}
    /\ invoices' = [invoices EXCEPT ![a] = @ \cup {i}]
    /\ UNCHANGED <<executorVars, marketVars, taskVars, agreements, accepted,
                   payments>>

(* invoiceAccepted                                                         *)
InvoiceAccepted(i) ==
  /\ i \in received \ accepted
  /\ accepted' = accepted \cup {i}
  /\ payments' = [payments EXCEPT ![AgreementOf[i]] = @ \cup {i}]
  /\ UNCHANGED <<executorVars, marketVars, taskVars, agreements, received,
                 invoices>>

(* Mutant of TaskCompleted: the agreement is listed instead of the task.   *)
TaskCompletedByAgreement(t, a) ==
  /\ a \in agreements
  /\ t \notin completed
  /\ completed' = completed \cup {t}
  /\ tasksCompleted' = [tasksCompleted EXCEPT ![a] = @ \cup {a}]
  /\ UNCHANGED <<executorVars, marketVars, paymentVars, agreements>>

(* taskCompleted, of a task that is credited to agreement a.  A listener   *)
(* ahead may keep it from the statistics.                                  *)
TaskCompleted(t, a) ==
  /\ a \in agreements
  /\ t \notin completed
  /\ completed' = completed \cup {t}
  /\ \/ tasksCompleted' = [tasksCompleted EXCEPT ![a] = @ \cup {t}]
     \/ ListenersAheadThrow /\ UNCHANGED tasksCompleted
  /\ UNCHANGED <<executorVars, marketVars, paymentVars, agreements>>

(* taskCompleted of a task without an agreement, which is not recorded.    *)
TaskCompletedUncredited(t) ==
  /\ Subscribed
  /\ t \notin completed
  /\ completed' = completed \cup {t}
  /\ UNCHANGED <<executorVars, marketVars, paymentVars, tasksCompleted,
                 agreements>>

-----------------------------------------------------------------------------
MarketStep ==
  \/ \E p \in InitialProposals \cup DraftProposals : OfferProposalReceived(p)
  \/ \E p \in InitialProposals : OfferProposalRejected(p)
  \/ \E a \in Agreements : AgreementApproved(a)

PaymentStep == \E i \in Invoices : InvoiceReceived(i) \/ InvoiceAccepted(i)

Next ==
  \/ Ready \/ Shutdown \/ StartupTimeout \/ PrintStats
  \/ MarketStep \/ PaymentStep
  \/ \E t \in Tasks, a \in Agreements : TaskCompleted(t, a)
  \/ \E t \in Tasks : TaskCompletedUncredited(t)

Spec == Init /\ [][Next]_vars
=============================================================================
