----------------------------- MODULE Components -----------------------------
(***************************************************************************)
(* The parts that share no state with another, side by side.  A behaviour   *)
(* is about one of them, its topic, which Init chooses.  Validation of      *)
(* observations, the metrics sampler and the lifecycle of a process run as  *)
(* their modules say.  The others compute a result from an input: a step    *)
(* gives them an input, and their properties speak of what they make of it. *)
(***************************************************************************)
EXTENDS ObservationValidation, MetricsSampler, ServiceLifecycle, Allocation, Rightsizing,
        Pricing, Karpenter, QueryAPI, LineageNormalizer, IngestionAuth

CONSTANT Inputs            \* the inputs of each topic that computes

\* What the decoders of the requests, and the API server, hand over: records of
\* these types, in sequences and sets that end.
ASSUME InputsAssumption ==
  /\ "prices" \in DOMAIN Inputs =>
       Inputs["prices"] \subseteq
         [imports : Seq(Seq(CatalogPriceInput)), lookup : EffectivePriceRequest, now : Nat]
  /\ "charges" \in DOMAIN Inputs => Inputs["charges"] \subseteq Seq(Seq(BillingChargeInput))
  /\ "karpenter" \in DOMAIN Inputs => \A x \in Inputs["karpenter"] : IsFiniteSet(x.claims)
  /\ "quality" \in DOMAIN Inputs =>
       \A x \in Inputs["quality"] :
         /\ DOMAIN x.latest \subseteq Sources \X Nat
         /\ \A k \in DOMAIN x.latest : x.latest[k] \in Nat \cup {NoTime}
         /\ x.now \in Nat /\ x.window \in Nat
  /\ "identity" \in DOMAIN Inputs =>
       \A x \in Inputs["identity"] :
         x.peer.uris \in Seq([scheme : STRING, host : STRING, parts : Seq(STRING)])

VARIABLES topic, input

componentVars == <<topic, input, vars, samplerVars, lifecycleVars>>

Machines == {"validation", "sampler", "lifecycle"}

\* The frame a behaviour on another topic leaves alone.
NoFrame == /\ hello = [tenant |-> FALSE, cluster |-> FALSE, instance |-> FALSE]
           /\ batch = [id |-> FALSE, first |-> 0, last |-> 0, fits |-> FALSE,
                       checksum |-> FALSE, observations |-> <<>>]
           /\ through = 0 /\ stage = "refused"

ComponentsInit ==
  /\ topic \in Machines \cup DOMAIN Inputs
  /\ input = <<>>
  /\ IF topic = "validation" THEN Init ELSE NoFrame
  /\ SamplerInit
  /\ LifecycleInit /\ (topic # "lifecycle" => role = "grpc")

Compute ==
  /\ topic \in DOMAIN Inputs /\ input = <<>>
  /\ \E x \in Inputs[topic] : input' = <<x>>
  /\ UNCHANGED <<topic, vars, samplerVars, lifecycleVars>>

Validate == /\ topic = "validation" /\ Next
            /\ UNCHANGED <<topic, input, samplerVars, lifecycleVars>>

TakeSamples == /\ topic = "sampler" /\ SamplerNext
               /\ UNCHANGED <<topic, input, vars, lifecycleVars>>

Live == /\ topic = "lifecycle" /\ LifecycleNext
        /\ UNCHANGED <<topic, input, vars, samplerVars>>

ComponentsNext == Compute \/ Validate \/ TakeSamples \/ Live

\* A process that was told to stop does what Run and main do next.
ComponentsSpec ==
  /\ ComponentsInit /\ [][ComponentsNext]_componentVars
  /\ WF_componentVars(topic = "lifecycle" /\ Stopping /\ UNCHANGED <<topic, input, vars, samplerVars>>)
-----------------------------------------------------------------------------
On(t) == topic = t /\ input # <<>>

Given == Head(input)

\* What the hour's rows say of the nodes adds up to the price of every node with
\* requests (over-committed, idle or unknown to the inventory), the control
\* plane is charged once, and the system share is within the allocated cost:
\* allocateCosts charges nothing twice and leaves nothing over.  And
\* namespaceCostSQL, which serves the API, charges each namespace the same when
\* the inventory knows the nodes, and never more than the nodes it joined cost.
AllocationIsSound == On("allocation") => CostsAddUp(Given) /\ QueryAgrees(Given)

\* The requests recommended would have covered 95% of the hours of CPU and 99% of
\* those of memory, whatever the order of the samples and the gaps in them, and
\* the limits are no lower (recommend and currentConfiguration).  percentile
\* returns the least value that the given share does not exceed, also at the
\* lengths where the rank is whole.
RightsizingIsSafe ==
  /\ On("rightsizing") => RecommendationCoversUsage(Given)
  /\ On("percentile") => PercentileIsNearestRank(Given.values, Given.quantile)

\* effectiveCatalogPrice finds a price in effect at the time asked about, the last
\* correction accepted for its interval (one that shortens an interval withdraws
\* the price, one in a rejected request changes nothing), and prefers the
\* account's own price to one for every account.  However often
\* importBillingCharges is given a charge again, and whatever else its requests
\* hold, the charge counts once and is not lost.
ImportsTakeEffectOnce ==
  /\ On("prices") => PriceIsInEffect(Given.imports, Given.lookup, Given.now)
  /\ On("charges") => ChargesCountOnce(Given)

\* Whatever claims request of the capacity they report, Score stays between 0 and
\* 100, pool by pool and on average.  A pool whose claims are all ready gets one
\* score from binPackingScore and from nodeUtilizationScore: a claim that
\* requests more than its capacity makes up for an idle one in neither.
ScoresAgree == On("karpenter") => ScoresAreBounded(Given) /\ ScoresAgreeWhenReady(Given)

\* Following next_cursor to the end, with any limits on the way, shows every group
\* of usage, costs or allocation once and in order, and the groups add up to the
\* facts in scope, those of namespaces that left the inventory included.
\* summarizeDataQuality calls these data fresh only when both sources report and
\* no cluster's signal is older than the window, and its data_through is a time
\* that every signal has reached.
AnswersAreWhole ==
  /\ On("pages") => PagesCoverEveryGroup(Given.kind, Given.facts, Given.teams, Given.request,
                                         Given.limits)
  /\ On("quality") => QualityIsHonest(Given.latest, Given.cluster, Given.now, Given.window)

\* Once the lineage normalizer has been applied the current view shows an object
\* under its namespace's UID; however often the tool runs among observations that
\* arrive in any order, what the view shows is the latest of them.
LineageRepaired == On("lineage") => NormalizingKeepsLatest(Given.history, Given.known)

\* With mTLS a certificate is good for one cluster of one tenant, whichever other
\* names it carries: MTLSAuthenticator accepts no two different hellos from it.
OneClusterPerCertificate ==
  On("identity") => OneIdentityPerCertificate(Given.peer, Given.agents)
=============================================================================
