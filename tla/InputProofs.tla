----------------------------- MODULE InputProofs -----------------------------
(*****************************************************************************)
(* Proofs about the parts of Components that compute a result, for inputs of  *)
(* any size: the imports of prices and charges and the price in effect, the   *)
(* cluster a certificate is good for, the data-quality summary, and the       *)
(* scores of node pools whose claims are ready.                               *)
(*****************************************************************************)
EXTENDS Components, ComponentProofs, FiniteSetTheorems

\* The provers, in this order, and the seconds each may spend on a step; each
\* has a second, longer try.
USE ZenonT(30), SMTT(30), ZenonT(60), SMTT(60)
-----------------------------------------------------------------------------
(* QueryAPI: the data-quality summary. *)

\* A set of times has an earliest.
LEMMA EarliestIsFirst ==
  ASSUME NEW S \in SUBSET Nat, NEW s \in S
  PROVE  EarliestOf(S) \in S /\ \A t \in S : EarliestOf(S) <= t
<1>1. PICK x \in S : \A y \in S : ~(<<y, x>> \in OpToRel(<, Nat))
  BY WFMin, NatLessThanWellFounded
<1>2. ASSUME NEW y \in S PROVE x <= y
  <2>1. ~(<<y, x>> \in OpToRel(<, Nat))
    BY <1>1
  <2>2. x \in Nat /\ y \in Nat
    OBVIOUS
  <2>3. ~(y < x)
    BY <2>1, <2>2 DEF OpToRel
  <2> QED BY SMTT(60), <2>2, <2>3
<1>3. \E z \in S : \A y \in S : z =< y
  BY <1>2
<1> QED BY <1>3 DEF EarliestOf, Min

\* The age of a signal, as time.Since with max.
LEMMA AgeIsMax ==
  ASSUME NEW a \in Int
  PROVE  Max({0, a}) \in Int /\ a <= Max({0, a})
<1>1. \E x \in {0, a} : \A y \in {0, a} : x >= y
  OBVIOUS
<1>2. Max({0, a}) \in {0, a} /\ \A y \in {0, a} : Max({0, a}) >= y
  BY <1>1 DEF Max
<1> QED BY <1>2

\* summarizeDataQuality is honest about what the signals say.
LEMMA QualityHonest ==
  ASSUME NEW latest, DOMAIN latest \subseteq Sources \X Nat,
         \A k \in DOMAIN latest : latest[k] \in Nat \cup {NoTime},
         NEW cluster, NEW now \in Nat, NEW window \in Nat
  PROVE  QualityIsHonest(latest, cluster, now, window)
<1> DEFINE signals == QualitySignals(latest, cluster)
           summary == DataQuality(latest, cluster, now, window)
           times == {s.at : s \in signals}
           stale == {s \in signals : Max({0, now - s.at}) > window}
           missing == Sources \ {s.source : s \in signals}
<1>1. \A s \in signals : s.at \in Nat /\ s.source \in Sources
  BY DEF QualitySignals
<1>2. summary = IF signals = {}
      THEN [status |-> "empty", percent |-> 0, missing |-> Sources, through |-> NoTime]
      ELSE [status |-> IF stale # {} \/ missing # {} THEN "stale" ELSE "fresh",
            percent |-> IF missing # {} THEN 50 ELSE 100,
            missing |-> missing, through |-> EarliestOf(times)]
  BY DEF DataQuality, SummarizeDataQuality
<1> HIDE DEF signals, summary
<1>3. summary.status = "fresh" => signals # {} /\ stale = {} /\ missing = {}
  BY <1>2
<1>4. summary.status = "fresh" =>
        /\ {s.source : s \in signals} = Sources
        /\ \A s \in signals : now - s.at <= window
  <2> SUFFICES ASSUME summary.status = "fresh"
               PROVE  /\ {s.source : s \in signals} = Sources
                      /\ \A s \in signals : now - s.at <= window
    OBVIOUS
  <2>1. {s.source : s \in signals} = Sources
    BY <1>1, <1>3
  <2>2. ASSUME NEW s \in signals PROVE now - s.at <= window
    <3>1. ~(Max({0, now - s.at}) > window)
      BY <1>3
    <3>2. now - s.at \in Int
      BY <1>1
    <3> DEFINE age == now - s.at
    <3> HIDE DEF age
    <3>3. Max({0, age}) \in Int /\ age <= Max({0, age})
      BY <3>2, AgeIsMax DEF age
    <3>4. now - s.at <= Max({0, now - s.at}) /\ Max({0, now - s.at}) \in Int
      BY <3>3 DEF age
    <3> QED BY SMTT(60), <3>1, <3>2, <3>4
  <2> QED BY <2>1, <2>2
<1>5. times \in SUBSET Nat
  BY <1>1
<1>6. ASSUME NEW s \in signals
      PROVE  EarliestOf(times) \in Nat /\ EarliestOf(times) <= s.at
  <2>1. s.at \in times
    OBVIOUS
  <2> HIDE DEF times
  <2>2. EarliestOf(times) \in times /\ EarliestOf(times) <= s.at
    BY <1>5, <2>1, EarliestIsFirst
  <2> QED BY <1>5, <2>2
<1>7. signals # {} => summary.through = EarliestOf(times)
  BY <1>2
<1>8. signals = {} => summary.through = NoTime
  BY <1>2
<1>9. (summary.through = NoTime) = (signals = {})
  BY <1>6, <1>7, <1>8, NoTimeAssumption
<1>10. \A s \in signals : summary.through <= s.at
  BY <1>6, <1>7
<1> QED BY Zenon, <1>4, <1>9, <1>10 DEF QualityIsHonest, signals, summary
-----------------------------------------------------------------------------
(* Karpenter: the scores of a pool. *)

\* The claims of a snapshot are as finite as the list they come from.
LEMMA ClaimsAreFinite ==
  ASSUME NEW api, IsFiniteSet(api.claims)
  PROVE  IsFiniteSet(Snapshot(api).claims)
<1> DEFINE S == api.claims
           T == {ParseNodeClaim(c, api) : c \in S}
           f == [c \in S |-> ParseNodeClaim(c, api)]
<1>1. f \in Surjection(S, T)
  BY DEF Surjection
<1>2. Snapshot(api).claims = T
  BY DEF Snapshot
<1>3. IsFiniteSet(S)
  OBVIOUS
<1> HIDE DEF S, T, f
<1>4. IsFiniteSet(T)
  BY <1>1, <1>3, FS_Surjection
<1> QED BY <1>2, <1>4

\* binPackingScore averages over the ready claims, nodeUtilizationScore over all of
\* them: when all are ready the two are the same average of bounded loads.
LEMMA SameScore ==
  ASSUME NEW claims, {c \in claims : c.ready} = claims
  PROVE  BinPackingScore(claims) = NodeUtilizationScore(claims)
BY Zenon DEF BinPackingScore, NodeUtilizationScore, Mean, Load

\* A pool is as ready as it is large only when every one of its claims is ready.
LEMMA PoolsAgree ==
  ASSUME NEW api, IsFiniteSet(api.claims)
  PROVE  ScoresAgreeWhenReady(api)
<1> DEFINE snapshot == Snapshot(api)
<1> SUFFICES ASSUME NEW s \in KarpenterScores(snapshot).pools, s.ready = s.count
             PROVE  s.binPacking = s.utilization
  BY DEF ScoresAgreeWhenReady
<1>1. IsFiniteSet(snapshot.claims)
  BY ClaimsAreFinite
<1> HIDE DEF snapshot
<1>2. PICK p \in snapshot.pools : s = ScoreNodePool(p, {c \in snapshot.claims : c.pool = p.name})
  BY DEF KarpenterScores
<1> DEFINE claims == {c \in snapshot.claims : c.pool = p.name}
           ready == {c \in claims : c.ready}
<1>3. /\ s.ready = Cardinality(ready) /\ s.count = Cardinality(claims)
      /\ s.binPacking = BinPackingScore(claims) /\ s.utilization = NodeUtilizationScore(claims)
  BY <1>2 DEF ScoreNodePool
<1>4. claims \in SUBSET snapshot.claims /\ ready \in SUBSET claims
  OBVIOUS
<1>5. IsFiniteSet(claims)
  <2> HIDE DEF claims
  <2> QED BY <1>1, <1>4, FS_Subset
<1>6. ready = claims
  <2> HIDE DEF claims, ready
  <2> QED BY <1>3, <1>4, <1>5, FS_Subset
<1>7. BinPackingScore(claims) = NodeUtilizationScore(claims)
  BY <1>6, SameScore
<1> QED BY <1>3, <1>7
-----------------------------------------------------------------------------
(* The inputs of a behaviour of Components. *)

\* The inductive invariant: what has been computed was computed from an input of
\* the topic.
InputInv == input = <<>> \/ (topic \in DOMAIN Inputs /\ \E x \in Inputs[topic] : input = <<x>>)

\* So of every reachable state.
LEMMA InputsAreGiven == ComponentsSpec => []InputInv
<1>1. ComponentsInit => InputInv
  BY DEF ComponentsInit, InputInv
<1>2. InputInv /\ [ComponentsNext]_componentVars => InputInv'
  <2> SUFFICES ASSUME InputInv, [ComponentsNext]_componentVars PROVE InputInv'
    OBVIOUS
  <2>1. CASE Compute
    BY <2>1 DEF Compute, InputInv
  <2>2. (Validate \/ TakeSamples \/ Live \/ UNCHANGED componentVars) => UNCHANGED <<topic, input>>
    BY DEF Validate, TakeSamples, Live, componentVars
  <2>3. CASE UNCHANGED <<topic, input>>
    BY <2>3 DEF InputInv
  <2> QED BY <2>1, <2>2, <2>3 DEF ComponentsNext
<1> QED BY <1>1, <1>2, PTL DEF ComponentsSpec

\* The input a property speaks of is one of its topic.
LEMMA GivenIsInput ==
  ASSUME NEW t, InputInv, On(t)
  PROVE  t \in DOMAIN Inputs /\ Given \in Inputs[t]
<1>1. topic = t /\ input # <<>>
  BY DEF On
<1>2. PICK x \in Inputs[topic] : input = <<x>>
  BY <1>1 DEF InputInv
<1>3. topic \in DOMAIN Inputs
  BY <1>1 DEF InputInv
<1>4. Head(<<x>>) = x
  BY SMTT(60)
<1> QED BY <1>1, <1>2, <1>3, <1>4 DEF Given

\* importCatalogPrices, importBillingCharges and effectiveCatalogPrice, for any
\* number of requests of any size: the price found is in effect and the last one
\* accepted for its interval, the caller's own before one for every account, and
\* a charge that is imported again counts once and is not lost.
THEOREM ImportsCountOnce == ComponentsSpec => []ImportsTakeEffectOnce
<1>1. InputInv => ImportsTakeEffectOnce
  <2>1. ASSUME InputInv, On("prices")
        PROVE  PriceIsInEffect(Given.imports, Given.lookup, Given.now)
    <3>1. "prices" \in DOMAIN Inputs /\ Given \in Inputs["prices"]
      BY Zenon, <2>1, GivenIsInput
    <3>2. Given \in [imports : Seq(Seq(CatalogPriceInput)), lookup : EffectivePriceRequest, now : Nat]
      BY Zenon, <3>1, InputsAssumption
    <3> DEFINE g == Given
    <3>3. g \in [imports : Seq(Seq(CatalogPriceInput)), lookup : EffectivePriceRequest, now : Nat]
      BY <3>2
    <3> HIDE DEF g
    <3>4. /\ g.imports \in Seq(Seq(CatalogPriceInput)) /\ g.lookup \in EffectivePriceRequest
          /\ g.now \in Nat
      BY <3>3
    <3>5. PriceIsInEffect(g.imports, g.lookup, g.now)
      BY <3>4, PriceFound
    <3> QED BY <3>5 DEF g
  <2>2. ASSUME InputInv, On("charges") PROVE ChargesCountOnce(Given)
    <3>1. "charges" \in DOMAIN Inputs /\ Given \in Inputs["charges"]
      BY Zenon, <2>2, GivenIsInput
    <3>2. Given \in Seq(Seq(BillingChargeInput))
      BY Zenon, <3>1, InputsAssumption
    <3> QED BY <3>2, ChargesOnce
  <2> QED BY <2>1, <2>2 DEF ImportsTakeEffectOnce
<1> QED BY <1>1, InputsAreGiven, PTL

\* MTLSAuthenticator.Authenticate, for certificates with any number of URI names:
\* one certificate is good for one cluster of one tenant.
THEOREM CertificatesNameOneCluster == ComponentsSpec => []OneClusterPerCertificate
<1>1. InputInv => OneClusterPerCertificate
  <2> SUFFICES ASSUME InputInv, On("identity")
               PROVE  OneIdentityPerCertificate(Given.peer, Given.agents)
    BY DEF OneClusterPerCertificate
  <2>1. "identity" \in DOMAIN Inputs /\ Given \in Inputs["identity"]
    BY Zenon, GivenIsInput
  <2>2. Given.peer.uris \in Seq([scheme : STRING, host : STRING, parts : Seq(STRING)])
    BY Zenon, <2>1, InputsAssumption
  <2> DEFINE names == Given.peer.uris
             who == Given.peer
  <2>3. Len(names) \in Nat /\ DOMAIN names = 1 .. Len(names)
    <3> HIDE DEF names
    <3>1. ASSUME NEW S, names \in Seq(S) PROVE Len(names) \in Nat /\ DOMAIN names = 1 .. Len(names)
      BY SMTT(60), <3>1
    <3> QED BY <2>2, <3>1 DEF names
  <2>4. DOMAIN who.uris = 1 .. Len(names)
    BY <2>3
  <2> HIDE DEF names, who
  <2>5. \A agents : OneIdentityPerCertificate(who, agents)
    BY <2>3, <2>4, CertificateHasOneCluster
  <2> QED BY <2>5 DEF who
<1> QED BY <1>1, InputsAreGiven, PTL

\* summarizeDataQuality, for any number of clusters and signals: it says fresh only
\* when both sources report and no signal is older than the window, and
\* data_through is a time every signal has reached.
THEOREM QualityIsReportedHonestly ==
  ComponentsSpec =>
    [](On("quality") => QualityIsHonest(Given.latest, Given.cluster, Given.now, Given.window))
<1>1. InputInv =>
        (On("quality") => QualityIsHonest(Given.latest, Given.cluster, Given.now, Given.window))
  <2> SUFFICES ASSUME InputInv, On("quality")
               PROVE  QualityIsHonest(Given.latest, Given.cluster, Given.now, Given.window)
    OBVIOUS
  <2> DEFINE g == Given
  <2>1. "quality" \in DOMAIN Inputs /\ g \in Inputs["quality"]
    BY Zenon, GivenIsInput
  <2> HIDE DEF g
  <2>2. /\ DOMAIN g.latest \subseteq Sources \X Nat
        /\ \A k \in DOMAIN g.latest : g.latest[k] \in Nat \cup {NoTime}
        /\ g.now \in Nat /\ g.window \in Nat
    BY Zenon, <2>1, InputsAssumption
  <2>3. QualityIsHonest(g.latest, g.cluster, g.now, g.window)
    BY <2>2, QualityHonest
  <2> QED BY <2>3 DEF g
<1> QED BY <1>1, InputsAreGiven, PTL

\* scoreNodePool, for any number of pools and claims: a pool whose claims are all
\* ready gets one score from binPackingScore and from nodeUtilizationScore.
THEOREM ReadyPoolsAgree ==
  ComponentsSpec => [](On("karpenter") => ScoresAgreeWhenReady(Given))
<1>1. InputInv => (On("karpenter") => ScoresAgreeWhenReady(Given))
  <2> SUFFICES ASSUME InputInv, On("karpenter") PROVE ScoresAgreeWhenReady(Given)
    OBVIOUS
  <2> DEFINE g == Given
  <2>1. "karpenter" \in DOMAIN Inputs /\ g \in Inputs["karpenter"]
    BY Zenon, GivenIsInput
  <2> HIDE DEF g
  <2>2. IsFiniteSet(g.claims)
    BY Zenon, <2>1, InputsAssumption
  <2>3. ScoresAgreeWhenReady(g)
    BY <2>2, PoolsAgree
  <2> QED BY <2>3 DEF g
<1> QED BY <1>1, InputsAreGiven, PTL
=============================================================================
