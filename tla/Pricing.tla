------------------------------ MODULE Pricing ------------------------------
(***************************************************************************)
(* The pricing service (services/pricing): imports of catalog prices and    *)
(* billing charges, and the lookup of the price in effect.  imports is the  *)
(* sequence of requests of one tenant, oldest first, each a sequence of     *)
(* items; the i-th is ingested at time i, which is the version of its rows. *)
(* Provider, region, service, resource type and purchase option are one     *)
(* scope and do not appear.                                                 *)
(*                                                                          *)
(* A price is [account, sku, unit, start, end, label, price]: label is its  *)
(* price_version, and end may be NoEnd.  A charge is [id, account, period,  *)
(* start, end, net].                                                        *)
(***************************************************************************)
EXTENDS Integers, Sequences, FiniteSets

CONSTANTS NoEnd,            \* effective_end is null
          Malformed,        \* a value that is not a decimal string
          MaxImportBatch    \* maxImportBatch

CatalogPriceInput ==
  [account : STRING, sku : STRING, unit : STRING, start : Nat, end : Nat \cup {NoEnd},
   label : STRING, price : Nat \cup {Malformed}]

BillingChargeInput ==
  [id : STRING, account : STRING, period : Nat, start : Nat, end : Nat,
   net : Nat \cup {Malformed}]

\* A request for the price in effect; at is 0 when it names no time.
EffectivePriceRequest == [account : STRING, sku : STRING, unit : STRING, at : Nat]

\* validateCatalogPrice; normalizeCatalogPrice only trims and changes case.
ValidateCatalogPrice(p) ==
  /\ p.sku # "" /\ p.unit # "" /\ p.label # "" /\ p.price # Malformed
  /\ p.end # NoEnd => p.end > p.start

\* validateBillingCharge: the sku and the resource of a charge are optional.
ValidateBillingCharge(c) ==
  c.id # "" /\ c.account # "" /\ c.net # Malformed /\ c.period # 0 /\ c.start # 0 /\ c.start < c.end

\* The item may be inserted into the table, "prices" or "charges".
Validates(table, item) ==
  IF table = "prices" THEN ValidateCatalogPrice(item) ELSE ValidateBillingCharge(item)

\* importCatalogPrices, importBillingCharges: the items of a request that are
\* inserted, all of them or, when one does not validate, none.
AcceptedItems(table, request) ==
  IF Len(request) \in 1..MaxImportBatch /\ \A k \in DOMAIN request : Validates(table, request[k])
  THEN DOMAIN request ELSE {}

\* The rows the imports left in a table: catalogPriceRow, billingChargeRow and
\* the batches of the repository.
TableRows(table, imports) ==
  UNION {{[item |-> imports[i][k], version |-> i, position |-> k] :
             k \in AcceptedItems(table, imports[i])} : i \in DOMAIN imports}

Supersedes(a, b) ==
  a.version > b.version \/ (a.version = b.version /\ a.position > b.position)

\* The ORDER BY of the tables; the unit of a price is not part of it.
CatalogKey(p) == <<p.account, p.sku, p.start, p.label>>

ChargeKey(c) == <<c.account, c.period, c.id>>

RowKey(table, item) == IF table = "prices" THEN CatalogKey(item) ELSE ChargeKey(item)

\* FINAL of a ReplacingMergeTree(version): the last row inserted for a key.
Final(table, rows) ==
  {r \in rows : ~\E s \in rows : RowKey(table, s.item) = RowKey(table, r.item) /\ Supersedes(s, r)}

\* The rows a query of the table with FINAL reads.
CurrentRows(table, imports) == Final(table, TableRows(table, imports))

Matches(p, q) ==
  /\ p.unit = q.unit /\ p.start <= q.at /\ (p.end = NoEnd \/ p.end > q.at)
  /\ p.account \in {q.account, ""} /\ p.sku \in {q.sku, ""}

Score(p, q) == (IF p.account = q.account THEN 1 ELSE 0) + (IF p.sku = q.sku THEN 1 ELSE 0)

\* Fault variant: the start of the interval is compared first.
RanksByStart(a, b, q) ==
  \/ a.item.start > b.item.start
  \/ a.item.start = b.item.start /\ Score(a.item, q) > Score(b.item, q)

\* The ORDER BY of effectiveCatalogPriceSQL: a comes before b.
Ranks(a, b, q) ==
  \/ Score(a.item, q) > Score(b.item, q)
  \/ /\ Score(a.item, q) = Score(b.item, q)
     /\ \/ a.item.start > b.item.start
        \/ a.item.start = b.item.start /\ a.version > b.version

\* The rows LIMIT 1 may return; equal rows come in no particular order.
EffectiveCatalogPrice(imports, q) ==
  LET rows == {r \in CurrentRows("prices", imports) : Matches(r.item, q)}
  IN  {r \in rows : ~\E s \in rows : Ranks(s, r, q)}

\* effectivePriceQueryFromRequest: a lookup without a unit is refused, and one
\* without a time (0) asks about the time of the request.
EffectivePriceQueries(r, now) ==
  IF r.unit = "" THEN {} ELSE {[r EXCEPT !.at = IF @ = 0 THEN now ELSE @]}

\* effectiveCatalogPrice: the handler.
LookedUp(imports, r, now) ==
  UNION {EffectiveCatalogPrice(imports, q) : q \in EffectivePriceQueries(r, now)}

Charges(imports) == CurrentRows("charges", imports)
-----------------------------------------------------------------------------
\* The requests that were accepted.
Accepted(table, imports) ==
  {i \in DOMAIN imports : /\ Len(imports[i]) \in 1..MaxImportBatch
                          /\ \A k \in DOMAIN imports[i] : Validates(table, imports[i][k])}

\* Is item k of request i the last one accepted for its key?
IsLast(table, imports, i, k) ==
  \A j \in Accepted(table, imports) : \A m \in DOMAIN imports[j] :
    RowKey(table, imports[j][m]) = RowKey(table, imports[i][k]) => j < i \/ (j = i /\ m <= k)

\* The price found is in effect at the time asked about, it is the last
\* correction accepted for its interval (a correction that shortens an interval
\* withdraws the price, one in a rejected request changes nothing), and one for
\* the caller's account and sku is preferred to one for every account.
PriceIsInEffect(imports, asked, now) ==
  LET q == [asked EXCEPT !.at = IF asked.at = 0 THEN now ELSE @] IN
  \A r \in LookedUp(imports, asked, now) :
    /\ r.item.start <= q.at /\ (r.item.end = NoEnd \/ q.at < r.item.end)
    /\ r.version \in Accepted("prices", imports)
    /\ IsLast("prices", imports, r.version, r.position)
    /\ r.item.account # q.account =>
         ~\E s \in CurrentRows("prices", imports) :
            Matches(s.item, q) /\ s.item.account = q.account /\ s.item.sku = q.sku

\* However often a charge is imported again it counts once, with what the last
\* accepted request said.
ChargesCountOnce(imports) ==
  /\ \A a, b \in Charges(imports) : a.item.id = b.item.id /\ a.item.account = b.item.account
                                    /\ a.item.period = b.item.period => a = b
  /\ \A i \in Accepted("charges", imports) : \A k \in DOMAIN imports[i] :
       \E r \in Charges(imports) : r.item.id = imports[i][k].id
=============================================================================
