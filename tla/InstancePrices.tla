--------------------------- MODULE InstancePrices ---------------------------
(***************************************************************************)
(* GetInstancePrices (src/internal/aws/catalog.go) and the price calls it  *)
(* shares with the market feed (src/internal/aws/ondemand.go).  The types  *)
(* asked for, or all the catalog has in the region, are asked of the Price *)
(* List API in batches, whose documents come page by page and in no        *)
(* promised order; what is not priced in the end is named in a warning.    *)
(***************************************************************************)
EXTENDS CatalogQueries

S == INSTANCE SequencesExt

CONSTANTS
  LengthOf,       \* the length of a spelling, without blanks around it
  MaxItems, MaxLength,   \* onDemandPriceBatchSize, maxAnyOfFilterLength
  Amounts,        \* what a document may say of the hourly price in dollars
  MaxAsked, MaxDocuments   \* bounds: types asked for, documents of a batch

ASSUME LengthAssumption == LengthOf \in [Spellings -> Nat]
ASSUME AskedAssumption == MaxAsked \in Nat /\ MaxDocuments \in Nat
ASSUME LimitAssumption == MaxItems \in Nat \ {0} /\ MaxLength \in Nat \ {0}

TypeLists == UNION {[1..n -> Spellings] : n \in 0..MaxAsked}
NoAmount == -1    \* no dimension of the document has an hourly price in dollars

(* A document of the price list: the region it gives may be this one,        *)
(* another or none.                                                          *)
Documents == [type: Spellings, region: {"this", "other", "none"},
              amount: Amounts \cup {NoAmount}]
Prices == [type: Spellings, amount: Amounts]

VARIABLES
  askedTypes, priceRegion, dollars,   \* the request: its types, whether it wants dollars
  place,
  wanted,            \* the types to price
  batches,           \* those still to ask for, in batches
  sent,              \* history: those asked for
  documents,         \* documents of this batch read
  found, results,    \* prices of this batch; of those before it
  priced, missing,   \* the answer: its items; the types it warns about
  offered            \* history: what usable documents said
priceRequest == <<askedTypes, priceRegion, dollars>>
priceAnswer == <<priced, missing>>
priceVars == <<priceRequest, place, wanted, batches, sent, documents, found, results,
               priceAnswer, offered>>

PriceTypeOK ==
  /\ askedTypes \in TypeLists /\ priceRegion \in Codes /\ dollars \in BOOLEAN
  /\ place \in {"items", "batch", "page", "done", "failed"}
  /\ wanted \in Seq(Spellings \ {Blank})
  /\ batches \in Seq(Seq(Spellings \ {Blank})) /\ sent \in Seq(Spellings \ {Blank})
  /\ documents \in 0..MaxDocuments
  /\ found \subseteq Prices /\ results \subseteq Prices /\ priced \subseteq Prices
  /\ missing \subseteq Spellings
  /\ offered \subseteq Prices

-----------------------------------------------------------------------------
(* dedupeNormalizedStrings: the first spelling of each type is kept.         *)
Keep(kept, s) == IF s = Blank \/ KeyOf[s] \in Keys(kept) THEN kept ELSE Append(kept, s)
Dedupe(sequence) ==
  LET kept[n \in 0..Len(sequence)] ==
        IF n = 0 THEN << >> ELSE Keep(kept[n - 1], sequence[n])
  IN kept[Len(sequence)]

(* A variant of Room that forgets the comma.                                 *)
RoomWithoutComma(batch, length, s) ==
  Len(batch) < MaxItems /\ (batch = << >> \/ length + LengthOf[s] <= MaxLength)

(* There is room for one more in a batch of this joined length.              *)
Room(batch, length, s) ==
  Len(batch) < MaxItems /\ (batch = << >> \/ length + 1 + LengthOf[s] <= MaxLength)

(* chunkInstanceTypesForPricing: a batch is flushed when the next type does  *)
(* not fit, and after the last.                                              *)
Empty == [full |-> << >>, batch |-> << >>, length |-> 0]
Pack(packed, s) ==
  IF Room(packed.batch, packed.length, s)
    THEN [packed EXCEPT
            !.batch = Append(@, s),
            !.length = @ + LengthOf[s] + (IF packed.batch = << >> THEN 0 ELSE 1)]
    ELSE [full |-> Append(packed.full, packed.batch),
          batch |-> <<s>>, length |-> LengthOf[s]]
Chunks(sequence) ==
  LET packed[n \in 0..Len(sequence)] ==
        IF n = 0 THEN Empty ELSE Pack(packed[n - 1], sequence[n])
      last == packed[Len(sequence)]
  IN IF last.batch = << >> THEN last.full ELSE Append(last.full, last.batch)

(* A map from keys to prices: a later entry replaces an earlier one.         *)
With(map, new) == {p \in map : \A n \in new : KeyOf[n.type] # KeyOf[p.type]} \cup new

(* parseOnDemandPrice.                                                       *)
Usable(d) == d.type # Blank /\ d.region # "other" /\ d.amount # NoAmount

(* buildMissingPriceWarnings.                                                *)
Unpriced(map) ==
  {askedTypes[i] : i \in {j \in DOMAIN askedTypes :
     \A p \in map : KeyOf[p.type] # KeyOf[askedTypes[j]]}}

(* The region has a name, by itself or with a type (findRegionName,          *)
(* findRegionNameAcrossSnapshot).                                            *)
Titled ==
  \/ \E n \in regionNames : n.code = priceRegion
  \/ \E r \in regionsByType : r.code = priceRegion /\ r.name # Blank

(* marketInstanceTypesForRegion: in some fixed order.                        *)
TypesOfRegion == S!SetToSeq({r.type : r \in {s \in regionsByType : s.code = priceRegion}})

Answer(map) == place' = "done" /\ priced' = map /\ missing' = Unpriced(map)

-----------------------------------------------------------------------------
(* Another currency: every type is missing, and nothing is looked up.        *)
OtherCurrency ==
  /\ place = "items" /\ priceRegion # Blank /\ ~dollars
  /\ Answer({})
  /\ UNCHANGED <<priceRequest, wanted, batches, sent, documents, found,
                 results, offered>>

(* getOnDemandPrices: the types, and the region's name, without which a      *)
(* price cannot be asked for.                                                *)
ResolveItems ==
  /\ Ready /\ place = "items" /\ priceRegion # Blank /\ dollars
  /\ LET items == IF Dedupe(askedTypes) = << >> THEN TypesOfRegion
                                                ELSE Dedupe(askedTypes) IN
       /\ wanted' = items
       /\ \/ items = << >> /\ Answer({}) /\ UNCHANGED batches
          \/ /\ items # << >> /\ Titled
             /\ place' = "batch" /\ batches' = Chunks(items)
             /\ UNCHANGED <<priced, missing>>
          \/ /\ items # << >> /\ ~Titled
             /\ place' = "failed" /\ UNCHANGED <<priced, missing, batches>>
  /\ UNCHANGED <<priceRequest, sent, documents, found, results, offered>>

(* fetchOnDemandPriceBatch.                                                  *)
NextBatch ==
  /\ place = "batch" /\ batches # << >> /\ place' = "page"
  /\ documents' = 0 /\ found' = {} /\ sent' = sent \o Head(batches)
  /\ UNCHANGED <<priceRequest, wanted, batches, results, priceAnswer, offered>>

(* The next document of whichever page: the API gives those of the types in  *)
(* the batch, and of types without a name.                                   *)
ReadDocument ==
  /\ place = "page" /\ documents < MaxDocuments
  /\ documents' = documents + 1
  /\ \E d \in Documents :
       /\ KeyOf[d.type] \in Keys(Head(batches)) \cup {Blank}
       /\ LET new == IF Usable(d) THEN {[type |-> d.type, amount |-> d.amount]} ELSE {} IN
            found' = With(found, new) /\ offered' = offered \cup new
  /\ UNCHANGED <<priceRequest, place, wanted, batches, sent, results,
                 priceAnswer>>

(* A variant of EndBatch that keeps the last batch only.                     *)
EndBatchLast ==
  /\ place = "page" /\ place' = "batch"
  /\ results' = found /\ batches' = Tail(batches)
  /\ UNCHANGED <<priceRequest, wanted, sent, documents, found, priceAnswer,
                 offered>>

EndBatch ==
  /\ place = "page" /\ place' = "batch"
  /\ results' = With(results, found) /\ batches' = Tail(batches)
  /\ UNCHANGED <<priceRequest, wanted, sent, documents, found, priceAnswer,
                 offered>>

(* The prices of the types wanted.                                           *)
Return ==
  /\ place = "batch" /\ batches = << >>
  /\ Answer({p \in results : KeyOf[p.type] \in Keys(wanted)})
  /\ UNCHANGED <<priceRequest, wanted, batches, sent, documents, found,
                 results, offered>>

(* The request names no region, no account or another way to buy; or the     *)
(* catalog, the client or a page fails, a document does not parse, or the    *)
(* context ends: nothing of what was found is returned.                      *)
PricesFail ==
  /\ place \in {"items", "batch", "page"}
  /\ place' = "failed"
  /\ UNCHANGED <<priceRequest, wanted, batches, sent, documents, found,
                 results, priceAnswer, offered>>

-----------------------------------------------------------------------------
PriceInit ==
  /\ CatalogInit
  /\ askedTypes \in TypeLists /\ priceRegion \in Codes /\ dollars \in BOOLEAN
  /\ place = "items"
  /\ wanted = << >> /\ batches = << >> /\ sent = << >> /\ documents = 0
  /\ found = {} /\ results = {} /\ priced = {} /\ missing = {} /\ offered = {}

GetInstancePrices ==
  /\ \/ OtherCurrency \/ ResolveItems \/ NextBatch \/ ReadDocument \/ EndBatch
     \/ Return \/ PricesFail
  /\ UNCHANGED catalogVars

(* A call, on a catalog that may still be read when it arrives.              *)
PriceNext ==
  \/ (ReadMetadata \/ ReadRegion) /\ UNCHANGED priceVars
  \/ GetInstancePrices
PriceSpec == PriceInit /\ [][PriceNext]_<<catalogVars, priceVars>>

-----------------------------------------------------------------------------
JoinedLength(batch) ==
  LET length[n \in 0..Len(batch)] ==
        IF n = 0 THEN -1 ELSE length[n - 1] + 1 + LengthOf[batch[n]]
  IN length[Len(batch)]

(* Every type wanted is asked for in one batch, and under one spelling, and  *)
(* no batch is beyond what the API takes, unless a single name is            *)
(* (dedupeNormalizedStrings, chunkInstanceTypesForPricing).                  *)
EachAskedOnce ==
  /\ \A i \in DOMAIN batches :
       /\ Len(batches[i]) \in 1..MaxItems
       /\ Len(batches[i]) = 1 \/ JoinedLength(batches[i]) <= MaxLength
  /\ place = "batch" => sent \o S!FlattenSeq(batches) = wanted
  /\ \A i, j \in DOMAIN wanted : KeyOf[wanted[i]] = KeyOf[wanted[j]] => i = j

(* An answer has one price for every type asked for of which a document of   *)
(* any page of any batch gave one, however the request, the catalog and the  *)
(* documents write its name, and it warns about all others asked for and     *)
(* about no type that is priced (getOnDemandPrices,                          *)
(* buildMissingPriceWarnings).                                               *)
PricedOrMissing ==
  place = "done" =>
    /\ \A o \in offered :
         KeyOf[o.type] \in Keys(wanted) =>
           Cardinality({p \in priced : KeyOf[p.type] = KeyOf[o.type]}) = 1
    /\ priced \subseteq offered
    /\ \A i \in DOMAIN askedTypes :
         askedTypes[i] \in missing <=> \A p \in priced : KeyOf[p.type] # KeyOf[askedTypes[i]]
=============================================================================
