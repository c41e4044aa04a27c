--------------------------- MODULE CatalogQueries ---------------------------
(***************************************************************************)
(* A catalog snapshot as it is read from its files (buildCatalogSnapshot   *)
(* in src/internal/aws/catalog.go), and the two calls that list it,        *)
(* ListInstanceTypes and GetInstanceTypeInfo.  How the files come to be on *)
(* the disk, and one snapshot replaces another, is CatalogCache.           *)
(* Series, generations and architectures stand for what normalizeToken     *)
(* makes of them, regions for what trimming does.                          *)
(***************************************************************************)
EXTENDS Integers, Sequences, FiniteSets

CONSTANTS
  Spellings,      \* how types are written, by a host, the catalog or AWS
  KeyOf,          \* normalizeToken of a spelling
  Blank,          \* the spelling of nothing, and its key
  SeriesNames, Generations, Architectures, Codes, Names,
  MetadataFiles, RegionFiles,   \* what the files may say, as sequences of records
  Filters         \* what the two calls may ask for

ASSUME SpellingAssumption ==
  Blank \in Spellings /\ KeyOf \in [Spellings -> Spellings]
  /\ \A s \in Spellings : KeyOf[s] = Blank <=> s = Blank
ASSUME FileAssumption ==
  /\ \A f \in MetadataFiles : f \in Seq([type: Spellings, series: SeriesNames,
       generation: Generations, architectures: SUBSET Architectures])
  /\ \A f \in RegionFiles : f \in Seq([type: Spellings, code: Codes, name: Names])
ASSUME FilterAssumption ==
  Filters \subseteq [types: Seq(Spellings), series: SUBSET SeriesNames, region: Codes,
                     generation: Generations, architectures: SUBSET Architectures]

VARIABLES
  metadataFile, regionFile,
  read,              \* records read of the one and then of the other
  metadataByType,    \* one record for every type
  regionsByType,     \* one record for every type and region
  regionNames,       \* one [code, name] for every region that has a name
  reply              \* the answer of a call
catalogVars == <<metadataFile, regionFile, read, metadataByType, regionsByType,
                 regionNames, reply>>

NoReply == [call |-> "none"]
Keys(sequence) == {KeyOf[sequence[i]] : i \in DOMAIN sequence}

CatalogTypeOK ==
  /\ metadataFile \in MetadataFiles /\ regionFile \in RegionFiles
  /\ read \in 0..Len(metadataFile) + Len(regionFile)
  /\ \A m, n \in metadataByType : m.type = n.type => m = n
  /\ \A r, s \in regionsByType : r.type = s.type /\ r.code = s.code => r = s
  /\ \A r, s \in regionNames : r.code = s.code => r = s
  /\ reply # NoReply =>
       reply.items \subseteq Spellings \ {Blank} /\ reply.told \subseteq Spellings \ {Blank}

-----------------------------------------------------------------------------
(* The metadata: the last record of a type counts.                           *)
ReadMetadata ==
  /\ read < Len(metadataFile) /\ read' = read + 1
  /\ LET r == metadataFile[read + 1] IN
       metadataByType' =
         IF r.type = Blank THEN metadataByType
                           ELSE {m \in metadataByType : m.type # r.type} \cup {r}
  /\ UNCHANGED <<metadataFile, regionFile, regionsByType, regionNames, reply>>

(* The next record of the regions.                                           *)
RegionRecord == regionFile[read + 1 - Len(metadataFile)]
IsSeen(r) == \E s \in regionsByType : s.type = r.type /\ s.code = r.code
NamesWith(r) ==
  IF r.name = Blank \/ \E n \in regionNames : n.code = r.code
    THEN regionNames
    ELSE regionNames \cup {[code |-> r.code, name |-> r.name]}

(* A variant that takes a region's name with the first record of a type.     *)
ReadRegionNameLate ==
  /\ Len(metadataFile) <= read /\ read < Len(metadataFile) + Len(regionFile)
  /\ read' = read + 1
  /\ LET r == RegionRecord
         skipped == r.type = Blank \/ r.code = Blank \/ IsSeen(r)
     IN /\ regionNames' = IF skipped THEN regionNames ELSE NamesWith(r)
        /\ regionsByType' = IF skipped THEN regionsByType ELSE regionsByType \cup {r}
  /\ UNCHANGED <<metadataFile, regionFile, metadataByType, reply>>

(* The regions: of a type's records for a region the first counts, of a      *)
(* region's names the first that is one.                                     *)
ReadRegion ==
  /\ Len(metadataFile) <= read /\ read < Len(metadataFile) + Len(regionFile)
  /\ read' = read + 1
  /\ LET r == RegionRecord
         skipped == r.type = Blank \/ r.code = Blank
     IN /\ regionNames' = IF skipped THEN regionNames ELSE NamesWith(r)
        /\ regionsByType' =
             IF skipped \/ IsSeen(r) THEN regionsByType ELSE regionsByType \cup {r}
  /\ UNCHANGED <<metadataFile, regionFile, metadataByType, reply>>

Ready == read = Len(metadataFile) + Len(regionFile)

-----------------------------------------------------------------------------
(* A filter of several values lets everything pass when all are blank.       *)
Passes(key, filter) == filter \subseteq {Blank} \/ key \in filter \ {Blank}
SupportsRegion(type, code) ==
  code = Blank \/ \E r \in regionsByType : r.type = type /\ r.code = code

(* matchesInstanceFilters.                                                   *)
MatchesInstanceFilters(m, q) ==
  /\ Passes(KeyOf[m.type], Keys(q.types))
  /\ Passes(m.series, q.series)
  /\ q.generation = Blank \/ m.generation = q.generation
  /\ SupportsRegion(m.type, q.region)
  /\ q.architectures \subseteq {Blank} \/ (m.architectures \cap q.architectures) \ {Blank} # {}

(* The filters as GetInstanceTypeInfo has them.                              *)
MatchesInfoFilters(m, q) ==
  /\ Passes(m.series, q.series)
  /\ Passes(KeyOf[m.type], Keys(q.types))
  /\ SupportsRegion(m.type, q.region)

(* A variant of MissingTypes that looks the type up as it is written.        *)
MissingTypesAsWritten(q) ==
  {q.types[i] : i \in {j \in DOMAIN q.types :
     q.types[j] # Blank /\ \A m \in metadataByType : m.type # q.types[j]}}

(* buildMissingTypeWarnings.                                                 *)
MissingTypes(q) ==
  {q.types[i] : i \in {j \in DOMAIN q.types :
     q.types[j] # Blank /\ \A m \in metadataByType : KeyOf[m.type] # KeyOf[q.types[j]]}}

(* A call changes nothing that another reads: one of them is enough.         *)
Reply(call, q, found) ==
  /\ Ready /\ reply = NoReply
  /\ reply' = [call |-> call, filters |-> q, items |-> {m.type : m \in found},
               told |-> MissingTypes(q)]
  /\ UNCHANGED <<metadataFile, regionFile, read, metadataByType, regionsByType, regionNames>>

ListInstanceTypes(q) ==
  Reply("list", q, {m \in metadataByType : MatchesInstanceFilters(m, q)})
GetInstanceTypeInfo(q) ==
  Reply("info", q, {m \in metadataByType : MatchesInfoFilters(m, q)})

CatalogInit ==
  /\ metadataFile \in MetadataFiles /\ regionFile \in RegionFiles /\ read = 0
  /\ metadataByType = {} /\ regionsByType = {} /\ regionNames = {}
  /\ reply = NoReply

CatalogNext ==
  \/ ReadMetadata \/ ReadRegion
  \/ \E q \in Filters : ListInstanceTypes(q) \/ GetInstanceTypeInfo(q)
CatalogSpec == CatalogInit /\ [][CatalogNext]_catalogVars

-----------------------------------------------------------------------------
InFile(s) == \E i \in DOMAIN metadataFile : metadataFile[i].type = s
OfferedIn(s, code) ==
  \E i \in DOMAIN regionFile : regionFile[i].type = s /\ regionFile[i].code = code

(* Either call answers for the files, in whatever order their records come   *)
(* and however often one repeats another.  A type asked for is named in a    *)
(* warning just if the files do not know it, in whatever case it is asked    *)
(* for.  What is listed is in the files, asked for and in the region, and    *)
(* where there is no other filter all of that is listed; the two calls, each *)
(* with filters of its own, disagree only over what one of them is not       *)
(* asked.  Of a known type that the region or another filter leaves out,     *)
(* neither call says a word (buildCatalogSnapshot, matchesInstanceFilters,   *)
(* GetInstanceTypeInfo, buildMissingTypeWarnings).                           *)
AnswersTheFiles ==
  reply # NoReply =>
    LET q == reply.filters
        Asked(s) == Keys(q.types) \subseteq {Blank} \/ KeyOf[s] \in Keys(q.types)
        bare == q.series = {} /\ q.generation = Blank /\ q.architectures = {}
    IN /\ \A s \in reply.items :
            InFile(s) /\ Asked(s) /\ (q.region = Blank \/ OfferedIn(s, q.region))
       /\ \A s \in Spellings \ {Blank} :
            bare /\ InFile(s) /\ Asked(s) /\ (q.region = Blank \/ OfferedIn(s, q.region))
              => s \in reply.items
       /\ \A i \in DOMAIN q.types : q.types[i] # Blank =>
            (q.types[i] \in reply.told
               <=> \A s \in Spellings : InFile(s) => KeyOf[s] # KeyOf[q.types[i]])
       /\ LET more == {m.type : m \in {n \in metadataByType : MatchesInfoFilters(n, q)}} IN
            IF reply.call = "info" \/ (q.generation = Blank /\ q.architectures \subseteq {Blank})
              THEN reply.items = more ELSE reply.items \subseteq more

(* A region that any usable record names has a name, and a name that one of  *)
(* its records gave; no type knows a name of it where the regions do not, so *)
(* that prices can be asked for wherever the files allow it                  *)
(* (buildCatalogSnapshot, findRegionNameAcrossSnapshot).                     *)
NamesKnown ==
  Ready =>
    LET Titles(code) ==
          {regionFile[i].name : i \in {j \in DOMAIN regionFile :
             regionFile[j].code = code /\ regionFile[j].type # Blank}} \ {Blank}
    IN /\ \A code \in Codes \ {Blank} :
            Titles(code) # {} <=> \E n \in regionNames : n.code = code
       /\ \A n \in regionNames : n.name \in Titles(n.code)
       /\ \A r \in regionsByType :
            r.name # Blank => \E n \in regionNames : n.code = r.code
=============================================================================
