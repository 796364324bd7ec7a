-------------------------------- MODULE Catalogue --------------------------------
(***************************************************************************)
(* The catalogue: the seasons of a plant, and the plants, lands, types of  *)
(* land and service packages themselves (plants.service.ts,                *)
(* lands.service.ts, servicesPackage.service.ts).                          *)
(* A handler checks names, months and limits, and saves a row whole; what  *)
(* it checks differs from table to table, and so does what the database    *)
(* refuses.  Tables do not depend on one another, so that a behaviour is   *)
(* about one of them.                                                      *)
(***************************************************************************)
EXTENDS Calls, FiniteSets

CONSTANTS
  Season,         \* plants_season rows of one plant
  Month,          \* months they may start in
  Entry,          \* rows of another table
  Name            \* their names; of a package, the services it is made of

ASSUME CatalogueAssumption == Season \cap Entry = {}

VARIABLES
  table,          \* the table the behaviour is about; never changes
  season,         \* the seasons
  entry,          \* the rows of the table
  decided         \* history: the status last decided for a row

catalogue == <<table, season, entry, decided>>

-----------------------------------------------------------------------------
NoRow == [status |-> "none"]

Named == {"plants", "lands", "lands_type", "services_package"}

SeasonType == {"in_season", "out_season"}
SeasonRow  == [month: Month, type: SeasonType, status: {"active", "deleted"}]

LandStatus     == {"free", "booked", "repairing"}
StatusOf(t)    == IF t = "lands" THEN LandStatus ELSE {"active", "inactive"}
FirstStatus(t) == IF t = "lands" THEN "free" ELSE "active"
EntryRow == [name: Name, status: UNION {StatusOf(t) : t \in Named}]

InsertSeason == [op: {"insertSeason"}, month: Month, type: SeasonType]
PutSeason    == [op: {"saveSeason"}, s: Season, row: SeasonRow]
InsertEntry  == [op: {"insertEntry"}, name: Name]
PutEntry     == [op: {"saveEntry"}, i: Entry, row: EntryRow]
CatalogueWork == {Idle} \cup InsertSeason \cup PutSeason \cup InsertEntry
                   \cup PutEntry

CatalogueTypeOK ==
  /\ table \in Named \cup {"plants_season"}
  /\ season \in [Season -> SeasonRow \cup {NoRow}]
  /\ entry \in [Entry -> EntryRow \cup {NoRow}]
  /\ work \in [Call -> CatalogueWork]
  /\ accidents \in Nat
  /\ serial \in BOOLEAN

CatalogueInit ==
  /\ table \in Named \cup {"plants_season"}
  /\ season = [s \in Season |-> NoRow]
  /\ entry = [i \in Entry |-> NoRow]
  /\ decided = [i \in Season \cup Entry |-> "none"]
  /\ CallsInit

-----------------------------------------------------------------------------
\* A handler goes on with a write; decided is kept for calls that do not overlap,
\* while none has failed.
Write(c, w) ==
  /\ Start(c, w)
  /\ UNCHANGED <<table, season, entry>>

Decide(i, s) ==
  decided' = IF serial /\ accidents = 0 THEN [decided EXCEPT ![i] = s]
                                        ELSE decided

-----------------------------------------------------------------------------
Seasons == {s \in Season : season[s] # NoRow}
OfType(type) == {s \in Seasons : season[s].type = type}

\* createPlantSeason, updatePlantSeason: those that are deleted count.
RoomFor(type) ==
  Cardinality(OfType(type)) < (IF type = "in_season" THEN 1 ELSE 2)

CreatePlantSeason(c, month, type) ==
  /\ \A s \in OfType(type) : season[s].month # month
  /\ RoomFor(type)
  /\ Write(c, [op |-> "insertSeason", month |-> month, type |-> type])
  /\ UNCHANGED decided

SaveNewSeason(c) ==
  /\ work[c].op = "insertSeason"
  /\ \E s \in Season \ Seasons :
       /\ season' = [season EXCEPT ![s] =
            [month |-> work[c].month, type |-> work[c].type, status |-> "active"]]
       /\ Decide(s, "active")
  /\ Goto(c, Idle)
  /\ UNCHANGED <<table, entry>>

UpdatePlantSeason(c, s, month, type) ==
  /\ s \in Seasons
  /\ type # season[s].type => RoomFor(type)
  /\ \A r \in Seasons \ {s} : season[r].month # month
  /\ Write(c, [op |-> "saveSeason", s |-> s,
               row |-> [season[s] EXCEPT !.month = month, !.type = type]])
  /\ UNCHANGED decided

\* The save is not awaited.
RemovePlantSeason(c, s) ==
  /\ season[s].status = "active"
  /\ Write(c, [op |-> "saveSeason", s |-> s,
               row |-> [season[s] EXCEPT !.status = "deleted"]])
  /\ Decide(s, "deleted")

SaveSeason(c) ==
  /\ work[c].op = "saveSeason"
  /\ season' = [season EXCEPT ![work[c].s] = work[c].row]
  /\ Goto(c, Idle)
  /\ UNCHANGED <<table, entry, decided>>

-----------------------------------------------------------------------------
Entries == {i \in Entry : entry[i] # NoRow}

Taken(name, rows) == \E j \in rows : entry[j].name = name

\* The columns that are unique: plants.name and lands.name.
Refused(name, others) == table \in {"plants", "lands"} /\ Taken(name, others)

\* A new row has a name that no row had.
CreateEntry(c, name) ==
  /\ ~Taken(name, Entries)
  /\ Write(c, [op |-> "insertEntry", name |-> name])
  /\ UNCHANGED decided

CreatePlant(c, name)          == table = "plants" /\ CreateEntry(c, name)
CreateLand(c, name)           == table = "lands" /\ CreateEntry(c, name)
CreateLandType(c, name)       == table = "lands_type" /\ CreateEntry(c, name)
CreateServicePackage(c, name) == table = "services_package" /\ CreateEntry(c, name)

SaveNewEntry(c) ==
  /\ work[c].op = "insertEntry"
  /\ \/ /\ Refused(work[c].name, Entries)
        /\ UNCHANGED <<entry, decided>>
     \/ /\ ~Refused(work[c].name, Entries)
        /\ \E i \in Entry \ Entries :
             /\ entry' = [entry EXCEPT ![i] =
                  [name |-> work[c].name, status |-> FirstStatus(table)]]
             /\ Decide(i, FirstStatus(table))
  /\ Goto(c, Idle)
  /\ UNCHANGED <<table, season>>

\* The row as it was read, edited, is written back whole.
Edit(c, i, name) ==
  /\ Write(c, [op |-> "saveEntry", i |-> i, row |-> [entry[i] EXCEPT !.name = name]])
  /\ UNCHANGED decided

EditAndDecide(c, i, name, s) ==
  /\ Write(c, [op |-> "saveEntry", i |-> i, row |-> [name |-> name, status |-> s]])
  /\ Decide(i, s)

\* The name is looked for among the plants of the status asked for.
UpdatePlant(c, i, name, s) ==
  /\ table = "plants" /\ i \in Entries
  /\ ~Taken(name, {j \in Entries \ {i} : entry[j].status = s})
  /\ EditAndDecide(c, i, name, s)

RemovePlant(c, i) ==
  /\ table = "plants" /\ entry[i].status = "active"
  /\ EditAndDecide(c, i, entry[i].name, "inactive")

UpdateLand(c, i, name) ==
  /\ table = "lands" /\ i \in Entries
  /\ ~Taken(name, Entries \ {i})
  /\ Edit(c, i, name)

UpdateLandStatus(c, i, s) ==
  /\ table = "lands" /\ i \in Entries
  /\ EditAndDecide(c, i, entry[i].name, s)

\* No other type of land is looked at.
UpdateLandType(c, i, name) ==
  /\ table = "lands_type" /\ i \in Entries
  /\ Edit(c, i, name)

DeleteLandType(c, i) ==
  /\ table = "lands_type" /\ i \in Entries
  /\ EditAndDecide(c, i, entry[i].name, "inactive")

\* No other package is looked at; the body may have a status.
UpdateServicePackage(c, i, name, s) ==
  /\ table = "services_package" /\ i \in Entries
  /\ EditAndDecide(c, i, name, s)

\* Refused while a service in use is of the package.
DeleteServicePackage(c, i) ==
  /\ table = "services_package" /\ i \in Entries
  /\ EditAndDecide(c, i, entry[i].name, "inactive")

\* Mutant: no column is unique.
SaveAnyName(c) ==
  /\ work[c].op = "saveEntry"
  /\ entry' = [entry EXCEPT ![work[c].i] = work[c].row]
  /\ Goto(c, Idle)
  /\ UNCHANGED <<table, season, decided>>

SaveEntry(c) ==
  /\ work[c].op = "saveEntry"
  /\ \/ /\ Refused(work[c].row.name, Entries \ {work[c].i})
        /\ decided' = [decided EXCEPT ![work[c].i] = entry[work[c].i].status]
        /\ UNCHANGED entry
     \/ /\ ~Refused(work[c].row.name, Entries \ {work[c].i})
        /\ entry' = [entry EXCEPT ![work[c].i] = work[c].row]
        /\ UNCHANGED decided
  /\ Goto(c, Idle)
  /\ UNCHANGED <<table, season>>

-----------------------------------------------------------------------------
SeasonArrives(c) ==
  /\ table = "plants_season"
  /\ \E month \in Month, type \in SeasonType :
       \/ CreatePlantSeason(c, month, type)
       \/ \E s \in Season : UpdatePlantSeason(c, s, month, type)
       \/ \E s \in Season : RemovePlantSeason(c, s)

EntryArrives(c) ==
  \/ \E name \in Name :
       \/ CreatePlant(c, name) \/ CreateLand(c, name)
       \/ CreateLandType(c, name) \/ CreateServicePackage(c, name)
  \/ \E i \in Entry, name \in Name :
       \/ UpdateLand(c, i, name) \/ UpdateLandType(c, i, name)
       \/ \E s \in StatusOf(table) :
            UpdatePlant(c, i, name, s) \/ UpdateServicePackage(c, i, name, s)
  \/ \E i \in Entry :
       \/ RemovePlant(c, i) \/ DeleteLandType(c, i) \/ DeleteServicePackage(c, i)
       \/ \E s \in StatusOf(table) : UpdateLandStatus(c, i, s)

CatalogueNext ==
  \E c \in Call :
    \/ SeasonArrives(c) \/ SaveNewSeason(c) \/ SaveSeason(c)
    \/ EntryArrives(c) \/ SaveNewEntry(c) \/ SaveEntry(c)
    \/ Fail(c) /\ UNCHANGED catalogue

CatalogueSpec == CatalogueInit /\ [][CatalogueNext]_<<catalogue, calls>>

-----------------------------------------------------------------------------
\* createPlantSeason, updatePlantSeason: when calls do not overlap, a plant has at
\* most one season and two off-seasons, deleted ones included, and no two of a type
\* start in the same month, although updatePlantSeason counts only when the type
\* changes and createPlantSeason compares months only within the type.
SeasonsFit ==
  serial
  => /\ Cardinality(OfType("in_season")) <= 1
     /\ Cardinality(OfType("out_season")) <= 2
     /\ \A r, s \in Seasons :
          r # s /\ season[r].type = season[s].type
          => season[r].month # season[s].month

\* updatePlant, createPlant, createLand, updateLand: however the calls interleave, no
\* two plants and no two lands share a name, although updatePlant looks only among
\* the plants of one status and every check is made before the save.
NamesDiffer ==
  table \in {"plants", "lands"}
  => \A i, j \in Entries : i # j => entry[i].name # entry[j].name

\* Rows are saved whole, statuses included, by handlers that edit something else:
\* when calls do not overlap and none fails, the status of a row is the one last
\* decided for it (a land that was booked stays so when its data is edited, a
\* season that was deleted stays so).
DecisionCounts ==
  serial /\ Quiet /\ accidents = 0
  => /\ \A s \in Seasons : season[s].status = decided[s]
     /\ \A i \in Entries : entry[i].status = decided[i]
===============================================================================
