---------------------------- MODULE DemandLibrary ----------------------------
(***************************************************************************)
(* The library of demand profiles, and the demand of scenarios and runs:   *)
(* demand_library.py, views_demand.py, demand_profile_yaml.py, and what    *)
(* the scenario wizard and the scenario files do with demand.              *)
(*                                                                         *)
(* A scenario holds a copy of its settings and, beside it, a link to the   *)
(* profile they came from.  A form or a file holds settings as somebody    *)
(* wrote them; normalize says what they are stored as, or that they are    *)
(* refused (see DemandShape for what is accepted).                         *)
(*                                                                         *)
(* A request reads and writes in one step, except two that read, compute   *)
(* and write: a scenario saved from a wizard page that was opened earlier, *)
(* and the deletion of a profile, which asks first whether it is in use.   *)
(***************************************************************************)
EXTENDS Naturals, FiniteSets, Sequences

CONSTANTS
    Stems, FoldCase,     \* names without copy suffixes, and their lower case
    NAME_MAX_LENGTH, MaxCopy,
    Settings,            \* normal forms of accepted settings
    Written,             \* settings as they are written
    normalize,           \* what each of them is stored as, or Refused
    ProfileIds, ScenarioIds, RunIds,
    MaxEdits,
    NoRow, FileDemand, NoLink, NoPage, Refused

ASSUME DemandAssumption ==
    /\ FoldCase \in [Stems -> Stems]
    /\ NAME_MAX_LENGTH \in Nat \ {0} /\ {MaxCopy, MaxEdits} \subseteq Nat
    /\ Settings \subseteq Written
    /\ normalize \in [Written \cup {FileDemand} -> Settings \cup {FileDemand, Refused}]
    /\ \A x \in Settings \cup {FileDemand} : normalize[x] = x
    /\ \A w \in Written : normalize[w] # FileDemand
    /\ FileDemand \notin Settings /\ NoLink \notin ProfileIds /\ Refused \notin Settings
    /\ NoRow \notin [name : Seq(Stems \cup Nat), settings : Settings]

VARIABLES
    profile,    \* library rows: name and settings, or NoRow
    scenario,   \* demand and link of each scenario, or NoRow
    run,        \* demand and link of each run, or NoRow
    page,       \* a wizard page opened on each scenario, or NoPage
    deleting,   \* a profile found unused and about to be deleted, or NoRow
    edits

vars == <<profile, scenario, run, page, deleting, edits>>

-----------------------------------------------------------------------------
Present(table) == {x \in DOMAIN table : table[x] # NoRow}

Lower(name) == [name EXCEPT ![1] = FoldCase[@]]

SameName(name) == {p \in Present(profile) : Lower(profile[p].name) = Lower(name)}

NameFree(name, except) == Len(name) <= NAME_MAX_LENGTH /\ SameName(name) \subseteq except

CopyName(name, k) ==
    Append(SubSeq(name, 1, IF Len(name) < NAME_MAX_LENGTH THEN Len(name)
                                                         ELSE NAME_MAX_LENGTH - 1), k)

FreeCopies(name) == {k \in 1 .. MaxCopy : SameName(CopyName(name, k)) = {}}

copy_profile_name(name) ==
    CopyName(name, CHOOSE k \in FreeCopies(name) : \A j \in FreeCopies(name) : k <= j)

FreeIds == ProfileIds \ Present(profile)

Demand(demand, link) ==
    [demand |-> demand, link |-> IF demand = FileDemand THEN NoLink ELSE link]

(* The wizard offers a link only while the copy still equals its profile.  *)
(* Mutant of Shown: the link is shown whatever the copy says.              *)
ShownUnchecked(row) == row.link

Shown(row) ==
    IF row.demand # FileDemand /\ row.link # NoLink
       /\ normalize[profile[row.link].settings] = normalize[row.demand]
    THEN row.link ELSE NoLink

-----------------------------------------------------------------------------
Init ==
    /\ profile = [p \in ProfileIds |-> NoRow]
    /\ scenario = [s \in ScenarioIds |-> NoRow]
    /\ run = [g \in RunIds |-> NoRow]
    /\ page = [s \in ScenarioIds |-> NoPage]
    /\ deleting = NoRow
    /\ edits = 0

Request == edits < MaxEdits /\ edits' = edits + 1

(* The library.                                                            *)

Create(name, written) ==
    /\ Request
    /\ FreeIds # {} /\ NameFree(name, {}) /\ normalize[written] # Refused
    /\ profile' = [profile EXCEPT ![CHOOSE p \in FreeIds : TRUE] =
                      [name |-> name, settings |-> normalize[written]]]
    /\ UNCHANGED <<scenario, run, page, deleting>>

Update(p, name, written) ==
    /\ Request
    /\ profile[p] # NoRow
    /\ NameFree(name, {p}) /\ normalize[written] # Refused
    /\ profile' = [profile EXCEPT ![p] = [name |-> name, settings |-> normalize[written]]]
    /\ UNCHANGED <<scenario, run, page, deleting>>

Duplicate(p) ==
    /\ profile[p] # NoRow /\ FreeCopies(profile[p].name) # {}
    /\ Create(copy_profile_name(profile[p].name), profile[p].settings)

scenarios_using(p) == {s \in Present(scenario) : scenario[s].link = p}

DeleteCheck(p) ==
    /\ Request
    /\ profile[p] # NoRow /\ deleting = NoRow
    /\ scenarios_using(p) = {}
    /\ deleting' = p
    /\ UNCHANGED <<profile, scenario, run, page>>

Unlinked(row, p) ==
    IF row = NoRow THEN NoRow ELSE [row EXCEPT !.link = IF @ = p THEN NoLink ELSE @]

(* Links are set to NULL, also those made since the check; runs are not    *)
(* asked for at all.                                                       *)
Delete ==
    /\ deleting # NoRow
    /\ profile' = [profile EXCEPT ![deleting] = NoRow]
    /\ scenario' = [s \in ScenarioIds |-> Unlinked(scenario[s], deleting)]
    /\ run' = [g \in RunIds |-> Unlinked(run[g], deleting)]
    /\ deleting' = NoRow
    /\ UNCHANGED <<page, edits>>

(* A profile file: a new name is added, equal settings are reused, and     *)
(* anything else is a conflict.                                            *)
ImportProfile(name, written) ==
    IF SameName(name) = {} THEN Create(name, written)
    ELSE /\ Request
         /\ \A p \in SameName(name) : normalize[profile[p].settings] = normalize[written]
         /\ UNCHANGED <<profile, scenario, run, page, deleting>>

-----------------------------------------------------------------------------
(* Scenarios.                                                              *)

(* _parse_demand, for a payload that names a profile or carries settings.  *)
DemandChoices ==
    [link : ProfileIds] \cup [written : Written \cup {FileDemand}]

Acceptable(choice) ==
    IF "link" \in DOMAIN choice THEN profile[choice.link] # NoRow
                                ELSE normalize[choice.written] # Refused

Chosen(choice) ==
    IF "link" \in DOMAIN choice
    THEN Demand(normalize[profile[choice.link].settings], choice.link)
    ELSE Demand(normalize[choice.written], NoLink)

ScenarioCreate(s, choice) ==
    /\ Request
    /\ scenario[s] = NoRow /\ Acceptable(choice)
    /\ scenario' = [scenario EXCEPT ![s] = Chosen(choice)]
    /\ UNCHANGED <<profile, run, page, deleting>>

(* A payload without settings, as a script may send it, keeps the demand;  *)
(* an empty link in it clears the link.                                    *)
ScenarioKeep(s, keep_link) ==
    /\ Request
    /\ scenario[s] # NoRow
    /\ scenario' = [scenario EXCEPT ![s] =
                      Demand(@.demand, IF keep_link THEN @.link ELSE NoLink)]
    /\ UNCHANGED <<profile, run, page, deleting>>

(* The page loads the settings of the profile that it shows as selected.   *)
WizardOpen(s) ==
    /\ scenario[s] # NoRow
    /\ LET shown == Shown(scenario[s]) IN
       page' = [page EXCEPT ![s] =
                  [was |-> scenario[s], shown |-> shown,
                   detail |-> IF shown = NoLink THEN NoLink ELSE profile[shown].settings]]
    /\ UNCHANGED <<profile, scenario, run, deleting, edits>>

(* It sends the selected profile, or else the settings in the form.        *)
Untouched(s) ==
    IF page[s].shown # NoLink THEN [link |-> page[s].shown]
                              ELSE [written |-> page[s].was.demand]

WizardSave(s, choice) ==
    /\ Request
    /\ page[s] # NoPage /\ scenario[s] # NoRow /\ Acceptable(choice)
    /\ scenario' = [scenario EXCEPT ![s] = Chosen(choice)]
    /\ page' = [page EXCEPT ![s] = NoPage]
    /\ UNCHANGED <<profile, run, deleting>>

ScenarioDelete(s) ==
    /\ Request
    /\ scenario[s] # NoRow
    /\ scenario' = [scenario EXCEPT ![s] = NoRow]
    /\ page' = [page EXCEPT ![s] = NoPage]
    /\ UNCHANGED <<profile, run, deleting>>

(* duplicate_scenario and clone_scenario_for_run copy every column.        *)
ScenarioDuplicate(s, t) ==
    /\ Request
    /\ scenario[s] # NoRow /\ scenario[t] = NoRow
    /\ scenario' = [scenario EXCEPT ![t] = scenario[s]]
    /\ UNCHANGED <<profile, run, page, deleting>>

RunStart(s, g) ==
    /\ Request
    /\ scenario[s] # NoRow /\ run[g] = NoRow
    /\ run' = [run EXCEPT ![g] = scenario[s]]
    /\ UNCHANGED <<profile, scenario, page, deleting>>

(* The demand part of a scenario file.                                     *)
ExportDemand(row) ==
    [demand |-> row.demand,
     name   |-> IF row.demand = FileDemand \/ row.link = NoLink THEN <<>>
                ELSE profile[row.link].name]

(* Mutant of ImportLink: the settings are not compared.                    *)
ImportLinkByName(doc) == IF doc.name = <<>> THEN {} ELSE SameName(doc.name)

(* _demand_source_id: a link needs a profile of that name and settings.    *)
ImportLink(doc) ==
    IF doc.name = <<>> \/ doc.demand = FileDemand THEN {}
    ELSE {p \in SameName(doc.name) :
            normalize[profile[p].settings] = normalize[doc.demand]}

Imported(doc) ==
    LET link == ImportLink(doc) IN
    Demand(normalize[doc.demand], IF link = {} THEN NoLink ELSE CHOOSE p \in link : TRUE)

Files ==
    {ExportDemand(scenario[s]) : s \in Present(scenario)}
    \cup [demand : {w \in Written : normalize[w] # Refused},
           name : {<<>>} \cup {<<x>> : x \in Stems}]

ScenarioImport(s, doc) ==
    /\ Request
    /\ scenario[s] = NoRow
    /\ scenario' = [scenario EXCEPT ![s] = Imported(doc)]
    /\ UNCHANGED <<profile, run, page, deleting>>

Next ==
    \/ \E x \in Stems, w \in Written : Create(<<x>>, w)
    \/ \E p \in ProfileIds, x \in Stems, w \in Written : Update(p, <<x>>, w)
    \/ \E x \in Stems, w \in Written : ImportProfile(<<x>>, w)
    \/ \E p \in ProfileIds : Duplicate(p)
    \/ \E p \in ProfileIds : DeleteCheck(p)
    \/ Delete
    \/ \E s \in ScenarioIds, c \in DemandChoices : ScenarioCreate(s, c)
    \/ \E s \in ScenarioIds, keep_link \in BOOLEAN : ScenarioKeep(s, keep_link)
    \/ \E s \in ScenarioIds : WizardOpen(s)
    \/ \E s \in ScenarioIds : page[s] # NoPage /\ WizardSave(s, Untouched(s))
    \/ \E s \in ScenarioIds, c \in DemandChoices : WizardSave(s, c)
    \/ \E s \in ScenarioIds : ScenarioDelete(s)
    \/ \E s, t \in ScenarioIds : ScenarioDuplicate(s, t)
    \/ \E s \in ScenarioIds, g \in RunIds : RunStart(s, g)
    \/ \E s \in ScenarioIds : \E doc \in Files : ScenarioImport(s, doc)

Spec == Init /\ [][Next]_vars

-----------------------------------------------------------------------------
\* The demand of a run never changes, and that of a scenario only when its own
\* wizard page is saved; not even then if the page was opened on what is stored,
\* left untouched, and the profile it shows was not edited meanwhile. Then the
\* link becomes the one that was shown (Simulation.demand_profile, _parse_demand,
\* _stored_demand_source_id).
DemandKept ==
    [][ /\ \A g \in Present(run) : run'[g].demand = run[g].demand
        /\ \A s \in Present(scenario) :
              scenario'[s] # NoRow /\ scenario'[s].demand # scenario[s].demand
              => page[s] # NoPage /\ page'[s] = NoPage
        /\ \A s \in Present(scenario) :
              page[s] # NoPage /\ page[s].was = scenario[s] =>
              LET shown == page[s].shown
                  same  == shown \in {NoLink} \cup {p \in Present(profile) :
                                            profile[p].settings = page[s].detail}
              IN  same /\ WizardSave(s, Untouched(s)) =>
                     scenario'[s] = Demand(scenario[s].demand, shown) ]_vars

\* A scenario that is exported and imported again has the same demand, linked if
\* and only if the wizard would show the link; a link that a file creates leads
\* to a profile of that name and those settings, and every link to a profile
\* that exists (scenario_document, _demand_source_id).
DemandRoundTrip ==
    /\ \A s \in Present(scenario) :
          Imported(ExportDemand(scenario[s]))
              = Demand(scenario[s].demand, Shown(scenario[s]))
    /\ \A doc \in Files :
          Imported(doc).link # NoLink =>
             /\ profile[Imported(doc).link].settings = Imported(doc).demand
             /\ Lower(profile[Imported(doc).link].name) = Lower(doc.name)
    /\ \A row \in {scenario[s] : s \in Present(scenario)}
                   \cup {run[g] : g \in Present(run)} :
          row.link \in Present(profile) \cup {NoLink}
=============================================================================
