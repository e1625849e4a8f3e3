---------------------------- MODULE ScenarioStore ----------------------------
(***************************************************************************)
(* The agent library, the scenarios built from it, the runs cloned from    *)
(* them and the files they are exported to: library_service.py, the        *)
(* scenario wizard and library pages of views.py, and scenario_yaml.py.    *)
(*                                                                         *)
(* An agent is abstracted to what the copies have to keep: its name, type, *)
(* algorithm, stored algorithm parameters and plants.  A name is a         *)
(* sequence of tokens, a stem followed by the "_2", "_3" suffixes that     *)
(* free_agent_name appends, so that the length limit and the letter case   *)
(* behave as they do in the code.  Stored parameters are named after the   *)
(* algorithm they were written for.  A plant is its resource.              *)
(*                                                                         *)
(* Every request is one transaction, hence one step, except the deletion   *)
(* of a library agent, which reads the scenarios first and deletes later.  *)
(***************************************************************************)
EXTENDS Naturals, FiniteSets, Sequences, SequencesExt

CONSTANTS
    Stems,             \* the names without suffixes
    Typed,             \* those that users type into forms
    FoldCase,          \* the lower case of a stem, as the database computes it
    NAME_MAX_LENGTH,   \* in tokens
    MaxSuffix,         \* bound on the numbers free_agent_name tries
    Algorithms,        \* keys of the registered algorithms
    Resources,         \* resource names
    ResourceRows,      \* what the form of each resource may say: energy type, costs
    allowed_energy_types,  \* of each agent type
    Contents,          \* what an agent form may say: algorithm, type and plants
    LibraryIds, ScenarioIds, RunIds,
    MaxAgents,         \* bound on the agents of a scenario
    MaxEdits,          \* bound on the requests of a behaviour
    ForeignFiles,      \* files written by hand, not exported
    NoRow, NoParams, NoSource, AutoName, NoContent

AgentTypes == DOMAIN allowed_energy_types
Params == Algorithms \cup {NoParams}
AgentNames == Seq(Stems \cup Nat) \ {<<>>}

LibraryAgents == [name : AgentNames, alg : Algorithms, type : AgentTypes,
                  params : Params, plants : SUBSET Resources]
FileAgents == [name : AgentNames, alg : Algorithms, type : AgentTypes,
               params : Params, plants : SUBSET Resources, lib : AgentNames]

(* What a file may say: resources the database may hold, and agents.       *)
IsDocument(doc) ==
    /\ DOMAIN doc.resources \subseteq Resources
    /\ \A r \in DOMAIN doc.resources : doc.resources[r] \in ResourceRows[r]
    /\ doc.agents \in Seq(FileAgents)

(* The search for a suffix never runs out of numbers.                      *)
ASSUME StoreAssumption ==
    /\ Typed \subseteq Stems /\ FoldCase \in [Stems -> Stems]
    /\ \A x \in Stems : FoldCase[FoldCase[x]] = FoldCase[x]
    /\ NAME_MAX_LENGTH \in Nat \ {0, 1}
    /\ MaxAgents \in Nat /\ MaxEdits \in Nat
    /\ MaxSuffix \in Nat /\ MaxSuffix > MaxAgents + 1
    /\ Contents \subseteq [alg : Algorithms, type : AgentTypes, plants : SUBSET Resources]
    /\ DOMAIN ResourceRows = Resources /\ \A r \in Resources : NoRow \notin ResourceRows[r]
    /\ NoParams \notin Algorithms
    /\ IsFiniteSet(LibraryIds) /\ NoSource \notin LibraryIds
    /\ NoContent \notin Contents
    /\ NoRow \notin LibraryAgents /\ AutoName \notin AgentNames
    /\ \A doc \in ForeignFiles : IsDocument(doc)

VARIABLES
    resource,   \* Resource rows: their costs, or NoRow
    library,    \* library agents, or NoRow
    scenario,   \* agents of each proxy scenario in id order, or NoRow
    run,        \* agents of each run in id order, or NoRow
    file,       \* the last exported file, or NoRow
    deleting,   \* a library agent whose deletion passed its check, or NoRow
    edits       \* requests served so far

vars == <<resource, library, scenario, run, file, deleting, edits>>

-----------------------------------------------------------------------------
(* Names.                                                                  *)

Lower(name) == [name EXCEPT ![1] = FoldCase[@]]

Candidate(base, k) ==
    Append(SubSeq(base, 1,
                  IF Len(base) < NAME_MAX_LENGTH THEN Len(base)
                                                 ELSE NAME_MAX_LENGTH - 1), k)

(* The first of base, base_2, base_3, ... whose lower case is not taken.   *)
free_agent_name(base, taken) ==
    LET used == {Lower(n) : n \in taken}
        free == {k \in 2 .. MaxSuffix : Lower(Candidate(base, k)) \notin used}
    IN  IF Lower(base) \notin used THEN base
        ELSE Candidate(base, CHOOSE k \in free : \A j \in free : k <= j)

Names(agents) == {agents[i].name : i \in DOMAIN agents}

LibraryRows(lib) == {l \in DOMAIN lib : lib[l] # NoRow}
Present(table) == {x \in DOMAIN table : table[x] # NoRow}

(* Mutant of LibraryNameFree: names are compared as they are written.      *)
LibraryNameFreeExact(lib, name, except) ==
    \A l \in LibraryRows(lib) \ except : lib[l].name # name

LibraryNameFree(lib, name, except) ==
    \A l \in LibraryRows(lib) \ except : Lower(lib[l].name) # Lower(name)

MarketNameFree(agents, name) == name \notin Names(agents)

-----------------------------------------------------------------------------
(* Rows and copies.                                                        *)

Config(row) ==
    [alg |-> row.alg, type |-> row.type, params |-> row.params, plants |-> row.plants]

LibraryRow(name, config) ==
    [name |-> name, alg |-> config.alg, type |-> config.type,
     params |-> config.params, plants |-> config.plants]

AgentRow(name, config, source) ==
    [name |-> name, alg |-> config.alg, type |-> config.type,
     params |-> config.params, plants |-> config.plants, source |-> source]

(* A form carries the algorithm, the type and the plants, never parameters.*)
FormConfig(content, params) ==
    [alg |-> content.alg, type |-> content.type, params |-> params,
     plants |-> content.plants]

(* validate_agent_resources: an agent owns plants of its energy types.     *)
Fits(res, type, plants) ==
    \A r \in plants : res[r].energy \in allowed_energy_types[type]

(* Mutant of ValidContent: the plants need not fit the agent's type.       *)
ValidContentAnyType(content) ==
    content.plants # {} /\ content.plants \subseteq Present(resource)

ValidContent(content) ==
    /\ content.plants # {} /\ content.plants \subseteq Present(resource)
    /\ Fits(resource, content.type, content.plants)

(* copy_agent without an explicit name: the copy of a scenario agent keeps *)
(* the source of what it was copied from.                                  *)
CopyInto(agents, row) ==
    Append(agents, AgentRow(free_agent_name(row.name, Names(agents)),
                            Config(row), row.source))

CopyAll(agents) == FoldLeft(CopyInto, <<>>, agents)

NewLibraryId(lib) == CHOOSE l \in DOMAIN lib : lib[l] = NoRow

CreateIn(lib, name, config) ==
    [lib EXCEPT ![NewLibraryId(lib)] = LibraryRow(name, config)]

Room(lib, n) == Cardinality(DOMAIN lib \ LibraryRows(lib)) >= n

-----------------------------------------------------------------------------
(* The agents of a wizard payload.  An entry is a new agent, a copy of a   *)
(* library agent, perhaps edited, or an agent of the scenario kept.        *)

NameChoices == {<<x>> : x \in Typed}

Entries(agents) ==
    [mode : {"new"}, name : NameChoices, content : Contents]
    \cup [mode : {"library"}, name : NameChoices \cup {AutoName},
          lib : LibraryIds, content : Contents \cup {NoContent}]
    \cup [mode : {"scenario"}, name : NameChoices, pos : DOMAIN agents,
          content : Contents]

Payloads(agents) == SeqOf(Entries(agents), MaxAgents)

(* The names of the entries: an entry without one gets the first name that *)
(* is free among the explicit names and the names given before it.         *)
Explicit(entries) ==
    {entries[i].name : i \in {j \in DOMAIN entries : entries[j].name # AutoName}}

NameEntry(acc, e) ==
    LET name == IF e.name # AutoName THEN e.name
                ELSE free_agent_name(library[e.lib].name, acc.taken)
    IN  [names |-> Append(acc.names, name), taken |-> acc.taken \cup {name}]

EntryNames(entries) ==
    FoldLeft(NameEntry, [names |-> <<>>, taken |-> Explicit(entries)], entries).names

Kept(entries) == {i \in DOMAIN entries : entries[i].mode = "scenario"}
New(entries) == {i \in DOMAIN entries : entries[i].mode = "new"}

(* _parse_scenario_agents: everything is checked before anything is written.*)
ValidPayload(agents, entries) ==
    /\ \A i \in DOMAIN entries :
          /\ entries[i].mode = "library" => library[entries[i].lib] # NoRow
          /\ entries[i].mode = "new" => LibraryNameFree(library, entries[i].name, {})
          /\ entries[i].content # NoContent => ValidContent(entries[i].content)
    /\ \A i, j \in Kept(entries) : entries[i].pos = entries[j].pos => i = j
    /\ LET names == EntryNames(entries) IN
          /\ \A i, j \in DOMAIN entries : names[i] = names[j] => i = j
          /\ \A i, j \in New(entries) : Lower(names[i]) = Lower(names[j]) => i = j

(* Mutant of Edited: another algorithm inherits the stored parameters.     *)
EditedKeepsParams(row, name, content) ==
    AgentRow(name, FormConfig(content, row.params), row.source)

(* _update_scenario_agent: parameters of another algorithm are cleared.    *)
Edited(row, name, content) ==
    AgentRow(name,
             FormConfig(content, IF content.alg = row.alg THEN row.params ELSE NoParams),
             row.source)

(* _write_scenario_agents.  Kept agents are updated one after the other in *)
(* the order of the payload: a name another kept agent still carries is    *)
(* refused by the constraint, and with it the whole write.                 *)
Positions(entries) == {entries[i].pos : i \in Kept(entries)}

UpdateRow(acc, entries, names, i) ==
    LET p == entries[i].pos IN
    IF i \notin Kept(entries) THEN acc
    ELSE [ok  |-> acc.ok /\ \A q \in Positions(entries) \ {p} : acc.rows[q].name # names[i],
          rows |-> [acc.rows EXCEPT ![p] = Edited(@, names[i], entries[i].content)]]

UpdateRows(agents, entries, names) ==
    FoldLeft(LAMBDA acc, i : UpdateRow(acc, entries, names, i),
             [ok |-> TRUE, rows |-> agents], [i \in DOMAIN entries |-> i])

(* The others are deleted.                                                 *)
KeepRow(rows, updated, entries, p) ==
    IF p \in Positions(entries) THEN Append(rows, updated[p]) ELSE rows

KeptRows(updated, entries) ==
    FoldLeft(LAMBDA rows, p : KeepRow(rows, updated, entries, p),
             <<>>, [p \in DOMAIN updated |-> p])

AddEntry(acc, e, name) ==
    CASE e.mode = "scenario" -> acc
      [] e.mode = "new" ->
            LET config == FormConfig(e.content, NoParams) IN
            [ok   |-> /\ acc.ok
                      /\ Room(acc.lib, 1)
                      /\ LibraryNameFree(acc.lib, name, {})
                      /\ MarketNameFree(acc.rows, name),
             lib  |-> IF Room(acc.lib, 1) THEN CreateIn(acc.lib, name, config) ELSE acc.lib,
             rows |-> Append(acc.rows,
                         AgentRow(name, config,
                                  IF Room(acc.lib, 1) THEN NewLibraryId(acc.lib)
                                                      ELSE NoSource))]
      [] e.mode = "library" ->
            LET copy == AgentRow(name, Config(acc.lib[e.lib]), e.lib) IN
            [ok   |-> acc.ok /\ MarketNameFree(acc.rows, name),
             lib  |-> acc.lib,
             rows |-> Append(acc.rows, IF e.content = NoContent THEN copy
                                       ELSE Edited(copy, name, e.content))]

Write(agents, entries) ==
    LET names == EntryNames(entries)
        done  == UpdateRows(agents, entries, names)
        start == [ok |-> done.ok, lib |-> library, rows |-> KeptRows(done.rows, entries)]
    IN  FoldLeft(LAMBDA acc, i : AddEntry(acc, entries[i], names[i]),
                 start, [i \in DOMAIN entries |-> i])

-----------------------------------------------------------------------------
(* Files.  A file lists the resources it uses with their costs and, for    *)
(* each agent, the library agent it should be matched with.                *)

Export(agents) ==
    [resources |-> [r \in UNION {agents[i].plants : i \in DOMAIN agents} |-> resource[r]],
     agents |-> [i \in DOMAIN agents |->
        [name |-> agents[i].name, alg |-> agents[i].alg, type |-> agents[i].type,
         params |-> agents[i].params, plants |-> agents[i].plants,
         lib |-> IF agents[i].source # NoSource THEN library[agents[i].source].name
                                                ELSE agents[i].name]]]

(* The library name of each agent of a file: a later agent of another      *)
(* configuration is matched under its own name.                            *)
NameInLibrary(acc, a) ==
    LET own   == \E c \in acc.first : c.key = Lower(a.lib) /\ c.config # Config(a)
        name  == IF own THEN a.name ELSE a.lib
        known == \E c \in acc.first : c.key = Lower(name)
    IN  [names |-> Append(acc.names, name),
         first |-> IF known THEN acc.first
                   ELSE acc.first \cup {[key |-> Lower(name), config |-> Config(a)]}]

LibraryNames(agents) ==
    FoldLeft(NameInLibrary, [names |-> <<>>, first |-> {}], agents).names

(* Mutant of Matches: a library agent is found by its exact spelling only. *)
MatchesExact(lib, name) == {l \in LibraryRows(lib) : lib[l].name = name}

Matches(lib, name) == {l \in LibraryRows(lib) : Lower(lib[l].name) = Lower(name)}

(* _parse_agent: parameters must be accepted by the algorithm's own config *)
(* class, and every plant must be listed under resources.                  *)
ValidFileAgent(doc, a) ==
    /\ a.params \in {NoParams, a.alg}
    /\ a.plants # {} /\ a.plants \subseteq DOMAIN doc.resources
    /\ Fits(doc.resources, a.type, a.plants)
    /\ Len(a.name) <= NAME_MAX_LENGTH /\ Len(a.lib) <= NAME_MAX_LENGTH

(* build_import_plan: nothing is reused unless it is equal.                *)
Importable(res, lib, doc) ==
    LET names == LibraryNames(doc.agents)
        Ag    == DOMAIN doc.agents
    IN  /\ \A r \in DOMAIN doc.resources : res[r] \in {NoRow, doc.resources[r]}
        /\ \A i \in Ag : ValidFileAgent(doc, doc.agents[i])
        /\ \A i, j \in Ag : Lower(doc.agents[i].name) = Lower(doc.agents[j].name) => i = j
        /\ \A i, j \in Ag : Lower(names[i]) = Lower(names[j])
                               => Config(doc.agents[i]) = Config(doc.agents[j])
        /\ \A i \in Ag : \A l \in Matches(lib, names[i]) :
                               Config(lib[l]) = Config(doc.agents[i])

(* apply_import_plan.                                                      *)
ImportResources(res, doc) ==
    [r \in DOMAIN res |-> IF r \in DOMAIN doc.resources THEN doc.resources[r] ELSE res[r]]

AddToLibrary(lib, name, config) ==
    IF Matches(lib, name) # {} THEN lib ELSE CreateIn(lib, name, config)

ImportLibrary(lib, doc) ==
    FoldLeft(LAMBDA acc, i : AddToLibrary(acc, LibraryNames(doc.agents)[i],
                                          Config(doc.agents[i])),
             lib, [i \in DOMAIN doc.agents |-> i])

Created(lib, doc) ==
    {Lower(n) : n \in {m \in Range(LibraryNames(doc.agents)) : Matches(lib, m) = {}}}

ImportAgents(lib, doc) ==
    LET names == LibraryNames(doc.agents) IN
    [i \in DOMAIN doc.agents |->
        LET l == CHOOSE x \in Matches(lib, names[i]) : TRUE
        IN  AgentRow(doc.agents[i].name, Config(lib[l]), l)]

-----------------------------------------------------------------------------
(* Requests.                                                               *)

Init ==
    /\ resource \in {f \in [Resources -> UNION Range(ResourceRows)] :
                      \A r \in Resources : f[r] \in ResourceRows[r]}
    /\ library = [l \in LibraryIds |-> NoRow]
    /\ scenario = [s \in ScenarioIds |-> NoRow]
    /\ run = [g \in RunIds |-> NoRow]
    /\ file = NoRow
    /\ deleting = NoRow
    /\ edits = 0

Request == edits < MaxEdits /\ edits' = edits + 1

ResourceUpdate(r, row) ==
    /\ Request
    /\ resource[r] # row
    /\ resource' = [resource EXCEPT ![r] = row]
    /\ UNCHANGED <<library, scenario, run, file, deleting>>

(* Every plant of the resource goes with it: those of the library, of the  *)
(* scenarios and of the runs.                                              *)
Without(r, agents) == [i \in DOMAIN agents |-> [agents[i] EXCEPT !.plants = @ \ {r}]]

ResourceDelete(r) ==
    /\ Request
    /\ resource[r] # NoRow
    /\ resource' = [resource EXCEPT ![r] = NoRow]
    /\ library' = [l \in LibraryIds |->
                     IF library[l] = NoRow THEN NoRow
                     ELSE [library[l] EXCEPT !.plants = @ \ {r}]]
    /\ scenario' = [s \in ScenarioIds |->
                      IF scenario[s] = NoRow THEN NoRow ELSE Without(r, scenario[s])]
    /\ run' = [g \in RunIds |-> IF run[g] = NoRow THEN NoRow ELSE Without(r, run[g])]
    /\ UNCHANGED <<file, deleting>>

LibraryCreate(name, content) ==
    /\ Request
    /\ ValidContent(content) /\ LibraryNameFree(library, name, {})
    /\ Room(library, 1)
    /\ library' = CreateIn(library, name, FormConfig(content, NoParams))
    /\ UNCHANGED <<resource, scenario, run, file, deleting>>

(* The form has no parameters: those that are stored stay.                 *)
LibraryUpdate(l, name, content) ==
    /\ Request
    /\ library[l] # NoRow
    /\ ValidContent(content) /\ LibraryNameFree(library, name, {l})
    /\ library' = [library EXCEPT ![l] = LibraryRow(name, FormConfig(content, @.params))]
    /\ UNCHANGED <<resource, scenario, run, file, deleting>>

Uses(agents, l) == \E i \in DOMAIN agents : agents[i].source = l

scenarios_using(l) == {s \in Present(scenario) : Uses(scenario[s], l)}

LibraryDeleteCheck(l) ==
    /\ Request
    /\ library[l] # NoRow /\ deleting = NoRow
    /\ scenarios_using(l) = {}
    /\ deleting' = l
    /\ UNCHANGED <<resource, library, scenario, run, file>>

(* The copies lose their source.                                           *)
Orphans(agents, l) ==
    [i \in DOMAIN agents |->
        [agents[i] EXCEPT !.source = IF @ = l THEN NoSource ELSE @]]

LibraryDelete ==
    /\ deleting # NoRow
    /\ library' = [library EXCEPT ![deleting] = NoRow]
    /\ scenario' = [s \in ScenarioIds |->
                      IF scenario[s] = NoRow THEN NoRow ELSE Orphans(scenario[s], deleting)]
    /\ run' = [g \in RunIds |->
                 IF run[g] = NoRow THEN NoRow ELSE Orphans(run[g], deleting)]
    /\ deleting' = NoRow
    /\ UNCHANGED <<resource, file, edits>>

Save(s, agents, entries) ==
    /\ ValidPayload(agents, entries)
    /\ LET written == Write(agents, entries) IN
       /\ written.ok
       /\ library' = written.lib
       /\ scenario' = [scenario EXCEPT ![s] = written.rows]
    /\ UNCHANGED <<resource, run, file, deleting>>

ScenarioCreate(s, entries) ==
    /\ Request
    /\ scenario[s] = NoRow
    /\ Save(s, <<>>, entries)

ScenarioUpdate(s, entries) ==
    /\ Request
    /\ scenario[s] # NoRow
    /\ Save(s, scenario[s], entries)

ScenarioDelete(s) ==
    /\ Request
    /\ scenario[s] # NoRow
    /\ scenario' = [scenario EXCEPT ![s] = NoRow]
    /\ UNCHANGED <<resource, library, run, file, deleting>>

duplicate_scenario(s, t) ==
    /\ Request
    /\ scenario[s] # NoRow /\ scenario[t] = NoRow
    /\ Len(scenario[s]) < MaxSuffix
    /\ scenario' = [scenario EXCEPT ![t] = CopyAll(scenario[s])]
    /\ UNCHANGED <<resource, library, run, file, deleting>>

clone_scenario_for_run(s, g) ==
    /\ Request
    /\ scenario[s] # NoRow /\ run[g] = NoRow
    /\ Len(scenario[s]) < MaxSuffix
    /\ run' = [run EXCEPT ![g] = CopyAll(scenario[s])]
    /\ UNCHANGED <<resource, library, scenario, file, deleting>>

RunDelete(g) ==
    /\ Request
    /\ run[g] # NoRow
    /\ run' = [run EXCEPT ![g] = NoRow]
    /\ UNCHANGED <<resource, library, scenario, file, deleting>>

ExportFile(s) ==
    /\ Request
    /\ scenario[s] # NoRow
    /\ file' = Export(scenario[s])
    /\ UNCHANGED <<resource, library, scenario, run, deleting>>

Files == ForeignFiles \cup (IF file = NoRow THEN {} ELSE {file})

ImportFile(s, doc) ==
    /\ Request
    /\ scenario[s] = NoRow
    /\ Importable(resource, library, doc)
    /\ Room(library, Cardinality(Created(library, doc)))
    /\ resource' = ImportResources(resource, doc)
    /\ library' = ImportLibrary(library, doc)
    /\ scenario' = [scenario EXCEPT ![s] = ImportAgents(library', doc)]
    /\ UNCHANGED <<run, file, deleting>>

Next ==
    \/ \E r \in Resources : \E row \in ResourceRows[r] : ResourceUpdate(r, row)
    \/ \E r \in Resources : ResourceDelete(r)
    \/ \E name \in NameChoices, content \in Contents : LibraryCreate(name, content)
    \/ \E l \in LibraryIds, name \in NameChoices, content \in Contents :
          LibraryUpdate(l, name, content)
    \/ \E l \in LibraryIds : LibraryDeleteCheck(l)
    \/ LibraryDelete
    \/ \E s \in ScenarioIds : \E entries \in Payloads(<<>>) : ScenarioCreate(s, entries)
    \/ \E s \in Present(scenario) : \E entries \in Payloads(scenario[s]) :
          ScenarioUpdate(s, entries)
    \/ \E s \in ScenarioIds : ScenarioDelete(s)
    \/ \E s, t \in ScenarioIds : duplicate_scenario(s, t)
    \/ \E s \in ScenarioIds, g \in RunIds : clone_scenario_for_run(s, g)
    \/ \E g \in RunIds : RunDelete(g)
    \/ \E s \in ScenarioIds : ExportFile(s)
    \/ \E s \in ScenarioIds : \E doc \in Files : ImportFile(s, doc)

Spec == Init /\ [][Next]_vars

-----------------------------------------------------------------------------
Rows(agents, l) ==
    /\ DOMAIN agents = 1 .. Len(agents)
    /\ \A i \in DOMAIN agents :
          /\ agents[i].source \in l \cup {NoSource}
          /\ agents[i].params \in Algorithms \cup {NoParams}
          /\ agents[i].plants \subseteq Present(resource)
    /\ \A i, j \in DOMAIN agents : agents[i].name = agents[j].name => i = j

\* Every agent refers to resources and to a library agent that exist; library
\* names differ in more than case, and names within a scenario or a run differ
\* (the constraints of models/agent.py, which no request may run into).
TypeOK ==
    /\ \A s \in Present(scenario) : Rows(scenario[s], LibraryRows(library))
    /\ \A g \in Present(run) : Rows(run[g], LibraryRows(library))
    /\ \A l \in LibraryRows(library) :
          /\ library[l].plants \subseteq Present(resource)
          /\ \A k \in LibraryRows(library) \ {l} :
                Lower(library[k].name) # Lower(library[l].name)
    /\ deleting \in LibraryRows(library) \cup {NoRow}

AgentsOf(s) == IF s \in Present(scenario) THEN scenario[s] ELSE <<>>

(* The agents of a page as they are asked for: kept agents first, each     *)
(* under its entry's name with its entry's content and its old source,     *)
(* then the others in the order of the payload.                            *)
AsAsked(agents, entries, written, names) ==
    LET After(i) == CHOOSE p \in DOMAIN written.rows : written.rows[p].name = names[i]
        Old(i) == IF entries[i].mode = "scenario" THEN agents[entries[i].pos]
                  ELSE library[entries[i].lib]
    IN  IF ~ written.ok
        THEN \E i, j \in Kept(entries) :
                i # j /\ agents[entries[j].pos].name = names[i]
        ELSE
        /\ Len(written.rows) = Len(entries)
        /\ \A i \in DOMAIN entries :
              LET e == entries[i]
                  row == written.rows[After(i)]
              IN  /\ Config(row) = IF e.content = NoContent
                                   THEN Config(library[e.lib])
                                   ELSE FormConfig(e.content, row.params)
                  /\ row.params = IF e.mode # "new" /\ row.alg = Old(i).alg
                                  THEN Old(i).params ELSE NoParams
                  /\ row.source = CASE e.mode = "new" ->
                                          CHOOSE l \in LibraryRows(written.lib) :
                                              written.lib[l].name = names[i]
                                    [] e.mode = "library" -> e.lib
                                    [] e.mode = "scenario" -> Old(i).source
                  /\ e.mode = "new" =>
                        Config(written.lib[row.source]) = Config(row)
        /\ \A i, j \in DOMAIN entries : i < j =>
              After(i) < After(j) \/ j \in Kept(entries)
        /\ \A i, j \in Kept(entries) :
              After(i) < After(j) <=> entries[i].pos < entries[j].pos
        /\ \A l \in LibraryRows(library) : written.lib[l] = library[l]
        /\ Cardinality(LibraryRows(written.lib) \ LibraryRows(library))
              = Cardinality(New(entries))

\* What passes the checks made before the transaction is also accepted by the
\* constraints inside it, except agents that take each other's names, and then
\* the scenario has exactly the agents that were asked for: kept agents first,
\* each under its entry's name with its entry's content and its old source,
\* then the others in the order of the payload. The library grows by the new
\* agents and is otherwise untouched, and parameters survive exactly if the
\* algorithm does (_parse_scenario_agents, _write_scenario_agents).
SavedAsAsked ==
    edits < MaxEdits =>
    \A agents \in {AgentsOf(s) : s \in ScenarioIds} : \A entries \in Payloads(agents) :
        ValidPayload(agents, entries) /\ Room(library, Cardinality(New(entries))) =>
            AsAsked(agents, entries, Write(agents, entries), EntryNames(entries))

\* An import gives exactly what the file says: every agent with the file's name
\* and configuration, copied from a library agent of that same configuration,
\* and nothing that existed is changed (build_import_plan, apply_import_plan).
ImportIsExact ==
    \A doc \in Files :
        Importable(resource, library, doc)
        /\ Room(library, Cardinality(Created(library, doc))) =>
        LET lib    == ImportLibrary(library, doc)
            agents == ImportAgents(lib, doc)
        IN  /\ \A r \in Present(resource) :
                  ImportResources(resource, doc)[r] = resource[r]
            /\ \A l \in LibraryRows(library) : lib[l] = library[l]
            /\ \A i \in DOMAIN doc.agents :
                  /\ agents[i].name = doc.agents[i].name
                  /\ Config(agents[i]) = Config(doc.agents[i])
                  /\ Config(lib[agents[i].source]) = Config(doc.agents[i])
            /\ \A l \in LibraryRows(lib) : LibraryNameFree(lib, lib[l].name, {l})

\* Exporting a scenario of unedited copies and importing the file into the same
\* database creates neither a resource nor a library agent and gives the same
\* agents with the same sources, provided that the scenario's names differ in
\* more than case and that no edit of the library or the resources has left an
\* agent that no file may contain (scenario_document, build_import_plan).
RoundTripReuses ==
    \A s \in Present(scenario) :
        LET agents == scenario[s]
            doc    == Export(agents)
        IN  /\ \A i \in DOMAIN agents :
                  /\ agents[i].source # NoSource
                  /\ Config(agents[i]) = Config(library[agents[i].source])
                  /\ ValidFileAgent(doc, doc.agents[i])
            /\ \A i, j \in DOMAIN agents :
                  Lower(agents[i].name) = Lower(agents[j].name) => i = j
            => /\ Importable(resource, library, doc)
               /\ Created(library, doc) = {}
               /\ ImportAgents(library, doc) = agents

\* A file gives the agents it says, and one that was exported here adds nothing.
ImportKeepsAgents == ImportIsExact /\ RoundTripReuses

find_violations(res, lib, scn, rn) ==
    \/ \E l \in LibraryRows(lib) : ~ Fits(res, lib[l].type, lib[l].plants)
    \/ \E s \in Present(scn) : \E i \in DOMAIN scn[s] :
          ~ Fits(res, scn[s][i].type, scn[s][i].plants)
    \/ \E g \in Present(rn) : \E i \in DOMAIN rn[g] :
          ~ Fits(res, rn[g][i].type, rn[g][i].plants)

\* No request makes an agent own a plant its type forbids, except the one that
\* nobody checks: changing the energy type of a resource in use
\* (resource_rules.find_violations, views.resource_update).
RuleBrokenByResourceOnly ==
    [][ \/ find_violations(resource, library, scenario, run)
        \/ \E r \in Present(resource) :
              resource'[r] # NoRow /\ resource'[r].energy # resource[r].energy
        \/ ~ find_violations(resource', library', scenario', run') ]_vars

\* "Agent copies keep ... their names (names are unique per market only)"
\* (library_service.py:790). They do not: the copy of a second name that
\* differs from the first in case only is renamed.
CopiesKeepTheirNames ==
    [][ \A s, t \in ScenarioIds :
          duplicate_scenario(s, t) => Names(scenario'[t]) = Names(scenario[s]) ]_vars
=============================================================================
