---------------------------- MODULE SkillMethods ----------------------------
(***************************************************************************)
(* Trusted Skills (skill).  An installer stages a package in a hidden      *)
(* directory under a lock and publishes it with one rename                 *)
(* (skill/install/fallback); the API reads the visible packages when it    *)
(* starts (skill/discovery.go); a Run freezes the packages its Agents are  *)
(* bound to (Catalog.Freeze); and the active methods of an Agent are       *)
(* computed for every request from the durable events of the Run           *)
(* (skill/activation.go), since no activation state is kept.  A package is *)
(* named by its Skill and its version stands for its hash; the content of  *)
(* a resource is the sequence of its bytes, TRUE where a character starts. *)
(***************************************************************************)
EXTENDS Naturals, FiniteSets, SequencesExt

CONSTANTS Names,       \* Skills
          Versions,    \* versions of a package, naturals above 0
          Policy,      \* invocation policy of a package: [Names -> {"automatic", "explicit_only"}]
          RequiredTools, \* Tools a package needs: [Names -> SUBSET Tools]
          Tools,
          Agents,
          Bound,       \* Skills each Agent is bound to
          Binding,     \* policy of each binding: [Agents -> [Names -> policies]]
          Installed,   \* versions on disk when the API starts, 0 where there is none
          Installers,
          Resource,    \* bytes of the text resource of a package
          MaxPageBytes,
          MaxEvents    \* bound: durable events of the Run

VARIABLES disk,      \* visible package directories: version, or 0 where there is none, and the files in them
          staged,    \* of each installer: name and version it is installing, how far it is, and the files in its hidden directory
          lock,      \* installer that made the lock directory, or "none"
          catalog,   \* packages the API process trusts: version and the files it has read
          skillFrozen,    \* packages of the Run's snapshot: version, 0 where not frozen
          task,      \* the Skill the user's task starts with, or "none"
          ready,     \* Tools that are ready now
          log,       \* durable events of the Run
          skillTurn,      \* Agent and Skill input of the Turn; its phase is "none", "assemble", "model" or "failed"
          skillRequest,   \* methods of the last request, with the Agent it was for
          shown,     \* methods each Agent has been shown in this Run
          page       \* last page of a resource that was read

skillVars == <<disk, staged, lock, catalog, skillFrozen, task, ready, log, skillTurn, skillRequest, shown, page>>

Files == {"SKILL.md", "reference"}   \* of a package
Absent == [version |-> 0, files |-> {}]
Idle == [phase |-> "idle", name |-> "none", version |-> 0, files |-> {}]
SkillNoTurn == [phase |-> "none", agent |-> "none", input |-> "none"]
NoPage == [name |-> "none", version |-> 0, agent |-> "none", offset |-> 0, next |-> 0]
NoRequest == [agent |-> "none", methods |-> {}]

\* A visible directory without SKILL.md is passed over; of another one the resources that are there are read.
visitRoot(n) == IF "SKILL.md" \in disk[n].files THEN disk[n] ELSE Absent

\* The API has read its installation root.
SkillInit ==
    /\ disk = [n \in Names |-> IF Installed[n] = 0 THEN Absent ELSE [version |-> Installed[n], files |-> Files]]
    /\ staged = [i \in Installers |-> Idle] /\ lock = "none"
    /\ catalog = [n \in Names |-> visitRoot(n)] /\ skillFrozen = [n \in Names |-> 0] /\ task = "none"
    /\ ready = Tools /\ log = <<>> /\ skillTurn = SkillNoTurn /\ skillRequest = NoRequest
    /\ shown = [a \in Agents |-> {}] /\ page = NoPage

runVars == <<skillFrozen, task, ready, log, skillTurn, skillRequest, shown, page>>

-----------------------------------------------------------------------------
(* Installing and discovering. *)

\* The destination is looked at, then a commit is resolved and all its files are read.
Fetch(i, n, v) ==
    /\ staged[i].phase = "idle" /\ disk[n] = Absent
    /\ staged' = [staged EXCEPT ![i] = [phase |-> "fetched", name |-> n, version |-> v, files |-> {}]]
    /\ UNCHANGED <<disk, lock, catalog, runVars>>

Stage(i) ==
    /\ staged[i].phase = "fetched"
    /\ IF lock = "none" THEN lock' = i /\ staged' = [staged EXCEPT ![i].phase = "writing"]
       ELSE UNCHANGED lock /\ staged' = [staged EXCEPT ![i] = Idle]
    /\ UNCHANGED <<disk, catalog, runVars>>

\* The files are written one after the other, in any order, and read back by the loader, which may refuse them;
\* it does not know how many there should be.
writeNew(i, f) ==
    /\ staged[i].phase = "writing" /\ f \notin staged[i].files
    /\ staged' = [staged EXCEPT ![i].files = @ \union {f}]
    /\ UNCHANGED <<disk, lock, catalog, runVars>>
Refuse(i) ==
    /\ staged[i].phase = "writing" /\ staged' = [staged EXCEPT ![i] = Idle] /\ lock' = "none"
    /\ UNCHANGED <<disk, catalog, runVars>>

Publish(i) ==
    /\ staged[i].phase = "writing" /\ staged[i].files = Files
    /\ disk' = IF disk[staged[i].name] # Absent THEN disk
               ELSE [disk EXCEPT ![staged[i].name] = [version |-> staged[i].version, files |-> staged[i].files]]
    /\ staged' = [staged EXCEPT ![i] = Idle] /\ lock' = "none"
    /\ UNCHANGED <<catalog, runVars>>

\* An installer that dies leaves its lock and what it has staged; an operator removes the lock.
Die(i) ==
    /\ staged[i].phase = "writing" /\ staged' = [staged EXCEPT ![i].phase = "dead"]
    /\ UNCHANGED <<disk, lock, catalog, runVars>>
RemoveLock ==
    /\ lock # "none" /\ staged[lock].phase = "dead" /\ lock' = "none"
    /\ UNCHANGED <<disk, staged, catalog, runVars>>

\* An operator removes a package.
Uninstall(n) ==
    /\ disk[n] # Absent /\ disk' = [disk EXCEPT ![n] = Absent]
    /\ UNCHANGED <<staged, lock, catalog, runVars>>

\* The API restarts: packages are read once, and a Run goes on with its own snapshot.
LoadRoots ==
    /\ catalog' = [n \in Names |-> visitRoot(n)]
    /\ skillTurn' = SkillNoTurn
    /\ UNCHANGED <<disk, staged, lock, skillFrozen, task, ready, log, skillRequest, shown, page>>

-----------------------------------------------------------------------------
(* A Run. *)

EffectiveSkillPolicy(packagePolicy, bindingPolicy) ==
    IF packagePolicy = "explicit_only" \/ bindingPolicy = "explicit_only" THEN "explicit_only" ELSE "automatic"
explicitOnly(agent, n) == EffectiveSkillPolicy(Policy[n], Binding[agent][n]) = "explicit_only"

\* All packages of all Agents are in the catalog and need only Tools that are ready, or the Run does not start.
Freeze(first) ==
    LET names == UNION {Bound[a] : a \in Agents}
    IN  /\ \A n \in Names : skillFrozen[n] = 0
        /\ \A n \in names : catalog[n].version # 0 /\ RequiredTools[n] \subseteq ready
        /\ skillFrozen' = [n \in Names |-> IF n \in names THEN catalog[n].version ELSE 0] /\ task' = first
        /\ UNCHANGED <<disk, staged, lock, catalog, ready, log, skillTurn, skillRequest, shown, page>>

\* A Turn of an Agent, with the user's task or with a prompt of the runtime.
WithAgent(agent, input) ==
    /\ skillTurn.phase # "assemble" /\ \E n \in Names : skillFrozen[n] # 0
    /\ skillTurn' = [phase |-> "assemble", agent |-> agent, input |-> input]
    /\ UNCHANGED <<disk, staged, lock, catalog, skillFrozen, task, ready, log, skillRequest, shown, page>>

\* Mutant: only receipts of skill_load activate a method.
selectByReceipts(selected, e) ==
    IF e.kind = "load" /\ e.agent = skillTurn.agent /\ e.name \in Bound[skillTurn.agent] /\ (explicitOnly(skillTurn.agent, e.name) => e.name \in selected)
    THEN selected \union {e.name} ELSE selected
selectByEvent(selected, e) ==
    IF e.agent # skillTurn.agent \/ e.name \notin Bound[skillTurn.agent] THEN selected
    ELSE IF e.kind = "manifest" THEN selected \union {n \in {e.name} : e.explicit /\ e.version = skillFrozen[n]}
    ELSE selected \union {n \in {e.name} : explicitOnly(skillTurn.agent, n) => n \in selected}

dependenciesReady == \A n \in Bound[skillTurn.agent] : RequiredTools[n] \subseteq ready
mayInvoke == dependenciesReady /\ (skillTurn.input = "none" \/ skillTurn.input \in Bound[skillTurn.agent])
Active == FoldLeft(selectByEvent, IF skillTurn.input = "none" THEN {} ELSE {skillTurn.input}, log)

\* The methods of a request are written into its manifest.
SkillAssemble ==
    /\ skillTurn.phase = "assemble" /\ Len(log) + Cardinality(Active) <= MaxEvents
    /\ IF ~mayInvoke THEN skillTurn' = [skillTurn EXCEPT !.phase = "failed"] /\ UNCHANGED <<log, skillRequest, shown>>
       ELSE /\ skillTurn' = [skillTurn EXCEPT !.phase = "model"]
            /\ skillRequest' = [agent |-> skillTurn.agent, methods |-> {[name |-> n, version |-> skillFrozen[n]] : n \in Active}]
            /\ shown' = [shown EXCEPT ![skillTurn.agent] = @ \union {[name |-> n, version |-> skillFrozen[n]] : n \in Active}]
            /\ log' = log \o SetToSeq({[kind |-> "manifest", agent |-> skillTurn.agent, name |-> n, version |-> skillFrozen[n],
                                       explicit |-> skillTurn.input = n] : n \in Active})
    /\ UNCHANGED <<disk, staged, lock, catalog, skillFrozen, task, ready, page>>

\* skill_load: the method is in the next request.
load(n) ==
    /\ skillTurn.phase = "model" /\ mayInvoke /\ n \in Bound[skillTurn.agent] /\ Len(log) < MaxEvents
    /\ explicitOnly(skillTurn.agent, n) => n \in Active
    /\ log' = Append(log, [kind |-> "load", agent |-> skillTurn.agent, name |-> n, version |-> skillFrozen[n], explicit |-> FALSE])
    /\ skillTurn' = [skillTurn EXCEPT !.phase = "assemble"]
    /\ UNCHANGED <<disk, staged, lock, catalog, skillFrozen, task, ready, skillRequest, shown, page>>

pageEnd(offset, limit) ==
    LET end == IF offset + limit < Len(Resource) THEN offset + limit ELSE Len(Resource)
        whole == {e \in offset..end : e = Len(Resource) \/ Resource[e + 1]}
    IN  CHOOSE e \in whole : \A d \in whole : d <= e

\* skill_read: a page of a resource of an active method; offsets count bytes from 0.
read(n, offset, limit) ==
    LET next == pageEnd(offset, limit)
    IN  /\ skillTurn.phase = "model" /\ mayInvoke /\ n \in Active
        /\ offset < Len(Resource) /\ Resource[offset + 1] /\ limit \in 1..MaxPageBytes /\ next # offset
        /\ page' = [name |-> n, version |-> skillFrozen[n], agent |-> skillTurn.agent, offset |-> offset, next |-> next]
        /\ UNCHANGED <<disk, staged, lock, catalog, skillFrozen, task, ready, log, skillTurn, skillRequest, shown>>

\* An operator disables a Tool or enables it again.
SetReady(tool) ==
    /\ ready' = IF tool \in ready THEN ready \ {tool} ELSE ready \union {tool}
    /\ UNCHANGED <<disk, staged, lock, catalog, skillFrozen, task, log, skillTurn, skillRequest, shown, page>>

SkillNext ==
    \/ \E i \in Installers : \/ \E n \in Names, v \in Versions : Fetch(i, n, v)
                             \/ \E f \in Files : writeNew(i, f)
                             \/ Stage(i) \/ Refuse(i) \/ Publish(i) \/ Die(i)
    \/ RemoveLock \/ LoadRoots
    \/ \E n \in Names : Uninstall(n) \/ load(n)
    \/ \E n \in Names, offset \in 0..Len(Resource), limit \in 1..MaxPageBytes : read(n, offset, limit)
    \/ \E first \in Names \union {"none"} : Freeze(first)
    \/ \E agent \in Agents, input \in {task, "none"} : WithAgent(agent, input)
    \/ SkillAssemble
    \/ \E tool \in Tools : SetReady(tool)

SkillSpec == SkillInit /\ [][SkillNext]_skillVars

-----------------------------------------------------------------------------
(* Properties. *)

\* The API trusts only packages with all their files, however installers race, die or are locked out.
CatalogIsWhole == \A n \in Names : catalog[n].version # 0 => catalog[n].files = Files

\* A package that is there is never replaced by an installation: it changes only by being removed first.
installedIsKept == \A n \in Names : disk[n] # Absent => disk'[n] \in {Absent, disk[n]}

\* A method the package or the binding keeps for the user reaches an Agent, by its instructions or by a page of its
\* resources, only in a Run whose task the user began with it, whatever the model loads and other Agents did.
ExplicitNeedsTheUser ==
    /\ \A a \in Agents : \A m \in shown[a] :
           m.name \in Bound[a] /\ (Policy[m.name] = "explicit_only" \/ Binding[a][m.name] = "explicit_only" => m.name = task)
    /\ page.name # "none" =>
           page.name \in Bound[page.agent]
           /\ (Policy[page.name] = "explicit_only" \/ Binding[page.agent][page.name] = "explicit_only" => page.name = task)

\* An active method stays active for its Agent, in the version the Run was started with: every later request
\* carries it, in Turns whose prompt does not name it and after packages were replaced and the API restarted.
MethodsStay == skillRequest.agent \in Agents => shown[skillRequest.agent] \subseteq skillRequest.methods

\* A page begins and ends where a character does.
PagesAreCharacters ==
    page.name # "none" => /\ page.next > page.offset /\ Resource[page.offset + 1]
                          /\ page.next = Len(Resource) \/ Resource[page.next + 1]

\* Methods reach those they are for, whole and unchanged, while packages are installed and
\* replaced: the five parts above.
SkillsSafe ==
    /\ [](CatalogIsWhole /\ ExplicitNeedsTheUser /\ MethodsStay /\ PagesAreCharacters)
    /\ [][installedIsKept]_skillVars
=============================================================================
