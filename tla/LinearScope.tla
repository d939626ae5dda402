----------------------------- MODULE LinearScope -----------------------------
(***************************************************************************)
(* Which team, project and states of Linear a configuration means:         *)
(* src/connectors/linear-bootstrap-scope.ts.                               *)
(*                                                                         *)
(* A configuration names them; Linear knows them by id.  Four lists are     *)
(* read page by page, one after the other: the teams of the organization,   *)
(* its projects, the teams of the project, the states of the team.  What is *)
(* configured must be in its list, and only once.                           *)
(*                                                                         *)
(* Names are compared as lower case: here they are lower case.  A cursor is *)
(* the position it stands for.  A list of Linear is                         *)
(* [org, teams, projects, members: project -> teams, states: team -> states] *)
(* in the order Linear answers in.  Abstracted: the shape of an answer.     *)
(***************************************************************************)
EXTENDS Naturals, SequencesExt

CONSTANTS
    None,
    Configured,    \* [workspace, team, project, ready, completed]: the names
    PAGE_SIZE,
    MAXIMUM_PAGES

\* What Linear lists: teams, projects, the teams of each project, the states of each team.
IsSequence(list) == list \in Seq(ToSet(list))
IsListed(linear) ==
    /\ IsSequence(linear.teams) /\ IsSequence(linear.projects)
    /\ \A p \in ToSet(linear.projects) : IsSequence(linear.members[p.id])
    /\ \A t \in ToSet(linear.teams) : IsSequence(linear.states[t.id])

ScopeStages == <<"teams", "projects", "members", "states">>

\* What a reading of the scope knows.
EmptyReading ==
    [stage |-> "teams", after |-> 0, page |-> 0, visited |-> {}, nodes |-> {}, org |-> None,
     team |-> None, project |-> None]

\* The list that is read at a stage.
ListOf(linear, r) ==
    CASE r.stage = "teams"    -> linear.teams
      [] r.stage = "projects" -> linear.projects
      [] r.stage = "members"  -> linear.members[r.project]
      [] r.stage = "states"   -> linear.states[r.team]

\* What Linear answers when it is asked for the page after a position.
Page(list, after) ==
    LET last == IF after + PAGE_SIZE < Len(list) THEN after + PAGE_SIZE ELSE Len(list)
    IN  [nodes |-> ToSet(SubSeq(list, after + 1, last)),
         hasNextPage |-> last < Len(list), endCursor |-> last]

\* readNextCursor: a cursor that was there before would go in circles.
NextCursor(page, visited) ==
    [ok |-> page.hasNextPage => page.endCursor \notin visited,
     cursor |-> IF page.hasNextPage THEN page.endCursor ELSE None]

WithinPages(r) == r.page < MAXIMUM_PAGES

\* uniqueById: an object that changed while the pages were read is refused.
IsSteady(nodes) == \A a, b \in nodes : a.id = b.id => a = b

\* The organization answers with every page of teams.
SameOrganization(linear, r) == r.stage = "teams" => r.org \in {None, linear.org}

IsTeam(t) == Configured.team \in {t.name, t.key}
IsProject(p) == p.name = Configured.project

Teams(nodes) == {t \in nodes : IsTeam(t)}
Projects(nodes) == {p \in nodes : IsProject(p)}

\* Mutant: the first match is taken.
IsThere(nodes) == nodes # {}

\* selectUnique
IsUnique(nodes) == \E n \in nodes : nodes = {n}

Only(nodes) == CHOOSE n \in nodes : TRUE

\* validateWorkspace
IsWorkspace(org) == Configured.workspace \in {org.name, org.urlKey}

\* resolveLinearReadyWorkScope: the states are there once, of their types, and two.
Named(nodes, name) == {n \in nodes : n.name = name}
HasReadyStates(nodes) ==
    LET ready == Named(nodes, Configured.ready)
        completed == Named(nodes, Configured.completed)
    IN  /\ IsUnique(ready) /\ IsUnique(completed)
        /\ Only(ready).type = "unstarted" /\ Only(completed).type = "completed"
        /\ Only(ready).id # Only(completed).id

ReadyScope(r) ==
    [team |-> r.team, project |-> r.project,
     ready |-> Only(Named(r.nodes, Configured.ready)).id,
     completed |-> Only(Named(r.nodes, Configured.completed)).id]

\* Whether a list that was read to its end lets the reading go on.
Accepts(r) ==
    CASE r.stage = "teams" ->
            IsWorkspace(r.org) /\ IsSteady(r.nodes) /\ IsUnique(Teams(r.nodes))
      [] r.stage = "projects" -> IsSteady(r.nodes) /\ IsUnique(Projects(r.nodes))
      [] r.stage = "members" -> r.team \in {n.id : n \in r.nodes}
      [] r.stage = "states" -> IsSteady(r.nodes) /\ HasReadyStates(r.nodes)

\* The next list is read from its beginning.
NextList(r) ==
    LET next == [r EXCEPT !.after = 0, !.page = 0, !.visited = {}, !.nodes = {}]
    IN  CASE r.stage = "teams" ->
                [next EXCEPT !.stage = "projects", !.team = Only(Teams(r.nodes)).id]
          [] r.stage = "projects" ->
                [next EXCEPT !.stage = "members", !.project = Only(Projects(r.nodes)).id]
          [] r.stage = "members" -> [next EXCEPT !.stage = "states"]
          [] r.stage = "states"  -> [r EXCEPT !.stage = "resolved"]

\* A reading after one more page, or None when the page is refused.
AfterPage(linear, r) ==
    LET page == Page(ListOf(linear, r), r.after)
        next == NextCursor(page, r.visited)
        read == [r EXCEPT !.nodes = @ \cup page.nodes,
                          !.org = IF r.stage = "teams" THEN linear.org ELSE @]
    IN  IF ~WithinPages(r) \/ ~SameOrganization(linear, r) \/ ~next.ok THEN None
        ELSE IF next.cursor # None
        THEN [read EXCEPT !.after = next.cursor, !.page = @ + 1, !.visited = @ \cup {next.cursor}]
        ELSE IF Accepts(read) THEN NextList(read) ELSE None

-----------------------------------------------------------------------------
\* What a configuration means, of lists that stand still: the reference.
IsScope(linear, s) ==
    /\ IsWorkspace(linear.org)
    /\ \A t \in ToSet(linear.teams) : IsTeam(t) <=> t.id = s.team
    /\ \A p \in ToSet(linear.projects) : IsProject(p) <=> p.id = s.project
    /\ \E m \in ToSet(linear.members[s.project]) : m.id = s.team
    /\ \A n \in ToSet(linear.states[s.team]) :
        /\ (n.name = Configured.ready) <=> (n.id = s.ready)
        /\ (n.name = Configured.completed) <=> (n.id = s.completed)
        /\ n.id = s.ready => n.type = "unstarted"
        /\ n.id = s.completed => n.type = "completed"
=============================================================================
