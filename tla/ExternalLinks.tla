---------------------------- MODULE ExternalLinks ----------------------------
(***************************************************************************)
(* Work items and the provider objects they are linked to: the link and    *)
(* title events of src/domain/workflow.ts, and applyEvent, which dispatches *)
(* an event after looking its id up among those already processed.         *)
(*                                                                         *)
(* A workflow w is [items, processed].  An item holds its title, its links *)
(* and its delivery state (module Workflow).  An event is a record whose   *)
(* payload depends on its type; two events with one id are the same event  *)
(* when they are equal.  Refusal(w, e) is the code of the DomainError      *)
(* applyEvent throws, or "none"; Applied(w, e) is what it returns.         *)
(*                                                                         *)
(* Abstracted: urls; the digest of a fact's content is its title (its other *)
(* parts never change); of the managed fields there is only the title.     *)
(***************************************************************************)
EXTENDS Workflow

CONSTANTS
    ItemId,
    Object,        \* provider objects
    Scope,         \* repositories and teams objects are read from
    RevisionId,    \* ids a provider gives to the revisions of an object
    Title,
    OtherEvidence  \* required evidence that no import mapping names

ASSUME ObjectAssumption == None \notin ItemId /\ None \notin Scope

Observation == [rev: RevisionId, at: Time, title: Title]
Link == [object: Object, legacy: BOOLEAN, scope: Scope \cup {None},
         managed: BOOLEAN, last: Observation \cup {None}]
Item == [title: Title, required: {RequiredEvidence, OtherEvidence},
         links: SUBSET Link, delivery: WorkItem]

EmptyWorkflow == [items |-> [i \in ItemId |-> None], processed |-> {}]

Known(w) == {i \in ItemId : w.items[i] # None}
LinkOf(w, i, o) == {l \in w.items[i].links : l.object = o}
Owners(w, o) == {i \in Known(w) : LinkOf(w, i, o) # {}}

\* What a legacy event knows of an issue: neither scope, fields nor revision.
LegacyLink(o) == [object |-> o, legacy |-> TRUE, scope |-> None, managed |-> FALSE, last |-> None]

RichLink(o, scope, managed, observation) ==
    [object |-> o, legacy |-> FALSE, scope |-> scope, managed |-> managed, last |-> observation]

NewItem(title, required, link) ==
    [title |-> title, required |-> required, links |-> {link}, delivery |-> CreatedItem]

\* Another link of the item manages its title.
TitleManagedBeside(w, i, o) == \E l \in w.items[i].links : l.object # o /\ l.managed

-----------------------------------------------------------------------------
(* The checks, in the order they are made.                                 *)

\* A legacy link claims its object without being asked who owns it.
CreateRefusal(w, e) ==
    IF e.item \in Known(w) THEN "WORK_ITEM_ALREADY_EXISTS"
    ELSE IF ~e.payload.link.legacy /\ Owners(w, e.payload.link.object) # {}
    THEN "PROVIDER_OBJECT_ALREADY_LINKED"
    ELSE "none"

LinkRefusal(w, e) ==
    LET link == e.payload.link IN
    IF e.item \in Owners(w, link.object) THEN "EXTERNAL_LINK_ALREADY_EXISTS"
    ELSE IF Owners(w, link.object) # {} THEN "PROVIDER_OBJECT_ALREADY_LINKED"
    ELSE IF link.managed /\ TitleManagedBeside(w, e.item, link.object)
    THEN "FIELD_AUTHORITY_CONFLICT"
    ELSE "none"

BaselineRefusal(w, e) ==
    LET o == e.payload.object IN
    IF Owners(w, o) # {e.item} THEN "PROVIDER_OBJECT_ALREADY_LINKED"
    ELSE IF \E l \in LinkOf(w, e.item, o) : ~l.legacy THEN "EXTERNAL_LINK_BASELINE_INVALID"
    ELSE IF e.payload.managed /\ TitleManagedBeside(w, e.item, o)
    THEN "FIELD_AUTHORITY_CONFLICT"
    ELSE "none"

AdvanceRefusal(current, e) ==
    LET next == e.payload.observation IN
    IF e.payload.expected # current.rev THEN "EXTERNAL_LINK_REVISION_MISMATCH"
    ELSE IF next.rev = current.rev
    THEN IF next.title = current.title THEN "SOURCE_REVISION_NOT_ADVANCED"
         ELSE "SOURCE_REVISION_CONTENT_CONFLICT"
    ELSE IF next.at < current.at THEN "SOURCE_REVISION_STALE"
    ELSE IF next.at = current.at THEN "SOURCE_REVISION_ORDER_AMBIGUOUS"
    ELSE "none"

ObserveRefusal(w, e) ==
    LET links == LinkOf(w, e.item, e.payload.object)
        link == CHOOSE l \in links : TRUE
    IN  IF links = {} THEN "EXTERNAL_LINK_NOT_FOUND"
        ELSE IF e.payload.expected = None THEN BaselineRefusal(w, e)
        ELSE IF link.legacy THEN "EXTERNAL_LINK_BASELINE_INVALID"
        ELSE AdvanceRefusal(link.last, e)

\* The title moves only with the observation of the link that manages it.
UpdateRefusal(w, e) ==
    LET links == LinkOf(w, e.item, e.payload.object)
        link == CHOOSE l \in links : TRUE
    IN  IF links = {} THEN "EXTERNAL_LINK_NOT_FOUND"
        ELSE IF ~link.managed THEN "FIELD_AUTHORITY_CONFLICT"
        ELSE IF link.last.rev # e.payload.rev \/ link.last.title # e.payload.after
        THEN "SOURCE_REVISION_MISMATCH"
        ELSE IF w.items[e.item].title # e.payload.before
        THEN "WORK_ITEM_UPDATE_PRECONDITION_FAILED"
        ELSE "none"

DeliveryAccepts(d, e) ==
    CASE e.type = "attempt.started"   -> CanStart(d, e.payload.attempt, e.at)
      [] e.type = "attempt.finished"  -> CanFinish(d, e.payload.attempt)
      [] e.type = "artifact.linked"   ->
            CanLinkArtifact(d, e.payload.attempt, e.payload.artifact, e.payload.revision, e.at)
      [] e.type = "evidence.recorded" -> CanRecordEvidence(d, e.payload.evidence)

\* classifyProcessedEvent
Classified(w, e) ==
    IF e \in w.processed THEN "EXACT_EVENT_DUPLICATE"
    ELSE IF \E p \in w.processed : p.id = e.id THEN "EVENT_ID_CONFLICT"
    ELSE "none"

Refusal(w, e) ==
    CASE Classified(w, e) = "EXACT_EVENT_DUPLICATE" -> "none"
      [] Classified(w, e) = "EVENT_ID_CONFLICT"     -> "EVENT_ID_CONFLICT"
      [] Classified(w, e) = "none" /\ e.type = "work_item.created" -> CreateRefusal(w, e)
      [] Classified(w, e) = "none" /\ e.type # "work_item.created" ->
            CASE e.item \notin Known(w)             -> "UNKNOWN"
              [] e.item \in Known(w) /\ e.type = "external_link.linked"   -> LinkRefusal(w, e)
              [] e.item \in Known(w) /\ e.type = "external_link.observed" -> ObserveRefusal(w, e)
              [] e.item \in Known(w) /\ e.type = "work_item.updated"      -> UpdateRefusal(w, e)
              [] OTHER -> IF DeliveryAccepts(w.items[e.item].delivery, e)
                          THEN "none" ELSE "DELIVERY_REFUSED"

-----------------------------------------------------------------------------
(* The item an accepted event leaves.                                      *)

\* Mutant: a refreshed link no longer manages the title.
ObservedAnew(link, e) ==
    RichLink(link.object, IF e.payload.expected = None THEN e.payload.scope ELSE link.scope,
             FALSE, e.payload.observation)

\* A baseline keeps nothing of the legacy link but its object.
Observed(link, e) ==
    IF e.payload.expected = None
    THEN RichLink(link.object, e.payload.scope, e.payload.managed, e.payload.observation)
    ELSE [link EXCEPT !.last = e.payload.observation]

Delivered(d, e) ==
    CASE e.type = "attempt.started"   -> Started(d, e.payload.attempt, e.at)
      [] e.type = "attempt.finished"  -> Finished(d, e.payload.attempt, e.payload.outcome, e.at)
      [] e.type = "artifact.linked"   ->
            ArtifactLinked(d, e.payload.attempt, e.payload.artifact, e.payload.revision, e.at)
      [] e.type = "evidence.recorded" -> EvidenceRecorded(d, e.payload.evidence)

ItemAfter(w, e) ==
    LET item == w.items[e.item] IN
    CASE e.type = "work_item.created" ->
            NewItem(e.payload.title, e.payload.required, e.payload.link)
      [] e.type = "external_link.linked" ->
            [item EXCEPT !.links = @ \cup {e.payload.link}]
      [] e.type = "external_link.observed" ->
            [item EXCEPT !.links =
                {IF l.object = e.payload.object THEN Observed(l, e) ELSE l : l \in @}]
      [] e.type = "work_item.updated" -> [item EXCEPT !.title = e.payload.after]
      [] OTHER -> [item EXCEPT !.delivery = Delivered(@, e)]

\* Mutant: the ids of applied events are forgotten.
AppliedForgetting(w, e) ==
    IF e \in w.processed \/ Refusal(w, e) # "none" THEN w
    ELSE [w EXCEPT !.items[e.item] = ItemAfter(w, e)]

\* applyEvent: an event already processed changes nothing, a refused one throws.
Applied(w, e) ==
    IF e \in w.processed \/ Refusal(w, e) # "none" THEN w
    ELSE [items |-> [w.items EXCEPT ![e.item] = ItemAfter(w, e)],
          processed |-> w.processed \cup {e}]
=============================================================================
