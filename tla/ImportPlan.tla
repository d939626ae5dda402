------------------------------ MODULE ImportPlan ------------------------------
(***************************************************************************)
(* What a plan of an import is, and which plans an apply takes:            *)
(* src/application/import-plan.ts, and the policy a plan is bound to,      *)
(* src/application/import-policy.ts.                                       *)
(*                                                                         *)
(* A plan is a document the operator carries from the preview to the apply: *)
(* the apply recomputes everything in it that can be recomputed.  An id is  *)
(* a digest of an identity: here the identity itself.                      *)
(*                                                                         *)
(* Abstracted: byte, depth and length limits; the summary, which counts     *)
(* kinds.  Objects are numbers, and ids of one type and time are ordered    *)
(* by their objects (in the code by a digest, which says as little).       *)
(***************************************************************************)
EXTENDS ExternalLinks, FiniteSets

CONSTANTS
    TypeOf,      \* [Object -> object type]
    ProviderOf   \* [Scope -> provider]

ObjectType == {"issue", "pull_request", "check", "pull_request_review"}
Capability == {"none", "preview", "apply"}

ASSUME ImportAssumption ==
    /\ Object \subseteq Nat
    /\ TypeOf \in [Object -> ObjectType]
    /\ ProviderOf \in [Scope -> {"github", "linear", "gitee"}]

-----------------------------------------------------------------------------
(* ImportPolicy                                                            *)

ProviderTypes(provider) == IF provider = "github" THEN ObjectType ELSE {"issue"}

\* What a policy says of one scope; a capability to apply includes the preview.
ScopePolicy(scope) ==
    [types: SUBSET ProviderTypes(ProviderOf[scope]) \ {{}}, capability: Capability]

Covers(policy, scope, types) == policy[scope] # None /\ types \subseteq policy[scope].types

BindingVersion(provider, types) ==
    CASE provider = "gitee" -> 2
      [] provider = "github" /\ "pull_request_review" \in types -> 3
      [] OTHER -> 1

\* buildPolicyBinding, of a policy that covers the scope; its digest is itself
PolicyBinding(policy, scope, types) ==
    [version |-> BindingVersion(ProviderOf[scope], types),
     applyAllowed |-> policy[scope].capability = "apply",
     scope |-> scope, types |-> types]

\* normalizePolicyBinding
IsBinding(b) ==
    /\ b.scope \in Scope
    /\ b.types # {} /\ b.types \subseteq ProviderTypes(ProviderOf[b.scope])
    /\ b.version = BindingVersion(ProviderOf[b.scope], b.types)

-----------------------------------------------------------------------------
(* Ids and the canonical order.                                            *)

EventType == <<"work_item.created", "external_link.linked", "external_link.observed",
               "work_item.updated", "artifact.linked", "evidence.recorded">>

ActionKind == <<"conflict", "create", "link", "refresh", "skip", "update">>
Target == <<"artifact", "evidence", "external-link", "external-link-observation",
            "work-item", "work-item-title">>

Position(x, seq) == CHOOSE k \in 1..Len(seq) : seq[k] = x

EventId(type, item, object, rev, target) == <<type, item, object, rev, target>>
ActionId(item, object, rev, target) == <<item, object, rev, target>>

ObjectOf(action) == action.id[2]
TargetOf(action) == action.id[4]

EventBefore(e, f) ==
    LET d == Position(e.type, EventType) - Position(f.type, EventType) IN
    \/ d < 0
    \/ d = 0 /\ e.at < f.at
    \/ d = 0 /\ e.at = f.at /\ e.id[3] < f.id[3]

\* Actions without an event come last.
ActionRank(action) == IF action.event = None THEN 90 ELSE Position(action.event[1], EventType)

ActionKey(action) ==
    <<ActionRank(action), Position(action.kind, ActionKind), ObjectOf(action),
      Position(TargetOf(action), Target)>>

ActionBefore(a, b) ==
    \E k \in 1..4 : /\ ActionKey(a)[k] < ActionKey(b)[k]
                    /\ \A j \in 1..(k - 1) : ActionKey(a)[j] = ActionKey(b)[j]

Sorted(S, Before(_, _)) ==
    [k \in 1..Cardinality(S) |->
        CHOOSE x \in S : Cardinality({y \in S : Before(y, x)}) = k - 1]

Elements(seq) == {seq[k] : k \in DOMAIN seq}

-----------------------------------------------------------------------------
(* Which actions there are.                                                *)

Rule(kind, reason, target) == <<kind, reason, target>>
RuleOf(action) == Rule(action.kind, action.reason, TargetOf(action))

\* EVENT_ACTION_RULES
EventRules == [t \in Elements(EventType) |->
    CASE t = "work_item.created"      -> {Rule("create", "NEW_WORK_ITEM", "work-item")}
      [] t = "external_link.linked"   -> {Rule("link", "NEW_EXTERNAL_LINK", "external-link")}
      [] t = "external_link.observed" ->
            {Rule("refresh", reason, "external-link-observation") :
                reason \in {"LEGACY_LINK_BASELINE", "NEW_SOURCE_REVISION"}}
      [] t = "work_item.updated" -> {Rule("update", "MANAGED_TITLE_CHANGED", "work-item-title")}
      [] t = "artifact.linked"   -> {Rule("link", "NEW_ARTIFACT", "artifact")}
      [] t = "evidence.recorded" -> {Rule("update", "NEW_EVIDENCE", "evidence")}]

\* NO_EVENT_ACTION_RULES
NoEventRules ==
    {Rule("skip", "EXACT_EVENT_DUPLICATE", t) : t \in {"artifact", "evidence"}}
    \cup {Rule("skip", r, "external-link-observation") :
            r \in {"EXACT_DUPLICATE", "STALE_SOURCE_REVISION"}}
    \cup {Rule("conflict", "PROVIDER_OBJECT_ALREADY_LINKED", t) :
            t \in {"work-item", "external-link"}}
    \cup {Rule("conflict", "WORK_ITEM_MAPPING_CONFLICT", "work-item")}
    \cup {Rule("conflict", "FIELD_AUTHORITY_CONFLICT", t) :
            t \in {"external-link", "external-link-observation"}}
    \cup {Rule("conflict", "SNAPSHOT_SCOPE_MISMATCH", "external-link")}
    \cup {Rule("conflict", r, "external-link-observation") :
            r \in {"SOURCE_REVISION_CONTENT_CONFLICT", "SOURCE_REVISION_ORDER_AMBIGUOUS"}}
    \cup {Rule("conflict", r, t) :
            r \in {"EVENT_ID_CONFLICT", "DOMAIN_INVARIANT_VIOLATION"}, t \in Elements(Target)}
    \cup {Rule("conflict", "FIELD_AUTHORITY_CONFLICT", "work-item-title")}

\* eventPayloadIdentityMatchesAction
PayloadMatches(action, e) ==
    LET source == <<ObjectOf(action), action.id[3]>> IN
    CASE e.type \in {"work_item.created", "external_link.linked"} ->
            ~e.payload.link.legacy /\ <<e.payload.link.object, e.payload.link.last.rev>> = source
      [] e.type = "external_link.observed" ->
            <<e.payload.object, e.payload.observation.rev>> = source
      [] e.type = "work_item.updated" -> <<e.payload.object, e.payload.rev>> = source
      [] OTHER -> TRUE

\* The event an action claims is one it may claim.
Claims(action, e) ==
    /\ e.item = action.id[1]
    /\ RuleOf(action) \in EventRules[e.type]
    /\ PayloadMatches(action, e)
    /\ e.id = EventId(e.type, action.id[1], ObjectOf(action), action.id[3], TargetOf(action))

WithoutEvent(action) == action.kind \in {"skip", "conflict"}

Conflicts(actions) == {[action |-> a.id, code |-> a.reason] :
                          a \in {b \in actions : b.kind = "conflict"}}
Warnings(actions) == {[action |-> a.id, code |-> a.reason] :
                         a \in {b \in actions : b.kind = "skip" /\ b.reason = "STALE_SOURCE_REVISION"}}

\* normalizeImportPlan: what is refused here is refused as tampered with.
IsPlan(p) ==
    LET actions == Elements(p.actions)
        events == Elements(p.events)
    IN  /\ IsBinding(p.binding)
        /\ Cardinality({e.id : e \in events}) = Len(p.events)
        /\ Cardinality({a.id : a \in actions}) = Len(p.actions)
        /\ \A a \in actions :
            IF WithoutEvent(a) THEN a.event = None /\ RuleOf(a) \in NoEventRules
            ELSE \E e \in events : e.id = a.event /\ Claims(a, e)
        /\ \A e \in events : Cardinality({a \in actions : a.event = e.id}) = 1
        /\ p.events = Sorted(events, EventBefore)
        /\ p.actions = Sorted(actions, ActionBefore)
        /\ p.conflicts = Conflicts(actions)
        /\ p.warnings = Warnings(actions)
=============================================================================
