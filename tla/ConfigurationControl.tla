------------------------ MODULE ConfigurationControl ------------------------
(***************************************************************************)
(* Changing the configuration: application/configuration-control.ts,       *)
(* configuration-authority.ts and configuration-editor.ts.                 *)
(*                                                                         *)
(* A workspace is configured by three files: the user's, which all his     *)
(* workspaces share, the project's and the local one.  A writer (command   *)
(* line, editor or running Control Room) inspects them, asks for a change  *)
(* of one field or for a whole document, and applies the plan it gets      *)
(* under a lock file.  People edit the files by hand whenever they like.   *)
(*                                                                         *)
(* Abstracted: a revision is the content it is a digest of; the three      *)
(* files are inspected in one step; overrides by environment and command   *)
(* line, the views of integrations, file modes.  A lock whose unlink fails *)
(* stays, as after a crash.                                                *)
(***************************************************************************)
EXTENDS FiniteSets

CONSTANTS
    Writer,           \* requests to change the configuration
    WorkspaceOf,      \* the workspace of each
    Requests,         \* what each may ask for
    HandEdits,        \* pairs <<file, content>> a person may write
    CrashableWriter,  \* writers that may die
    Initial,          \* the content of the files at first
    Broken,           \* a content that does not parse
    Missing           \* no file, no value, no owner

VARIABLES
    content,  \* what each file holds: a document, Broken or Missing
    lock,     \* per lock file its owner, or Missing
    writer,   \* per writer [pc, request, expected, view, plan, result]
    edited    \* files edited by hand since a writer last compared them

confVars == <<content, lock, writer, edited>>

-----------------------------------------------------------------------------
ConfigurationScopes == {"user", "project", "local"}

\* The user's file has no workspace.
FileOf(ws, scope) == <<IF scope = "user" THEN Missing ELSE ws, scope>>
Workspaces == {WorkspaceOf[w] : w \in Writer}
ConfigurationFiles == {FileOf(ws, scope) : ws \in Workspaces, scope \in ConfigurationScopes}

ASSUME ConfigurationAssumption ==
    /\ Missing \notin Writer
    /\ DOMAIN Initial = ConfigurationFiles
    /\ \A e \in HandEdits : e[1] \in ConfigurationFiles

\* The fields modelled: one that the process is bound to and one that it is not
\* in the project file, and one each in the others.
ScopeOfKey(key) == CASE key = "ui.locale" -> "user" [] key = "runtime.port" -> "local" [] OTHER -> "project"
ProcessBound == {"project", "runtime.port"}

View(ws) == [scope \in ConfigurationScopes |-> content[FileOf(ws, scope)]]
IsDocument(c) == c \notin {Missing, Broken}

\* inspectConfiguration: nothing is in effect unless every source is readable;
\* the project file may not be missing.
Effective(view) ==
    IF IsDocument(view["project"]) /\ Broken \notin {view[s] : s \in ConfigurationScopes} THEN view["project"] ELSE Missing

\* configurationRuntimeRevision: what a running process depends on.
RuntimeRevision(view) ==
    <<IF IsDocument(view["project"]) THEN view["project"]["project"] ELSE Missing,
      IF IsDocument(view["local"]) THEN view["local"]["runtime.port"] ELSE Missing>>

\* resolveChangeTarget, resolveDraftTarget
TargetScope(request) == IF request.kind = "draft" THEN request.scope ELSE ScopeOfKey(request.key)
TargetFile(w) == FileOf(WorkspaceOf[w], TargetScope(writer[w].request))

Empty(scope) ==
    CASE scope = "user" -> [k \in {"ui.locale"} |-> Missing]
      [] scope = "local" -> [k \in {"runtime.port"} |-> Missing]
      [] OTHER -> [k \in {"project", "github.repository"} |-> Missing]

\* readTargetDocument: only the project file must be there.
CanRead(scope, c) == IsDocument(c) \/ (c = Missing /\ scope # "project")
DocumentIn(scope, c) == IF c = Missing THEN Empty(scope) ELSE c

\* normalizeConfigurationChange, validateTargetDocument
ChangeIsValid(request) == request.key = "project" => request.value # Missing
DocumentIsValid(scope, document) == scope = "project" => document["project"] # Missing

\* applyChange, setNestedValue, deleteNestedValue
Changed(document, request) == [document EXCEPT ![request.key] = request.value]

\* projectDraftRequiresRestart, given the document that is to be compared with
\* the one in effect.
RequiresRestart(scope, document, view) ==
    CASE scope = "user" -> FALSE
      [] scope = "local" -> TRUE
      [] OTHER -> Effective(view) = Missing \/ Effective(view)["project"] # document["project"]

\* prepareConfigurationDraft and prepareConfigurationChange: the latter asks
\* for a restart by the document as it was before the change.
PlanFor(request, view, read) ==
    LET scope == TargetScope(request)
        before == DocumentIn(scope, read)
    IN  IF request.kind = "draft"
        THEN [base |-> view[scope], desired |-> request.document,
              restartRequired |-> RequiresRestart(scope, request.document, view)]
        ELSE [base |-> view[scope], desired |-> Changed(before, request),
              restartRequired |-> RequiresRestart(scope, before, view)]

CanPlan(request, read) ==
    LET scope == TargetScope(request)
    IN  IF request.kind = "draft" THEN DocumentIsValid(scope, request.document)
        ELSE /\ ChangeIsValid(request) /\ CanRead(scope, read)
             /\ DocumentIsValid(scope, Changed(DocumentIn(scope, read), request))

-----------------------------------------------------------------------------
(* Lock files.                                                             *)

LockFiles == {<<ws, "config-write.lock">> : ws \in Workspaces} \cup {<<Missing, "user.lock">>}
WorkspaceLock(w) == <<WorkspaceOf[w], "config-write.lock">>
UserLock == <<Missing, "user.lock">>

\* Mutant: the workspace's lock is thought enough for the user's file too.
WorkspaceLockOnly(w) == {WorkspaceLock(w)}

\* withConfigurationWriteLock: the locks a writer takes, the workspace's first.
LocksFor(w) ==
    {WorkspaceLock(w)} \cup (IF TargetScope(writer[w].request) = "user" THEN {UserLock} ELSE {})

Held(w) == {l \in LockFiles : lock[l] = w}

-----------------------------------------------------------------------------
Idle ==
    [pc |-> "idle", request |-> Missing, expected |-> Missing, view |-> Missing, plan |-> Missing, result |-> Missing]

ConfInit ==
    /\ content = Initial
    /\ lock = [l \in LockFiles |-> Missing]
    /\ writer = [w \in Writer |-> Idle]
    /\ edited = {}

WriterGoto(w, to) == writer' = [writer EXCEPT ![w] = [@ EXCEPT !.pc = to]]

\* Mutant: a writer that is refused one lock forgets the other.
RefusedOutright(w, result) ==
    writer' = [writer EXCEPT ![w] = [@ EXCEPT !.pc = IF result = "locked" THEN "over" ELSE "releasing",
                                              !.result = result]]

\* Whatever a writer comes to, it gives back the locks it took.
Conclude(w, result) ==
    writer' = [writer EXCEPT ![w] = [@ EXCEPT !.pc = "releasing", !.result = result]]

\* The client reads the view whose revision it will expect, or the draft a
\* person edits.
Inspect(w) ==
    /\ writer[w].pc = "idle"
    /\ \E request \in Requests[w] :
        writer' = [writer EXCEPT ![w] = [@ EXCEPT !.pc = "previewing", !.request = request,
                                                  !.expected = View(WorkspaceOf[w])]]
    /\ UNCHANGED <<content, lock, edited>>

\* prepareConfigurationChange and prepareConfigurationDraft, before the lock
\* and again under it: the view must be the expected one.
Prepare(w) ==
    LET view == View(WorkspaceOf[w])
    IN  /\ writer[w].pc \in {"previewing", "checked"}
        /\ IF view # writer[w].expected THEN Conclude(w, "conflict")
           ELSE writer' = [writer EXCEPT ![w] =
                            [@ EXCEPT !.pc = IF writer[w].pc = "previewing" THEN "reading" ELSE "rereading",
                                      !.view = view]]
        /\ UNCHANGED <<content, lock, edited>>

\* The document is read after the view; under the lock the plan must come out
\* the same.
MakePlan(w) ==
    /\ writer[w].pc \in {"reading", "rereading"}
    /\ LET read == content[TargetFile(w)]
           plan == PlanFor(writer[w].request, writer[w].view, read)
       IN  IF ~CanPlan(writer[w].request, read) THEN Conclude(w, "refused")
           ELSE \/ writer[w].pc = "reading"
                   /\ writer' = [writer EXCEPT ![w] = [@ EXCEPT !.pc = "planned", !.plan = plan]]
                \/ writer[w].pc = "rereading"
                   /\ IF plan = writer[w].plan THEN WriterGoto(w, "verified") ELSE Conclude(w, "refused")
    /\ UNCHANGED <<content, lock, edited>>

\* open(lockPath, "wx"), the workspace's lock before the user's; a lock that is
\* there refuses the writer, whoever left it.
Lock(w) ==
    /\ writer[w].pc = "planned"
    /\ \E l \in LocksFor(w) \ Held(w) :
        /\ l = UserLock => WorkspaceLock(w) \in Held(w)
        /\ IF lock[l] = Missing THEN lock' = [lock EXCEPT ![l] = w] /\ UNCHANGED writer
           ELSE UNCHANGED lock /\ Conclude(w, "locked")
    /\ UNCHANGED <<content, edited>>

\* The target already has the desired content: somebody applied the same plan.
Replays(w) == content[TargetFile(w)] = writer[w].plan.desired

\* applyConfigurationPlan, applyConfigurationDraftPlan: any other view than the
\* expected one is a conflict.
Check(w) ==
    /\ writer[w].pc = "planned" /\ LocksFor(w) \subseteq Held(w)
    /\ CASE Replays(w) -> Conclude(w, "replayed")
         [] ~Replays(w) /\ View(WorkspaceOf[w]) # writer[w].expected -> Conclude(w, "conflict")
         [] OTHER -> WriterGoto(w, "checked")
    /\ UNCHANGED <<content, lock, edited>>

\* The last comparison before the write.
Compare(w) ==
    /\ writer[w].pc = "verified"
    /\ IF content[TargetFile(w)] = writer[w].plan.base
       THEN WriterGoto(w, "renaming") /\ edited' = edited \ {TargetFile(w)}
       ELSE Conclude(w, "conflict") /\ UNCHANGED edited
    /\ UNCHANGED <<content, lock>>

\* atomicReplaceConfiguration: a temporary file is renamed over the target.
ReplaceFile(w) ==
    /\ writer[w].pc = "renaming"
    /\ content' = [content EXCEPT ![TargetFile(w)] = writer[w].plan.desired]
    /\ WriterGoto(w, "confirming")
    /\ UNCHANGED <<lock, edited>>

ReplaceFails(w) ==
    /\ writer[w].pc = "renaming"
    /\ Conclude(w, "failed")
    /\ UNCHANGED <<content, lock, edited>>

ConfirmFile(w) ==
    /\ writer[w].pc = "confirming"
    /\ Conclude(w, IF content[TargetFile(w)] = writer[w].plan.desired THEN "applied" ELSE "failed")
    /\ UNCHANGED <<content, lock, edited>>

\* The locks are unlinked in the opposite order.
ReleaseLocks(w) ==
    /\ writer[w].pc = "releasing"
    /\ IF Held(w) = {}
       THEN writer' = [writer EXCEPT ![w] = [Idle EXCEPT !.pc = "over", !.result = writer[w].result]] /\ UNCHANGED lock
       ELSE LET l == IF UserLock \in Held(w) THEN UserLock ELSE WorkspaceLock(w)
            IN  lock' = [lock EXCEPT ![l] = Missing] /\ UNCHANGED writer
    /\ UNCHANGED <<content, edited>>

WriterCrashes(w) ==
    /\ w \in CrashableWriter /\ writer[w].pc \notin {"idle", "over", "crashed"}
    /\ WriterGoto(w, "crashed")
    /\ UNCHANGED <<content, lock, edited>>

EditByHand ==
    /\ \E e \in HandEdits :
        /\ content[e[1]] # e[2]
        /\ content' = [content EXCEPT ![e[1]] = e[2]]
        /\ edited' = edited \cup {e[1]}
    /\ UNCHANGED <<lock, writer>>

\* The command line takes these steps itself, or has the running Control Room
\* take them.
WriterStep(w) ==
    \/ Inspect(w) \/ Prepare(w) \/ MakePlan(w) \/ Lock(w) \/ Check(w) \/ Compare(w)
    \/ ReplaceFile(w) \/ ReplaceFails(w) \/ ConfirmFile(w) \/ ReleaseLocks(w)

ConfNext ==
    \/ \E w \in Writer : WriterStep(w) \/ WriterCrashes(w)
    \/ EditByHand

ConfSpec == ConfInit /\ [][ConfNext]_confVars

-----------------------------------------------------------------------------
ConfTypeOK ==
    /\ DOMAIN content = ConfigurationFiles
    /\ DOMAIN writer = Writer /\ \A w \in Writer : DOMAIN writer[w] = DOMAIN Idle
    /\ lock \in [LockFiles -> Writer \cup {Missing}]
    /\ edited \subseteq ConfigurationFiles

\* docs/adr/0019: a stale plan or a conflicting revision writes nothing.  What a
\* writer replaces is what its plan was made from: no update of another writer,
\* in this workspace or another one, is lost, and of the edits by hand only one
\* made after the last comparison.
NothingIsOverwritten ==
    [][\A w \in Writer :
        (writer[w].pc = "renaming" /\ writer'[w].pc = "confirming")
            => content[TargetFile(w)] = writer[w].plan.base \/ TargetFile(w) \in edited]_confVars

\* A lock file that is there has an owner at work, or one that died: no refusal
\* on the way leaves one behind, and none is taken from its owner.
LocksAreReleased ==
    \A w \in Writer :
        /\ writer[w].pc \in {"idle", "previewing", "reading", "over"} => Held(w) = {}
        /\ writer[w].pc \in {"checked", "rereading", "verified", "renaming", "confirming"}
                => LocksFor(w) \subseteq Held(w)

\* docs/specs/0027, docs/adr/0023: whoever changes what a running process is
\* bound to is told that a restart is required.
RestartIsAnnounced ==
    [][\A w \in Writer :
        (/\ writer[w].pc = "renaming" /\ writer'[w].pc = "confirming"
         /\ RuntimeRevision(View(WorkspaceOf[w]))' # RuntimeRevision(View(WorkspaceOf[w])))
            => writer[w].plan.restartRequired]_confVars
=============================================================================
