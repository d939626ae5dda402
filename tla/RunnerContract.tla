--------------------------- MODULE RunnerContract ---------------------------
(***************************************************************************)
(* The versioned contract between the host and a digital employee          *)
(* (runner-contract.ts): what the host accepts as a manifest and as the    *)
(* output an adapter returns.  Texts are classes, and a value is a record  *)
(* whose shape says whether it is a plain object with exactly the fields   *)
(* of the contract.                                                        *)
(***************************************************************************)
EXTENDS Naturals, Sequences, SequencesExt

RunOutcome == {"completed", "failed", "interrupted"}
Access == {"read-only", "workspace-write"}
HandoffKind == {"artifact", "evidence"}

\* "absent" is undefined or null, "blank" only white space, "words" text within
\* its bound, "long" text beyond it.
Text == {"absent", "empty", "blank", "words", "long"}

\* decodeBoundedString
IsBounded(text) == text = "words"

MayBeBounded(text) == text = "absent" \/ IsBounded(text)

\* decodeExactRecord, decodeDenseArray: no other field, accessor or hole
IsPlain(value) == value.shape = "plain"

\* decodeEnumArray
IsEnumeration(entries, allowed) == IsInjective(entries) /\ ToSet(entries) \subseteq allowed

IsManifest(m) ==
    /\ IsPlain(m)
    /\ IsBounded(m.runnerId) /\ IsBounded(m.displayName)
    /\ m.access # <<>> /\ IsEnumeration(m.access, Access)
    /\ IsEnumeration(m.kinds, HandoffKind)
    /\ m.cancellation /\ m.timeout

IsClaim(claim, kinds) ==
    /\ IsPlain(claim)
    /\ claim.kind \in kinds
    /\ claim.kind = "evidence" => claim.outcome \in {"passed", "failed"}
    /\ IsBounded(claim.revision) /\ IsBounded(claim.locator)

\* parseRunnerExecutionOutput: only a completed run hands anything over.
IsOutput(o, manifest, attempt) ==
    /\ IsPlain(o)
    /\ o.attemptId = attempt
    /\ o.outcome \in RunOutcome
    /\ MayBeBounded(o.summary)
    /\ MayBeBounded(o.sessionId) /\ MayBeBounded(o.executionId)
    /\ Len(o.claims) <= 32
    /\ \A k \in DOMAIN o.claims : IsClaim(o.claims[k], ToSet(manifest.kinds))
    /\ o.outcome # "completed" => o.claims = <<>>
=============================================================================
