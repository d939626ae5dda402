SPECIFICATION SmallSpec
CONSTANTS
    None = None
    a1 = a1
    a2 = a2
    art1 = art1
    art2 = art2
    r1 = r1
    r2 = r2
    c1 = c1
    c2 = c2
    d1 = d1
    d2 = d2
    p1 = p1
    AttemptId = {a1, a2}
    ArtifactId = {art1, art2}
    Revision = {r1, r2}
    Criterion = {c1}
    RequiredEvidence = {c1}
    EvidenceId = {1}
    DecisionId = {d1, d2}
    Time = {1, 2}
    Reviewer = {p1}
    MaxArtifacts = 2
    MaxEvidence = 2
    MaxDecisions = 2
INVARIANTS
    ActiveFactsAreNewest
    AcceptedIsBacked
    DecisionIsCurrent
    OneDecisionPerBasis
PROPERTIES
    AcceptanceRevokedOnlyByFacts
SYMMETRY Symmetries
CHECK_DEADLOCK FALSE
