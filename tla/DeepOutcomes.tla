---------------------------- MODULE DeepOutcomes ----------------------------
(* What the context governor's DEEP route makes of a sealed document: for    *)
(* each capability the decision asks for, whether the document satisfies it  *)
(* or the worst reason why not.                                              *)
EXTENDS DeepCompiler

Capability == {"identity", "source", "relationships", "impact", "history", "closure", "validation"}

(* deficit_priority: the worst first.                                       *)
Deficits == <<"conflicting", "stale", "ambiguous", "unsupported", "budget", "unavailable">>

(* preferred_deficit over everything that was found: "none" is satisfaction.*)
Preferred(found) ==
    IF found = {} THEN "none"
    ELSE Deficits[CHOOSE i \in DOMAIN Deficits :
                      /\ Deficits[i] \in found
                      /\ \A j \in 1 .. i - 1 : Deficits[j] \notin found]

(* omission_deficit                                                         *)
OmissionDeficit(reason) ==
    CASE reason \in Limits -> "budget"
      [] reason \in {"stale", "source"} -> "stale"
      [] reason \in {"unresolved", "ambiguous_seed", "fts"} -> "ambiguous"
      [] reason \in {"conflicting", "unsupported"} -> reason
      [] OTHER -> "unavailable"

(* requirement_deficit: the state's deficit, and the reason's when the entry*)
(* gives one.                                                               *)
StateDeficit(state) ==
    CASE state = "unresolved" -> "ambiguous" [] state = "omitted" -> "budget"
      [] state = "missing" -> "unavailable" [] OTHER -> state

RequirementDeficits(state, reason) ==
    (IF state = "satisfied" THEN {} ELSE {StateDeficit(state)})
    \union (IF reason = "none" THEN {} ELSE {OmissionDeficit(reason)})

(* evidence_deficit                                                         *)
EvidenceDeficits(qualities) == {OmissionDeficit(BadQuality(q)) : q \in qualities \ {"qualified"}}

Qualities(items) == {i.quality : i \in items}
MissingIf(nothing) == IF nothing THEN {"unavailable"} ELSE {}

(* role_capability_outcome                                                  *)
RoleDeficits(d, role) ==
    RequirementDeficits(d.roles[role].state, d.roles[role].reason)
    \union EvidenceDeficits(Qualities(WithRole(d, role)))
    \union MissingIf(WithRole(d, role) = {})

(* Mutant: the role's own requirement alone decides.                        *)
MutSourceDeficits(d) == RequirementDeficits(d.exact, "none")

(* exact_source_outcome: every selected source counts, not only the primary *)
(* one; without any, a limit that was reached explains it better.           *)
SourceDeficits(d) ==
    LET selected == {i.sourced : i \in Range(d.items)} \ {"no"} IN
    RequirementDeficits(d.exact, "none")
    \union (selected \ {"verified"})
    \union MissingIf(selected = {})
    \union (IF selected = {} /\ \E r \in Limits \ {"depth", "reserve"} : d.omitted[r] > 0
            THEN {"budget"} ELSE {})

(* relationship_outcome and effect_outcome                                  *)
RelationshipDeficits(d) == EvidenceDeficits(d.rels) \union MissingIf(d.rels = {})

EffectDeficits(d) ==
    EvidenceDeficits(Qualities(WithRole(d, "effect"))) \union MissingIf(WithRole(d, "effect") = {})

(* validation_outcome: the plan is empty when the role has a deficit.       *)
ValidationDeficits(d) ==
    RequirementDeficits(d.validation, "none")
    \union MissingIf(d.deficits["validation"] # "none" \/ WithRole(d, "validation") = {})
    \union RoleDeficits(d, "validation")

(* required_role_closure_outcome                                            *)
ClosureDeficits(d) ==
    UNION {RoleDeficits(d, role) : role \in Required(req.kind)}
    \union SourceDeficits(d) \union ValidationDeficits(d)

(* deep_capability_outcome                                                  *)
CapabilityOutcome(d, capability) ==
    Preferred(CASE capability = "identity" -> RoleDeficits(d, "primary")
                [] capability = "source" -> SourceDeficits(d)
                [] capability = "relationships" -> RelationshipDeficits(d)
                [] capability = "impact" -> EffectDeficits(d)
                [] capability = "history" -> RoleDeficits(d, "history")
                [] capability = "closure" -> ClosureDeficits(d)
                [] OTHER -> ValidationDeficits(d))

(* Deep's account of the sealed document, capability by capability.         *)
Account == [c \in Capability |-> CapabilityOutcome(doc, c)]

Attempted == outcome.kind = "sealed"

-----------------------------------------------------------------------------
(* The compiler seals a document as complete and the governor judges it     *)
(* again by rules of its own (dispatch_real_deep): the two agree.  The      *)
(* closure of the required roles is reported exactly for complete documents;*)
(* exact source only when every source the document selects was the indexed *)
(* one at the seal, and then the document's own state says so too; and a    *)
(* deficit is laid on the budget only if a limit really cut something off.  *)
AccountsAgree ==
    Attempted =>
        /\ (Account["closure"] = "none") = (outcome.why = "complete")
        /\ Account["source"] = "none" =>
               /\ VerifiedPrimary(doc)
               /\ \A i \in Range(doc.items) : i.sourced \in {"no", "verified"}
        /\ \A c \in Capability :
               Account[c] = "budget" =>
                   \/ \E r \in Limits : doc.omitted[r] > 0 \/ doc.notices[r] > 0

(* What is sealed, and what DEEP reports of it, is earned.                  *)
ReportedIsEarned == SealedIsEarned /\ AccountsAgree
=============================================================================
