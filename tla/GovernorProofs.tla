---------------------------- MODULE GovernorProofs ---------------------------
(* Theorems about ContextGovernor: what a governed run may try, refuse and  *)
(* leave in its session, for any targets, generations and requests.         *)
EXTENDS ContextGovernor, SequenceTheorems, FiniteSetTheorems, TLAPS

(* LIGHT has nothing to say of DEEP's capabilities.                         *)
LEMMA DeepIsBeyondLight ==
    ASSUME NEW c \in DeepCapability
    PROVE  LightOutcome(c) = "unavailable"
BY DEF LightOutcome, DeepCapability

(* LIGHT never leaves out the source for its budget.                        *)
LEMMA SourceIsNotOmitted ==
    LightOutcome("source") \in {"ok", "unsupported", "stale", "unavailable"}
BY DEF LightOutcome, SourceOutcome

-----------------------------------------------------------------------------
(* Attempts, one after the other.                                           *)

(* What Append does to any sequence.                                        *)
LEMMA AppendAny ==
    ASSUME NEW s, NEW S, s \in Seq(S), NEW x
    PROVE  /\ \E T : Append(s, x) \in Seq(T)
           /\ Len(s) \in Nat /\ DOMAIN s = 1 .. Len(s)
           /\ Len(Append(s, x)) = Len(s) + 1 /\ DOMAIN Append(s, x) = 1 .. Len(s) + 1
           /\ \A i \in 1 .. Len(s) : Append(s, x)[i] = s[i]
           /\ Append(s, x)[Len(s) + 1] = x
<1> DEFINE T == S \cup {x}
<1>1. s \in Seq(T) BY SeqMonotonic
<1>2. x \in T OBVIOUS
<1> HIDE DEF T
<1>3. /\ Append(s, x) \in Seq(T) /\ Len(Append(s, x)) = Len(s) + 1
      /\ \A i \in 1 .. Len(s) : Append(s, x)[i] = s[i]
      /\ Append(s, x)[Len(s) + 1] = x
  BY <1>1, <1>2, AppendProperties
<1>4. Len(s) \in Nat /\ DOMAIN s = 1 .. Len(s) BY LenProperties
<1>5. DOMAIN Append(s, x) = 1 .. Len(s) + 1 BY <1>3, LenProperties
<1>6. QED BY <1>3, <1>4, <1>5

(* What a route leaves for the next one.                                    *)
Missed(deficits) ==
    /\ deficits # {}
    /\ \A d \in deficits :
         /\ Needs(d.cap)
         /\ d.cap = "source" => d.reason # "semantic_budget_omitted"

(* The i-th of the tries left a deficit that the next route may fill.       *)
Left(tries, i) ==
    /\ tries[i].state = "partial" /\ tries[i].failure = "none"
    /\ Missed(tries[i].deficits)
    /\ tries[i].route = Light => CanEscalate(tries[i].deficits)

(* Every route from the floor up to the given one was tried in vain.        *)
Climbed(tries, next) ==
    /\ \E S : tries \in Seq(S)
    /\ Floor(request) + Len(tries) = next
    /\ \A i \in DOMAIN tries : tries[i].route = Floor(request) + i - 1 /\ Left(tries, i)

RequestOk ==
    /\ request \in RunRequests /\ Legal(request)
    /\ taskSession.state \in {"created", "context_compiled", "active", "abandoned"}
    /\ DOMAIN taskSession = {"state", "start"}

(* Where a run is in its attempts.                                          *)
RouteInv ==
    /\ RequestOk
    /\ pc \in {"build", "dispatch", "observe", "route"} => attempts = <<>>
    /\ pc = "route" => route = Floor(request)
    /\ pc \in {"check", "light", "deep"} =>
         /\ start # 0 /\ route \in {Light, Deep} /\ route <= Ceiling(request)
         /\ Climbed(attempts, route)
    /\ pc = "light" => route = Light
    /\ pc = "deep" => route = Deep
    /\ pc \in {"build", "dispatch", "observe", "route", "check", "light", "deep"} =>
         result.kind = "none"
    /\ request.intent = "none" => found = <<>>
    /\ EscalationIsEarned
    /\ RefusedOnlyBelowCeiling

(* The routes a legal request allows.                                       *)
LEMMA Bounds ==
    ASSUME GovernorAssumption, RequestOk
    PROVE  /\ Floor(request) \in Direct .. Deep /\ Ceiling(request) \in Direct .. Deep
           /\ Floor(request) <= Ceiling(request)
           /\ request.intent = "none" => Ceiling(request) = Direct
           /\ Requested \subseteq Capability /\ request.bound \in BOOLEAN
<1>1. /\ request.intent \in {"none", "allow", "require"}
      /\ request.floor \in Direct .. Deep /\ request.ceiling \in Direct .. Deep
      /\ DOMAIN request.caps \subseteq Capability /\ request.bound \in BOOLEAN
      /\ request.floor <= request.ceiling
      /\ request.intent = "none" => request.floor = Direct
      /\ request.intent = "require" => request.ceiling # Direct
  BY DEF GovernorAssumption, RequestOk, Legal
<1>2. QED BY <1>1 DEF Floor, Ceiling, Larger, Direct, Light, Deep, Requested

(* Tries that climbed to a route, and one of that route, are as they should *)
(* be.                                                                      *)
LEMMA OneMore ==
    ASSUME GovernorAssumption, RequestOk, NEW tries, NEW a,
           Climbed(tries, a.route), a.route \in {Light, Deep}, a.route <= Ceiling(request)
    PROVE  LET all == Append(tries, a) IN
           /\ all # <<>> /\ Last(all) = a /\ all[1].route = Floor(request)
           /\ \E T : all \in Seq(T)
           /\ Len(tries) \in Nat /\ Len(all) = Len(tries) + 1 /\ DOMAIN all = 1 .. Len(all)
           /\ \A i \in DOMAIN all :
                /\ all[i].route = Floor(request) + i - 1
                /\ all[i].route \in Floor(request) .. Ceiling(request)
                /\ i > 1 => Left(all, i - 1) /\ Follows(all[i], all[i - 1])
           /\ \A i \in DOMAIN tries : all[i] = tries[i] /\ i \in DOMAIN all
<1> DEFINE all == Append(tries, a)
           n == Len(tries)
<1>1. PICK S : tries \in Seq(S) BY DEF Climbed
<1>2. /\ \E T : all \in Seq(T)
      /\ n \in Nat /\ DOMAIN tries = 1 .. n
      /\ Len(all) = n + 1 /\ DOMAIN all = 1 .. n + 1
      /\ \A i \in 1 .. n : all[i] = tries[i]
      /\ all[n + 1] = a
  BY <1>1, AppendAny
<1>3. /\ Floor(request) \in Direct .. Deep /\ Ceiling(request) \in Direct .. Deep
      /\ Floor(request) + n = a.route
      /\ \A i \in 1 .. n : tries[i].route = Floor(request) + i - 1 /\ Left(tries, i)
  BY <1>2, Bounds DEF Climbed
<1> HIDE DEF all, n
<1>4. \A i \in DOMAIN all : all[i].route = Floor(request) + i - 1
  BY <1>2, <1>3 DEF Direct, Deep
<1>5. \A i \in DOMAIN all : all[i].route \in Floor(request) .. Ceiling(request)
  BY <1>2, <1>3, <1>4 DEF Direct, Light, Deep
<1>6. \A i \in 1 .. n : Left(all, i) BY <1>2, <1>3 DEF Left
<1>7. ASSUME NEW i \in DOMAIN all, i > 1 PROVE Left(all, i - 1) /\ Follows(all[i], all[i - 1])
  <2>1. i - 1 \in 1 .. n BY <1>2, <1>7
  <2>2. Left(all, i - 1) BY <1>6, <2>1
  <2>3. all[i - 1].route = Floor(request) + i - 2 /\ all[i].route = Floor(request) + i - 1
    <3>1. i - 1 \in DOMAIN all BY <1>2, <2>1
    <3>2. all[i - 1].route = Floor(request) + (i - 1) - 1 BY <1>4, <3>1
    <3>3. i \in Int BY <1>2
    <3>4. QED BY <1>3, <1>4, <3>2, <3>3 DEF Direct, Deep
  <2>4. all[i].route \in Direct .. Deep /\ all[i - 1].route = all[i].route - 1
    BY <1>2, <1>3, <1>5, <2>3 DEF Direct, Deep
  <2>5. \/ all[i - 1].route = Direct /\ all[i].route = Light
        \/ all[i - 1].route = Light /\ all[i].route = Deep
    <3>1. all[i - 1].route >= Direct
      BY <1>2, <1>3, <2>1, <2>3 DEF Direct, Deep
    <3>2. QED BY <2>4, <3>1 DEF Direct, Light, Deep
  <2>6. \A c \in Lacking(all[i - 1].deficits) : Needs(c) BY <2>2 DEF Left, Missed, Lacking
  <2>7. QED BY <2>2, <2>5, <2>6 DEF Left, Missed, Follows
<1>8. all # <<>> /\ Last(all) = a
  BY <1>2 DEF Last
<1>9. all[1].route = Floor(request)
  <2>1. 1 \in DOMAIN all BY <1>2
  <2>2. QED BY <1>3, <1>4, <2>1 DEF Direct, Deep
<1>10. QED BY <1>2, <1>4, <1>5, <1>7, <1>8, <1>9 DEF all, n

(* Routes are tried upwards, and DEEP only over deficits it may fill.       *)
Earned(tries) ==
    \A i \in DOMAIN tries :
        /\ tries[i].route = Floor(request) + i - 1
        /\ tries[i].route <= Ceiling(request)
        /\ i > 1 => \A d \in tries[i - 1].deficits :
                \/ tries[i].route = Light
                \/ d.cap # "source" /\ d.reason # "unsupported"

(* One try more is earned.                                                  *)
LEMMA OneMoreEarned ==
    ASSUME GovernorAssumption, RequestOk, NEW tries, NEW a,
           Climbed(tries, a.route), a.route \in {Light, Deep}, a.route <= Ceiling(request)
    PROVE  Earned(Append(tries, a))
<1> DEFINE all == Append(tries, a)
<1>1. \A i \in DOMAIN all :
        /\ all[i].route = Floor(request) + i - 1
        /\ all[i].route \in Floor(request) .. Ceiling(request)
        /\ i > 1 => Left(all, i - 1) /\ Follows(all[i], all[i - 1])
  BY OneMore
<1> HIDE DEF all
<1>2. Floor(request) \in Int /\ Ceiling(request) \in Int BY Bounds DEF Direct, Deep
<1>3. ASSUME NEW i \in DOMAIN all, i > 1, NEW d \in all[i - 1].deficits, all[i].route # Light
      PROVE  d.cap # "source" /\ d.reason # "unsupported"
  <2>1. Left(all, i - 1) /\ Follows(all[i], all[i - 1]) BY <1>1, <1>3
  <2>2. CanEscalate(all[i - 1].deficits) BY <1>3, <2>1 DEF Follows
  <2>3. d.cap = "source" => d.reason # "semantic_budget_omitted"
    BY <1>3, <2>1 DEF Left, Missed
  <2>4. MinimumRoute("source") # Deep BY DEF MinimumRoute, LightCapability, Light, Deep
  <2>5. QED BY <1>3, <2>2, <2>3, <2>4 DEF CanEscalate
<1>4. \A i \in DOMAIN all : all[i].route <= Ceiling(request) BY <1>1, <1>2
<1>5. QED BY <1>1, <1>3, <1>4 DEF Earned, all

(* Tries that climbed so far are earned.                                    *)
LEMMA ClimbedEarned ==
    ASSUME GovernorAssumption, RequestOk, NEW tries, NEW next,
           Climbed(tries, next), next \in {Light, Deep}, next <= Ceiling(request)
    PROVE  Earned(tries)
<1> DEFINE a == [route |-> next]
           all == Append(tries, a)
<1>1. a.route = next OBVIOUS
<1> HIDE DEF a
<1>2. /\ Earned(all)
      /\ \A i \in DOMAIN tries : all[i] = tries[i] /\ i \in DOMAIN all
      /\ DOMAIN tries = 1 .. Len(tries) /\ Len(tries) \in Nat
  <2>1. \A i \in DOMAIN tries : all[i] = tries[i] /\ i \in DOMAIN all BY <1>1, OneMore
  <2>2. Earned(all) BY <1>1, OneMoreEarned
  <2>3. PICK S : tries \in Seq(S) BY DEF Climbed
  <2>4. QED BY <2>1, <2>2, <2>3, LenProperties
<1>3. \A i \in DOMAIN tries : i > 1 => i - 1 \in DOMAIN tries BY <1>2
<1> HIDE DEF all
<1>4. QED BY <1>2, <1>3 DEF Earned

(* An envelope over one more try is accepted when it accounts for its       *)
(* capabilities and its reason fits (ContextExecution::validate).           *)
LEMMA OneMoreValid ==
    ASSUME GovernorAssumption, RequestOk, start # 0, NEW tries, NEW a,
           Climbed(tries, a.route), a.route \in {Light, Deep}, a.route <= Ceiling(request),
           NEW e, e.route = a.route, e.kind = a.state, e.failure # "generation_unavailable",
           e.kind = "completed" => \A c \in Requested : Needs(c) => MinimumRoute(c) <= e.route,
           e.kind = "partial" => e.payload = e.route /\ e.satisfied # {},
           Accounts(e), ReasonFits(e)
    PROVE  Valid(e, Append(tries, a))
<1> DEFINE all == Append(tries, a)
<1>1. /\ all # <<>> /\ Last(all) = a /\ all[1].route = Floor(request)
      /\ DOMAIN all = 1 .. Len(all)
      /\ \A i \in DOMAIN all :
           /\ all[i].route \in Floor(request) .. Ceiling(request)
           /\ i > 1 => Follows(all[i], all[i - 1])
  BY OneMore
<1> HIDE DEF all
<1>2. Valid(e, all) BY <1>1 DEF Valid
<1>3. QED BY <1>2 DEF all

(* The route of every capability.                                           *)
LEMMA RouteOf ==
    ASSUME NEW c \in Capability
    PROVE  /\ MinimumRoute(c) \in {Light, Deep} /\ MinimumRoute(c) <= Deep
           /\ c \notin DeepCapability => MinimumRoute(c) = Light
BY DEF MinimumRoute, Capability, LightCapability, DeepCapability, Light, Deep

(* What the caller satisfied, and nothing more, is accounted for.           *)
LEMMA CallerAccounts ==
    ASSUME NEW e, e.satisfied = CallerSatisfied, e.deficits = {}, e.failure # "none"
    PROVE  Accounts(e)
BY DEF Accounts, CallerSatisfied, Needs, Lacking, Requested

(* A completed run is accepted.                                             *)
LEMMA CompletesValid ==
    ASSUME GovernorAssumption, RouteInv, pc \in {"light", "deep"}, Completes,
           \A c \in Requested : Needs(c) => MinimumRoute(c) <= route
    PROVE  /\ result'.kind = "completed" /\ Earned(attempts')
           /\ pc' = IF request.bound THEN "activate" ELSE "done"
<1> DEFINE e == Envelope("completed", route, Requested, {}, "none", "none")
           a == Attempt(route, "completed", {}, "none")
<1>1. /\ e.route = route /\ e.kind = "completed" /\ e.failure = "none" /\ e.reason = "none"
      /\ e.satisfied = Requested /\ e.deficits = {} /\ a.route = route /\ a.state = "completed"
  BY DEF Envelope, Attempt
<1>2. attempts' = Append(attempts, a) /\ (Valid(e, Append(attempts, a)) =>
        result' = e /\ pc' = IF request.bound THEN "activate" ELSE "done")
  BY <1>1 DEF Completes, Finish
<1> HIDE DEF e, a
<1>3. Accounts(e) BY <1>1 DEF Accounts, Lacking
<1>4. ReasonFits(e) BY <1>1 DEF ReasonFits
<1>5. /\ RequestOk /\ start # 0 /\ Climbed(attempts, a.route) /\ a.route \in {Light, Deep}
      /\ a.route <= Ceiling(request)
  BY <1>1 DEF RouteInv
<1>6. Valid(e, Append(attempts, a)) BY <1>1, <1>3, <1>4, <1>5, OneMoreValid
<1>7. Earned(Append(attempts, a)) BY <1>5, OneMoreEarned
<1>8. QED BY <1>1, <1>2, <1>6, <1>7

(* A run that ends over deficits is accepted, or is LIGHT's below a DEEP    *)
(* ceiling.                                                                 *)
LEMMA DeficientFits ==
    ASSUME GovernorAssumption, RouteInv, pc \in {"light", "deep"},
           UNCHANGED request, NEW deficits, NEW payload \in BOOLEAN,
           Deficient(deficits, payload), deficits # {},
           \A d \in deficits : Needs(d.cap) /\ (d.cap \in DeepCapability => d.reason = "unavailable"),
           \A c \in Requested : Needs(c) /\ c \notin Lacking(deficits) => MinimumRoute(c) <= route
    PROVE  Earned(attempts') /\ RefusedOnlyBelowCeiling'
<1> DEFINE satisfied == Requested \ Lacking(deficits)
           kind == IF payload /\ satisfied # {} THEN "partial" ELSE "blocked"
           e == Envelope(kind, route, satisfied, deficits, "none", TerminalReason(deficits))
           a == Attempt(route, kind, deficits, "none")
<1>1. /\ e.route = route /\ e.kind = kind /\ e.failure = "none"
      /\ e.reason = TerminalReason(deficits) /\ e.satisfied = satisfied /\ e.deficits = deficits
      /\ a.route = route /\ a.state = kind
      /\ e.payload = IF kind = "blocked" THEN -1 ELSE route
  BY DEF Envelope, Attempt
<1>2. /\ attempts' = Append(attempts, a)
      /\ result' = IF Valid(e, Append(attempts, a)) THEN e ELSE [kind |-> "invalid", refused |-> e]
  BY DEF Deficient, Finish
<1>3. kind \in {"partial", "blocked"} /\ (kind = "partial" => satisfied # {}) OBVIOUS
<1>4. satisfied \subseteq Requested /\ Lacking(deficits) \subseteq Requested \ satisfied
      /\ satisfied \cup Lacking(deficits) = Requested
  <2>1. Lacking(deficits) \subseteq Requested BY DEF Lacking, Needs
  <2>2. QED BY <2>1
<1>5. \A c \in satisfied : Needs(c) => MinimumRoute(c) <= route OBVIOUS
<1> HIDE DEF e, a, kind, satisfied
<1>6. Accounts(e) BY <1>1, <1>4, <1>5 DEF Accounts
<1>7. /\ RequestOk /\ start # 0 /\ Climbed(attempts, a.route) /\ a.route \in {Light, Deep}
      /\ a.route <= Ceiling(request)
  BY <1>1 DEF RouteInv
<1>8. Earned(attempts') BY <1>2, <1>7, OneMoreEarned
<1>9. CASE ReasonFits(e)
  <2>1. e.kind = "partial" => e.payload = e.route /\ e.satisfied # {} BY <1>1, <1>3
  <2>2. e.kind # "completed" BY <1>1, <1>3
  <2>3. e.failure # "generation_unavailable" /\ e.route = a.route /\ e.kind = a.state BY <1>1
  <2>4. Valid(e, Append(attempts, a)) BY <1>6, <1>7, <1>9, <2>1, <2>2, <2>3, OneMoreValid
  <2>5. result'.kind # "invalid" BY <1>1, <1>2, <1>3, <2>4
  <2>6. QED BY <1>8, <2>5 DEF RefusedOnlyBelowCeiling
<1>10. CASE ~ ReasonFits(e)
  <2>1. /\ route # Ceiling(request)
        /\ ~ \E d \in deficits : d.reason \in {"unavailable", "stale", "unsupported"}
    <3>1. CASE route = Ceiling(request)
      BY <1>1, <1>10, <3>1 DEF TerminalReason, ReasonFits
    <3>2. CASE route # Ceiling(request)
              /\ \E d \in deficits : d.reason \in {"unavailable", "stale", "unsupported"}
      <4>1. e.reason = "capability_unavailable" BY <1>1, <3>2 DEF TerminalReason
      <4>2. Reasons(e) \cap {"unavailable", "stale", "unsupported"} # {}
        BY <1>1, <3>2 DEF Reasons
      <4>3. QED BY <1>10, <4>1, <4>2 DEF ReasonFits
    <3>3. QED BY <3>1, <3>2
  <2>2. route = Light /\ Ceiling(request) = Deep
    <3>1. route \in {Light, Deep} /\ route <= Ceiling(request) /\ Ceiling(request) \in Direct .. Deep
      BY <1>7, Bounds DEF RouteInv
    <3>2. QED BY <2>1, <3>1 DEF Direct, Light, Deep
  <2>3. ~ Valid(e, Append(attempts, a)) BY <1>10 DEF Valid
  <2>4. result' = [kind |-> "invalid", refused |-> e] BY <1>2, <2>3
  <2>5. \A c \in Lacking(e.deficits) : MinimumRoute(c) = Light
    <3>1. ASSUME NEW d \in deficits PROVE MinimumRoute(d.cap) = Light
      <4>1. d.cap \in Requested /\ d.cap \notin DeepCapability BY <2>1 DEF Needs
      <4>2. QED BY <4>1, <1>7, Bounds, RouteOf
    <3>2. QED BY <1>1, <3>1 DEF Lacking
  <2>6. Reasons(e) \cap {"unavailable", "stale", "unsupported"} = {} BY <1>1, <2>1 DEF Reasons
  <2>7. Ceiling(request)' = Deep BY <2>2 DEF Ceiling
  <2>8. result'.refused = e BY <2>4
  <2>9. result'.refused.route = Light BY <1>1, <2>2, <2>8
  <2>10. QED BY <1>8, <2>5, <2>6, <2>7, <2>8, <2>9
         DEF RefusedOnlyBelowCeiling, Lacking, Reasons
<1>11. QED BY <1>9, <1>10

(* While the request is the same, tries mean the same.                      *)
LEMMA TriesStay ==
    ASSUME UNCHANGED request, NEW tries
    PROVE  /\ \A next : Climbed(tries, next) => Climbed(tries, next)'
           /\ Earned(tries) => Earned(tries)'
<1>1. \A c : Needs(c) <=> Needs(c)' BY DEF Needs, Requested, CallerSatisfied
<1>2. \A D : Missed(D) <=> Missed(D)' BY <1>1 DEF Missed
<1>3. \A i : Left(tries, i) <=> Left(tries, i)' BY <1>2 DEF Left
<1>4. \A next : Climbed(tries, next) => Climbed(tries, next)' BY <1>3 DEF Climbed
<1>5. Earned(tries) => Earned(tries)' BY DEF Earned
<1>6. QED BY <1>4, <1>5

(* A step of which the attempts, the place and the envelope see nothing     *)
(* keeps the invariant.                                                     *)
LEMMA Elsewhere ==
    ASSUME RouteInv, RequestOk', UNCHANGED <<request, route, attempts, result>>,
           pc' = pc, start' = start, request.intent = "none" => found' = found
    PROVE  RouteInv'
<1>1. \A tries, next : tries = attempts /\ next = route /\ Climbed(tries, next)
                         => Climbed(tries, next)'
  BY TriesStay
<1>2. Climbed(attempts, route) => Climbed(attempts, route)' BY <1>1
<1>3. RefusedOnlyBelowCeiling' BY DEF RouteInv, RefusedOnlyBelowCeiling, Lacking, Reasons
<1>4. EscalationIsEarned' BY DEF RouteInv, EscalationIsEarned
<1>5. QED BY <1>2, <1>3, <1>4 DEF RouteInv

(* A step that ends the attempts keeps the invariant.                       *)
LEMMA Ending ==
    ASSUME RouteInv, RequestOk', UNCHANGED <<request, found>>,
           pc' \in {"activate", "compile", "engage", "done"},
           Earned(attempts'), RefusedOnlyBelowCeiling'
    PROVE  RouteInv'
<1>1. \A i \in DOMAIN attempts' :
        /\ attempts'[i].route = Floor(request') + i - 1
        /\ attempts'[i].route <= Ceiling(request')
        /\ i > 1 => \A d \in attempts'[i - 1].deficits :
                \/ attempts'[i].route = Light
                \/ d.cap # "source" /\ d.reason # "unsupported"
  BY DEF Earned
<1>2. EscalationIsEarned' BY <1>1 DEF RouteInv, EscalationIsEarned
<1>3. QED BY <1>2 DEF RouteInv

(* A run that is refused no envelope has broken no rule of refusals.        *)
LEMMA NotRefused ==
    ASSUME result'.kind # "invalid"
    PROVE  RefusedOnlyBelowCeiling'
BY DEF RefusedOnlyBelowCeiling

(* A run that fails keeps its attempts, earned so far.                      *)
LEMMA FailEnds ==
    ASSUME RouteInv, RequestOk', Fail, UNCHANGED <<request, found, attempts>>
    PROVE  RouteInv'
<1>1. result'.kind = "error" /\ pc' = "done" BY DEF Fail
<1>2. Earned(attempts') BY DEF RouteInv, EscalationIsEarned, Earned
<1>3. RefusedOnlyBelowCeiling' BY <1>1, NotRefused
<1>4. QED BY <1>1, <1>2, <1>3, Ending

(* No attempt, or the one of DIRECT, is earned.                             *)
LEMMA FirstEarned ==
    ASSUME GovernorAssumption, RequestOk
    PROVE  /\ Earned(<<>>)
           /\ \A a : a.route = Floor(request) => Earned(<<a>>)
<1>1. Floor(request) \in Int /\ Floor(request) <= Ceiling(request) BY Bounds DEF Direct, Deep
<1>2. Earned(<<>>) BY DEF Earned
<1>3. ASSUME NEW a, a.route = Floor(request) PROVE Earned(<<a>>)
  <2>1. DOMAIN <<a>> = {1} /\ <<a>>[1] = a OBVIOUS
  <2>2. QED BY <1>1, <1>3, <2>1 DEF Earned
<1>4. QED BY <1>2, <1>3

(* Without a generation the run is blocked.                                 *)
LEMMA NoGenerationKeeps ==
    ASSUME GovernorAssumption, RouteInv, NoGeneration
    PROVE  RouteInv'
<1> DEFINE e == Envelope("blocked", route, CallerSatisfied, {},
                         "generation_unavailable", "generation_unavailable")
<1>1. /\ e.route = route /\ e.kind = "blocked" /\ e.failure = "generation_unavailable"
      /\ e.reason = "generation_unavailable" /\ e.satisfied = CallerSatisfied /\ e.deficits = {}
  BY DEF Envelope
<1>2. /\ attempts' = <<>> /\ start = 0 /\ UNCHANGED <<worldVars, runVars, route, lightVars>>
      /\ Valid(e, <<>>) => result' = e /\ pc' = "done"
  BY <1>1 DEF NoGeneration, Finish
<1> HIDE DEF e
<1>3. Accounts(e) BY <1>1, CallerAccounts
<1>4. ReasonFits(e) BY <1>1 DEF ReasonFits
<1>5. Valid(e, <<>>) BY <1>1, <1>2, <1>3, <1>4 DEF Valid
<1>6. RequestOk' BY <1>2 DEF RouteInv, RequestOk, worldVars, runVars, Legal
<1>7. Earned(attempts') BY <1>2, FirstEarned DEF RouteInv
<1>8. RefusedOnlyBelowCeiling' BY <1>1, <1>2, <1>5, NotRefused
<1>9. QED BY <1>2, <1>5, <1>6, <1>7, <1>8, Ending DEF worldVars, runVars, lightVars

(* Deficits name the capabilities they are made of, all for one reason.     *)
LEMMA DeficitsLack ==
    ASSUME NEW caps, NEW why
    PROVE  /\ Lacking(Deficits(caps, why)) = caps
           /\ \A d \in Deficits(caps, why) : d.cap \in caps /\ d.reason = why
           /\ caps # {} => Deficits(caps, why) # {}
<1> DEFINE D == Deficits(caps, why)
<1>1. \A d \in D : d.cap \in caps /\ d.reason = why BY DEF Deficits
<1>2. \A c \in caps : \E d \in D : d.cap = c
  <2>1. TAKE c \in caps
  <2>2. [cap |-> c, reason |-> why] \in D BY DEF Deficits
  <2>3. QED BY <2>2
<1>3. Lacking(D) = caps BY <1>1, <1>2 DEF Lacking
<1>4. QED BY <1>1, <1>2, <1>3

(* DIRECT alone: its envelope is accepted.                                  *)
LEMMA DirectKeeps ==
    ASSUME GovernorAssumption, RouteInv, DirectCompletes \/ DirectBlocked
    PROVE  RouteInv'
<1>1. PICK kind, deficits, reason, satisfied :
        /\ kind \in {"completed", "blocked"}
        /\ Finish(Envelope(kind, Direct, satisfied, deficits, "none", reason),
                  << Attempt(Direct, kind, deficits, "none") >>)
        /\ kind = "completed" => Sufficient
        /\ satisfied \cup Lacking(deficits) = Requested
        /\ satisfied \cap Lacking(deficits) = {} /\ satisfied \subseteq CallerSatisfied
        /\ \/ reason = "none" /\ kind = "completed"
           \/ reason = "route_ceiling_reached" /\ Ceiling(request) = Direct
  <2>1. CASE DirectCompletes
    <3>1. Lacking({}) = {} /\ (Sufficient => Requested = CallerSatisfied)
      BY DEF Lacking, Sufficient
    <3>2. QED BY <2>1, <3>1 DEF DirectCompletes
  <2>2. CASE DirectBlocked
    <3>1. Lacking(CallerDeficits) = Requested \ CallerSatisfied
      BY DeficitsLack DEF CallerDeficits
    <3>2. CallerSatisfied \subseteq Requested BY DEF CallerSatisfied
    <3>3. QED BY <2>2, <3>1, <3>2 DEF DirectBlocked
  <2>3. QED BY <2>1, <2>2
<1>2. route = Direct /\ Floor(request) = Direct /\ RequestOk
  BY DEF DirectCompletes, DirectBlocked, RouteInv
<1>3. UNCHANGED <<worldVars, runVars, route, lightVars>> BY DEF DirectCompletes, DirectBlocked
<1> DEFINE e == Envelope(kind, Direct, satisfied, deficits, "none", reason)
           a == Attempt(Direct, kind, deficits, "none")
<1>4. /\ e.route = Direct /\ e.kind = kind /\ e.failure = "none" /\ e.reason = reason
      /\ e.satisfied = satisfied /\ e.deficits = deficits /\ a.route = Direct /\ a.state = kind
  BY DEF Envelope, Attempt
<1>5. Finish(e, <<a>>) BY <1>1
<1> HIDE DEF e, a
<1>6. Accounts(e) BY <1>1, <1>4 DEF Accounts, CallerSatisfied, Needs
<1>7. ReasonFits(e) BY <1>1, <1>4 DEF ReasonFits
<1>8. e.kind = "completed" => \A c \in Requested : ~Needs(c)
  BY <1>1, <1>4 DEF Sufficient, Needs
<1>9. Direct \in Floor(request) .. Ceiling(request)
  BY <1>2, Bounds DEF Direct, Light, Deep
<1>10. Len(<<a>>) = 1 /\ <<a>>[1] = a /\ <<a>> # <<>> /\ Last(<<a>>) = a /\ 1 .. Len(<<a>>) = {1}
  BY DEF Last
<1>11. Valid(e, <<a>>)
  <2>1. \A i \in 1 .. Len(<<a>>) :
          /\ <<a>>[i].route \in Floor(request) .. Ceiling(request)
          /\ i > 1 => Follows(<<a>>[i], <<a>>[i - 1])
          /\ <<a>>[i].route = Direct
    BY <1>4, <1>9, <1>10
  <2>2. <<a>>[1].route = Floor(request) BY <1>2, <1>4, <1>10
  <2>3. Last(<<a>>).route = e.route /\ Last(<<a>>).state = e.kind BY <1>4, <1>10
  <2>4. e.failure # "generation_unavailable" /\ e.kind # "partial" BY <1>1, <1>4
  <2>5. QED BY <1>6, <1>7, <1>8, <1>10, <2>1, <2>2, <2>3, <2>4 DEF Valid
<1>12. attempts' = <<a>> /\ result' = e /\ pc' \in {"activate", "done"} BY <1>5, <1>11 DEF Finish
<1>13. RequestOk' BY <1>2, <1>3 DEF RequestOk, worldVars, runVars, Legal
<1>14. Earned(attempts') BY <1>2, <1>4, <1>12, FirstEarned
<1>15. RefusedOnlyBelowCeiling' BY <1>1, <1>4, <1>12, NotRefused
<1>16. QED BY <1>3, <1>12, <1>13, <1>14, <1>15, Ending DEF worldVars, runVars, lightVars

(* A generation activated since ends the run, blocked.                      *)
LEMMA GenerationMovedKeeps ==
    ASSUME GovernorAssumption, RouteInv, GenerationMoved
    PROVE  RouteInv'
<1> DEFINE e == Envelope("blocked", route, CallerSatisfied, {},
                         "generation_changed", "generation_changed")
           a == Attempt(route, "blocked", {}, "generation_changed")
<1>1. /\ e.route = route /\ e.kind = "blocked" /\ e.failure = "generation_changed"
      /\ e.reason = "generation_changed" /\ e.satisfied = CallerSatisfied /\ e.deficits = {}
      /\ a.route = route /\ a.state = "blocked"
  BY DEF Envelope, Attempt
<1>2. /\ attempts' = Append(attempts, a) /\ UNCHANGED <<worldVars, runVars, route, lightVars>>
      /\ Valid(e, Append(attempts, a)) => result' = e /\ pc' = "done"
  BY <1>1 DEF GenerationMoved, Finish
<1> HIDE DEF e, a
<1>3. Accounts(e) BY <1>1, CallerAccounts
<1>4. ReasonFits(e) BY <1>1 DEF ReasonFits
<1>5. /\ RequestOk /\ start # 0 /\ Climbed(attempts, a.route) /\ a.route \in {Light, Deep}
      /\ a.route <= Ceiling(request)
  BY <1>1 DEF RouteInv, GenerationMoved
<1>6. Valid(e, Append(attempts, a)) BY <1>1, <1>3, <1>4, <1>5, OneMoreValid
<1>7. Earned(attempts') BY <1>2, <1>5, OneMoreEarned
<1>8. RequestOk' BY <1>2, <1>5 DEF RequestOk, worldVars, runVars, Legal
<1>9. RefusedOnlyBelowCeiling' BY <1>1, <1>2, <1>6, NotRefused
<1>10. QED BY <1>2, <1>6, <1>7, <1>8, <1>9, Ending DEF worldVars, runVars, lightVars

(* Entering Atlas from DIRECT leaves its deficits to LIGHT.                 *)
LEMMA EnterAtlasKeeps ==
    ASSUME GovernorAssumption, RouteInv, EnterAtlas
    PROVE  RouteInv'
<1>1. /\ RequestOk /\ attempts = <<>> /\ route = Floor(request) /\ start # 0 /\ result.kind = "none"
      /\ pc' = "check" /\ UNCHANGED <<worldVars, runVars, lightVars, result>>
  BY DEF RouteInv, EnterAtlas
<1>2. RequestOk' BY <1>1 DEF RequestOk, worldVars, runVars, Legal
<1>3. /\ route' \in {Light, Deep} /\ route' <= Ceiling(request)
      /\ Climbed(attempts', route') /\ Earned(attempts')
  <2>1. CASE route # Direct /\ UNCHANGED <<attempts, route>>
    <3>1. attempts' = <<>> /\ route' \in {Light, Deep} /\ route' <= Ceiling(request)
      BY <1>1, <2>1, Bounds DEF Direct, Light, Deep
    <3>2. Climbed(<<>>, route)
      <4>1. <<>> \in Seq({}) /\ Len(<<>>) = 0 /\ DOMAIN <<>> = {} OBVIOUS
      <4>2. Floor(request) + 0 = route BY <1>1, Bounds DEF Direct, Deep
      <4>3. QED BY <4>1, <4>2 DEF Climbed
    <3>3. Climbed(attempts', route') BY <2>1, <3>1, <3>2
    <3>4. QED BY <1>1, <3>1, <3>3, FirstEarned
  <2>2. CASE /\ route = Direct /\ ~Sufficient /\ Ceiling(request) # Direct
             /\ attempts' = << Attempt(Direct, "partial", CallerDeficits, "none") >>
             /\ route' = Light
    <3> DEFINE a == Attempt(Direct, "partial", CallerDeficits, "none")
    <3>1. /\ a.route = Direct /\ a.state = "partial" /\ a.failure = "none"
          /\ a.deficits = CallerDeficits
      BY DEF Attempt
    <3>2. Missed(CallerDeficits)
      <4>1. Requested \ CallerSatisfied # {} BY <2>2 DEF Sufficient, CallerSatisfied
      <4>2. QED BY <4>1, DeficitsLack DEF CallerDeficits, Missed, Needs
    <3> HIDE DEF a
    <3>3. attempts' = <<a>> BY <2>2 DEF a
    <3>4. Climbed(<<a>>, Light)
      <4>1. <<a>> \in Seq({a}) /\ Len(<<a>>) = 1 /\ DOMAIN <<a>> = {1} /\ <<a>>[1] = a
        OBVIOUS
      <4>2. Left(<<a>>, 1) BY <3>1, <3>2, <4>1 DEF Left, Direct, Light
      <4>3. Floor(request) = 0 BY <1>1, <2>2 DEF Direct
      <4>4. \E S : <<a>> \in Seq(S) BY <4>1
      <4>5. Floor(request) + Len(<<a>>) = Light BY <4>1, <4>3 DEF Light
      <4>6. \A i \in DOMAIN <<a>> : <<a>>[i].route = Floor(request) + i - 1 /\ Left(<<a>>, i)
        BY <3>1, <4>1, <4>2, <4>3 DEF Direct
      <4>7. QED BY <4>4, <4>5, <4>6 DEF Climbed
    <3>5. Light <= Ceiling(request) BY <1>1, <2>2, Bounds DEF Direct, Light, Deep
    <3>6. Earned(<<a>>) BY <1>1, <2>2, <3>1, FirstEarned
    <3>7. QED BY <2>2, <3>3, <3>4, <3>5, <3>6
  <2>3. QED BY <2>1, <2>2 DEF EnterAtlas
<1>4. Climbed(attempts, route)'
  <2>1. \A c : Needs(c) <=> Needs(c)' BY <1>1 DEF Needs, Requested, CallerSatisfied, runVars
  <2>2. \A D : Missed(D) <=> Missed(D)' BY <2>1 DEF Missed
  <2>3. QED BY <1>1, <1>3, <2>2 DEF Climbed, Left, CanEscalate, runVars
<1>5. EscalationIsEarned'
  BY <1>1, <1>3 DEF RouteInv, EscalationIsEarned, Earned, runVars, lightVars
<1>6. RefusedOnlyBelowCeiling' BY <1>1, NotRefused
<1>7. QED BY <1>1, <1>2, <1>3, <1>4, <1>5, <1>6 DEF RouteInv, runVars, lightVars

(* What LIGHT lacks: needed capabilities, all of DEEP's among them, each    *)
(* for a reason it can have.                                                *)
LEMMA LightLacks ==
    ASSUME GovernorAssumption, RequestOk
    PROVE  /\ \A d \in LightDeficits :
                /\ Needs(d.cap)
                /\ d.cap \in DeepCapability => d.reason = "unavailable"
                /\ d.cap = "source" => d.reason # "semantic_budget_omitted"
           /\ \A c \in Requested : Needs(c) /\ c \notin Lacking(LightDeficits)
                                     => MinimumRoute(c) = Light
<1>1. ASSUME NEW d \in LightDeficits
      PROVE  Needs(d.cap) /\ d.reason = LightOutcome(d.cap)
  BY DEF LightDeficits, Needs
<1>2. ASSUME NEW c \in Requested, Needs(c), c \notin Lacking(LightDeficits)
      PROVE  MinimumRoute(c) = Light
  <2>1. LightOutcome(c) = "ok"
    <3> DEFINE d == [cap |-> c, reason |-> LightOutcome(c)]
    <3>1. d.cap = c /\ d.reason = LightOutcome(c) OBVIOUS
    <3>2. c \in Requested \ CallerSatisfied BY <1>2 DEF Needs
    <3>3. d \in {[cap |-> k, reason |-> LightOutcome(k)] : k \in Requested \ CallerSatisfied}
      BY <3>2
    <3> HIDE DEF d
    <3>4. SUFFICES ASSUME LightOutcome(c) # "ok" PROVE FALSE OBVIOUS
    <3>5. d \in LightDeficits BY <3>1, <3>3, <3>4 DEF LightDeficits
    <3>6. QED BY <1>2, <3>1, <3>5 DEF Lacking
  <2>2. c \notin DeepCapability BY <2>1, DeepIsBeyondLight
  <2>3. QED BY <1>2, <2>2, Bounds, RouteOf
<1>3. ASSUME NEW d \in LightDeficits
      PROVE  /\ d.cap \in DeepCapability => d.reason = "unavailable"
             /\ d.cap = "source" => d.reason # "semantic_budget_omitted"
  <2>1. d.reason = LightOutcome(d.cap) BY <1>1
  <2>2. CASE d.cap \in DeepCapability
    BY <2>1, <2>2, DeepIsBeyondLight DEF DeepCapability
  <2>3. CASE d.cap \notin DeepCapability BY <2>1, <2>3, SourceIsNotOmitted
  <2>4. QED BY <2>2, <2>3
<1>4. QED BY <1>1, <1>2, <1>3

(* LIGHT ends the run, or leaves its deficits to DEEP.                      *)
LEMMA ConcludeLightKeeps ==
    ASSUME GovernorAssumption, RouteInv, ConcludeLight
    PROVE  RouteInv'
<1> DEFINE D == LightDeficits
<1>1. /\ RequestOk /\ start # 0 /\ route = Light /\ route <= Ceiling(request)
      /\ Climbed(attempts, route) /\ pc = "light" /\ result.kind = "none"
      /\ UNCHANGED <<worldVars, runVars, lightVars>>
  BY DEF RouteInv, ConcludeLight
<1>2. RequestOk' BY <1>1 DEF RequestOk, worldVars, runVars, Legal
<1>3. /\ \A d \in D :
                /\ Needs(d.cap)
                /\ d.cap \in DeepCapability => d.reason = "unavailable"
                /\ d.cap = "source" => d.reason # "semantic_budget_omitted"
      /\ \A c \in Requested : Needs(c) /\ c \notin Lacking(D) => MinimumRoute(c) = Light
  BY <1>1, LightLacks
<1>4. \/ D = {} /\ Completes
      \/ Fail /\ UNCHANGED <<attempts, route>>
      \/ /\ Escalates(D)
         /\ attempts' = Append(attempts, Attempt(Light, "partial", D, "none"))
         /\ route' = Deep /\ pc' = "check" /\ UNCHANGED result
      \/ D # {} /\ Deficient(D, HasPayload)
  BY DEF ConcludeLight
<1> HIDE DEF D
<1>5. CASE D = {} /\ Completes
  <2>1. \A c \in Requested : Needs(c) => MinimumRoute(c) <= route
    BY <1>1, <1>3, <1>5 DEF Lacking, Light
  <2>2. /\ result'.kind = "completed" /\ Earned(attempts')
        /\ pc' = IF request.bound THEN "activate" ELSE "done"
    BY <1>1, <1>5, <2>1, CompletesValid
  <2>3. RefusedOnlyBelowCeiling' BY <2>2, NotRefused
  <2>4. QED BY <1>1, <1>2, <2>2, <2>3, Ending DEF runVars, lightVars
<1>6. CASE Fail /\ UNCHANGED <<attempts, route>>
  BY <1>1, <1>2, <1>6, FailEnds DEF runVars, lightVars
<1>7. CASE D # {} /\ Deficient(D, HasPayload)
  <2>1. HasPayload \in BOOLEAN BY DEF HasPayload
  <2>2. \A c \in Requested : Needs(c) /\ c \notin Lacking(D) => MinimumRoute(c) <= route
    BY <1>1, <1>3 DEF Light
  <2>3. Earned(attempts') /\ RefusedOnlyBelowCeiling'
    BY <1>1, <1>3, <1>7, <2>1, <2>2, DeficientFits DEF runVars
  <2>4. pc' \in {"activate", "done"} BY <1>7 DEF Deficient, Finish
  <2>5. QED BY <1>1, <1>2, <2>3, <2>4, Ending DEF runVars, lightVars
<1>8. CASE /\ Escalates(D)
           /\ attempts' = Append(attempts, Attempt(Light, "partial", D, "none"))
           /\ route' = Deep /\ pc' = "check" /\ UNCHANGED result
  <2> DEFINE a == Attempt(Light, "partial", D, "none")
  <2>1. a.route = Light /\ a.state = "partial" /\ a.failure = "none" /\ a.deficits = D
    BY DEF Attempt
  <2>2. Missed(D) BY <1>3, <1>8 DEF Escalates, CanEscalate, Missed
  <2>3. attempts' = Append(attempts, a) BY <1>8
  <2> HIDE DEF a
  <2> DEFINE all == Append(attempts, a)
  <2>4. /\ \E T : all \in Seq(T)
        /\ Len(attempts) \in Nat /\ DOMAIN attempts = 1 .. Len(attempts)
        /\ Len(all) = Len(attempts) + 1 /\ DOMAIN all = 1 .. Len(attempts) + 1
        /\ \A i \in 1 .. Len(attempts) : all[i] = attempts[i]
        /\ all[Len(attempts) + 1] = a
    <3>1. PICK S : attempts \in Seq(S) BY <1>1 DEF Climbed
    <3>2. QED BY <3>1, AppendAny
  <2>5. /\ Floor(request) \in Direct .. Deep /\ Ceiling(request) \in Direct .. Deep
        /\ Floor(request) + Len(attempts) = Light
        /\ \A i \in 1 .. Len(attempts) :
             attempts[i].route = Floor(request) + i - 1 /\ Left(attempts, i)
    BY <1>1, <2>4, Bounds DEF Climbed
  <2> HIDE DEF all
  <2>6. \A i \in DOMAIN all : all[i].route = Floor(request) + i - 1 /\ Left(all, i)
    <3>1. TAKE i \in DOMAIN all
    <3>2. CASE i \in 1 .. Len(attempts) BY <2>4, <2>5, <3>2 DEF Left
    <3>3. CASE i = Len(attempts) + 1
      <4>1. all[i].route = Floor(request) + i - 1
        BY <2>1, <2>4, <2>5, <3>3 DEF Direct, Light, Deep
      <4>2. Left(all, i) BY <1>8, <2>1, <2>2, <2>4, <3>3 DEF Left, Escalates
      <4>3. QED BY <4>1, <4>2
    <3>4. QED BY <2>4, <3>2, <3>3
  <2>7. Floor(request) + Len(all) = Deep BY <2>4, <2>5 DEF Direct, Light, Deep
  <2>8. Climbed(all, Deep) BY <2>4, <2>6, <2>7 DEF Climbed
  <2>9. Deep <= Ceiling(request)
    BY <1>1, <1>8, <2>5 DEF Escalates, Direct, Light, Deep
  <2>10. Earned(all) BY <1>1, <2>1, OneMoreEarned DEF all
  <2>11. attempts' = all BY <2>3 DEF all
  <2>12. Climbed(attempts, route)'
    <3>1. \A c : Needs(c) <=> Needs(c)' BY <1>1 DEF Needs, Requested, CallerSatisfied, runVars
    <3>2. \A x : Missed(x) <=> Missed(x)' BY <3>1 DEF Missed
    <3>3. QED BY <1>1, <1>8, <2>8, <2>11, <3>2 DEF Climbed, Left, CanEscalate, runVars
  <2>13. EscalationIsEarned'
    BY <1>1, <2>10, <2>11 DEF RouteInv, EscalationIsEarned, Earned, runVars, lightVars
  <2>14. RefusedOnlyBelowCeiling' BY <1>1, <1>8, NotRefused
  <2>15. QED BY <1>1, <1>2, <1>8, <2>9, <2>12, <2>13, <2>14 DEF RouteInv, runVars, lightVars
<1>9. QED BY <1>4, <1>5, <1>6, <1>7, <1>8

(* DEEP ends the run.                                                       *)
LEMMA ConcludeDeepKeeps ==
    ASSUME GovernorAssumption, RouteInv, ConcludeDeep
    PROVE  RouteInv'
<1>1. /\ RequestOk /\ pc = "deep" /\ route = Deep /\ UNCHANGED <<worldVars, runVars, route, lightVars>>
  BY DEF RouteInv, ConcludeDeep
<1>2. RequestOk' BY <1>1 DEF RequestOk, worldVars, runVars, Legal
<1>3. \A c \in Requested : MinimumRoute(c) <= route BY <1>1, Bounds, RouteOf
<1>4. CASE Fail /\ UNCHANGED attempts
  BY <1>1, <1>2, <1>4, FailEnds DEF runVars, lightVars
<1>5. CASE Completes
  <2>1. /\ result'.kind = "completed" /\ Earned(attempts')
        /\ pc' = IF request.bound THEN "activate" ELSE "done"
    BY <1>1, <1>3, <1>5, CompletesValid
  <2>2. RefusedOnlyBelowCeiling' BY <2>1, NotRefused
  <2>3. QED BY <1>1, <1>2, <2>1, <2>2, Ending DEF runVars, lightVars
<1>6. ASSUME NEW missing \in SUBSET (Requested \ CallerSatisfied), missing # {},
             Deficient(Deficits(missing, "unavailable"), TRUE)
      PROVE  RouteInv'
  <2> DEFINE D == Deficits(missing, "unavailable")
  <2>1. \A d \in D : d.cap \in missing /\ d.reason = "unavailable" BY DeficitsLack
  <2>2. D # {} BY <1>6, DeficitsLack
  <2> HIDE DEF D
  <2>3. \A d \in D : Needs(d.cap) /\ (d.cap \in DeepCapability => d.reason = "unavailable")
    BY <2>1 DEF Needs
  <2>4. Deficient(D, TRUE) BY <1>6 DEF D
  <2>5. Earned(attempts') /\ RefusedOnlyBelowCeiling'
    BY <1>1, <1>3, <2>2, <2>3, <2>4, DeficientFits DEF runVars
  <2>6. pc' \in {"activate", "done"} BY <2>4 DEF Deficient, Finish
  <2>7. QED BY <1>1, <1>2, <2>5, <2>6, Ending DEF runVars, lightVars
<1>7. QED BY <1>4, <1>5, <1>6 DEF ConcludeDeep

(* A session that is written keeps its shape.                               *)
LEMMA SessionWritten ==
    ASSUME RequestOk, UNCHANGED request,
           \/ UNCHANGED taskSession
           \/ \E to \in {"context_compiled", "active", "abandoned"} :
                taskSession' = [taskSession EXCEPT !.state = to]
    PROVE  RequestOk' /\ taskSession'.start = taskSession.start
<1>1. CASE UNCHANGED taskSession BY <1>1 DEF RequestOk, Legal
<1>2. ASSUME NEW to \in {"context_compiled", "active", "abandoned"},
             taskSession' = [taskSession EXCEPT !.state = to]
      PROVE  RequestOk' /\ taskSession'.start = taskSession.start
  <2>1. /\ taskSession'.state = to /\ taskSession'.start = taskSession.start
        /\ DOMAIN taskSession' = {"state", "start"}
    BY <1>2 DEF RequestOk
  <2>2. QED BY <2>1 DEF RequestOk, Legal
<1>3. QED BY <1>1, <1>2

(* The steps of a run's beginning and its activation.                       *)
LEMMA OtherKeeps ==
    ASSUME GovernorAssumption, RouteInv,
           BuildRequest \/ BindSession \/ Decide \/ BeginLight \/ BeginDeep
             \/ ValidateActivation \/ MarkCompiled \/ MarkActive
    PROVE  RouteInv'
<1>0. RequestOk BY DEF RouteInv
<1>1. CASE BuildRequest \/ Decide
  <2>1. RequestOk'
    BY <1>0, <1>1, SessionWritten DEF BuildRequest, Decide, worldVars
  <2>2. /\ UNCHANGED <<request, attempts, result, found>> /\ attempts = <<>> /\ result.kind = "none"
        /\ pc' \in {"dispatch", "route"} /\ (pc' = "route" => route' = Floor(request))
    BY <1>1 DEF BuildRequest, Decide, RouteInv, lightVars
  <2>3. EscalationIsEarned'
    BY <2>2 DEF RouteInv, EscalationIsEarned
  <2>4. RefusedOnlyBelowCeiling' BY <2>2, NotRefused
  <2>5. QED BY <2>1, <2>2, <2>3, <2>4 DEF RouteInv
<1>2. CASE BindSession
  <2>1. RequestOk' BY <1>0, <1>2, SessionWritten DEF BindSession, worldVars, runVars
  <2>2. UNCHANGED <<request, attempts, found>> /\ attempts = <<>> /\ result.kind = "none"
    BY <1>2 DEF BindSession, runVars, lightVars, RouteInv
  <2>3. CASE Fail BY <2>1, <2>2, <2>3, FailEnds
  <2>4. CASE pc' = "observe" /\ UNCHANGED result
    <3>1. EscalationIsEarned' BY <2>2 DEF RouteInv, EscalationIsEarned
    <3>2. RefusedOnlyBelowCeiling' BY <2>2, <2>4, NotRefused
    <3>3. QED BY <2>1, <2>2, <2>4, <3>1, <3>2 DEF RouteInv
  <2>5. QED BY <1>2, <2>3, <2>4 DEF BindSession
<1>3. CASE BeginLight \/ BeginDeep
  <2>1. RequestOk' BY <1>0, <1>3, SessionWritten DEF BeginLight, BeginDeep, worldVars, runVars
  <2>2. UNCHANGED <<request, start, route, attempts, found>> /\ pc = "check" /\ result.kind = "none"
    BY <1>3 DEF BeginLight, BeginDeep, runVars, lightVars, RouteInv
  <2>3. CASE Fail BY <2>1, <2>2, <2>3, FailEnds
  <2>4. CASE UNCHANGED result /\ \/ pc' = "light" /\ route = Light
                                 \/ pc' = "deep" /\ route = Deep
    <3>1. \A tries, next : tries = attempts /\ next = route /\ Climbed(tries, next)
                             => Climbed(tries, next)'
      BY <2>2, TriesStay
    <3>2. Climbed(attempts, route)' BY <2>2, <3>1 DEF RouteInv
    <3>3. EscalationIsEarned' BY <2>2 DEF RouteInv, EscalationIsEarned
    <3>4. RefusedOnlyBelowCeiling' BY <2>2, <2>4, NotRefused
    <3>5. QED BY <2>1, <2>2, <2>4, <3>2, <3>3, <3>4 DEF RouteInv
  <2>5. QED BY <1>3, <2>3, <2>4 DEF BeginLight, BeginDeep
<1>4. CASE ValidateActivation \/ MarkCompiled \/ MarkActive
  <2>1. RequestOk'
    BY <1>0, <1>4, SessionWritten
    DEF ValidateActivation, MarkCompiled, MarkActive, MoveSession, worldVars, runVars
  <2>2. UNCHANGED <<request, attempts, found>>
    BY <1>4 DEF ValidateActivation, MarkCompiled, MarkActive, MoveSession, runVars, lightVars
  <2>3. CASE Fail BY <2>1, <2>2, <2>3, FailEnds
  <2>4. CASE UNCHANGED result /\ pc' \in {"compile", "engage", "done"}
    <3>1. Earned(attempts') BY <2>2 DEF RouteInv, EscalationIsEarned, Earned
    <3>2. RefusedOnlyBelowCeiling'
      BY <2>2, <2>4 DEF RouteInv, RefusedOnlyBelowCeiling, Lacking, Reasons
    <3>3. QED BY <2>1, <2>2, <2>4, <3>1, <3>2, Ending
  <2>5. QED
    BY <1>4, <2>3, <2>4 DEF ValidateActivation, MarkCompiled, MarkActive, MoveSession
<1>5. QED BY <1>1, <1>2, <1>3, <1>4

-----------------------------------------------------------------------------
(* The invariant of the attempts holds at first.                            *)
LEMMA InitRoute ==
    ASSUME GovernorAssumption, Init
    PROVE  RouteInv
<1>1. /\ request \in RunRequests /\ Legal(request) /\ pc = "build" /\ attempts = <<>> /\ found = <<>>
      /\ result.kind = "none"
  BY DEF Init, NoResult
<1>2. taskSession.state \in {"created", "active"} /\ DOMAIN taskSession = {"state", "start"}
  BY DEF Init
<1>3. RequestOk BY <1>1, <1>2 DEF RequestOk
<1>4. EscalationIsEarned BY <1>1, <1>3, FirstEarned DEF EscalationIsEarned, Earned
<1>5. RefusedOnlyBelowCeiling BY <1>1 DEF RefusedOnlyBelowCeiling
<1>6. QED BY <1>1, <1>3, <1>4, <1>5 DEF RouteInv

(* LIGHT's statements and what others do touch no attempt.                  *)
LEMMA ReadKeeps ==
    ASSUME GovernorAssumption, RouteInv,
           \/ \E t \in Target : ReadTarget(t)
           \/ ActivateGeneration \/ (\E p \in Path : EditFile(p)) \/ AbandonSession
    PROVE  RouteInv'
<1>0. RequestOk BY DEF RouteInv
<1>1. CASE \E t \in Target : ReadTarget(t)
  <2>1. PICK t, s : Statement(t, s) BY <1>1
    DEF ReadTarget, ReadIdentity, ReadOwner, ReadRelationships, ReadImpact, ReadCoverage,
        ReadConflicts, VerifySource
  <2>2. pc = "light" /\ UNCHANGED <<worldVars, runVars, pc, route, attempts, result>>
    BY <2>1 DEF Statement
  <2>3. request.intent # "none"
    <3>1. Light <= Ceiling(request) BY <2>2 DEF RouteInv
    <3>2. QED BY <1>0, <3>1, Bounds DEF Direct, Light
  <2>4. RequestOk' BY <1>0, <2>2, SessionWritten DEF worldVars, runVars
  <2>5. QED BY <2>2, <2>3, <2>4, Elsewhere DEF runVars
<1>2. CASE ActivateGeneration \/ (\E p \in Path : EditFile(p)) \/ AbandonSession
  <2>1. RequestOk'
    BY <1>0, <1>2, SessionWritten DEF ActivateGeneration, EditFile, AbandonSession, runVars
  <2>2. UNCHANGED <<runVars, pc, route, lightVars, attempts, result>>
    BY <1>2 DEF ActivateGeneration, EditFile, AbandonSession
  <2>3. QED BY <2>1, <2>2, Elsewhere DEF runVars, lightVars
<1>3. QED BY <1>1, <1>2

(* Every step keeps the invariant of the attempts.                          *)
LEMMA NextRoute ==
    ASSUME GovernorAssumption, RouteInv, [Next]_vars
    PROVE  RouteInv'
<1>1. CASE UNCHANGED vars
  <2>1. UNCHANGED <<taskSession, request, start, pc, route, found, attempts, result>>
    BY <1>1 DEF vars, worldVars, runVars, lightVars
  <2>2. RequestOk' BY <2>1, SessionWritten DEF RouteInv
  <2>3. QED BY <2>1, <2>2, Elsewhere
<1>2. CASE NoGeneration BY <1>2, NoGenerationKeeps
<1>3. CASE DirectCompletes \/ DirectBlocked BY <1>3, DirectKeeps
<1>4. CASE EnterAtlas BY <1>4, EnterAtlasKeeps
<1>5. CASE GenerationMoved BY <1>5, GenerationMovedKeeps
<1>6. CASE ConcludeLight BY <1>6, ConcludeLightKeeps
<1>7. CASE ConcludeDeep BY <1>7, ConcludeDeepKeeps
<1>8. CASE BuildRequest \/ BindSession \/ Decide \/ BeginLight \/ BeginDeep
             \/ ValidateActivation \/ MarkCompiled \/ MarkActive
  BY <1>8, OtherKeeps
<1>9. CASE \/ \E t \in Target : ReadTarget(t)
           \/ ActivateGeneration \/ (\E p \in Path : EditFile(p)) \/ AbandonSession
  BY <1>9, ReadKeeps
<1>10. QED BY <1>1, <1>2, <1>3, <1>4, <1>5, <1>6, <1>7, <1>8, <1>9 DEF Next, Governor

(* The invariant of the attempts holds in every run of the governor.        *)
THEOREM RouteInvHolds == ASSUME GovernorAssumption PROVE Spec => []RouteInv
<1>1. Init => RouteInv BY InitRoute
<1>2. RouteInv /\ [Next]_vars => RouteInv' BY NextRoute
<1>3. QED BY <1>1, <1>2, PTL DEF Spec

(* Routes are tried upwards from the floor, one at a time, and DEEP never   *)
(* over an exact-source or unsupported deficit (execute_context_route).     *)
THEOREM Escalated == ASSUME GovernorAssumption PROVE Spec => []EscalationIsEarned
<1>1. RouteInv => EscalationIsEarned BY DEF RouteInv
<1>2. QED BY <1>1, RouteInvHolds, PTL

(* The only envelope the validation refuses is LIGHT's below a DEEP ceiling *)
(* (terminal_reason_for, validate_terminal_reason).                         *)
THEOREM Refused == ASSUME GovernorAssumption PROVE Spec => []RefusedOnlyBelowCeiling
<1>1. RouteInv => RefusedOnlyBelowCeiling BY DEF RouteInv
<1>2. QED BY <1>1, RouteInvHolds, PTL

-----------------------------------------------------------------------------
(* The session of a bound run that is being activated.                      *)
ContextInv ==
    /\ taskSession.state \in {"created", "context_compiled", "active", "abandoned"}
    /\ DOMAIN taskSession = {"state", "start"}
    /\ pc \in {"activate", "compile", "engage"} =>
         result.kind \in {"completed", "partial"}
    /\ pc \in {"compile", "engage"} => taskSession.start = start

(* A run that goes on to its activation has acquired context; one that ends *)
(* with context has no session.                                             *)
LEMMA Finished ==
    ASSUME NEW e, NEW tries, Finish(e, tries)
    PROVE  /\ pc' \in {"activate", "done"}
           /\ pc' = "activate" => result'.kind \in {"completed", "partial"}
           /\ pc' = "done" /\ request.bound => result'.kind \notin {"completed", "partial"}
BY DEF Finish

(* What a step must do for its session.                                     *)
ContextStep ==
    /\ taskSession'.state = "active" /\ taskSession.state # "active" =>
         result.kind \in {"completed", "partial"} /\ start = taskSession.start
    /\ pc' = "done" /\ request.bound /\ result'.kind \in {"completed", "partial"} =>
         taskSession'.state = "active"

(* Every step keeps the session's invariant, and gives the session its      *)
(* context.                                                                 *)
LEMMA NextContext ==
    ASSUME ContextInv, Next
    PROVE  ContextInv' /\ ContextStep
<1>1. CASE \/ NoGeneration \/ DirectCompletes \/ DirectBlocked \/ GenerationMoved
           \/ ConcludeLight \/ ConcludeDeep
  <2>1. UNCHANGED taskSession
    BY <1>1 DEF NoGeneration, DirectCompletes, DirectBlocked, GenerationMoved,
                ConcludeLight, ConcludeDeep, worldVars
  <2>2. \/ \E e, tries : Finish(e, tries)
        \/ Fail
        \/ pc' = "check"
    BY <1>1 DEF NoGeneration, DirectCompletes, DirectBlocked, GenerationMoved,
                ConcludeLight, ConcludeDeep, Completes, Deficient
  <2>3. /\ pc' \in {"activate", "done", "check"}
        /\ pc' = "activate" => result'.kind \in {"completed", "partial"}
        /\ pc' = "done" /\ request.bound => result'.kind \notin {"completed", "partial"}
    BY <2>2, Finished DEF Fail
  <2>4. QED BY <2>1, <2>3 DEF ContextInv, ContextStep
<1>2. CASE \/ BuildRequest \/ BindSession \/ Decide \/ EnterAtlas \/ BeginLight \/ BeginDeep
           \/ \E t \in Target : ReadTarget(t)
  <2>1. UNCHANGED taskSession /\ pc \notin {"activate", "compile", "engage"}
    BY <1>2 DEF BuildRequest, BindSession, Decide, EnterAtlas, BeginLight, BeginDeep,
                ReadTarget, ReadIdentity, ReadOwner, ReadRelationships, ReadImpact, ReadCoverage,
                ReadConflicts, VerifySource, Statement, worldVars
  <2>2. \/ Fail
        \/ pc' \in {"dispatch", "observe", "route", "check", "light", "deep"}
    BY <1>2 DEF BuildRequest, BindSession, Decide, EnterAtlas, BeginLight, BeginDeep,
                ReadTarget, ReadIdentity, ReadOwner, ReadRelationships, ReadImpact, ReadCoverage,
                ReadConflicts, VerifySource, Statement
  <2>3. QED BY <2>1, <2>2 DEF ContextInv, ContextStep, Fail
<1>3. CASE ActivateGeneration \/ (\E p \in Path : EditFile(p)) \/ AbandonSession
  <2>1. pc # "done" /\ UNCHANGED <<runVars, pc, result>>
    BY <1>3 DEF ActivateGeneration, EditFile, AbandonSession
  <2>2. \/ UNCHANGED taskSession
        \/ taskSession' = [taskSession EXCEPT !.state = "abandoned"]
    BY <1>3 DEF ActivateGeneration, EditFile, AbandonSession
  <2>3. \/ UNCHANGED taskSession
        \/ /\ taskSession'.state = "abandoned" /\ taskSession'.start = taskSession.start
           /\ DOMAIN taskSession' = {"state", "start"}
    BY <2>2 DEF ContextInv
  <2>4. QED BY <2>1, <2>3 DEF ContextInv, ContextStep, runVars
<1>4. CASE ValidateActivation
  <2>1. UNCHANGED <<taskSession, start>> /\ pc = "activate"
    BY <1>4 DEF ValidateActivation, worldVars, runVars
  <2>2. CASE Fail BY <2>1, <2>2 DEF ContextInv, ContextStep, Fail
  <2>3. CASE /\ SessionFits(taskSession) /\ UNCHANGED result
             /\ pc' = CASE taskSession.state = "created"          -> "compile"
                        [] taskSession.state = "context_compiled" -> "engage"
                        [] OTHER                              -> "done"
    BY <2>1, <2>3 DEF ContextInv, ContextStep, SessionFits
  <2>4. QED BY <1>4, <2>2, <2>3 DEF ValidateActivation
<1>5. CASE MarkCompiled \/ MarkActive
  <2>1. UNCHANGED start /\ pc \in {"compile", "engage"} /\ taskSession.start = start
        /\ result.kind \in {"completed", "partial"}
    BY <1>5 DEF MarkCompiled, MarkActive, MoveSession, runVars, ContextInv
  <2>2. CASE Fail /\ UNCHANGED taskSession BY <2>1, <2>2 DEF ContextInv, ContextStep, Fail
  <2>3. CASE /\ UNCHANGED result
             /\ \/ pc' = "engage" /\ taskSession' = [taskSession EXCEPT !.state = "context_compiled"]
                \/ pc' = "done" /\ taskSession' = [taskSession EXCEPT !.state = "active"]
    <3>1. /\ taskSession'.start = taskSession.start /\ DOMAIN taskSession' = {"state", "start"}
          /\ \/ pc' = "engage" /\ taskSession'.state = "context_compiled"
             \/ pc' = "done" /\ taskSession'.state = "active"
      BY <2>3 DEF ContextInv
    <3>2. QED BY <2>1, <2>3, <3>1 DEF ContextInv, ContextStep
  <2>4. QED BY <1>5, <2>2, <2>3 DEF MarkCompiled, MarkActive, MoveSession
<1>6. QED BY <1>1, <1>2, <1>3, <1>4, <1>5 DEF Next, Governor

(* A bound session becomes active only with the context of a finished run,  *)
(* and is active when the run reports context                               *)
(* (activate_legacy_task_session).                                          *)
THEOREM HasItsContext == Spec => SessionHasItsContext
<1>1. Init => ContextInv
  <2>1. ASSUME Init PROVE ContextInv
    <3>1. pc = "build" /\ taskSession.state \in {"created", "active"}
          /\ DOMAIN taskSession = {"state", "start"}
      BY <2>1 DEF Init
    <3>2. QED BY <3>1 DEF ContextInv
  <2>2. QED BY <2>1
<1>2. ContextInv /\ [Next]_vars => ContextInv' /\ [ContextStep]_vars
  <2>1. CASE Next BY <2>1, NextContext
  <2>2. CASE UNCHANGED vars
    BY <2>2 DEF vars, worldVars, runVars, ContextInv
  <2>3. QED BY <2>1, <2>2
<1>3. [ContextStep]_vars => [ /\ taskSession'.state = "active" /\ taskSession.state # "active" =>
                                    result.kind \in {"completed", "partial"}
                                      /\ start = taskSession.start
                              /\ pc' = "done" /\ request.bound
                                   /\ result'.kind \in {"completed", "partial"} =>
                                    taskSession'.state = "active" ]_vars
  BY DEF ContextStep
<1>4. QED BY <1>1, <1>2, <1>3, PTL DEF Spec, SessionHasItsContext

-----------------------------------------------------------------------------
(* What LIGHT's statements answer.                                          *)

(* The columns a statement of bounded_query_projection answers.             *)
Answers(s) ==
    CASE s = "identity"      -> {"matches"}
      [] s = "owner"         -> {"owner"}
      [] s = "relationships" -> {"rels"}
      [] s = "impact"        -> {"ok", "bad"}
      [] s = "coverage"      -> {"full", "part"}
      [] s = "conflicts"     -> {"semantic", "covering"}
      [] s = "source"        -> {"source"}

(* A statement that ran has told of its target what the decision's          *)
(* generation says; while that is the active one, it has told all of it.    *)
Answered(t, s) ==
    CASE s = "identity" ->
            \/ Told(t, "matches") = RowsOf(t, "matches")
            \/ active # start /\ Told(t, "matches") = 0
      [] s = "owner" ->
            /\ Told(t, "owner") \in {0, 1}
            /\ Told(t, "owner") = 1 => RowsOf(t, "matches") = 1
            /\ active = start /\ RowsOf(t, "matches") = 1 => Told(t, "owner") = 1
      [] s = "relationships" ->
            \/ Told(t, "rels") = RowsOf(t, "rels")
            \/ active # start /\ Told(t, "rels") = 0
      [] s = "impact" ->
            \/ Told(t, "ok") = RowsOf(t, "ok") /\ Told(t, "bad") = RowsOf(t, "bad")
            \/ active # start /\ Told(t, "ok") = 0 /\ Told(t, "bad") = 0
      [] s = "coverage" ->
            \/ /\ RowsOf(t, "matches") = 1
               /\ Told(t, "full") = RowsOf(t, "full") /\ Told(t, "part") = RowsOf(t, "part")
            \/ /\ active = start => RowsOf(t, "matches") # 1
               /\ Told(t, "full") = 0 /\ Told(t, "part") = 0
      [] s = "conflicts" ->
            /\ Told(t, "semantic") = IF Needs("relationships") \/ Needs("impact")
                                     THEN RowsOf(t, "semantic") ELSE 0
            /\ Told(t, "covering") = IF Needs("coverage") THEN RowsOf(t, "covering") ELSE 0
      [] s = "source" ->
            /\ Told(t, "source") \in {"not_found", "read_failed", "verified", "hash_mismatch"}
            /\ Told(t, "source") = "verified" =>
                 RowsOf(t, "matches") # 0 /\ RowsOf(t, "text") \in held[t]

(* LIGHT's statements are those due; one that is still to run has told      *)
(* nothing, and every other has answered.                                   *)
ReadsOk ==
    /\ script \subseteq Due
    /\ \A x \in script : \A c \in Answers(x[2]) : <<x[1], c>> \notin DOMAIN found
    /\ \A x \in Due \ script : Answered(x[1], x[2])

(* The generation a run decides on is not newer than the active one, and a  *)
(* file has the text it has.                                                *)
WorldOk ==
    /\ active \in 0 .. Len(IndexRows) /\ start \in 0 .. active
    /\ disk \in [Path -> Text] /\ held \in [Path -> SUBSET Text]
    /\ \A p \in Path : disk[p] \in held[p]

(* What an envelope of LIGHT says satisfied is witnessed, and what it lacks *)
(* is missed for a reason.                                                  *)
Backed(e) ==
    \A c \in e.satisfied :
        Needs(c) => c \in LightCapability /\ \A t \in request.seeds : Witnessed(c, t)

Deserved(e) ==
    active = start =>
        \A c \in Lacking(e.deficits) \cap (LightCapability \ {"source"}) :
            \/ request.seeds = {}
            \/ Cardinality(request.seeds) > MaxQueryTargets
            \/ \E t \in request.seeds : ~Witnessed(c, t) \/ Overflows(t)

Verdict ==
    result.kind \in {"completed", "partial", "blocked"} /\ result.route = Light =>
        Backed(result) /\ (result.failure = "none" => Deserved(result))

LightInv ==
    /\ WorldOk
    /\ pc \in {"build", "dispatch", "observe", "route"} => found = <<>>
    /\ pc = "check" /\ route = Light => found = <<>>
    /\ pc = "light" => ReadsOk
    /\ Verdict

(* A set put in order keeps its members and their number.                   *)
LEMMA ListedOnce ==
    ASSUME NEW S, IsFiniteSet(S)
    PROVE  /\ SetToSeq(S) \in Seq(S) /\ Len(SetToSeq(S)) = Cardinality(S)
           /\ Range(SetToSeq(S)) = S
<1> DEFINE n == Cardinality(S)
           f == SetToSeq(S)
<1>1. n \in Nat /\ Bijection(1 .. n, S) # {} BY FS_CardinalityType DEF ExistsBijection
<1>2. PICK g : g \in Bijection(1 .. n, S) BY <1>1
<1>3. g \in [1 .. n -> S] /\ IsInjective(g) BY <1>2 DEF Bijection, Injection
<1>4. f \in [1 .. n -> S] /\ IsInjective(f) BY <1>3 DEF SetToSeq
<1> HIDE DEF f
<1>5. f \in Injection(1 .. n, S) BY <1>4 DEF Injection
<1>6. f \in Surjection(1 .. n, S)
  <2>1. Cardinality(1 .. n) = n
    <3>1. Cardinality(1 .. n) = IF 1 > n THEN 0 ELSE n - 1 + 1 BY <1>1, FS_Interval
    <3>2. QED BY <1>1, <3>1
  <2>2. QED BY <1>5, <2>1, FS_Injection
<1>7. Range(f) = S BY <1>6 DEF Surjection, Range
<1> HIDE DEF n
<1>8. f \in Seq(S) /\ Len(f) = n BY <1>1, <1>4
<1>9. QED BY <1>7, <1>8 DEF f, n

(* Two sequences, one after the other, have the elements of both.           *)
LEMMA RangeOfBoth ==
    ASSUME NEW S, NEW a \in Seq(S), NEW b \in Seq(S)
    PROVE  Range(a \o b) = Range(a) \cup Range(b)
<1>1. /\ a \o b \in Seq(S) /\ Len(a \o b) = Len(a) + Len(b)
      /\ \A i \in 1 .. Len(a) + Len(b) : (a \o b)[i] = IF i <= Len(a) THEN a[i] ELSE b[i - Len(a)]
  BY ConcatProperties
<1>2. /\ DOMAIN a = 1 .. Len(a) /\ DOMAIN b = 1 .. Len(b) /\ DOMAIN (a \o b) = 1 .. Len(a) + Len(b)
      /\ Len(a) \in Nat /\ Len(b) \in Nat
  BY <1>1, LenProperties
<1>3. ASSUME NEW i \in DOMAIN (a \o b) PROVE (a \o b)[i] \in Range(a) \cup Range(b)
  <2>1. CASE i <= Len(a) BY <1>1, <1>2, <2>1 DEF Range
  <2>2. CASE i > Len(a)
    <3>1. i - Len(a) \in DOMAIN b BY <1>2, <2>2
    <3>2. (a \o b)[i] = b[i - Len(a)] BY <1>1, <1>2, <2>2
    <3>3. QED BY <3>1, <3>2 DEF Range
  <2>3. QED BY <1>2, <2>1, <2>2
<1>4. ASSUME NEW i \in DOMAIN a PROVE a[i] \in Range(a \o b)
  <2>1. i \in DOMAIN (a \o b) /\ (a \o b)[i] = a[i] BY <1>1, <1>2
  <2>2. QED BY <2>1 DEF Range
<1>5. ASSUME NEW i \in DOMAIN b PROVE b[i] \in Range(a \o b)
  <2> DEFINE j == i + Len(a)
  <2>1. j \in 1 .. Len(a) + Len(b) /\ j - Len(a) = i /\ ~(j <= Len(a)) BY <1>2
  <2> HIDE DEF j
  <2>2. (a \o b)[j] = b[i] BY <1>1, <2>1
  <2>3. QED BY <1>2, <2>1, <2>2 DEF Range
<1>6. QED BY <1>3, <1>4, <1>5 DEF Range

(* A request's targets are all asked.                                       *)
LEMMA AskedAll ==
    ASSUME GovernorAssumption, RequestOk
    PROVE  /\ Asked \in Seq(request.seeds) /\ Range(Asked) = request.seeds
           /\ Len(Asked) = Cardinality(request.seeds)
           /\ request.seeds \subseteq Target /\ IsFiniteSet(request.seeds)
<1> DEFINE P == request.seeds \cap Path
           S == request.seeds \cap Symbol
<1>1. request.seeds \subseteq Target /\ IsFiniteSet(request.seeds) /\ Path \cap Symbol = {}
  BY DEF GovernorAssumption, RequestOk
<1>2. P \cup S = request.seeds /\ P \cap S = {} BY <1>1 DEF Target
<1>3. IsFiniteSet(P) /\ IsFiniteSet(S) BY <1>1, FS_Subset
<1> HIDE DEF P, S
<1>4. /\ SetToSeq(P) \in Seq(P) /\ Len(SetToSeq(P)) = Cardinality(P) /\ Range(SetToSeq(P)) = P
      /\ SetToSeq(S) \in Seq(S) /\ Len(SetToSeq(S)) = Cardinality(S) /\ Range(SetToSeq(S)) = S
  BY <1>3, ListedOnce
<1>5. SetToSeq(P) \in Seq(request.seeds) /\ SetToSeq(S) \in Seq(request.seeds)
  BY <1>2, <1>4, SeqMonotonic
<1>6. Asked = SetToSeq(P) \o SetToSeq(S) BY DEF Asked, P, S
<1>7. Asked \in Seq(request.seeds) /\ Len(Asked) = Cardinality(P) + Cardinality(S)
  BY <1>4, <1>5, <1>6, ConcatProperties
<1>8. Range(Asked) = request.seeds
  <2>1. Range(SetToSeq(P) \o SetToSeq(S)) = Range(SetToSeq(P)) \cup Range(SetToSeq(S))
    BY ONLY <1>5, RangeOfBoth
  <2>2. QED BY <1>2, <1>4, <1>6, <2>1
<1>9. Cardinality(request.seeds) = Cardinality(P) + Cardinality(S)
  <2>1. Cardinality(P \cap S) = 0 BY <1>2, FS_EmptySet
  <2>2. Cardinality(P) \in Nat /\ Cardinality(S) \in Nat BY <1>3, FS_CardinalityType
  <2>3. Cardinality(P \cup S) = Cardinality(P) + Cardinality(S) - Cardinality(P \cap S)
    BY <1>3, FS_Union
  <2>4. Cardinality(P \cup S) = Cardinality(P) + Cardinality(S) BY <2>1, <2>2, <2>3
  <2>5. QED BY <1>2, <2>4
<1>10. QED BY <1>1, <1>7, <1>8, <1>9

(* The smaller of two numbers.                                              *)
LEMMA Lesser ==
    ASSUME NEW a \in Nat, NEW b \in Nat, NEW n, n = IF a < b THEN a ELSE b
    PROVE  n \in Nat /\ n <= a /\ n <= b /\ (~(n < b) => n = b) /\ (b <= a => n = b)
OBVIOUS

(* The first elements of a sequence.                                        *)
LEMMA FirstOnes ==
    ASSUME NEW S, NEW s \in Seq(S), NEW n \in Nat, n <= Len(s)
    PROVE  /\ SubSeq(s, 1, n) \in Seq(S) /\ Len(SubSeq(s, 1, n)) = n
           /\ \A i \in 1 .. n : SubSeq(s, 1, n)[i] = s[i]
<1>1. \A i \in 1 .. n : s[i] \in S BY LenProperties
<1>2. /\ SubSeq(s, 1, n) \in Seq(S)
      /\ Len(SubSeq(s, 1, n)) = IF 1 <= n THEN n - 1 + 1 ELSE 0
      /\ \A i \in 1 .. n - 1 + 1 : SubSeq(s, 1, n)[i] = s[1 + i - 1]
  BY <1>1, SubSeqProperties
<1>3. \A i \in 1 .. n : 1 + i - 1 = i /\ i \in 1 .. n - 1 + 1 OBVIOUS
<1>4. QED BY <1>2, <1>3

(* Queried are targets of the request; all of them, unless no query runs or *)
(* they are too many.                                                       *)
LEMMA QueriedOf ==
    ASSUME GovernorAssumption, RequestOk
    PROVE  /\ Queried \subseteq request.seeds
           /\ Queried # {} => QueryInvoked
           /\ QueryInvoked /\ ~ (Len(Examined) < Len(Asked)) => Queried = request.seeds
           /\ QueryInvoked /\ Cardinality(request.seeds) <= MaxQueryTargets =>
                ~ (Len(Examined) < Len(Asked))
<1> DEFINE n == IF MaxQueryTargets < Len(Asked) THEN MaxQueryTargets ELSE Len(Asked)
<1>1. /\ Asked \in Seq(request.seeds) /\ Range(Asked) = request.seeds
      /\ Len(Asked) = Cardinality(request.seeds)
  BY AskedAll
<1>2. Len(Asked) \in Nat /\ DOMAIN Asked = 1 .. Len(Asked) BY <1>1, LenProperties
<1>3. MaxQueryTargets \in Nat BY DEF GovernorAssumption
<1> HIDE DEF n
<1>4. /\ n \in Nat /\ n <= MaxQueryTargets /\ n <= Len(Asked)
      /\ ~ (n < Len(Asked)) => n = Len(Asked)
      /\ Len(Asked) <= MaxQueryTargets => n = Len(Asked)
  <2>1. n = IF MaxQueryTargets < Len(Asked) THEN MaxQueryTargets ELSE Len(Asked) BY DEF n
  <2>2. Len(Asked) \in Nat BY <1>2
  <2>3. QED BY ONLY <1>3, <2>1, <2>2, Lesser
<1>5. CASE ~ QueryInvoked
  <2>1. Examined = <<>> BY <1>5 DEF Examined
  <2>2. Queried = {} BY <2>1 DEF Queried, Range
  <2>3. QED BY <1>5, <2>2
<1>6. CASE QueryInvoked
  <2>1. Examined = SubSeq(Asked, 1, n) BY <1>6 DEF Examined, n
  <2>2. /\ SubSeq(Asked, 1, n) \in Seq(request.seeds) /\ Len(SubSeq(Asked, 1, n)) = n
        /\ \A i \in 1 .. n : SubSeq(Asked, 1, n)[i] = Asked[i]
    BY ONLY <1>1, <1>4, FirstOnes
  <2>3. /\ Examined \in Seq(request.seeds) /\ Len(Examined) = n
        /\ \A i \in 1 .. n : Examined[i] = Asked[i] /\ Asked[i] \in request.seeds
    <3>1. \A i \in 1 .. n : i \in DOMAIN Asked
      <4>1. \A a, b \in Nat : a <= b => 1 .. a \subseteq 1 .. b OBVIOUS
      <4>2. 1 .. n \subseteq 1 .. Len(Asked) BY ONLY <1>2, <1>4, <4>1
      <4>3. QED BY <1>2, <4>2
    <3>2. QED BY <1>1, <2>1, <2>2, <3>1 DEF Range
  <2>4. DOMAIN Examined = 1 .. n BY <2>3, LenProperties
  <2>5. Queried \subseteq request.seeds BY <2>3, <2>4 DEF Queried, Range
  <2>6. ASSUME n = Len(Asked) PROVE Queried = request.seeds
    BY <1>1, <1>2, <2>3, <2>4, <2>6 DEF Queried, Range
  <2>7. ~ (n < Len(Asked)) => n = Len(Asked) BY <1>4
  <2>8. Cardinality(request.seeds) <= MaxQueryTargets => n = Len(Asked)
    BY <1>1, <1>4
  <2>9. QED BY <1>2, <1>6, <2>3, <2>5, <2>6, <2>7, <2>8
<1>7. QED BY <1>5, <1>6

-----------------------------------------------------------------------------
(* LIGHT's statements, one by one.                                          *)
Query == {"identity", "owner", "relationships", "impact", "coverage", "conflicts"}

(* What is due, and by which statement a column is told.                    *)
LEMMA DueIs ==
    /\ Statements \subseteq Query /\ "identity" \in Statements /\ "owner" \in Statements
    /\ \A c \in {"relationships", "impact", "coverage"} :
         Needs(c) => c \in Statements /\ "conflicts" \in Statements
    /\ \A t, s :
        <<t, s>> \in Due <=>
            (t \in Queried /\ s \in Statements) \/ (t \in SourcePaths /\ s = "source")
    /\ \A x \in Due : x = <<x[1], x[2]>> /\ x[2] \in Query \cup {"source"}
<1>1. /\ Statements \subseteq Query /\ "identity" \in Statements /\ "owner" \in Statements
      /\ \A c \in {"relationships", "impact", "coverage"} :
           Needs(c) => c \in Statements /\ "conflicts" \in Statements
  BY DEF Statements, Query
<1>2. \A t, s :
        <<t, s>> \in Due <=>
            (t \in Queried /\ s \in Statements) \/ (t \in SourcePaths /\ s = "source")
  BY DEF Due
<1>3. \A x \in Due : x = <<x[1], x[2]>> /\ x[2] \in Statements \cup {"source"}
  BY DEF Due
<1>4. QED BY <1>1, <1>2, <1>3

(* No two statements tell one column.                                       *)
LEMMA ColumnsApart ==
    ASSUME NEW s \in Query \cup {"source"}, NEW u \in Query \cup {"source"}, s # u
    PROVE  \A c \in Answers(s) : c \notin Answers(u)
BY DEF Query, Answers

(* What is learnt is added to what was known.                               *)
LEMMA Learning ==
    ASSUME NEW t, NEW answers, Learn(t, answers)
    PROVE  /\ \A u, c : <<u, c>> \in DOMAIN found' <=>
                 <<u, c>> \in DOMAIN found \/ (u = t /\ c \in DOMAIN answers)
           /\ \A c \in DOMAIN answers : <<t, c>> \notin DOMAIN found => Told(t, c)' = answers[c]
           /\ \A u, c : u # t \/ c \notin DOMAIN answers => Told(u, c)' = Told(u, c)
<1>1. DOMAIN found' = DOMAIN found \cup ({t} \X DOMAIN answers) BY DEF Learn
<1>2. \A u, c : <<u, c>> \in {t} \X DOMAIN answers <=> u = t /\ c \in DOMAIN answers OBVIOUS
<1>3. \A k \in DOMAIN found' :
        found'[k] = IF k \in DOMAIN found THEN found[k] ELSE answers[k[2]]
  BY DEF Learn
<1>4. \A u, c : <<u, c>>[2] = c OBVIOUS
<1>5. \A c \in DOMAIN answers : <<t, c>> \notin DOMAIN found => Told(t, c)' = answers[c]
  BY <1>1, <1>2, <1>3, <1>4 DEF Told
<1>6. \A u, c : u # t \/ c \notin DOMAIN answers => Told(u, c)' = Told(u, c)
  BY <1>1, <1>2, <1>3 DEF Told
<1>7. QED BY <1>1, <1>2, <1>5, <1>6

(* An answer stays what it is while its columns do: a later activation asks *)
(* less of it, and a file keeps the texts it had.                           *)
LEMMA AnsweredStays ==
    ASSUME NEW t, NEW s \in Query \cup {"source"}, Answered(t, s),
           UNCHANGED <<request, start>>, active' = start => active = start,
           t \in Path => held[t] \subseteq held'[t],
           s = "source" => t \in Path,
           \A c \in Answers(s) : Told(t, c)' = Told(t, c)
    PROVE  Answered(t, s)'
<1>1. \A c : RowsOf(t, c)' = RowsOf(t, c) BY DEF RowsOf
<1>2. \A c : Needs(c)' <=> Needs(c) BY DEF Needs, Requested, CallerSatisfied
<1>3. CASE s = "identity" BY <1>1, <1>3 DEF Answered, Answers
<1>4. CASE s = "owner" BY <1>1, <1>4 DEF Answered, Answers
<1>5. CASE s = "relationships" BY <1>1, <1>5 DEF Answered, Answers
<1>6. CASE s = "impact" BY <1>1, <1>6 DEF Answered, Answers
<1>7. CASE s = "coverage" BY <1>1, <1>7 DEF Answered, Answers
<1>8. CASE s = "conflicts" BY <1>1, <1>2, <1>8 DEF Answered, Answers
<1>9. CASE s = "source" BY <1>1, <1>9 DEF Answered, Answers
<1>10. QED BY <1>3, <1>4, <1>5, <1>6, <1>7, <1>8, <1>9 DEF Query

(* What is due depends on the request.                                      *)
LEMMA DueStays ==
    ASSUME UNCHANGED request
    PROVE  /\ Due' = Due /\ Queried' = Queried /\ Statements' = Statements
           /\ SourcePaths' = SourcePaths
BY DEF Due, Queried, Statements, SourcePaths, Examined, QueryInvoked, Asked, Sufficient,
       CallerSatisfied, Requested, Needs

(* The statement that runs is due and has told nothing yet; what it rests   *)
(* on has answered.                                                         *)
LEMMA StatementRuns ==
    ASSUME GovernorAssumption, RequestOk, ReadsOk, NEW t, NEW s, Statement(t, s)
    PROVE  /\ <<t, s>> \in Due /\ s \in Query \cup {"source"}
           /\ s = "source" => t \in Path
           /\ t \in Target
           /\ \A c \in Answers(s) : <<t, c>> \notin DOMAIN found
           /\ s = "owner" => Answered(t, "identity")
           /\ s = "coverage" => Answered(t, "owner")
           /\ script' = script \ {<<t, s>>} /\ UNCHANGED <<worldVars, runVars, pc, route, result>>
<1>1. /\ <<t, s>> \in script /\ \A x \in script : ~Precedes(x, <<t, s>>)
      /\ script' = script \ {<<t, s>>} /\ UNCHANGED <<worldVars, runVars, pc, route, result>>
  BY DEF Statement
<1>2. /\ <<t, s>> \in Due /\ <<t, s>>[1] = t /\ <<t, s>>[2] = s
      /\ \A c \in Answers(s) : <<t, c>> \notin DOMAIN found
  BY <1>1 DEF ReadsOk
<1>3. s \in Query \cup {"source"} /\ (s = "source" => t \in SourcePaths)
  BY <1>2, DueIs DEF Query
<1>4. SourcePaths \subseteq request.seeds \cap Path /\ Queried \subseteq request.seeds
      /\ request.seeds \subseteq Target
  BY AskedAll, QueriedOf DEF SourcePaths
<1>5. t \in Target BY <1>2, <1>4, DueIs
<1>6. ASSUME NEW u, u \in Statements, s # "source", u # "source", Turn[u] < Turn[s]
      PROVE  <<t, u>> \in Due \ script
  <2>1. <<t, u>> \in Due BY <1>2, <1>6, DueIs
  <2>2. Precedes(<<t, u>>, <<t, s>>) BY <1>6 DEF Precedes
  <2>3. QED BY <1>1, <2>1, <2>2
<1>7. \A u : <<t, u>>[1] = t /\ <<t, u>>[2] = u OBVIOUS
<1>8. s = "owner" => Answered(t, "identity")
  <2>1. ASSUME s = "owner" PROVE Answered(t, "identity")
    <3>1. Turn["identity"] < Turn["owner"] BY DEF Turn
    <3>2. <<t, "identity">> \in Due \ script BY <1>6, <2>1, <3>1, DueIs
    <3>3. QED BY <1>7, <3>2 DEF ReadsOk
  <2>2. QED BY <2>1
<1>9. s = "coverage" => Answered(t, "owner")
  <2>1. ASSUME s = "coverage" PROVE Answered(t, "owner")
    <3>1. Turn["owner"] < Turn["coverage"] BY DEF Turn
    <3>2. <<t, "owner">> \in Due \ script BY <1>6, <2>1, <3>1, DueIs
    <3>3. QED BY <1>7, <3>2 DEF ReadsOk
  <2>2. QED BY <2>1
<1>10. QED BY <1>1, <1>2, <1>3, <1>4, <1>5, <1>8, <1>9

(* A statement that answers leaves the other answers as they are.           *)
LEMMA StatementKeeps ==
    ASSUME GovernorAssumption, RequestOk, ReadsOk, NEW t, NEW s, Statement(t, s),
           NEW answers, Learn(t, answers), DOMAIN answers = Answers(s), Answered(t, s)'
    PROVE  ReadsOk'
<1>1. /\ <<t, s>> \in Due /\ s \in Query \cup {"source"}
      /\ script' = script \ {<<t, s>>} /\ UNCHANGED <<worldVars, runVars, pc, route, result>>
  BY StatementRuns
<1>2. UNCHANGED <<active, held, request, start>> BY <1>1 DEF worldVars, runVars
<1>3. Due' = Due BY <1>2, DueStays
<1>4. /\ \A u, c : <<u, c>> \in DOMAIN found' <=>
           <<u, c>> \in DOMAIN found \/ (u = t /\ c \in Answers(s))
      /\ \A u, c : u # t \/ c \notin Answers(s) => Told(u, c)' = Told(u, c)
  BY Learning
<1>5. ASSUME NEW x \in Due, x # <<t, s>>, NEW c \in Answers(x[2])
      PROVE  x[1] # t \/ c \notin Answers(s)
  <2>1. x = <<x[1], x[2]>> /\ x[2] \in Query \cup {"source"} BY DueIs
  <2>2. x[1] # t \/ x[2] # s BY <1>5, <2>1
  <2>3. QED BY <1>1, <1>5, <2>1, <2>2, ColumnsApart
<1>6. \A x \in script' : \A c \in Answers(x[2]) : <<x[1], c>> \notin DOMAIN found'
  <2>1. TAKE x \in script'
  <2>2. x \in Due /\ x # <<t, s>> /\ x \in script BY <1>1 DEF ReadsOk
  <2>3. TAKE c \in Answers(x[2])
  <2>4. <<x[1], c>> \notin DOMAIN found BY <2>2 DEF ReadsOk
  <2>5. QED BY <1>4, <1>5, <2>2, <2>4
<1>7. ASSUME NEW x \in Due \ script' PROVE Answered(x[1], x[2])'
  <2>1. CASE x = <<t, s>>
    <3>1. x[1] = t /\ x[2] = s BY <2>1
    <3>2. QED BY <3>1
  <2>2. CASE x # <<t, s>>
    <3>1. x \in Due \ script BY <1>1, <1>7, <2>2
    <3>2. PICK u, r : u = x[1] /\ r = x[2] OBVIOUS
    <3>3. Answered(u, r) BY <3>1, <3>2 DEF ReadsOk
    <3>4. x = <<u, r>> /\ r \in Query \cup {"source"} /\ (r = "source" => u \in Path)
      <4>1. x = <<u, r>> /\ r \in Query \cup {"source"} BY <3>1, <3>2, DueIs
      <4>2. r = "source" => u \in SourcePaths BY <3>1, <4>1, DueIs DEF Query
      <4>3. QED BY <4>1, <4>2 DEF SourcePaths
    <3>5. \A c \in Answers(r) : Told(u, c)' = Told(u, c) BY <1>4, <1>5, <2>2, <3>1, <3>2
    <3>6. Answered(u, r)' BY <1>2, <3>3, <3>4, <3>5, AnsweredStays
    <3>7. QED BY <3>2, <3>6
  <2>3. QED BY <2>1, <2>2
<1>8. script' \subseteq Due' BY <1>1, <1>3 DEF ReadsOk
<1>9. QED BY <1>3, <1>6, <1>7, <1>8 DEF ReadsOk

(* What a generation says of a target.                                      *)
LEMMA RowsAre ==
    ASSUME GovernorAssumption, WorldOk, start # 0, NEW t \in Target
    PROVE  /\ \A c \in {"matches", "rels", "ok", "bad", "full", "part", "semantic", "covering"} :
                RowsOf(t, c) \in Nat
           /\ RowsOf(t, "text") \in Text
           /\ t \in Path => RowsOf(t, "matches") <= 1
<1>1. IndexRows \in Seq([Target -> TargetRow]) /\ start \in DOMAIN IndexRows
  <2>1. IndexRows \in Seq([Target -> TargetRow]) BY DEF GovernorAssumption
  <2>2. Len(IndexRows) \in Nat /\ DOMAIN IndexRows = 1 .. Len(IndexRows) BY <2>1, LenProperties
  <2>3. QED BY <2>1, <2>2 DEF WorldOk
<1>2. IndexRows[start] \in [Target -> TargetRow] BY <1>1
<1>3. IndexRows[start][t] \in TargetRow BY <1>2
<1>4. QED BY <1>1, <1>3 DEF RowsOf, TargetRow, GovernorAssumption

(* Every statement of LIGHT tells what the decision's generation says.      *)
LEMMA ReadAnswers ==
    ASSUME GovernorAssumption, RequestOk, WorldOk, start # 0, ReadsOk,
           NEW t \in Target, ReadTarget(t)
    PROVE  ReadsOk'
<1> DEFINE Ran(s, answers) == Statement(t, s) /\ Learn(t, answers)
<1>1. \A c \in {"matches", "rels", "ok", "bad", "full", "part", "semantic", "covering"} :
        RowsOf(t, c) \in Nat
  BY RowsAre
<1>2. ASSUME NEW s, NEW answers, Ran(s, answers)
      PROVE  /\ UNCHANGED <<active, disk, held, request, start>>
             /\ \A c : RowsOf(t, c)' = RowsOf(t, c)
             /\ \A c : Needs(c)' <=> Needs(c)
             /\ s = "source" => t \in Path
             /\ s = "owner" => Answered(t, "identity")
             /\ s = "coverage" => Answered(t, "owner")
             /\ DOMAIN answers = Answers(s) => \A c \in Answers(s) : Told(t, c)' = answers[c]
             /\ DOMAIN answers = Answers(s) /\ Answered(t, s)' => ReadsOk'
  <2>1. UNCHANGED <<active, disk, held, request, start>>
    BY <1>2 DEF Statement, worldVars, runVars
  <2>2. \A c : (RowsOf(t, c)' = RowsOf(t, c)) /\ (Needs(c)' <=> Needs(c))
    BY <2>1 DEF RowsOf, Needs, Requested, CallerSatisfied
  <2>3. /\ s = "source" => t \in Path
        /\ s = "owner" => Answered(t, "identity")
        /\ s = "coverage" => Answered(t, "owner")
        /\ \A c \in Answers(s) : <<t, c>> \notin DOMAIN found
    BY <1>2, StatementRuns
  <2>4. DOMAIN answers = Answers(s) => \A c \in Answers(s) : Told(t, c)' = answers[c]
    BY <1>2, <2>3, Learning
  <2>5. DOMAIN answers = Answers(s) /\ Answered(t, s)' => ReadsOk' BY <1>2, StatementKeeps
  <2>6. QED BY <2>1, <2>2, <2>3, <2>4, <2>5
<1>3. CASE ReadIdentity(t)
  <2>1. PICK a : a = [matches |-> Indexed(t, "matches")] OBVIOUS
  <2>2. Ran("identity", a) BY <1>3, <2>1 DEF ReadIdentity
  <2>3. DOMAIN a = Answers("identity") /\ a["matches"] = Indexed(t, "matches")
    BY <2>1 DEF Answers
  <2>4. Told(t, "matches")' = Indexed(t, "matches") BY <1>2, <2>2, <2>3 DEF Answers
  <2>5. Answered(t, "identity")' BY <1>2, <2>2, <2>4 DEF Answered, Indexed
  <2>6. QED BY <1>2, <2>2, <2>3, <2>5
<1>4. CASE ReadOwner(t)
  <2>1. PICK a : a = [owner |-> IF Told(t, "matches") = 1 THEN Indexed(t, "matches") ELSE 0]
    OBVIOUS
  <2>2. Ran("owner", a) BY <1>4, <2>1 DEF ReadOwner
  <2>3. /\ DOMAIN a = Answers("owner")
        /\ a["owner"] = IF Told(t, "matches") = 1 THEN Indexed(t, "matches") ELSE 0
    BY <2>1 DEF Answers
  <2>4. Told(t, "owner")' = IF Told(t, "matches") = 1 THEN Indexed(t, "matches") ELSE 0
    BY <1>2, <2>2, <2>3 DEF Answers
  <2>5. \/ Told(t, "matches") = RowsOf(t, "matches")
        \/ active # start /\ Told(t, "matches") = 0
    BY <1>2, <2>2 DEF Answered
  <2>6. Answered(t, "owner")'
    <3>1. UNCHANGED <<active, start>> /\ RowsOf(t, "matches")' = RowsOf(t, "matches")
      BY <1>2, <2>2
    <3>2. /\ Told(t, "owner")' \in {0, 1}
          /\ Told(t, "owner")' = 1 => RowsOf(t, "matches") = 1
          /\ active = start /\ RowsOf(t, "matches") = 1 => Told(t, "owner")' = 1
      BY <2>4, <2>5 DEF Indexed
    <3>3. QED BY <3>1, <3>2 DEF Answered
  <2>7. QED BY <1>2, <2>2, <2>3, <2>6
<1>5. CASE ReadRelationships(t)
  <2>1. PICK a : a = [rels |-> Indexed(t, "rels")] OBVIOUS
  <2>2. Ran("relationships", a) BY <1>5, <2>1 DEF ReadRelationships
  <2>3. DOMAIN a = Answers("relationships") /\ a["rels"] = Indexed(t, "rels")
    BY <2>1 DEF Answers
  <2>4. Told(t, "rels")' = Indexed(t, "rels") BY <1>2, <2>2, <2>3 DEF Answers
  <2>5. Answered(t, "relationships")' BY <1>2, <2>2, <2>4 DEF Answered, Indexed
  <2>6. QED BY <1>2, <2>2, <2>3, <2>5
<1>6. CASE ReadImpact(t)
  <2>1. PICK a : a = [ok |-> Indexed(t, "ok"), bad |-> Indexed(t, "bad")] OBVIOUS
  <2>2. Ran("impact", a) BY <1>6, <2>1 DEF ReadImpact
  <2>3. /\ DOMAIN a = Answers("impact")
        /\ a["ok"] = Indexed(t, "ok") /\ a["bad"] = Indexed(t, "bad")
    BY <2>1 DEF Answers
  <2>4. Told(t, "ok")' = Indexed(t, "ok") /\ Told(t, "bad")' = Indexed(t, "bad")
    BY <1>2, <2>2, <2>3 DEF Answers
  <2>5. Answered(t, "impact")' BY <1>2, <2>2, <2>4 DEF Answered, Indexed
  <2>6. QED BY <1>2, <2>2, <2>3, <2>5
<1>7. CASE ReadCoverage(t)
  <2>1. PICK a : a = [full |-> Told(t, "owner") * RowsOf(t, "full"),
                      part |-> Told(t, "owner") * RowsOf(t, "part")]
    OBVIOUS
  <2>2. Ran("coverage", a) BY <1>7, <2>1 DEF ReadCoverage
  <2>3. /\ DOMAIN a = Answers("coverage")
        /\ a["full"] = Told(t, "owner") * RowsOf(t, "full")
        /\ a["part"] = Told(t, "owner") * RowsOf(t, "part")
    BY <2>1 DEF Answers
  <2>4. /\ Told(t, "full")' = Told(t, "owner") * RowsOf(t, "full")
        /\ Told(t, "part")' = Told(t, "owner") * RowsOf(t, "part")
    BY <1>2, <2>2, <2>3 DEF Answers
  <2>5. /\ Told(t, "owner") \in {0, 1}
        /\ Told(t, "owner") = 1 => RowsOf(t, "matches") = 1
        /\ active = start /\ RowsOf(t, "matches") = 1 => Told(t, "owner") = 1
    BY <1>2, <2>2 DEF Answered
  <2>6. \A n \in Nat : 1 * n = n /\ 0 * n = 0 OBVIOUS
  <2>7. Answered(t, "coverage")'
    <3>0. UNCHANGED <<active, start>> /\ \A c : RowsOf(t, c)' = RowsOf(t, c) BY <1>2, <2>2
    <3>1. CASE Told(t, "owner") = 1
      <4>1. Told(t, "full")' = RowsOf(t, "full") /\ Told(t, "part")' = RowsOf(t, "part")
        BY <1>1, <2>4, <2>6, <3>1
      <4>2. QED BY <2>5, <3>0, <3>1, <4>1 DEF Answered
    <3>2. CASE Told(t, "owner") = 0
      <4>1. Told(t, "full")' = 0 /\ Told(t, "part")' = 0 BY <1>1, <2>4, <2>6, <3>2
      <4>2. active = start => RowsOf(t, "matches") # 1 BY <2>5, <3>2
      <4>3. QED BY <3>0, <4>1, <4>2 DEF Answered
    <3>3. QED BY <2>5, <3>1, <3>2
  <2>8. QED BY <1>2, <2>2, <2>3, <2>7
<1>8. CASE ReadConflicts(t)
  <2>1. PICK a : a = [semantic |-> IF Needs("relationships") \/ Needs("impact")
                                   THEN RowsOf(t, "semantic") ELSE 0,
                      covering |-> IF Needs("coverage") THEN RowsOf(t, "covering") ELSE 0]
    OBVIOUS
  <2>2. Ran("conflicts", a) BY <1>8, <2>1 DEF ReadConflicts
  <2>3. /\ DOMAIN a = Answers("conflicts")
        /\ a["semantic"] = IF Needs("relationships") \/ Needs("impact")
                           THEN RowsOf(t, "semantic") ELSE 0
        /\ a["covering"] = IF Needs("coverage") THEN RowsOf(t, "covering") ELSE 0
    BY <2>1 DEF Answers
  <2>4. Told(t, "semantic")' = a["semantic"] /\ Told(t, "covering")' = a["covering"]
    BY <1>2, <2>2, <2>3 DEF Answers
  <2>5. Answered(t, "conflicts")' BY <1>2, <2>2, <2>3, <2>4 DEF Answered
  <2>6. QED BY <1>2, <2>2, <2>3, <2>5
<1>9. CASE VerifySource(t)
  <2>1. Statement(t, "source") BY <1>9 DEF VerifySource
  <2>2. PICK r : /\ Learn(t, [source |-> r])
                 /\ r \in {"not_found", "read_failed", "verified", "hash_mismatch"}
                 /\ r = "verified" => Indexed(t, "matches") # 0 /\ disk[t] = RowsOf(t, "text")
    BY <1>9 DEF VerifySource
  <2>3. PICK a : a = [source |-> r] OBVIOUS
  <2>4. Ran("source", a) BY <2>1, <2>2, <2>3
  <2>5. DOMAIN a = Answers("source") /\ a["source"] = r BY <2>3 DEF Answers
  <2>6. Told(t, "source")' = r BY <1>2, <2>4, <2>5 DEF Answers
  <2>7. t \in Path /\ disk[t] \in held[t] BY <1>2, <2>4 DEF WorldOk
  <2>8. Answered(t, "source")' BY <1>2, <2>2, <2>4, <2>6, <2>7 DEF Answered, Indexed
  <2>9. QED BY <1>2, <2>4, <2>5, <2>8
<1>10. QED BY <1>3, <1>4, <1>5, <1>6, <1>7, <1>8, <1>9 DEF ReadTarget

-----------------------------------------------------------------------------
(* What LIGHT makes of its answers.                                         *)
LEMMA OutcomeOk ==
    ASSUME NEW omitted, NEW conflicting, NEW evident
    PROVE  QueryOutcome(omitted, conflicting, evident) = "ok" <=>
             /\ ~ (QueryInvoked /\ Len(Examined) < Len(Asked))
             /\ omitted = {} /\ IdentityDeficit = "ok"
             /\ conflicting = {} /\ evident = Queried
BY DEF QueryOutcome

(* When all statements ran, every one due has answered.                     *)
LEMMA AllAnswered ==
    ASSUME ReadsOk, script = {}
    PROVE  /\ \A t \in Queried, s \in Statements : Answered(t, s)
           /\ \A t \in SourcePaths : Answered(t, "source")
<1>1. ASSUME NEW t, NEW s, <<t, s>> \in Due PROVE Answered(t, s)
  <2>1. <<t, s>>[1] = t /\ <<t, s>>[2] = s OBVIOUS
  <2>2. QED BY <1>1, <2>1 DEF ReadsOk
<1>2. QED BY <1>1, DueIs

(* Rows that were told in full are numbers, whatever they are.              *)
LEMMA QueriesTold ==
    ASSUME GovernorAssumption, RequestOk, WorldOk, start # 0, ReadsOk, script = {},
           NEW t \in Queried
    PROVE  /\ t \in Target
           /\ \A c \in {"matches", "rels", "ok", "bad", "full", "part", "semantic", "covering"} :
                RowsOf(t, c) \in Nat
           /\ Answered(t, "identity") /\ Answered(t, "owner")
           /\ \A c \in {"relationships", "impact", "coverage"} :
                Needs(c) => Answered(t, c) /\ Answered(t, "conflicts")
<1>1. t \in Target BY AskedAll, QueriedOf
<1>2. QED BY <1>1, RowsAre, AllAnswered, DueIs

(* Every target was found, and found once.                                  *)
LEMMA IdentityOk ==
    ASSUME GovernorAssumption, RequestOk, WorldOk, start # 0, ReadsOk, script = {},
           IdentityDeficit = "ok"
    PROVE  /\ Queried # {}
           /\ \A t \in Queried : Told(t, "matches") = 1 /\ RowsOf(t, "matches") = 1
<1>1. /\ Queried # {}
      /\ \A t \in Queried : Told(t, "matches") # 0 /\ ~ (Told(t, "matches") > 1)
  BY DEF IdentityDeficit
<1>2. ASSUME NEW t \in Queried PROVE Told(t, "matches") = 1 /\ RowsOf(t, "matches") = 1
  <2>1. RowsOf(t, "matches") \in Nat /\ Answered(t, "identity") BY QueriesTold
  <2>2. Told(t, "matches") = RowsOf(t, "matches") BY <1>1, <2>1 DEF Answered
  <2>3. QED BY <1>1, <2>1, <2>2
<1>3. QED BY <1>1, <1>2

(* What LIGHT reports satisfied is witnessed for every target.              *)
LEMMA OutcomeIsTrue ==
    ASSUME GovernorAssumption, RequestOk, WorldOk, start # 0, ReadsOk, script = {},
           NEW c \in LightCapability, Needs(c), LightOutcome(c) = "ok"
    PROVE  \A t \in request.seeds : Witnessed(c, t)
<1>1. CASE c = "source"
  <2>1. TAKE t \in request.seeds
  <2>2. CASE t \in Symbol BY <1>1, <2>2 DEF Witnessed
  <2>3. CASE t \notin Symbol
    <3>1. t \in Path /\ t \in Target /\ t \in SourcePaths
      BY <1>1, <2>3, AskedAll DEF Target, SourcePaths
    <3>2. SourceOutcome = "ok" BY <1>1 DEF LightOutcome
    <3>3. Told(t, "source") \notin {"not_found", "hash_mismatch", "read_failed"}
      BY <3>1, <3>2 DEF SourceOutcome
    <3>4. Answered(t, "source") BY <3>1, AllAnswered
    <3>5. Told(t, "source") = "verified" BY <3>3, <3>4 DEF Answered
    <3>6. RowsOf(t, "matches") # 0 /\ RowsOf(t, "text") \in held[t] BY <3>4, <3>5 DEF Answered
    <3>7. RowsOf(t, "matches") \in Nat /\ RowsOf(t, "matches") <= 1 BY <3>1, RowsAre
    <3>8. RowsOf(t, "matches") = 1 BY <3>6, <3>7
    <3>9. QED BY <1>1, <3>6, <3>8 DEF Witnessed, RowsOf
  <2>4. QED BY <2>2, <2>3
<1>2. CASE c # "source"
  <2>1. PICK omitted, conflicting, evident :
          /\ QueryOutcome(omitted, conflicting, evident) = "ok"
          /\ c = "relationships" =>
               /\ conflicting = {t \in Queried : Told(t, "semantic") > 0}
               /\ evident = {t \in Queried : Told(t, "rels") > 0}
          /\ c = "impact" =>
               /\ conflicting = {t \in Queried : Told(t, "semantic") > 0 \/ Told(t, "bad") > 0}
               /\ evident = {t \in Queried : Told(t, "ok") > 0}
          /\ c = "coverage" =>
               /\ conflicting = {t \in Queried : Told(t, "covering") > 0}
               /\ evident = {t \in Queried : CoverageComplete(t)}
    BY <1>2 DEF LightOutcome, LightCapability
  <2>2. /\ ~ (QueryInvoked /\ Len(Examined) < Len(Asked))
        /\ IdentityDeficit = "ok" /\ conflicting = {} /\ evident = Queried
    BY <2>1, OutcomeOk
  <2>3. Queried = request.seeds BY <2>2, IdentityOk, QueriedOf
  <2>4. TAKE t \in request.seeds
  <2>5. /\ t \in Queried /\ Told(t, "matches") = 1 /\ RowsOf(t, "matches") = 1
        /\ \A k \in {"matches", "rels", "ok", "bad", "full", "part", "semantic", "covering"} :
             RowsOf(t, k) \in Nat
        /\ \A k \in {"relationships", "impact", "coverage"} :
             Needs(k) => Answered(t, k) /\ Answered(t, "conflicts")
    BY <2>2, <2>3, IdentityOk, QueriesTold
  <2>6. CASE c = "identity" BY <2>5, <2>6 DEF Witnessed, RowsOf
  <2>7. CASE c = "relationships"
    <3>1. ~ (Told(t, "semantic") > 0) /\ Told(t, "rels") > 0
      BY <2>1, <2>2, <2>5, <2>7
    <3>2. Answered(t, "relationships") /\ Answered(t, "conflicts") BY <2>5, <2>7
    <3>3. Told(t, "rels") = RowsOf(t, "rels") BY <3>1, <3>2 DEF Answered
    <3>4. Told(t, "semantic") = RowsOf(t, "semantic") BY <2>7, <3>2 DEF Answered
    <3>5. RowsOf(t, "rels") > 0 /\ RowsOf(t, "semantic") = 0 BY <2>5, <3>1, <3>3, <3>4
    <3>6. QED BY <2>5, <2>7, <3>5 DEF Witnessed, RowsOf
  <2>8. CASE c = "impact"
    <3>1. ~ (Told(t, "semantic") > 0) /\ ~ (Told(t, "bad") > 0) /\ Told(t, "ok") > 0
      BY <2>1, <2>2, <2>5, <2>8
    <3>2. Answered(t, "impact") /\ Answered(t, "conflicts") BY <2>5, <2>8
    <3>3. Told(t, "ok") = RowsOf(t, "ok") /\ Told(t, "bad") = RowsOf(t, "bad")
      BY <3>1, <3>2 DEF Answered
    <3>4. Told(t, "semantic") = RowsOf(t, "semantic") BY <2>8, <3>2 DEF Answered
    <3>5. RowsOf(t, "ok") > 0 /\ RowsOf(t, "bad") = 0 /\ RowsOf(t, "semantic") = 0
      BY <2>5, <3>1, <3>3, <3>4
    <3>6. QED BY <2>5, <2>8, <3>5 DEF Witnessed, RowsOf
  <2>9. CASE c = "coverage"
    <3>1. ~ (Told(t, "covering") > 0) /\ Told(t, "full") > 0 /\ Told(t, "part") = 0
      BY <2>1, <2>2, <2>5, <2>9 DEF CoverageComplete
    <3>2. Answered(t, "coverage") /\ Answered(t, "conflicts") BY <2>5, <2>9
    <3>3. Told(t, "full") = RowsOf(t, "full") /\ Told(t, "part") = RowsOf(t, "part")
      BY <3>1, <3>2 DEF Answered
    <3>4. Told(t, "covering") = RowsOf(t, "covering") BY <2>9, <3>2 DEF Answered
    <3>5. RowsOf(t, "full") > 0 /\ RowsOf(t, "part") = 0 /\ RowsOf(t, "covering") = 0
      BY <2>5, <3>1, <3>3, <3>4
    <3>6. QED BY <2>5, <2>9, <3>5 DEF Witnessed, RowsOf
  <2>10. QED BY <1>2, <2>6, <2>7, <2>8, <2>9 DEF LightCapability
<1>3. QED BY <1>1, <1>2

(* While the decision's generation is active, LIGHT misses nothing that is  *)
(* witnessed for targets it may take and rows it may keep.                  *)
LEMMA OutcomeIsDeserved ==
    ASSUME GovernorAssumption, RequestOk, WorldOk, start # 0, ReadsOk, script = {},
           active = start, NEW c \in LightCapability \ {"source"}, Needs(c),
           request.seeds # {}, Cardinality(request.seeds) <= MaxQueryTargets,
           \A t \in request.seeds : Witnessed(c, t) /\ ~Overflows(t)
    PROVE  LightOutcome(c) = "ok"
<1>1. c \in {"identity", "relationships", "impact", "coverage"} BY DEF LightCapability
<1>2. QueryInvoked BY <1>1 DEF QueryInvoked
<1>3. ~ (Len(Examined) < Len(Asked)) /\ Queried = request.seeds BY <1>2, QueriedOf
<1>4. ASSUME NEW t \in Queried
      PROVE  /\ \A k \in {"matches", "rels", "ok", "bad", "full", "part", "semantic", "covering"} :
                  RowsOf(t, k) \in Nat
             /\ Told(t, "matches") = 1 /\ RowsOf(t, "matches") = 1 /\ Told(t, "owner") = 1
             /\ \A k \in {"relationships", "impact", "coverage"} :
                  Needs(k) => Answered(t, k) /\ Answered(t, "conflicts")
             /\ RowsOf(t, "rels") <= 2 /\ RowsOf(t, "ok") + RowsOf(t, "bad") <= 2
             /\ RowsOf(t, "full") + RowsOf(t, "part") <= 2
             /\ RowsOf(t, "semantic") + RowsOf(t, "covering") <= 2
  <2>1. /\ \A k \in {"matches", "rels", "ok", "bad", "full", "part", "semantic", "covering"} :
             RowsOf(t, k) \in Nat
        /\ Answered(t, "identity") /\ Answered(t, "owner")
        /\ \A k \in {"relationships", "impact", "coverage"} :
             Needs(k) => Answered(t, k) /\ Answered(t, "conflicts")
    BY QueriesTold
  <2>2. Witnessed(c, t) /\ ~Overflows(t) BY <1>3
  <2>3. RowsOf(t, "matches") = 1 BY <1>1, <2>2 DEF Witnessed, RowsOf
  <2>4. Told(t, "matches") = 1 /\ Told(t, "owner") = 1 BY <2>1, <2>3 DEF Answered
  <2>5. /\ ~ (RowsOf(t, "rels") > 2) /\ ~ (RowsOf(t, "ok") + RowsOf(t, "bad") > 2)
        /\ ~ (RowsOf(t, "full") + RowsOf(t, "part") > 2)
        /\ ~ (RowsOf(t, "semantic") + RowsOf(t, "covering") > 2)
    BY <2>2 DEF Overflows, RowsOf
  <2>6. QED BY <2>1, <2>3, <2>4, <2>5
<1>5. IdentityDeficit = "ok"
  <2>1. \A t \in Queried : ~ (Told(t, "matches") = 0) /\ ~ (Told(t, "matches") > 1)
    BY <1>4
  <2>2. QED BY <1>3, <2>1 DEF IdentityDeficit
<1>6. CASE c = "identity"
  <2>1. QueryOutcome({}, {}, Queried) = "ok" BY <1>3, <1>5, OutcomeOk
  <2>2. QED BY <1>6, <2>1 DEF LightOutcome
<1>7. ASSUME NEW t \in Queried, \E k \in {"relationships", "impact", "coverage"} : Needs(k)
      PROVE  ~ ConflictsTruncated(t)
  <2>1. Answered(t, "conflicts") BY <1>4, <1>7
  <2>2. /\ Told(t, "semantic") \in {0, RowsOf(t, "semantic")}
        /\ Told(t, "covering") \in {0, RowsOf(t, "covering")}
    BY <2>1 DEF Answered
  <2>3. \A a, b \in Nat : \A x \in {0, a}, y \in {0, b} : a + b <= 2 => ~ (x + y > 2) OBVIOUS
  <2>4. /\ RowsOf(t, "semantic") \in Nat /\ RowsOf(t, "covering") \in Nat
        /\ RowsOf(t, "semantic") + RowsOf(t, "covering") <= 2
    BY <1>4
  <2>5. ~ (Told(t, "semantic") + Told(t, "covering") > 2) BY ONLY <2>2, <2>3, <2>4
  <2>6. QED BY <2>5 DEF ConflictsTruncated, Truncated
<1>8. CASE c = "relationships"
  <2>1. ASSUME NEW t \in Queried
        PROVE  ~RelationshipOmitted(t) /\ ~ (Told(t, "semantic") > 0) /\ Told(t, "rels") > 0
    <3>1. Answered(t, "relationships") /\ Answered(t, "conflicts") BY <1>4, <1>8
    <3>2. Told(t, "rels") = RowsOf(t, "rels") BY <3>1 DEF Answered
    <3>3. Told(t, "semantic") = RowsOf(t, "semantic") BY <1>8, <3>1 DEF Answered
    <3>4. RowsOf(t, "rels") > 0 /\ RowsOf(t, "semantic") = 0
      BY <1>3, <1>8 DEF Witnessed, RowsOf
    <3>5. ~ (Told(t, "rels") > 2) BY <1>4, <3>2
    <3>6. QED BY <1>7, <1>8, <3>2, <3>3, <3>4, <3>5 DEF RelationshipOmitted, Truncated
  <2>2. /\ {t \in Queried : RelationshipOmitted(t)} = {}
        /\ {t \in Queried : Told(t, "semantic") > 0} = {}
        /\ {t \in Queried : Told(t, "rels") > 0} = Queried
    BY <2>1
  <2>3. QueryOutcome({t \in Queried : RelationshipOmitted(t)},
                     {t \in Queried : Told(t, "semantic") > 0},
                     {t \in Queried : Told(t, "rels") > 0}) = "ok"
    BY <1>3, <1>5, <2>2, OutcomeOk
  <2>4. QED BY <1>8, <2>3 DEF LightOutcome
<1>9. CASE c = "impact"
  <2>1. ASSUME NEW t \in Queried
        PROVE  /\ ~ImpactOmitted(t) /\ ~ (Told(t, "semantic") > 0) /\ ~ (Told(t, "bad") > 0)
               /\ Told(t, "ok") > 0
    <3>1. Answered(t, "impact") /\ Answered(t, "conflicts") BY <1>4, <1>9
    <3>2. Told(t, "ok") = RowsOf(t, "ok") /\ Told(t, "bad") = RowsOf(t, "bad")
      BY <3>1 DEF Answered
    <3>3. Told(t, "semantic") = RowsOf(t, "semantic") BY <1>9, <3>1 DEF Answered
    <3>4. RowsOf(t, "ok") > 0 /\ RowsOf(t, "bad") = 0 /\ RowsOf(t, "semantic") = 0
      BY <1>3, <1>9 DEF Witnessed, RowsOf
    <3>5. ~ (Told(t, "ok") + Told(t, "bad") > 2) BY <1>4, <3>2
    <3>6. QED BY <1>7, <1>9, <3>2, <3>3, <3>4, <3>5 DEF ImpactOmitted, Truncated
  <2>2. /\ {t \in Queried : ImpactOmitted(t)} = {}
        /\ {t \in Queried : Told(t, "semantic") > 0 \/ Told(t, "bad") > 0} = {}
        /\ {t \in Queried : Told(t, "ok") > 0} = Queried
    BY <2>1
  <2>3. QueryOutcome({t \in Queried : ImpactOmitted(t)},
                     {t \in Queried : Told(t, "semantic") > 0 \/ Told(t, "bad") > 0},
                     {t \in Queried : Told(t, "ok") > 0}) = "ok"
    BY <1>3, <1>5, <2>2, OutcomeOk
  <2>4. QED BY <1>9, <2>3 DEF LightOutcome
<1>10. CASE c = "coverage"
  <2>1. ASSUME NEW t \in Queried
        PROVE  ~CoverageOmitted(t) /\ ~ (Told(t, "covering") > 0) /\ CoverageComplete(t)
    <3>1. Answered(t, "coverage") /\ Answered(t, "conflicts") BY <1>4, <1>10
    <3>2. Told(t, "full") = RowsOf(t, "full") /\ Told(t, "part") = RowsOf(t, "part")
      BY <1>4, <3>1 DEF Answered
    <3>3. Told(t, "covering") = RowsOf(t, "covering") BY <1>10, <3>1 DEF Answered
    <3>4. RowsOf(t, "full") > 0 /\ RowsOf(t, "part") = 0 /\ RowsOf(t, "covering") = 0
      BY <1>3, <1>10 DEF Witnessed, RowsOf
    <3>5. ~ (Told(t, "full") + Told(t, "part") > 2) BY <1>4, <3>2
    <3>6. QED
      BY <1>7, <1>10, <3>2, <3>3, <3>4, <3>5 DEF CoverageOmitted, Truncated, CoverageComplete
  <2>2. /\ {t \in Queried : CoverageOmitted(t)} = {}
        /\ {t \in Queried : Told(t, "covering") > 0} = {}
        /\ {t \in Queried : CoverageComplete(t)} = Queried
    BY <2>1
  <2>3. QueryOutcome({t \in Queried : CoverageOmitted(t)},
                     {t \in Queried : Told(t, "covering") > 0},
                     {t \in Queried : CoverageComplete(t)}) = "ok"
    BY <1>3, <1>5, <2>2, OutcomeOk
  <2>4. QED BY <1>10, <2>3 DEF LightOutcome
<1>11. QED BY <1>1, <1>6, <1>8, <1>9, <1>10

(* LIGHT's deficits are the capabilities whose outcome is not "ok".         *)
LEMMA LackingIs ==
    ASSUME GovernorAssumption, RequestOk
    PROVE  /\ \A c \in Lacking(LightDeficits) : Needs(c) /\ LightOutcome(c) # "ok"
           /\ \A c : Needs(c) /\ c \notin Lacking(LightDeficits) =>
                c \in LightCapability /\ LightOutcome(c) = "ok"
<1>1. \A c \in Lacking(LightDeficits) : Needs(c) /\ LightOutcome(c) # "ok"
  BY DEF Lacking, LightDeficits, Needs
<1>2. ASSUME NEW c, Needs(c), c \notin Lacking(LightDeficits)
      PROVE  c \in LightCapability /\ LightOutcome(c) = "ok"
  <2>1. LightOutcome(c) = "ok"
    <3>1. PICK d : d = [cap |-> c, reason |-> LightOutcome(c)] OBVIOUS
    <3>2. d.cap = c /\ d.reason = LightOutcome(c) BY <3>1
    <3>3. d \in {[cap |-> k, reason |-> LightOutcome(k)] : k \in Requested \ CallerSatisfied}
      BY <1>2, <3>1 DEF Needs
    <3>4. SUFFICES ASSUME LightOutcome(c) # "ok" PROVE FALSE OBVIOUS
    <3>5. d \in LightDeficits BY <3>2, <3>3, <3>4 DEF LightDeficits
    <3>6. QED BY <1>2, <3>2, <3>5 DEF Lacking
  <2>2. c \notin DeepCapability BY <2>1, DeepIsBeyondLight
  <2>3. c \in Capability BY <1>2, Bounds DEF Needs
  <2>4. QED BY <2>1, <2>2, <2>3 DEF Capability
<1>3. QED BY <1>1, <1>2

-----------------------------------------------------------------------------
(* The world only goes on: the active generation never goes back, and a     *)
(* file keeps the texts it had.                                             *)
LEMMA WorldMoves ==
    ASSUME GovernorAssumption, RequestOk, WorldOk, Next
    PROVE  /\ WorldOk' /\ UNCHANGED request
           /\ \A p \in Path : held[p] \subseteq held'[p]
           /\ UNCHANGED start \/ pc \in {"build", "observe"}
           /\ active' = start => active = start
<1>0. /\ active \in 0 .. Len(IndexRows) /\ start \in 0 .. active /\ Len(IndexRows) \in Nat
      /\ disk \in [Path -> Text] /\ held \in [Path -> SUBSET Text]
      /\ \A p \in Path : disk[p] \in held[p]
  <2>1. IndexRows \in Seq([Target -> TargetRow]) BY DEF GovernorAssumption
  <2>2. QED BY <2>1, LenProperties DEF WorldOk
<1>1. CASE ActivateGeneration
  <2>1. active < Len(IndexRows) /\ active' = active + 1
        /\ UNCHANGED <<disk, held, request, start>>
    BY <1>1 DEF ActivateGeneration, runVars
  <2>2. QED BY <1>0, <2>1 DEF WorldOk
<1>2. ASSUME NEW p \in Path, EditFile(p)
      PROVE  /\ WorldOk' /\ UNCHANGED <<active, request, start>>
             /\ \A q \in Path : held[q] \subseteq held'[q]
  <2>1. PICK t \in Text : /\ disk' = [disk EXCEPT ![p] = t]
                          /\ held' = [held EXCEPT ![p] = @ \cup {t}]
    BY <1>2 DEF EditFile
  <2>2. UNCHANGED <<active, request, start>> BY <1>2 DEF EditFile, runVars
  <2>3. disk' \in [Path -> Text] /\ held' \in [Path -> SUBSET Text] BY <1>0, <2>1
  <2>4. \A q \in Path : disk'[q] \in held'[q] /\ held[q] \subseteq held'[q] BY <1>0, <2>1
  <2>5. QED BY <1>0, <2>2, <2>3, <2>4 DEF WorldOk
<1>3. CASE AbandonSession
  BY <1>0, <1>3 DEF AbandonSession, runVars, WorldOk
<1>4. CASE BuildRequest \/ Decide
  <2>1. UNCHANGED <<active, disk, held, request>> /\ start' \in {active, start}
        /\ pc \in {"build", "observe"}
    BY <1>4 DEF BuildRequest, Decide, worldVars
  <2>2. QED BY <1>0, <2>1 DEF WorldOk
<1>5. CASE Governor /\ ~BuildRequest /\ ~Decide
  <2>1. UNCHANGED <<active, disk, held, request, start>>
    <3>1. CASE \E t \in Target : ReadTarget(t)
      <4>1. PICK t, s : Statement(t, s) BY <3>1
        DEF ReadTarget, ReadIdentity, ReadOwner, ReadRelationships, ReadImpact, ReadCoverage,
            ReadConflicts, VerifySource
      <4>2. QED BY <4>1 DEF Statement, worldVars, runVars
    <3>2. CASE \/ BindSession \/ NoGeneration \/ DirectCompletes \/ DirectBlocked \/ EnterAtlas
               \/ GenerationMoved \/ BeginLight \/ ConcludeLight \/ BeginDeep \/ ConcludeDeep
      BY <3>2 DEF BindSession, NoGeneration, DirectCompletes, DirectBlocked, EnterAtlas,
                  GenerationMoved, BeginLight, ConcludeLight, BeginDeep, ConcludeDeep,
                  worldVars, runVars
    <3>3. CASE ValidateActivation \/ MarkCompiled \/ MarkActive
      BY <3>3 DEF ValidateActivation, MarkCompiled, MarkActive, MoveSession, worldVars, runVars
    <3>4. QED BY <1>5, <3>1, <3>2, <3>3 DEF Governor
  <2>2. QED BY <1>0, <2>1 DEF WorldOk
<1>6. QED BY <1>0, <1>1, <1>2, <1>3, <1>4, <1>5 DEF Next

(* A verdict stays true as the world goes on.                               *)
LEMMA VerdictStays ==
    ASSUME GovernorAssumption, RequestOk, UNCHANGED <<request, start, result>>,
           active' = start => active = start,
           \A p \in Path : held[p] \subseteq held'[p], Verdict
    PROVE  Verdict'
<1>1. request.seeds \subseteq Target BY AskedAll
<1>2. \A c : Needs(c)' <=> Needs(c) BY DEF Needs, Requested, CallerSatisfied
<1>3. ASSUME NEW c \in LightCapability, NEW t \in request.seeds
      PROVE  /\ Witnessed(c, t) => Witnessed(c, t)'
             /\ c # "source" => (Witnessed(c, t)' <=> Witnessed(c, t))
  <2>1. t \in Symbol \/ held[t] \subseteq held'[t] BY <1>1 DEF Target
  <2>2. CASE c = "source" BY <2>1, <2>2 DEF Witnessed
  <2>3. CASE c # "source" BY <2>3 DEF Witnessed, LightCapability
  <2>4. QED BY <2>2, <2>3
<1>4. \A t : Overflows(t)' <=> Overflows(t) BY DEF Overflows
<1>5. Backed(result) => Backed(result)' BY <1>2, <1>3 DEF Backed
<1>6. Deserved(result) => Deserved(result)' BY <1>3, <1>4 DEF Deserved, Lacking
<1>7. QED BY <1>5, <1>6 DEF Verdict

(* The verdict of an envelope that ends the run.                            *)
LEMMA FinishVerdict ==
    ASSUME NEW e, NEW tries, Finish(e, tries),
           e.route = Light => Backed(e)' /\ (e.failure = "none" => Deserved(e)')
    PROVE  Verdict'
<1>1. CASE result' = e BY <1>1 DEF Verdict, Backed, Deserved
<1>2. CASE result' = [kind |-> "invalid", refused |-> e] BY <1>2 DEF Verdict
<1>3. QED BY <1>1, <1>2 DEF Finish

(* A run without a verdict.                                                 *)
LEMMA NoVerdict ==
    ASSUME result'.kind \notin {"completed", "partial", "blocked"}
    PROVE  Verdict'
BY DEF Verdict

(* What LIGHT concludes is true.                                            *)
LEMMA ConcludeLightTrue ==
    ASSUME GovernorAssumption, RouteInv, LightInv, ConcludeLight
    PROVE  Verdict'
<1>1. /\ RequestOk /\ WorldOk /\ start # 0 /\ ReadsOk /\ script = {} /\ route = Light
      /\ result.kind = "none" /\ UNCHANGED <<active, held, request, start>>
  BY DEF ConcludeLight, RouteInv, LightInv, worldVars, runVars
<1>2. PICK D : D = LightDeficits /\
        \/ Completes /\ D = {}
        \/ Fail
        \/ UNCHANGED result
        \/ Deficient(D, HasPayload)
  BY DEF ConcludeLight
<1>3. /\ \A c \in Lacking(D) : Needs(c) /\ LightOutcome(c) # "ok"
      /\ \A c : Needs(c) /\ c \notin Lacking(D) => c \in LightCapability /\ LightOutcome(c) = "ok"
  BY <1>1, <1>2, LackingIs
<1>4. \A c : Needs(c) /\ c \notin Lacking(D) =>
        c \in LightCapability /\ \A t \in request.seeds : Witnessed(c, t)
  BY <1>1, <1>3, OutcomeIsTrue
<1>5. ASSUME active = start, NEW c \in Lacking(D) \cap (LightCapability \ {"source"})
      PROVE  \/ request.seeds = {}
             \/ Cardinality(request.seeds) > MaxQueryTargets
             \/ \E t \in request.seeds : ~Witnessed(c, t) \/ Overflows(t)
  <2>1. SUFFICES ASSUME request.seeds # {}, ~ (Cardinality(request.seeds) > MaxQueryTargets),
                        \A t \in request.seeds : Witnessed(c, t) /\ ~Overflows(t)
                 PROVE  FALSE
    OBVIOUS
  <2>2. Cardinality(request.seeds) <= MaxQueryTargets
    <3>1. Cardinality(request.seeds) \in Nat BY <1>1, AskedAll, FS_CardinalityType
    <3>2. MaxQueryTargets \in Nat BY DEF GovernorAssumption
    <3>3. QED BY <2>1, <3>1, <3>2
  <2>3. LightOutcome(c) = "ok" BY <1>1, <1>3, <1>5, <2>1, <2>2, OutcomeIsDeserved
  <2>4. QED BY <1>3, <1>5, <2>3
<1>6. ASSUME NEW e, e.satisfied = Requested \ Lacking(D), e.deficits = D
      PROVE  Backed(e)' /\ Deserved(e)'
  <2>1. Backed(e) BY <1>4, <1>6 DEF Backed
  <2>2. Deserved(e) BY <1>5, <1>6 DEF Deserved
  <2>3. \A c : Needs(c)' <=> Needs(c) BY <1>1 DEF Needs, Requested, CallerSatisfied
  <2>4. \A c, t : Witnessed(c, t)' <=> Witnessed(c, t) BY <1>1 DEF Witnessed
  <2>5. \A t : Overflows(t)' <=> Overflows(t) BY <1>1 DEF Overflows
  <2>6. Backed(e)' BY <1>1, <2>1, <2>3, <2>4 DEF Backed
  <2>7. Deserved(e)' BY <1>1, <2>2, <2>4, <2>5 DEF Deserved
  <2>8. QED BY <2>6, <2>7
<1>7. CASE Completes /\ D = {}
  <2>1. PICK e, tries : /\ Finish(e, tries)
                        /\ e = Envelope("completed", route, Requested, {}, "none", "none")
    BY <1>7 DEF Completes
  <2>2. e.satisfied = Requested \ Lacking(D) /\ e.deficits = D
    BY <1>7, <2>1 DEF Envelope, Lacking
  <2>3. Backed(e)' /\ Deserved(e)' BY <1>6, <2>2
  <2>4. QED BY <2>1, <2>3, FinishVerdict
<1>8. CASE Deficient(D, HasPayload)
  <2>1. PICK e, tries : /\ Finish(e, tries)
                        /\ e.satisfied = Requested \ Lacking(D) /\ e.deficits = D
    BY <1>8 DEF Deficient, Envelope
  <2>2. Backed(e)' /\ Deserved(e)' BY <1>6, <2>1
  <2>3. QED BY <2>1, <2>2, FinishVerdict
<1>9. CASE Fail BY <1>9, NoVerdict DEF Fail
<1>10. CASE UNCHANGED result BY <1>1, <1>10, NoVerdict
<1>11. QED BY <1>2, <1>7, <1>8, <1>9, <1>10

(* Every step keeps what LIGHT knows and what it concludes.                 *)
LEMMA NextLight ==
    ASSUME GovernorAssumption, RouteInv, LightInv, [Next]_vars
    PROVE  LightInv'
<1>1. RequestOk /\ WorldOk BY DEF RouteInv, LightInv
<1>2. CASE UNCHANGED vars
  <2>1. UNCHANGED <<active, disk, held, request, start, pc, route, script, found, result>>
    BY <1>2 DEF vars, worldVars, runVars, lightVars
  <2>2. WorldOk' BY <1>1, <2>1 DEF WorldOk
  <2>3. Verdict' BY <1>1, <2>1, VerdictStays DEF LightInv
  <2>4. pc = "light" => ReadsOk'
    <3>1. Due' = Due BY <2>1, DueStays
    <3>2. \A t, s : Answered(t, s)' <=> Answered(t, s)
      BY <2>1 DEF Answered, Told, RowsOf, Needs, Requested, CallerSatisfied
    <3>3. QED BY <2>1, <3>1, <3>2 DEF LightInv, ReadsOk
  <2>5. QED BY <2>1, <2>2, <2>3, <2>4 DEF LightInv
<1>3. CASE Next
  <2>1. /\ WorldOk' /\ UNCHANGED request
        /\ \A p \in Path : held[p] \subseteq held'[p]
        /\ UNCHANGED start \/ pc \in {"build", "observe"}
        /\ active' = start => active = start
    BY <1>1, <1>3, WorldMoves
  <2>2. UNCHANGED <<start, result>> => Verdict' BY <1>1, <2>1, VerdictStays DEF LightInv
  <2>3. CASE \/ BuildRequest \/ BindSession \/ Decide
    <3>1. /\ pc \in {"build", "dispatch", "observe"} /\ UNCHANGED found /\ found = <<>>
          /\ result.kind = "none"
      BY <2>3 DEF BuildRequest, BindSession, Decide, lightVars, LightInv, RouteInv
    <3>2. pc' \in {"dispatch", "observe", "route", "done"} /\ (UNCHANGED result \/ Fail)
      BY <2>3 DEF BuildRequest, BindSession, Decide, Fail
    <3>3. Verdict' BY <3>1, <3>2, NoVerdict DEF Fail
    <3>4. QED BY <2>1, <3>1, <3>2, <3>3 DEF LightInv
  <2>4. CASE EnterAtlas
    <3>1. pc = "route" /\ pc' = "check" /\ UNCHANGED <<found, result>> /\ found = <<>>
          /\ result.kind = "none"
      BY <2>4 DEF EnterAtlas, lightVars, LightInv, RouteInv
    <3>2. Verdict' BY <3>1, NoVerdict
    <3>3. QED BY <2>1, <3>1, <3>2 DEF LightInv
  <2>5. CASE NoGeneration \/ DirectCompletes \/ DirectBlocked \/ GenerationMoved
    <3>1. PICK e, tries :
            /\ Finish(e, tries)
            /\ e.route = Light => e.satisfied = CallerSatisfied /\ e.failure # "none"
      BY <2>5 DEF NoGeneration, DirectCompletes, DirectBlocked, GenerationMoved, Envelope,
                  Direct, Light
    <3>2. e.route = Light => Backed(e)'
      BY <2>1, <3>1 DEF Backed, CallerSatisfied, Needs, Requested
    <3>3. Verdict' BY <3>1, <3>2, FinishVerdict
    <3>4. pc' \in {"activate", "done"} BY <3>1 DEF Finish
    <3>5. QED BY <2>1, <3>3, <3>4 DEF LightInv
  <2>6. CASE BeginLight
    <3>1. /\ pc = "check" /\ route = Light /\ pc' = "light" /\ script' = Due
          /\ UNCHANGED <<found, result>> /\ result.kind = "none"
      BY <2>6 DEF BeginLight, RouteInv
    <3>2. found' = <<>> BY <3>1 DEF LightInv
    <3>3. DOMAIN found' = {} BY <3>2
    <3>4. Due' = Due BY <2>1, DueStays
    <3>5. ReadsOk' BY <3>1, <3>3, <3>4 DEF ReadsOk
    <3>6. Verdict' BY <3>1, NoVerdict
    <3>7. QED BY <2>1, <3>1, <3>5, <3>6 DEF LightInv
  <2>7. CASE BeginDeep
    <3>1. pc' \in {"deep", "done"} /\ (UNCHANGED result \/ Fail) /\ result.kind = "none"
      BY <2>7 DEF BeginDeep, Fail, RouteInv
    <3>2. Verdict' BY <3>1, NoVerdict DEF Fail
    <3>3. QED BY <2>1, <3>1, <3>2 DEF LightInv
  <2>8. CASE \E t \in Target : ReadTarget(t)
    <3>1. PICK t \in Target : ReadTarget(t) BY <2>8
    <3>2. PICK u, s : Statement(u, s)
      BY <3>1 DEF ReadTarget, ReadIdentity, ReadOwner, ReadRelationships, ReadImpact,
                  ReadCoverage, ReadConflicts, VerifySource
    <3>3. pc = "light" /\ UNCHANGED <<pc, start, result>> BY <3>2 DEF Statement, runVars
    <3>4. start # 0 /\ ReadsOk BY <3>3 DEF RouteInv, LightInv
    <3>5. ReadsOk' BY <1>1, <3>1, <3>4, ReadAnswers
    <3>6. QED BY <2>1, <2>2, <3>3, <3>5 DEF LightInv
  <2>9. CASE ConcludeLight
    <3>1. Verdict' BY <2>9, ConcludeLightTrue
    <3>2. pc' \in {"activate", "done"} \/ (pc' = "check" /\ route' = Deep)
      BY <2>9 DEF ConcludeLight, Completes, Deficient, Finish, Fail
    <3>3. QED BY <2>1, <3>1, <3>2 DEF LightInv, Light, Deep
  <2>10. CASE ConcludeDeep
    <3>1. route = Deep /\ pc' \in {"activate", "done"}
      BY <2>10 DEF ConcludeDeep, Completes, Deficient, Finish, Fail, RouteInv
    <3>2. Fail \/ \E e, tries : Finish(e, tries) /\ e.route = Deep
      <4>1. Completes => \E e, tries : Finish(e, tries) /\ e.route = Deep
        BY <3>1 DEF Completes, Envelope
      <4>2. \A D, payload : Deficient(D, payload) =>
              \E e, tries : Finish(e, tries) /\ e.route = Deep
        BY <3>1 DEF Deficient, Envelope
      <4>3. Fail \/ Completes \/ \E D, payload : Deficient(D, payload)
        BY <2>10 DEF ConcludeDeep
      <4>4. QED BY <4>1, <4>2, <4>3
    <3>3. CASE Fail BY <2>1, <3>1, <3>3, NoVerdict DEF Fail, LightInv
    <3>4. CASE \E e, tries : Finish(e, tries) /\ e.route = Deep
      <4>1. PICK e, tries : Finish(e, tries) /\ e.route = Deep BY <3>4
      <4>2. Verdict' BY <4>1, FinishVerdict DEF Light, Deep
      <4>3. QED BY <2>1, <3>1, <4>2 DEF LightInv
    <3>5. QED BY <3>2, <3>3, <3>4
  <2>11. CASE ValidateActivation \/ MarkCompiled \/ MarkActive
    <3>1. /\ pc' \in {"compile", "engage", "done"} /\ UNCHANGED start
          /\ UNCHANGED result \/ Fail
      BY <2>11 DEF ValidateActivation, MarkCompiled, MarkActive, MoveSession, Fail, runVars
    <3>2. Verdict' BY <2>2, <3>1, NoVerdict DEF Fail
    <3>3. QED BY <2>1, <3>1, <3>2 DEF LightInv
  <2>12. CASE ActivateGeneration \/ (\E p \in Path : EditFile(p)) \/ AbandonSession
    <3>1. UNCHANGED <<start, pc, route, script, found, result>>
      BY <2>12 DEF ActivateGeneration, EditFile, AbandonSession, runVars, lightVars
    <3>2. Verdict' BY <2>2, <3>1
    <3>3. ASSUME pc = "light" PROVE ReadsOk'
      <4>1. ReadsOk /\ Due' = Due BY <2>1, <3>3, DueStays DEF LightInv
      <4>2. ASSUME NEW x \in Due \ script PROVE Answered(x[1], x[2])'
        <5>1. PICK u, r : u = x[1] /\ r = x[2] OBVIOUS
        <5>2. x = <<u, r>> /\ r \in Query \cup {"source"} BY <4>2, <5>1, DueIs
        <5>3. r = "source" => u \in SourcePaths BY <4>2, <5>2, DueIs DEF Query
        <5>4. r = "source" => u \in Path BY <5>3 DEF SourcePaths
        <5>5. Answered(u, r) BY <4>1, <4>2, <5>1 DEF ReadsOk
        <5>6. \A c \in Answers(r) : Told(u, c)' = Told(u, c) BY <3>1 DEF Told
        <5>7. Answered(u, r)' BY <2>1, <3>1, <5>2, <5>4, <5>5, <5>6, AnsweredStays
        <5>8. QED BY <5>1, <5>7
      <4>3. QED BY <3>1, <4>1, <4>2 DEF ReadsOk
    <3>4. QED BY <2>1, <3>1, <3>2, <3>3 DEF LightInv
  <2>13. QED
    BY <1>3, <2>3, <2>4, <2>5, <2>6, <2>7, <2>8, <2>9, <2>10, <2>11, <2>12 DEF Next, Governor
<1>4. QED BY <1>2, <1>3

(* What LIGHT reports satisfied is backed by the generation the decision    *)
(* names, whatever is activated or edited between its statements, and its   *)
(* deficits are real while nothing is (dispatch_real_light,                 *)
(* bounded_query_projection).                                               *)
THEOREM LightTruthful == ASSUME GovernorAssumption PROVE Spec => []LightIsTruthful
<1>1. Init => LightInv
  <2>1. ASSUME Init PROVE LightInv
    <3>1. /\ active \in 0 .. 1 /\ start = 0 /\ pc = "build" /\ found = <<>> /\ result.kind = "none"
          /\ disk = [p \in Path |-> FirstText] /\ held = [p \in Path |-> {disk[p]}]
      BY <2>1 DEF Init, NoResult
    <3>2. WorldOk
      <4>1. IndexRows \in Seq([Target -> TargetRow]) /\ IndexRows # <<>> /\ FirstText \in Text
        BY DEF GovernorAssumption
      <4>2. Len(IndexRows) \in Nat \ {0} BY ONLY <4>1, EmptySeq
      <4>3. disk \in [Path -> Text] /\ held \in [Path -> SUBSET Text]
            /\ \A p \in Path : disk[p] \in held[p]
        BY <3>1, <4>1
      <4>4. active \in 0 .. Len(IndexRows) /\ start \in 0 .. active BY <3>1, <4>2
      <4>5. QED BY <4>3, <4>4 DEF WorldOk
    <3>3. QED BY <3>1, <3>2 DEF LightInv, Verdict
  <2>2. QED BY <2>1
<1>2. RouteInv /\ LightInv /\ [Next]_vars => LightInv' BY NextLight
<1>3. LightInv => LightIsTruthful
  BY DEF LightInv, Verdict, Backed, Deserved, LightIsTruthful
<1>4. QED BY <1>1, <1>2, <1>3, RouteInvHolds, PTL DEF Spec
=============================================================================
