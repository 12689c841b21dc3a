---------------------------- MODULE EvidenceStore ---------------------------
(* What the readers of a catalogue see of reconciles: generations that list *)
(* file revisions, and facts that hang on revisions, so that two            *)
(* generations listing the same revision share its facts.  One symbol and   *)
(* one call per file stand for its facts; numbers stand for ids, and the    *)
(* order of ids is the order of numbers.                                    *)
EXTENDS Integers, Sequences, FiniteSets, SequencesExt, FiniteSetsExt, Functions

CONSTANTS
    Doc, Text,          \* files (each defines the symbol of its number), contents
    Provider, Required, \* semantic providers, those that block activation
    Calls,              \* doc -> text -> the doc whose symbol it calls
    MaxGens, MaxEdits,  \* bounds: reconciles, edits of the tree
    MaxOverruns         \* bound: commands that begin while another works

Absent == 0             \* content of a file that does not exist
Structural == 0         \* the extractor that runs on every text
None == 0               \* no generation

ASSUME StoreAssumption ==
    /\ Doc \subseteq Nat \ {0} /\ IsFiniteSet(Doc)
    /\ Text \subseteq Nat \ {0} /\ IsFiniteSet(Text) /\ Text # {}
    /\ Provider \subseteq Nat \ {0} /\ IsFiniteSet(Provider)
    /\ Required \subseteq Provider
    /\ Calls \in [Doc -> [Text -> Doc]]
    /\ MaxGens \in Nat /\ MaxEdits \in Nat /\ MaxOverruns \in Nat

Fact == [doc : Doc, text : Text, by : Provider \cup {Structural}]

(* The order of fact ids.                                                   *)
FactId(f) == 100 * f.doc + 10 * f.text + f.by

(* An id is made of all its fact's fields.                                  *)
ASSUME IdAssumption == \A e, f \in Fact : FactId(e) = FactId(f) => e = f

VARIABLES
    tree,       \* doc -> content, on disk
    edits,      \* edits so far
    gens,       \* sequence of [state, parent, files, resolved, ran]
    active,     \* the active generation, None for NULL
    facts,      \* committed facts: [doc, text, by]
    working,    \* the commands at work that were granted the writer lease
    overruns,   \* how many of them began while another was at work
    recon       \* the running reconcile: [step, files], files as walked

leaseVars == <<working, overruns>>
storeVars == <<tree, edits, gens, active, facts, leaseVars, recon>>

Idle == [step |-> "idle"]

Committed == {g \in DOMAIN gens : gens[g].state = "committed"}

(* Joins generation_file with a fact table on the revision.                 *)
FactsOf(g, fs) == {f \in fs : gens[g].files[f.doc] = f.text}

(* symbol_fact of generation g, by canonical key.                           *)
SymbolFacts(g, key) == {f \in FactsOf(g, facts) : f.doc = key}

Extract(files, by) == {[doc |-> d, text |-> files[d], by |-> by] : d \in {e \in Doc : files[e] # Absent}}

(* run_resolution_pass looks at the semantic relationships only, against    *)
(* the symbols of the generation.                                           *)
Resolve(files, fs) ==
    LET known == {f.doc : f \in {e \in fs : files[e.doc] = e.text}}
        called(f) == Calls[f.doc][f.text]
    IN  [f \in {e \in fs : files[e.doc] = e.text /\ e.by # Structural} |->
           IF called(f) \in known THEN called(f) ELSE None]

StoreTypeOK ==
    /\ tree \in [Doc -> Text \cup {Absent}]
    /\ edits \in 0 .. MaxEdits
    /\ active \in 0 .. Len(gens)
    /\ facts \subseteq Fact
    /\ working \subseteq {"reconcile", "serving", "temporal"}
    /\ overruns \in 0 .. MaxOverruns
    /\ recon.step \in {"idle", "walked", "built"}
    /\ \A g \in DOMAIN gens :
         /\ gens[g].state \in {"candidate", "committed", "failed"}
         /\ gens[g].parent \in 0 .. g - 1

StoreInit ==
    /\ tree = [d \in Doc |-> Min(Text)]
    /\ edits = 0
    /\ gens = <<>>
    /\ active = None
    /\ facts = {}
    /\ working = {}
    /\ overruns = 0
    /\ recon = Idle

EditFile ==
    /\ edits < MaxEdits
    /\ \E d \in Doc : \E t \in (Text \cup {Absent}) \ {tree[d]} : tree' = [tree EXCEPT ![d] = t]
    /\ edits' = edits + 1
    /\ UNCHANGED <<gens, active, facts, leaseVars, recon>>

(* with_cli_writer_lease: nobody else is at work when the lease is granted, *)
(* or whoever is has worked for longer than it lasts; its row is then taken *)
(* over and both work on.  (WriterLease has the row and its age; here a     *)
(* lease may have run out under a command at any time.)                     *)
Acquire(command) ==
    /\ command \notin working
    /\ working # {} => overruns < MaxOverruns
    /\ working' = working \cup {command}
    /\ overruns' = IF working = {} THEN overruns ELSE overruns + 1

(* The command ends, or dies and its lease runs out.                        *)
Release(command) ==
    /\ working' = working \ {command}
    /\ UNCHANGED overruns

(* Mutant: the reconcile does not ask for the lease.                        *)
MutBeginReconcile ==
    /\ Len(gens) < MaxGens
    /\ "reconcile" \notin working
    /\ working' = working \cup {"reconcile"}
    /\ recon' = [step |-> "walked", files |-> tree]
    /\ UNCHANGED <<tree, edits, gens, active, facts, overruns>>

BeginReconcile ==
    /\ Len(gens) < MaxGens
    /\ Acquire("reconcile")
    /\ recon' = [step |-> "walked", files |-> tree]
    /\ UNCHANGED <<tree, edits, gens, active, facts>>

(* The build transaction: facts of every walked file from the structural    *)
(* extractor and from the providers that ran, and their resolution.         *)
CommitBuild ==
    /\ recon.step = "walked"
    /\ \E ran \in SUBSET Provider :
         /\ facts' = facts \cup UNION {Extract(recon.files, by) : by \in ran \cup {Structural}}
         /\ gens' = Append(gens, [state |-> "candidate",
                                  parent |-> IF Committed = {} THEN None ELSE Max(Committed),
                                  files |-> recon.files,
                                  resolved |-> Resolve(recon.files, facts'),
                                  ran |-> ran])
    /\ recon' = [step |-> "built"]
    /\ UNCHANGED <<tree, edits, active, leaseVars>>

(* A required provider that did not run fails the candidate; its facts stay.*)
Activate ==
    /\ recon.step = "built"
    /\ IF Required \subseteq Last(gens).ran
       THEN gens' = [gens EXCEPT ![Len(gens)].state = "committed"] /\ active' = Len(gens)
       ELSE gens' = [gens EXCEPT ![Len(gens)].state = "failed"] /\ UNCHANGED active
    /\ Release("reconcile")
    /\ recon' = Idle
    /\ UNCHANGED <<tree, edits, facts>>

(* The reconcile dies.                                                      *)
Abort ==
    /\ "reconcile" \in working
    /\ Release("reconcile")
    /\ recon' = Idle
    /\ UNCHANGED <<tree, edits, gens, active, facts>>

(* The rows of current_file: those of the active generation only.           *)
IsCurrent(g) == g = active /\ active # None

=============================================================================
