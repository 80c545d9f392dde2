----------------------------- MODULE Inference ------------------------------
(***************************************************************************)
(* Policy inference (pie/inference.py): the signals the rules raise for    *)
(* each capability class are merged, LLM suggestions may add classes but   *)
(* never grants, proc.exec is never granted without an override, and       *)
(* overrides replace a class wholesale.                                    *)
(***************************************************************************)
EXTENDS Contract

Denied          == [status |-> "denied", values |-> {}]
NoOverride      == [status |-> "none", values |-> {}]

merge_class_signals(cap, sigs) ==
    IF sigs = {} THEN Denied
    ELSE [status |-> IF \A s \in sigs : s.status = "inferred" THEN "inferred"
                                                             ELSE "needs_review",
          values |-> Concrete(cap, sigs) \cup
                     (IF cap = "net.http" /\ \E s \in sigs : ScopeUnknown(cap, s)
                        THEN {AnyHost} ELSE {})]

(* Mutant: a suggestion is taken like a rule's signal.                     *)
trust_llm(values) == [status |-> "inferred", values |-> values]

(* A suggestion is reduced to its values: its status is always replaced.   *)
clamp_llm(values) == [status |-> "needs_review", values |-> values]

(* Mutant: proc.exec is treated like every other class.                    *)
infer_policy_grants_exec(signals, llm, override) ==
    [cap \in CapabilityId |->
        LET extra == IF signals[cap] = {} THEN {clamp_llm(v) : v \in llm[cap]} ELSE {}
        IN  IF override[cap] # NoOverride THEN override[cap]
            ELSE merge_class_signals(cap, signals[cap] \cup extra)]

(* llm[cap] is the set of value sets suggested for a class, override[cap]  *)
(* the replacement for the class or NoOverride.                            *)
infer_policy(signals, llm, override) ==
    [cap \in CapabilityId |->
        LET extra  == IF signals[cap] = {} THEN {clamp_llm(v) : v \in llm[cap]} ELSE {}
            merged == merge_class_signals(cap, signals[cap] \cup extra)
        IN  IF override[cap] # NoOverride THEN override[cap]
            ELSE IF cap = "proc.exec" /\ merged.status = "inferred"
              THEN [merged EXCEPT !.status = "needs_review"]
            ELSE merged]
=============================================================================
