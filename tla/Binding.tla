------------------------------- MODULE Binding ------------------------------
(***************************************************************************)
(* What a link promises of global names, without files, tables or the      *)
(* order in which they are walked.  Objects lay claims to names and import *)
(* names; once all are known, names are bound, one after the other: every  *)
(* import of the name gets the same claim, for good.  The link succeeds    *)
(* when each import that can be bound is bound and no name has two claims, *)
(* and is refused only over a name with two.                               *)
(***************************************************************************)
CONSTANT NoPlace     \* the claim of a name that nothing stands behind

VARIABLES
    claims,    \* pairs <<name, place>>
    imports,   \* pairs <<import, name>>
    bound,     \* triples <<import, name, place>>
    verdict    \* "open", "linked" or "refused"

bindingVars == <<claims, imports, bound, verdict>>

Init == claims = {} /\ imports = {} /\ bound = {} /\ verdict = "open"

Definitions == {claim \in claims : claim[2] # NoPlace}

\* A name with two claims, a real one among them.
Contested(name) ==
    \E d \in Definitions, c \in claims : d[1] = name /\ c[1] = name /\ c[2] # d[2]

Collect ==
    /\ verdict = "open"
    /\ bound = {}
    /\ claims \subseteq claims'
    /\ imports \subseteq imports'
    /\ UNCHANGED <<bound, verdict>>

\* All imports of a name at once.
Bind ==
    /\ verdict = "open"
    /\ \E d \in Definitions :
          /\ ~Contested(d[1])
          /\ bound' = bound \cup {<<m[1], m[2], d[2]>> : m \in {n \in imports : n[2] = d[1]}}
    /\ UNCHANGED <<claims, imports, verdict>>

Link ==
    /\ verdict = "open"
    /\ \A d \in Definitions :
          /\ ~Contested(d[1])
          /\ \A m \in imports : m[2] = d[1] => <<m[1], m[2], d[2]>> \in bound
    /\ verdict' = "linked"
    /\ UNCHANGED <<claims, imports, bound>>

Refuse ==
    /\ verdict = "open"
    /\ \E d \in Definitions : Contested(d[1])
    /\ verdict' = "refused"
    /\ UNCHANGED <<claims, imports, bound>>

Next == Collect \/ Bind \/ Link \/ Refuse

Spec == Init /\ [][Next]_bindingVars
=============================================================================
