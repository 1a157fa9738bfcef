------------------------------- MODULE Layout -------------------------------
(***************************************************************************)
(* What the two passes of the assembler promise together, without lines,   *)
(* names or tables: a plan is made first, one place per line, and then     *)
(* every slot the plan leaves between two places is written, once and as   *)
(* planned, before there is an object.  A program may be refused at any    *)
(* time before that.                                                       *)
(***************************************************************************)
EXTENDS Naturals, Sequences

CONSTANT Parts    \* the sections

VARIABLES
    plan,      \* the place before each line: a counter for every part
    written,   \* the slots written so far
    verdict    \* "planning", "writing", "written" or "refused"

layoutVars == <<plan, written, verdict>>

\* Between places k and k + 1 lies a slot of part s.
Planned(k, s) == k + 1 \in DOMAIN plan /\ plan[k][s] < plan[k + 1][s]
Slot(k, s) == [line |-> k, part |-> s, at |-> plan[k][s],
               size |-> plan[k + 1][s] - plan[k][s]]

Init == plan = << >> /\ written = {} /\ verdict = "planning"

\* A line takes room in one part at most, and none is taken back.
Follows(place, next) ==
    \E s \in Parts :
        /\ place[s] <= next[s]
        /\ \A t \in Parts \ {s} : next[t] = place[t]

Plan ==
    /\ verdict = "planning"
    /\ DOMAIN plan' = 1 .. Len(plan) + 1
    /\ \A k \in DOMAIN plan : plan'[k] = plan[k]
    /\ plan'[Len(plan) + 1] \in [Parts -> Nat]
    /\ plan # << >> => Follows(plan[Len(plan)], plan'[Len(plan) + 1])
    /\ verdict' \in {"planning", "writing"}
    /\ UNCHANGED written

Write ==
    /\ verdict = "writing"
    /\ \E k \in DOMAIN plan, s \in Parts :
          /\ Planned(k, s)
          /\ Slot(k, s) \notin written
          /\ written' = written \cup {Slot(k, s)}
    /\ UNCHANGED <<plan, verdict>>

Finish ==
    /\ verdict = "writing"
    /\ \A k \in DOMAIN plan, s \in Parts : Planned(k, s) => Slot(k, s) \in written
    /\ verdict' = "written"
    /\ UNCHANGED <<plan, written>>

Refuse ==
    /\ verdict \in {"planning", "writing"}
    /\ verdict' = "refused"
    /\ UNCHANGED <<plan, written>>

Next == Plan \/ Write \/ Finish \/ Refuse

Spec == Init /\ [][Next]_layoutVars
=============================================================================
