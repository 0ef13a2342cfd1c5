--------------------------- MODULE VerifyContract ---------------------------
(***************************************************************************)
(* What verify-after-enforce promises to an automation that listens on the *)
(* bus: the VERIFY-OUTCOME CONTRACT above _arm_verify.  A verdict is       *)
(* announced only when a cycle ends, a cycle ends with at most one, and a  *)
(* cycle begins only with a command that was sent.                         *)
(*                                                                         *)
(* A cycle may also end in silence; VerifyCycle says when                  *)
(* (SilentEndsAreExcused).                                                 *)
(***************************************************************************)
EXTENDS Naturals, FiniteSets

CONSTANT Targets  \* the rule's target entities

VARIABLES
    open,  \* open[t]: cycles of t that have not ended
    said   \* what the last step put on the bus: [t, kind, forced]

Verdicts == {"verified", "unreachable", "cancelled"}
Message  == [t : Targets, kind : Verdicts \cup {"enforced"}, forced : BOOLEAN]

\* The verdicts, and the enforcements, of t among the messages of a step
VerdictsOf(t, messages) == {m \in messages : m.t = t /\ m.kind \in Verdicts}
SentTo(t, messages) == \E m \in messages : m.t = t /\ m.kind = "enforced"

Init == open = [t \in Targets |-> 0] /\ said = {}

Silent(t) == VerdictsOf(t, said') = {}
Speaks(t) == Cardinality(VerdictsOf(t, said')) = 1

\* A command to t was sent and opens a cycle
Opens(t) == SentTo(t, said') /\ Silent(t) /\ open'[t] = open[t] + 1

\* A cycle of t ends with its one verdict, which also ends every cycle that it
\* superseded
Resolves(t) == Speaks(t) /\ open[t] > 0 /\ open'[t] = open[t] - 1

\* The target obeyed during the call: the cycle opens and ends in one step
ResolvesAtOnce(t) == SentTo(t, said') /\ Speaks(t) /\ open'[t] = open[t]

\* A cycle of t ends in silence, or nothing happens to t
Lapses(t) == Silent(t) /\ open'[t] <= open[t]

Next == /\ \A t \in Targets : Opens(t) \/ Resolves(t) \/ ResolvesAtOnce(t) \/ Lapses(t)
        /\ open' \in [Targets -> Nat]
        /\ said' \subseteq Message

Spec == Init /\ [][Next]_<<open, said>>
=============================================================================
