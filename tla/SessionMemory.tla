---------------------------- MODULE SessionMemory ----------------------------
(***************************************************************************)
(* What the two-tier memory promises the rest of the chat service, with no *)
(* word of lists, summaries, trimming or tasks: a conversation grows by    *)
(* whole turns, each at most once, and what has been said is recalled.     *)
(* (docs/decisions.md, ADR-8: "even after 50 messages, the LLM knows       *)
(* exactly what the student needs".)                                       *)
(***************************************************************************)
EXTENDS Sequences, Naturals

CONSTANT Turns

VARIABLES
  said,      \* every message of the conversation, in order
  recalled   \* the messages a later turn can still draw on

Turn(n) == << [turn |-> n, role |-> "user"], [turn |-> n, role |-> "assistant"] >>

Init ==
  /\ said = << >>
  /\ recalled = {}

(* A turn that was not said yet is said and recalled, both halves at once. *)
Remember(n) ==
  /\ \A i \in 1 .. Len(said) : said[i].turn # n
  /\ said' = said \o Turn(n)
  /\ recalled' = recalled \cup {Turn(n)[1], Turn(n)[2]}

Next == \E n \in Turns : Remember(n)

Spec == Init /\ [][Next]_<< said, recalled >>
==============================================================================
