--------------------------- MODULE MCConversation ---------------------------
(* Small instances of Conversation for TLC.                                *)
EXTENDS Conversation, TLC

CONSTANTS a1, a2, i1, x1, x2, h1

Scenario(active, serial, edits) == [active |-> active, serial |-> serial, edits |-> edits]

\* Two questions, two runs and a rename one after the other; a question and
\* edited SQL of it with a second question; runs that overlap a question and
\* an import; two questions and a run that overlap.
MCScenarios ==
    {Scenario({a1, a2, h1, x1, x2}, {{a1, a2, h1, x1, x2}}, FALSE),
     Scenario({a1, a2, x1}, {{a1, a2, x1}}, TRUE),
     Scenario({a1, i1, x1, x2}, {{a1, i1}, {i1, x1}, {i1, x2}}, TRUE),
     Scenario({a1, a2, x1}, {}, TRUE)}
=============================================================================
