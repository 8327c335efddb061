---- MODULE MCAIAssessment ----
EXTENDS AIAssessment
Proposal(name, code, valid, nul) == [name |-> name, code |-> code, valid |-> valid, nul |-> nul]
One == Proposal("n1", "c1", TRUE, FALSE)
Two == Proposal("n2", "c2", TRUE, FALSE)
\* It repeats the name of Two and the code of One, and may be invalid besides, as any
\* code is that holds U+0000.
Mixed == Proposal("n2", "c1", TRUE, FALSE)
Bad == Proposal("n2", "c1", FALSE, TRUE)
\* Nothing; a duplicate of what is not valid; one of an earlier proposal, followed by one
\* of a duplicate only, which is fresh; and one too many.
MCDrafts == {<<>>, <<Bad, Two>>, <<One, Mixed, Two>>, <<One, Two, One, Two>>}
\* Two of the scores are apart by less than the threshold, by it, or by more.
MCJudgeAnswers == {[score |-> n, nul |-> FALSE] : n \in {0, 3333, 5000}}
                    \cup {[score |-> 5000, nul |-> TRUE]}
====
