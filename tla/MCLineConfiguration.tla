------------------------- MODULE MCLineConfiguration -------------------------
(* Two modules of two channels, two points for lines.  The engine finds a  *)
(* file whose only line has its input and its output on different points,  *)
(* and a journal with an entry more than it keeps, of which the oldest is  *)
(* a duration test.                                                        *)
EXTENDS LineConfiguration

Journals == {<<[at |-> 0, status |-> "Passed"], NoResult, NoResult>>}

Files == {[l \in {1} |-> [NewLine(DefaultPoint(2)) EXCEPT !.output = DefaultPoint(1)]]}
=============================================================================
