------------------------------ MODULE MCBoards ------------------------------
(* Boards on a small instance: one session per user, times to live and a   *)
(* clock that cross the boundaries of the labels.                          *)
EXTENDS Boards, TLC

MCUserOf == [c \in Session |-> c]

MCTtl    == {0, Hour, Hour + Hour \div 2}
MCStep   == Hour
MCMaxNow == Hour

\* The labels at their boundaries are what the comment says, or one colour more
\* urgent, on the two cut days.
Boundaries == {2, Hour, 24 * Hour, 48 * Hour, 96 * Hour, 120 * Hour, 24 * 24 * Hour}
ASSUME ColoursCutDays ==
    \A b \in Boundaries : \A ms \in {b - 1, b, b + 1} :
        IF CutDay(ms) THEN Urgency[Commented(ms)] = Urgency[Colour(ms)] + 1
                      ELSE Colour(ms) = Commented(ms)

Symmetry == Permutations(Session)

=============================================================================
