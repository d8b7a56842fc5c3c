----------------------------- MODULE ScreenText -----------------------------
(***************************************************************************)
(* What a console promises: the last HEIGHT rows of the text printed, each *)
(* at most WIDTH characters, the last row open.                            *)
(***************************************************************************)
EXTENDS Integers, SequencesExt

CONSTANTS WIDTH, HEIGHT, Char, NL

VARIABLE rows

Init == rows = << <<>> >>

Open == rows[Len(rows)]

\* A new row; the oldest leaves a full screen.
NewRow(rs) == IF Len(rs) < HEIGHT THEN Append(rs, <<>>)
                                  ELSE Append(Tail(rs), <<>>)

Display(c) ==
    \/ c = NL /\ rows' = NewRow(rows)
    \/ /\ c # NL
       /\ LET put == Append(Front(rows), Append(Open, c))
          IN  rows' = IF Len(Open) = WIDTH - 1 THEN NewRow(put) ELSE put

Next == \E c \in Char \cup {NL} : Display(c)

Spec == Init /\ [][Next]_rows
=============================================================================
