------------------------- MODULE MCExtractionQueue -------------------------
(* Small instances of ExtractionQueue. Rows are 1, 2, ...; each family of  *)
(* definitions below is one shape of the queue.                            *)
EXTENDS ExtractionQueue

OneRow == {1}
TwoRows == {1, 2}
ThreeRows == {1, 2, 3}
AllOn(x) == [r \in Rows |-> x]
ConnA == AllOn("A")
GroupG == AllOn("g")
Backlog == AllOn("backlog")
TenantT == [c \in Conns |-> "t"]
NoChildren == [r \in Rows |-> {}]
NoPairs == {}
SecondRow == {2}

(* Row 1 came in through phone B, row 2 through phone A, both from g. *)
TwoPhones == [r \in Rows |-> IF r = 1 THEN "B" ELSE "A"]
(* Row 1 is a broadcast whose slices are rows 2 and 3. *)
Broadcast == [r \in Rows |-> IF r = 1 THEN {2, 3} ELSE {}]
(* Rows 1 and 2 are copies of one message by one author. *)
Copies == {<<1, 2>>, <<2, 1>>}
=============================================================================
