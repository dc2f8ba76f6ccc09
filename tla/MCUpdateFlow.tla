--------------------------- MODULE MCUpdateFlow ---------------------------
(* Instances of UpdateFlow for TLC. *)
EXTENDS UpdateFlow

\* One window of one row, n pixels wide, moved by dx from column x: from off
\* the screen, across it, and off it again.
Window(x, n) == {<<i, 0>> : i \in x .. (x + n - 1)}
MovesOf(n, columns) ==
  {[from |-> Window(x, n), to |-> Window(x + dx, n), delta |-> <<dx, 0>>] :
     x \in columns, dx \in {-1, 1}}

NoMoves == {}
StepMoves == MovesOf(1, {0})
RowMoves == MovesOf(1, -1 .. Width) \cup MovesOf(2, -1 .. Width - 1)

\* A window of one pixel that moves up and down the first column.
ColumnMoves ==
  {[from |-> {<<0, y>>}, to |-> {<<0, y + dy>>}, delta |-> <<0, dy>>] :
     y \in 0 .. Height - 1, dy \in {-1, 1}}

\* Every client asks for the whole screen, or for any part of it.
WholeRequests == [c \in Clients |-> {FB}]
AnyRequests == [c \in Clients |-> SUBSET FB]

\* Clients that use CopyRect ask for the whole screen, the others for anything.
MixedRequests == [c \in Clients |-> IF c \in CopyClients THEN {FB} ELSE SUBSET FB]

\* ZRLE writes everything, or leaves the first pixel for the next update.
AllWritten == {{}}
PartWritten == {{}, {<<0, 0>>}}

On == {TRUE}
=============================================================================
