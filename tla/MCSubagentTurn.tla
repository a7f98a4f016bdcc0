---------------------------- MODULE MCSubagentTurn ----------------------------
(***************************************************************************)
(* Instances of SubagentTurn for TLC.                                      *)
(***************************************************************************)
EXTENDS SubagentTurn

OneFile == [d \in Folders |-> Files]

ReadIt    == CHOOSE c \in Reads : c.tool = "read_file"
List      == CHOOSE c \in Reads : c.tool = "ls"
Write(x)  == CHOOSE c \in Writes : c.body = x
Edit(x)   == CHOOSE c \in PathScoped : c.tool = "edit_file" /\ c.body = x
Delete(p) == CHOOSE c \in PathScoped : c.tool = "delete" /\ c.path = p
Command   == CHOOSE c \in Commands : TRUE

OneByOne == {<<c>> : c \in {ReadIt, List, Write("x"), Edit("y"), Delete("app.py"), Delete("src"), Command}}

\* Every call alone, and the pairs in which one changes what the other is about.
AloneAndInPairs ==
  OneByOne \cup {<<Write("x"), ReadIt>>, <<Write("x"), Write("y")>>, <<Edit("y"), Write("x")>>}
=============================================================================
