----------------------------- MODULE MCFollowers -----------------------------
(* A small instance of Followers for TLC; the .cfg has its bounds.         *)
EXTENDS Followers
PlainLocal == [kind |-> "local", wide |-> FALSE, inodes |-> TRUE]
WideLocal == [PlainLocal EXCEPT !.wide = TRUE]
NoInodes == [kind |-> "ssh", wide |-> FALSE, inodes |-> FALSE]
WideRemote == [kind |-> "ssh", wide |-> TRUE, inodes |-> TRUE]
AllSources == {PlainLocal, WideLocal, NoInodes, WideRemote}
=============================================================================
