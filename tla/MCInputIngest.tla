--------------------------- MODULE MCInputIngest ----------------------------
(***************************************************************************)
(* Up to three attachments: two files under one name (the second by its    *)
(* AttachmentRef.name), a directory and an archive that share a file, a    *)
(* file with the directory's name, a directory with a link, and one that   *)
(* is refused.                                                             *)
(***************************************************************************)
EXTENDS InputIngest

Of(source, below) == [source |-> source, below |-> below, link |-> FALSE]

FileA    == [kind |-> "file", name |-> "a", entries |-> <<Of("a", <<>>)>>]
FileAsA  == [kind |-> "file", name |-> "a", entries |-> <<Of("b", <<>>)>>]
FileAsD  == [kind |-> "file", name |-> "d", entries |-> <<Of("a", <<>>)>>]
Dir      == [kind |-> "dir", name |-> "d",
             entries |-> <<Of("x", <<"x">>), Of("y", <<"e", "y">>)>>]
Archive  == [kind |-> "zip", name |-> "d", entries |-> <<Of("z", <<"x">>)>>]
LinkDir  == [kind |-> "dir", name |-> "l",
             entries |-> <<Of("x", <<"x">>), [Of("y", <<"y">>) EXCEPT !.link = TRUE]>>]
Refused  == [kind |-> "refused", name |-> "", entries |-> <<>>]

All == {FileA, FileAsA, FileAsD, Dir, Archive, LinkDir, Refused}

MCLists == UNION {[1..n -> All] : n \in 0..3}

MCSources == {"a", "b", "x", "y", "z"}
=============================================================================
