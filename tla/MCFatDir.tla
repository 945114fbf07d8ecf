------------------------------ MODULE MCFatDir ------------------------------
(***************************************************************************)
(* The directory of module FatDir, and the paths of module FatPath through *)
(* a fixed tree of directories: a path is built as long as the directory   *)
(* is empty, and the directory changes as long as no path is given, so     *)
(* that their states do not multiply.                                      *)
(***************************************************************************)
EXTENDS FatDir

CONSTANT MaxPath    \* bound: the longest path

VARIABLE path

\* With two characters to a slot: names of one and of two fragments, none of
\* which fills its last fragment, and one that looks like a short name.
MCNames ==
  {<<"a">>, <<"b">>, <<"a", "b", "a">>, <<"a", "b", "b">>, <<"a", "~", "1">>}

\* The name <<"a", "b">> fills its fragment.
FullNames == {<<"a", "b">>, <<"a", "b", "a">>}

\* The root has a directory "a", which has a file "a", and a file "aa".
Directory(d) == [dir |-> TRUE, start |-> d]
File == [dir |-> FALSE, start |-> 0]

MCTree ==
  [d \in {0, 2} |->
     IF d = 0
     THEN [n \in {<<"a">>, <<"a", "a">>} |->
             IF n = <<"a">> THEN Directory(2) ELSE File]
     ELSE [n \in {<<"a">>, <<".">>, <<".", ".">>} |->
             CASE n = <<"a">> -> File
               [] n = <<".">> -> Directory(2)
               [] n = <<".", ".">> -> Directory(0)]]

P == INSTANCE FatPath WITH
       Chars <- {"a"}, MaxComponent <- 3, Root <- 0, Tree <- MCTree

MCInit == Init /\ P!Init

MCNext ==
  \/ path = <<>> /\ Next /\ UNCHANGED path
  \/ slots[1] = EndMark /\ P!Next /\ UNCHANGED vars
  \/ path # <<>> /\ Len(path) = MaxPath /\ path' = <<>> /\ UNCHANGED vars

MCSpec == MCInit /\ [][MCNext]_<<vars, path>>

\* fat16_resolve_path finds the parent directory and the last component of a
\* path, or the first component that is missing or no directory.
ResolvesPath == P!ResolvesPath
=============================================================================
