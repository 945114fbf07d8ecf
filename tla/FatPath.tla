------------------------------ MODULE FatPath ------------------------------
(***************************************************************************)
(* fat16_resolve_path of src/fs/fat16.c, as a function of the path, and    *)
(* what it should compute: the parent directory and the last component.    *)
(* Paths and names are sequences of characters.                            *)
(***************************************************************************)
EXTENDS Integers, Sequences, SequencesExt

CONSTANTS
  Chars,          \* characters of names; "/" and "." separate and name
  MaxComponent,   \* characters of a component, 255
  Root,
  Tree,           \* directory -> name -> [dir |-> BOOLEAN, start |-> directory]
  MaxPath         \* bound: the longest path

VARIABLE path

Init == path = <<>>

\* Paths are read off a caller's string; every path is one to resolve.
Next == /\ Len(path) < MaxPath
        /\ \E c \in Chars \cup {"/", "."} : path' = Append(path, c)

Spec == Init /\ [][Next]_path

Result(status, dir, name) == [status |-> status, dir |-> dir, name |-> name]
Error(status) == Result(status, Root, <<>>)

-----------------------------------------------------------------------------
(* The loop of fat16_resolve_path, from position i in directory dir. *)

\* Where the component that begins at i ends: at a slash, at the end of the
\* path, or when the buffer is full.
ComponentEnd(p, i) ==
  CHOOSE j \in i .. i + MaxComponent :
    /\ \A k \in i .. j - 1 : k <= Len(p) /\ p[k] # "/"
    /\ j > Len(p) \/ p[j] = "/" \/ j = i + MaxComponent

SkipOneSlash(p, i) == IF i <= Len(p) /\ p[i] = "/" THEN i + 1 ELSE i

SkipSlashes(p, i) ==
  CHOOSE j \in i .. Len(p) + 1 :
    /\ \A k \in i .. j - 1 : p[k] = "/"
    /\ j > Len(p) \/ p[j] # "/"

RECURSIVE Walk(_, _, _)
Walk(p, i, dir) ==
  IF i > Len(p) THEN Error("EINVAL")
  ELSE LET j == ComponentEnd(p, i)
           component == SubSeq(p, i, j - 1)
           rest == SkipSlashes(p, j)
       IN  CASE component = <<".">> -> Walk(p, rest, dir)
             [] component # <<".">> /\ rest <= Len(p) ->
                  IF component \notin DOMAIN Tree[dir] THEN Error("ENOENT")
                  ELSE IF ~Tree[dir][component].dir THEN Error("ENOTDIR")
                  ELSE Walk(p, rest, Tree[dir][component].start)
             [] component = <<>> /\ rest > Len(p) -> Error("EINVAL")
             [] OTHER -> Result("EOK", dir, component)

fat16_resolve_path(p) ==
  IF p = <<>> THEN Error("EINVAL")
  ELSE Walk(p, IF p[1] = "/" THEN 2 ELSE 1, Root)

-----------------------------------------------------------------------------
(* What it should compute *)

\* The components: maximal runs without a slash, in order.
Components(p) ==
  LET slash(i) == i \in {0, Len(p) + 1} \/ p[i] = "/"
      start == {i \in 1 .. Len(p) : slash(i - 1) /\ ~slash(i)}
      end(i) == CHOOSE j \in i .. Len(p) :
                  slash(j + 1) /\ \A k \in i .. j : ~slash(k)
      firsts == SetToSortSeq(start, <)
  IN  [n \in 1 .. Len(firsts) |-> SubSeq(p, firsts[n], end(firsts[n]))]

\* One step down the tree; errors stay.
Descend(result, name) ==
  CASE result.status # "EOK" -> result
    [] result.status = "EOK" /\ name \notin DOMAIN Tree[result.dir] ->
         Error("ENOENT")
    [] result.status = "EOK" /\ name \in DOMAIN Tree[result.dir] ->
         IF Tree[result.dir][name].dir
         THEN Result("EOK", Tree[result.dir][name].start, <<>>)
         ELSE Error("ENOTDIR")

\* Every component but the last names a directory; "." names where we are,
\* and is no name for an object.
Resolved(p) ==
  LET all == Components(p)
      names == SelectSeq(Front(all), LAMBDA c : c # <<".">>)
      parent == FoldLeft(Descend, Result("EOK", Root, <<>>), names)
  IN  CASE all = <<>> -> Error("EINVAL")
        [] all # <<>> /\ parent.status # "EOK" -> parent
        [] all # <<>> /\ parent.status = "EOK" /\ Last(all) = <<".">> ->
             Error("EINVAL")
        [] OTHER -> Result("EOK", parent.dir, Last(all))

\* Two kinds of path on which the code and its comments part, and which the
\* property below leaves out.  The code skips "redundant consecutive slashes"
\* (fat16.c:559) behind a component only, so that two at the start of a path
\* make an empty one.  It says that a path that "ends with a slash" is -EINVAL
\* (fat16.c:580), but has skipped that slash before it looks: only a path of
\* slashes alone is refused there, and "a/" resolves as "a".
TrailingSlash(p) == p # <<>> /\ Last(p) = "/"

DoubledStart(p) == Len(p) >= 2 /\ p[1] = "/" /\ p[2] = "/"

Short(p) == \A n \in DOMAIN Components(p) : Len(Components(p)[n]) <= MaxComponent

-----------------------------------------------------------------------------
(* Properties *)

\* fat16_resolve_path finds the parent directory and the last component,
\* through "." and "..", and repeated slashes, and reports the first component
\* that is missing or no directory; for paths that do not begin with two
\* slashes nor end with one, and whose components fit into the buffer.
ResolvesPath ==
  ~DoubledStart(path) /\ ~TrailingSlash(path) /\ Short(path) =>
    fat16_resolve_path(path) = Resolved(path)
=============================================================================
