------------------------------ MODULE MCFat16 ------------------------------
(***************************************************************************)
(* Three clusters of two bytes.  The payloads are empty, shorter than a    *)
(* cluster, and of two clusters.  The root has room for one entry and a    *)
(* subdirectory for two, so files share a directory, and its clusters,     *)
(* behind a cluster that is a directory itself.                            *)
(***************************************************************************)
EXTENDS Fat16

MCPayloads == {<<>>, <<"x">>, <<"y", "y", "x">>}
=============================================================================
