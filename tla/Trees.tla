------------------------------- MODULE Trees --------------------------------
(***************************************************************************)
(* A directory of a policy, and the views that the parts of the system     *)
(* take of it.  A digest is abstracted to what it covers: equal digests,   *)
(* equal contents.  Four copies of the digest rules exist: the gate's      *)
(* (src/gate/treedigest.py), the producer's, the verifier's, and the       *)
(* staging of the shadow replay.                                           *)
(***************************************************************************)
CONSTANTS
  Policy,      \* the Python files of a tree, taken together
  NoPolicy,    \* the absence of any
  Oversized    \* the policies beyond the grader's cap on staged source

ASSUME TreesAssumption == NoPolicy \notin Policy /\ Oversized \subseteq Policy

\* python: its Python files; caches, notes, link: whether it carries bytecode
\* caches, other regular files, and a symlink or a special file.
Tree == [python : Policy \cup {NoPolicy}, caches : BOOLEAN, notes : BOOLEAN, link : BOOLEAN]
Clean(policy) == [python |-> policy, caches |-> FALSE, notes |-> FALSE, link |-> FALSE]

\* tree_digest covers every regular file; method_tree_digest what the grader
\* would stage.  Both refuse a link, and nothing else.
Digestible(tree) == ~tree.link
FullView(tree) == tree
MethodView(tree) == tree.python

\* assert_stageable, and the verifier's copy of it, which has no rule for a
\* tree without Python files: such a tree matches no snapshot with any.
Stageable(tree) == ~tree.notes /\ tree.python \notin Oversized \cup {NoPolicy}
StageableErrors(tree) ==
  (IF tree.notes THEN {"protocol:submission_not_stageable"} ELSE {})
  \cup (IF tree.python \in Oversized THEN {"protocol:submission_too_large"} ELSE {})

\* The shadow replay stages the Python files, caches left out, of a snapshot
\* with nothing else, or of any without a link when projection is allowed.
Staged(tree) == Clean(tree.python)
Replayable(tree, projection) ==
  ~tree.link /\ tree.python # NoPolicy /\ (tree.notes => projection)
=============================================================================
