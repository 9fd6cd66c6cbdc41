----------------------------- MODULE SkillViewer -----------------------------
(***************************************************************************)
(* The dialog in which the files of a skill are read.  It is mounted once  *)
(* for the whole list of skills, so what was selected in it outlives the   *)
(* skill; the skill's bundle may be hydrated again between two reads.  A   *)
(* path is the sequence of its names.                                      *)
(***************************************************************************)
EXTENDS Naturals, Sequences, FiniteSets

CONSTANTS
    Skills, NoSkill,
    SkillMd,    \* the path of SKILL.md
    Bundles     \* what a read may answer: sequences of paths, SKILL.md, if it has a body, first

VARIABLES
    viewing,        \* the skill whose dialog is open
    bundle,         \* the cached files of each skill, <<>> for none or for a failed read
    inFlight,     \* the skills whose read is under way
    selectedPath,
    folded          \* the folders that are not expanded

viewerVars == <<viewing, bundle, inFlight, selectedPath, folded>>

IsPrefix(p, q) == Len(p) <= Len(q) /\ p = SubSeq(q, 1, Len(p))

\* A bundle is read from a directory: no file is named twice, and none is a folder.
ASSUME BundlesAreTrees ==
    /\ Bundles \subseteq Seq(Seq(Nat) \ {<<>>})
    /\ \A b \in Bundles : \A i, j \in DOMAIN b : IsPrefix(b[i], b[j]) => i = j

Paths == UNION {{b[i] : i \in DOMAIN b} : b \in Bundles}
Prefixes(p) == {SubSeq(p, 1, n) : n \in 1 .. Len(p)}

ViewerTypeOK ==
    /\ viewing \in Skills \cup {NoSkill}
    /\ bundle \in [Skills -> Bundles \cup {<<>>}]
    /\ inFlight \subseteq Skills
    /\ selectedPath \in Paths \cup {SkillMd}
    /\ folded \subseteq UNION {Prefixes(p) : p \in Paths}

ViewerAtRest ==
    /\ viewing = NoSkill /\ bundle = [s \in Skills |-> <<>>] /\ inFlight = {}
    /\ selectedPath = SkillMd /\ folded = {}

-----------------------------------------------------------------------------
(* buildFileTree: a node for every part of every path, found again by its  *)
(* name among its siblings.  A node has children or is a file.             *)

BuildFileTree(files) == UNION {Prefixes(files[i]) : i \in DOMAIN files}

Children(tree, p) == {q \in tree : Len(q) = Len(p) + 1 /\ IsPrefix(p, q)}
IsDir(tree, p) == Children(tree, p) # {}

\* The buttons FileTreeItem shows: nothing under a folded folder.
Rows(tree, closed) == {p \in tree : Prefixes(p) \cap closed \subseteq {p}}
FileRows(tree, closed) == {p \in Rows(tree, closed) : ~IsDir(tree, p)}

Files == IF viewing = NoSkill THEN <<>> ELSE bundle[viewing]
FileTree == BuildFileTree(Files)

\* What was selected, if this skill has it, or its first file.
SelectedFile == IF \E i \in DOMAIN Files : Files[i] = selectedPath THEN selectedPath ELSE Files[1]

\* A bug to catch: the row is marked by what was selected, not by what is shown.
IsSelectedBefore(p) == p = selectedPath

IsSelected(p) == p = SelectedFile

-----------------------------------------------------------------------------

\* A click on a skill of the list.  A skill read lately is not read again.
View(s) ==
    /\ viewing = NoSkill /\ viewing' = s
    /\ inFlight' \in {inFlight \cup {s}} \cup (IF bundle[s] = <<>> THEN {} ELSE {inFlight})
    /\ UNCHANGED <<bundle, selectedPath, folded>>

\* The tree is unmounted.  What was selected stays: the reset compares the
\* skill with a copy of it taken at the same time.
CloseViewer ==
    /\ viewing # NoSkill /\ viewing' = NoSkill /\ folded' = {}
    /\ UNCHANGED <<bundle, inFlight, selectedPath>>

\* The answer, or an error, which leaves the files there were.  A folder that
\* is not in the tree any more comes back expanded.
Read(s) ==
    /\ s \in inFlight /\ inFlight' = inFlight \ {s}
    /\ \E files \in Bundles \cup {bundle[s]} :
          /\ bundle' = [bundle EXCEPT ![s] = files]
          /\ folded' = IF s = viewing THEN folded \cap BuildFileTree(files) ELSE folded
    /\ UNCHANGED <<viewing, selectedPath>>

FileTreeItem(p) ==
    /\ p \in Rows(FileTree, folded)
    /\ IF IsDir(FileTree, p)
       THEN /\ folded' = IF p \in folded THEN folded \ {p} ELSE folded \cup {p}
            /\ UNCHANGED selectedPath
       ELSE selectedPath' = p /\ UNCHANGED folded
    /\ UNCHANGED <<viewing, bundle, inFlight>>

ViewerNext ==
    \/ \E s \in Skills : View(s) \/ Read(s)
    \/ CloseViewer
    \/ \E p \in FileTree : FileTreeItem(p)

-----------------------------------------------------------------------------
(***************************************************************************)
(* The file whose text is shown is the one whose row is marked, and every  *)
(* file has a row: whatever was selected in another skill, or in this one  *)
(* before it was read again, exactly one row of the unfolded tree is       *)
(* marked, and the rows are the files.                                     *)
(***************************************************************************)
ShownIsMarked ==
    Files # <<>> =>
        /\ {p \in FileRows(FileTree, {}) : IsSelected(p)} = {SelectedFile}
        /\ FileRows(FileTree, {}) = {Files[i] : i \in DOMAIN Files}
=============================================================================
