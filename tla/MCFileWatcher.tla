---------------------------- MODULE MCFileWatcher ----------------------------
(* FileWatcher for TLC: the requests are interchangeable, and which version*)
(* of the file a page has matters to ChangeIsSeen only.                    *)
EXTENDS FileWatcher, TLC

\* The guards and the safety properties ask whether there is a file and whether
\* a page was read, never for the version.
AnyVersion == <<[h \in Htms |-> contents[h] # 0], file # 0, changes, seen, osVars, entryVars,
                page, fFound, htmRefs, appVars, pc, htm>>

Symmetry == Permutations(Requests)
=============================================================================
