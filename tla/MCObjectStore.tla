---------------------------- MODULE MCObjectStore ----------------------------
(***************************************************************************)
(* ObjectStore on a header of 1 byte and sections of 1 or 3 bytes.  "m3"   *)
(* outgrows a packed prefix and what "m1" reserves.                        *)
(***************************************************************************)
EXTENDS ObjectStoreInvariant, ObjectStoreRefinement, TLC

MCOption(reserve) ==
    [metadata_reserve |-> reserve, tag_reserve |-> reserve, alignment |-> 1,
     min_content_start |-> 0]

MCPacked  == {MCOption(0)}
MCDefaultOptions == MCOption(1)

MCMetadata == {"m1", "m3"}
MCTags     == {"t1"}
MCSize == [s \in MCMetadata \cup MCTags |-> IF s = "m3" THEN 3 ELSE 1]

MCContents == UNION {[1 .. n -> Pieces \ {Garbage}] : n \in 0 .. MaxContent}

\* A file nobody can reach any more, and the history of names, decide nothing
\* as long as no power is lost.
MCReachable(f) ==
    \/ \E path \in Paths : Current(path) = f
    \/ \E p \in Procs :
          \/ IF handle[p] = None THEN FALSE ELSE handle[p].file = f
          \/ \E k \in DOMAIN writers[p] : writers[p][k].file = f

MCView ==
    <<created, [f \in Files |-> IF MCReachable(f) THEN file[f] ELSE Blank],
      temps, [path \in Paths |-> Current(path)], procVars>>

\* The same where power may be lost: every name it may bring back counts, and
\* the history that SyncedSurvivesPowerLoss speaks of.
MCNamed(f) ==
    \/ MCReachable(f)
    \/ \E path \in Paths : \E i \in DOMAIN names[path] : names[path][i] = f

MCPowerView ==
    <<created, [f \in Files |-> IF MCNamed(f) THEN file[f] ELSE Blank],
      {f \in unsynced : MCNamed(f)}, temps, names, procVars, historyVars>>

MCSymmetry == Permutations(Procs)

\* Inserting UNCOMPRESSED_LENGTH makes a section larger.
MCWithLength == [m \in MCMetadata |-> "m3"]
=============================================================================
