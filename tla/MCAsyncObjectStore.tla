-------------------------- MODULE MCAsyncObjectStore --------------------------
(***************************************************************************)
(* AsyncObjectStore on a header of 1 byte and sections of 1, 3 or 8 bytes. *)
(* "m3" outgrows a packed prefix and what "m1" reserves; "m8" fits nowhere.*)
(***************************************************************************)
EXTENDS AsyncObjectStoreRefinement, AsyncObjectStoreInvariant, TLC

MCOption(reserve) ==
    [metadata_reserve |-> reserve, tag_reserve |-> reserve, alignment |-> 1,
     min_content_start |-> 0]

MCPacked  == {MCOption(0)}
MCDefaultOptions == MCOption(1)
MCNoReserve      == MCOption(0)

MCMetadata    == {"m1", "m3"}
MCAnyMetadata == {"m1", "m3", "m8"}
MCTags == {"t1"}
MCContents == UNION {[1 .. n -> Chunks] : n \in 0 .. MaxContent}
MCSize == [s \in MCAnyMetadata \cup MCTags |->
              CASE s = "m3" -> 3 [] s = "m8" -> 8 [] OTHER -> 1]

\* A file nobody can reach any more, also after a power loss, decides nothing,
\* nor does what its writers were told.
MCReachable ==
    UNION {{names[path][k] : k \in DOMAIN names[path]} : path \in Paths}
    \cup {j.file : j \in detached}
    \cup {job[p].file : p \in Tasks}
    \cup {handle[p].file : p \in {q \in Tasks : handle[q] # None}}
    \cup UNION {{writers[p][k].file : k \in DOMAIN writers[p]} : p \in Tasks}

MCView ==
    <<created, [f \in Files |-> IF f \in MCReachable THEN file[f] ELSE Blank],
      unsynced \cap MCReachable, temps \cap MCReachable, names, taskVars,
      poolVars>>

MCSymmetry == Permutations(Tasks)
=============================================================================
