------------------------------- MODULE UIDList -------------------------------
(***************************************************************************)
(* Lists of UIDs (std::vector<UID>, src/src/openrdm_device.hpp) and what   *)
(* the discovery of src/src/openrdm_device.cpp does with them.             *)
(*                                                                         *)
(* The loops are functions of the number of iterations that are done, so   *)
(* that one can reason about them one iteration at a time.                 *)
(***************************************************************************)
EXTENDS Integers, Sequences, FiniteSets, SequencesExt

\* push_back under a condition.
AddIf(list, u, b) == IF b THEN Append(list, u) ELSE list

\* std::find, and push_back if there is none.
AddUnique(list, u) == IF Contains(list, u) THEN list ELSE Append(list, u)

\* The same, unless the UID is in a second list.
AddNew(list, u, known) == IF Contains(known, u) THEN list ELSE AddUnique(list, u)

\* Adds the UIDs of `more' that neither list has.
MergeNew(list, more, known) ==
  LET merged[k \in 0 .. Len(more)] ==
        IF k = 0 THEN list ELSE AddNew(merged[k - 1], more[k], known)
  IN  merged[Len(more)]

Merge(list, more) == MergeNew(list, more, <<>>)

\* std::find and erase, for each of the UIDs.
EraseAll(list, us) ==
  LET erased[k \in 0 .. Len(us)] ==
        IF k = 0 THEN list ELSE RemoveFirst(erased[k - 1], us[k])
  IN  erased[Len(us)]

\* No UID is in the list twice.
Distinct(list) == Len(list) = Cardinality(ToSet(list))

=============================================================================
