------------------------------ MODULE OCITagDelete ------------------------------
(***************************************************************************)
(* TagDelete of the vendored OCI-directory store                           *)
(* (vendor/github.com/regclient/regclient/scheme/ocidir/tag.go), one loop *)
(* iteration per step, with Go's slice semantics.                          *)
(*                                                                         *)
(* The loop ranges over index.Manifests while removing entries from it    *)
(* with append(m[:i], m[i+1:]...).  The range expression is evaluated     *)
(* once: the loop runs for the original length and reads each element     *)
(* from the shared backing array as it is when reached.  The append       *)
(* shifts the tail of the backing array left in place and shortens the    *)
(* slice; slicing m[i+1:] past the current length panics.                 *)
(***************************************************************************)
EXTENDS Naturals, Sequences, SequencesExt

CONSTANT MaxEntries   \* bound on the number of manifests in the index

(* The ref-name annotation of a manifest: the tag to delete, another tag, *)
(* or no annotation at all.                                               *)
Target == "t"
Other  == "u"
NoName == "none"
Names  == {Target, Other, NoName}

VARIABLES
  orig,     \* index.Manifests as read from the index
  arr,      \* the backing array of index.Manifests
  len,      \* len(index.Manifests)
  i,        \* the range index (1-based)
  changed,  \* the local changed
  pc        \* "loop", "done" or "panic"

vars == <<orig, arr, len, i, changed, pc>>

(* tag.go 22-26: the index was read; its manifests are the ones listed. *)
Init ==
  /\ orig \in BoundedSeq(Names, MaxEntries)
  /\ arr = orig
  /\ len = Len(orig)
  /\ i = 1
  /\ changed = FALSE
  /\ pc = "loop"

(* append(m[:k-1], m[k:]...) on a slice of length l over the array a:   *)
(* the elements after position k move one place left, in place.         *)
Shifted(a, l, k) ==
  [j \in 1..Len(a) |-> IF k <= j /\ j < l THEN a[j + 1] ELSE a[j]]

(***************************************************************************)
(* tag.go 28-33: the iteration at index i reads the element now in the    *)
(* backing array; a matching one is removed, which panics when the slice  *)
(* is already shorter than i.                                              *)
(***************************************************************************)
Iterate ==
  /\ pc = "loop"
  /\ i <= Len(orig)
  /\ i' = i + 1
  /\ \/ /\ arr[i] # Target
        /\ UNCHANGED <<arr, len, changed, pc>>
     \/ /\ arr[i] = Target
        /\ i > len
        /\ pc' = "panic"
        /\ UNCHANGED <<arr, len, changed>>
     \/ /\ arr[i] = Target
        /\ i <= len
        /\ arr' = Shifted(arr, len, i)
        /\ len' = len - 1
        /\ changed' = TRUE
        /\ UNCHANGED pc
  /\ UNCHANGED orig

(* tag.go 35-45: the range ends; the shortened index is written back. *)
Finish ==
  /\ pc = "loop"
  /\ i > Len(orig)
  /\ pc' = "done"
  /\ UNCHANGED <<orig, arr, len, i, changed>>

Next == Iterate \/ Finish

Spec == Init /\ [][Next]_vars

-----------------------------------------------------------------------------
(* The manifests TagDelete writes back. *)
Result == SubSeq(arr, 1, len)

(* TagDelete "removes a tag from the repository": it returns without     *)
(* panicking, and no manifest with the tag is left in the index.          *)
TagRemoved ==
  /\ pc # "panic"
  /\ pc = "done" => ~Contains(Result, Target)

=============================================================================
