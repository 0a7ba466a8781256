----------------------------- MODULE ListFilter -----------------------------
(***************************************************************************)
(* The list comprehension [x for x in list if x not in gone], which goes   *)
(* along the list.  (SelectSeq, with the operator it takes, is opaque to   *)
(* the proof system.)                                                      *)
(***************************************************************************)
EXTENDS Naturals, Sequences

Without(list, gone) ==
  LET kept[i \in 0 .. Len(list)] ==
        IF i = 0 THEN <<>>
        ELSE IF list[i] \in gone THEN kept[i - 1]
        ELSE Append(kept[i - 1], list[i])
  IN  kept[Len(list)]
=============================================================================
