------------------------------- MODULE ElemSet -------------------------------
(***************************************************************************)
(* What a hash table promises its users: a set of elements, no two with    *)
(* the same key, where insert, replace, find and delete return the element *)
(* with the key that was there.                                            *)
(***************************************************************************)
CONSTANTS Elem, KeyOf, NULL

VARIABLES
  contents,
  ret       \* what the last call returned

Equal(e) == {x \in contents : KeyOf[x] = KeyOf[e]}
Old(e) == IF Equal(e) = {} THEN NULL ELSE CHOOSE x \in Equal(e) : TRUE

Init == contents = {} /\ ret = NULL

Insert(e) ==
  /\ contents' = IF Equal(e) = {} THEN contents \cup {e} ELSE contents
  /\ ret' = Old(e)

Replace(e) ==
  /\ contents' = (contents \ Equal(e)) \cup {e}
  /\ ret' = Old(e)

Find(e) == ret' = Old(e) /\ UNCHANGED contents

Delete(e) ==
  /\ contents' = contents \ Equal(e)
  /\ ret' = Old(e)

Clear == contents' = {} /\ ret' = NULL

Next == Clear \/ \E e \in Elem : Insert(e) \/ Replace(e) \/ Find(e) \/ Delete(e)

vars == <<contents, ret>>

Spec == Init /\ [][Next]_vars
=============================================================================
